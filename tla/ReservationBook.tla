--------------------------- MODULE ReservationBook --------------------------
(***************************************************************************)
(* What the inventory promises: a balance on which reservations hold units *)
(* of their own.  A hold takes available units, a sale or a release gives  *)
(* back exactly what the hold took, once; every other movement of stock    *)
(* leaves the held units alone.  What it does not promise: units may be    *)
(* taken off for a reservation of another balance, and they are counted;   *)
(* and two writers may overwrite each other, after which it is not exact.  *)
(* No column is ever negative, nor more promised than there is.            *)
(***************************************************************************)
EXTENDS StockRow

CONSTANTS Reservations, Quantities

VARIABLES
    row,       \* the columns of the balance
    held,      \* the units each reservation holds
    strayed,   \* units taken off for reservations of other balances
    exact      \* whether no writer has overwritten another

bookVars == <<row, held, strayed, exact>>

BookInit ==
    /\ row \in Row
    /\ Valid(row)
    /\ held \in [Reservations -> Nat]
    /\ strayed = 0
    /\ exact = TRUE

Hold(r) ==
    \E q \in Quantities :
        /\ held[r] = 0
        /\ Free(row) >= q
        /\ row' = Apply(row, Reserved(q))
        /\ held' = [held EXCEPT ![r] = q]
        /\ strayed' = strayed

Release(r) ==
    /\ held[r] > 0
    /\ row' = Apply(row, Freed(held[r]))
    /\ held' = [held EXCEPT ![r] = 0]
    /\ strayed' = strayed

Sell(r) ==
    /\ held[r] > 0
    /\ row' = Apply(row, Sold(held[r]))
    /\ held' = [held EXCEPT ![r] = 0]
    /\ strayed' = strayed

\* Stock comes in, leaves, breaks or is put aside.
Move ==
    /\ row'.reserved = row.reserved
    /\ held' = held
    /\ strayed' = strayed

\* Units come off the column that none of this balance's reservations gives back.
Stray ==
    \E q \in 1 .. row.reserved :
        /\ row' = Apply(row, Freed(q))
        /\ held' = held
        /\ strayed' = strayed + q

\* Two writers met: nothing is known of the held units.
Overwrite ==
    /\ held' \in [Reservations -> Nat]
    /\ strayed' \in Nat
    /\ exact' = FALSE

BookNext ==
    /\ row' \in Row
    /\ Valid(row')
    /\ \/ /\ exact' = exact
          /\ Move \/ Stray \/ \E r \in Reservations : Hold(r) \/ Release(r) \/ Sell(r)
       \/ Overwrite

Spec == BookInit /\ [][BookNext]_bookVars
=============================================================================
