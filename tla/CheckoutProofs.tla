--------------------------- MODULE CheckoutProofs ---------------------------
(***************************************************************************)
(* Proofs about Checkout: its types, the lines of a cart and its           *)
(* conversion, and what an order draws on, its number and key, the coupon  *)
(* and the wallet, for any number of requests, keys and units.             *)
(***************************************************************************)
EXTENDS Checkout, SetLemmas, TLAPS

-----------------------------------------------------------------------------
(* Types, and what a request may have written by the step it is at.        *)

Tables == UNION {[D -> 1..Stock] : D \in SUBSET LineNames}

CartRows == [status : Statuses, version : Nat, lines : Tables]

Memory == [cart : Carts, version : Nat, line : LineNames, found : BOOLEAN,
           quantity : 0..Stock, source : Makers, todo : Tables, key : Keys \cup {None},
           method : Methods, day : 0..1, coupon : BOOLEAN, amount : Int, delta : Int,
           undoes : Requests \cup {Deposit, None}]

OrderRows == [cart : Carts, key : Keys, method : Methods, day : 0..1, amount : Nat \ {0}]

Types ==
    /\ carts \in [Carts -> CartRows]
    /\ pc \in [Requests -> Steps]
    /\ local \in [Requests -> Memory]
    /\ past \in [Requests -> SUBSET Requests]
    /\ holder \in [Carts -> Makers]
    /\ undone \subseteq [order : Requests, by : Requests]
    /\ Ordered \subseteq Requests
    /\ \A o \in Ordered : orders[o] \in OrderRows
    /\ Redeemed \subseteq Requests
    /\ \A q \in Redeemed : redemptions[q] \in {"RESERVED", "COMMITTED", "REVERSED"}
    /\ usage \in Int /\ wallet \in Int /\ day \in 0..1
    /\ Posted \subseteq Requests \cup {Deposit} /\ Deposit \in Posted
    /\ \A j \in Posted : journals[j].delta \in Int /\ journals[j].undoes \in Posted \cup {None}
    /\ reversed \subseteq [row : Requests, by : Requests]

Buying == {"cart", "price", "claim", "commit"}

\* What a request knows of what it works on.
Knows(r) ==
    /\ pc[r] \in Buying => local[r].key \in Keys
    /\ pc[r] \in {"claim", "commit"} => local[r].amount \in Nat \ {0}
    /\ pc[r] = "write" => /\ local[r].delta \in 1..Stock
                          /\ local[r].todo # NoLines => local[r].cart = Mine
    /\ pc[r] = "release" => local[r].undoes \in Redeemed
    /\ pc[r] = "reverse" => local[r].undoes \in Posted
    /\ pc[r] = "post" => local[r].undoes \in Posted \cup {None}

\* A request writes its rows last of all.
Ready(r) ==
    /\ \A a \in past[r] : pc[a] = "done"
    /\ pc[r] # "done" => /\ r \notin Ordered /\ r \notin Redeemed /\ r \notin Posted
                         /\ \A x \in reversed : x.by # r
    /\ Knows(r)

ShopInv == Types /\ \A r \in Requests : Ready(r)

-----------------------------------------------------------------------------
(* The lines of a cart.                                                    *)

\* Who makes a line has begun.
Made == \A c \in Carts : \A l \in Lines(c) : l[1] # None => pc[l[1]] # "idle"

\* The lines that stand where a request saw none were made by others since it began.
Unseen(r) ==
    pc[r] = "write" /\ ~local[r].found =>
        \A l \in Lines(local[r].cart) : l[1] \in Requests \ {r} /\ l[1] \notin past[r]

LineInv == Made /\ LinesMeet /\ \A r \in Requests : Unseen(r)

-----------------------------------------------------------------------------
(* The conversion of a cart.                                               *)

\* The request is going to overwrite the cart, which it saw unsold.
Turns(r, c) ==
    \/ pc[r] \in {"line", "retire"} /\ c = Guest
    \/ pc[r] = "write" /\ local[r].todo # NoLines /\ c = Guest
    \/ pc[r] \in {"abandon", "recover"} /\ c = local[r].cart

\* A cart that is held was sold, and a transaction has the cart it claimed for itself.
Sold == \A c \in Carts : holder[c] # None => carts[c].status = "CONVERTED"

Claimed(r) ==
    pc[r] = "commit" =>
        /\ carts[local[r].cart].status = "ACTIVE"
        /\ \A q \in Requests \ {r} : pc[q] = "commit" => local[q].cart # local[r].cart

\* An order holds its cart until it is undone.
Kept == \A o \in Ordered : holder[orders[o].cart] = o \/ \E u \in undone : u.order = o

\* Nobody holds a cart since before the request began that is going to overwrite it.
Turned(r) == \A c \in Carts : Turns(r, c) => holder[c] \notin past[r]

Late == \A u \in undone : pc[u.by] # "idle" /\ u.order \notin past[u.by]

SaleInv == Sold /\ Kept /\ Late /\ \A r \in Requests : Claimed(r) /\ Turned(r)

-----------------------------------------------------------------------------
(* Tables of lines, and what requests note.                                *)

LEMMA TableHas ==
    ASSUME NEW t \in Tables
    PROVE  /\ DOMAIN t \subseteq LineNames
           /\ \A l \in DOMAIN t : t[l] \in 1..Stock
           /\ t \in [DOMAIN t -> 1..Stock]
  BY DEF Tables

LEMMA TableMade ==
    ASSUME NEW D \in SUBSET LineNames, NEW t \in [D -> 1..Stock]
    PROVE  t \in Tables
  BY DEF Tables

LEMMA SmallTables == NoLines \in Tables /\ LineOf(1) \in Tables /\ FirstLine \in LineNames
  <1>1. FirstLine \in LineNames
    BY DEF FirstLine, LineNames, Makers
  <1>2. NoLines \in [{} -> 1..Stock]
    BY DEF NoLines
  <1>3. LineOf(1) \in [{FirstLine} -> 1..Stock]
    BY CartAssumption DEF LineOf
  <1>4. QED
    BY <1>1, <1>2, <1>3, TableMade

LEMMA BlankNote == Blank \in Memory
  BY SmallTables, CartAssumption DEF Blank, Memory, Carts, Makers, Methods

LEMMA Field ==
    ASSUME NEW m \in Memory
    PROVE  /\ \A c \in Carts : [m EXCEPT !.cart = c] \in Memory
           /\ \A n \in Nat : [m EXCEPT !.version = n] \in Memory
           /\ \A n \in Int : [m EXCEPT !.amount = n] \in Memory
           /\ \A n \in Int : [m EXCEPT !.delta = n] \in Memory
           /\ \A t \in Tables : [m EXCEPT !.todo = t] \in Memory
           /\ \A j \in Requests \cup {Deposit, None} : [m EXCEPT !.undoes = j] \in Memory
  BY DEF Memory


LEMMA AddsLine ==
    ASSUME Types, NEW c \in Carts, NEW l \in FindLine(c)
    PROVE  /\ l \in Memory /\ l.cart = c /\ l.todo = NoLines
           /\ l.found => l.line \in Lines(c)
           /\ ~l.found => Lines(c) = {}
  <1>1. CASE Lines(c) = {}
    <2>1. l = [Blank EXCEPT !.cart = c]
      BY <1>1 DEF FindLine
    <2>2. l \in Memory /\ l.cart = c
      BY <2>1, BlankNote, Field DEF Memory
    <2>3. l.todo = NoLines
      BY <2>1 DEF Blank
    <2>4. l.found = FALSE
      BY <2>1 DEF Blank
    <2>5. QED
      BY <1>1, <2>2, <2>3, <2>4
  <1>2. CASE Lines(c) # {}
    <2>1. PICK k \in Lines(c) :
             l = [Blank EXCEPT !.cart = c, !.line = k, !.found = TRUE, !.quantity = carts[c].lines[k]]
      BY <1>2 DEF FindLine
    <2> DEFINE n == carts[c].lines[k]
    <2>2. carts[c].lines \in Tables
      BY DEF Types, CartRows
    <2>3. k \in LineNames /\ n \in 0..Stock
      BY <2>2, TableHas, CartAssumption DEF Lines
    <2> HIDE DEF n
    <2>4. l = [Blank EXCEPT !.cart = c, !.line = k, !.found = TRUE, !.quantity = n]
      BY <2>1 DEF n
    <2>5. l \in Memory
      BY <2>3, <2>4, BlankNote DEF Memory
    <2>6. l.cart = c /\ l.line = k /\ l.found = TRUE
      BY <2>4, BlankNote DEF Memory
    <2>7. l.todo = NoLines
      BY <2>4 DEF Blank
    <2>8. QED
      BY <1>2, <2>5, <2>6, <2>7
  <1>3. QED
    BY <1>1, <1>2

-----------------------------------------------------------------------------
(* One request at a time takes a step, and writes rows of its own name.    *)

OneMoves(r) ==
    /\ pc[r] # "done" /\ pc'[r] # "idle"
    /\ pc' = [pc EXCEPT ![r] = pc'[r]]
    /\ local' = [local EXCEPT ![r] = local'[r]]
    /\ past' = IF pc[r] = "idle" THEN [past EXCEPT ![r] = Answered] ELSE past

RowsOwn(r) ==
    /\ Ordered \subseteq Ordered' /\ Ordered' \subseteq Ordered \cup {r}
    /\ \A o \in Ordered \ {r} : orders'[o] = orders[o]
    /\ Redeemed \subseteq Redeemed' /\ Redeemed' \subseteq Redeemed \cup {r}
    /\ Posted \subseteq Posted' /\ Posted' \subseteq Posted \cup {r}
    /\ \A j \in Posted \ {r} : journals'[j] = journals[j]
    /\ reversed \subseteq reversed' /\ \A x \in reversed' : x \in reversed \/ x.by = r
    /\ undone \subseteq undone' /\ \A u \in undone' : u \in undone \/ u.by = r

LEMMA OrderedRow ==
    ASSUME NEW r, NEW row, orders' = With(orders, r, row)
    PROVE  /\ Ordered' = Ordered \cup {r} /\ orders'[r] = row
           /\ \A o \in Ordered \ {r} : orders'[o] = orders[o]
  BY DEF With, Ordered

LEMMA RedeemedRow ==
    ASSUME NEW r, NEW row, redemptions' = With(redemptions, r, row)
    PROVE  /\ Redeemed' = Redeemed \cup {r} /\ redemptions'[r] = row
           /\ \A q \in Redeemed \ {r} : redemptions'[q] = redemptions[q]
  BY DEF With, Redeemed

LEMMA PostedRow ==
    ASSUME NEW r, NEW row, journals' = With(journals, r, row)
    PROVE  /\ Posted' = Posted \cup {r} /\ journals'[r] = row
           /\ \A j \in Posted \ {r} : journals'[j] = journals[j]
  BY DEF With, Posted

LEMMA ReversedRow ==
    ASSUME NEW q \in Redeemed, redemptions' = Reverse(q)
    PROVE  /\ Redeemed' = Redeemed /\ redemptions'[q] = "REVERSED"
           /\ \A p \in Redeemed \ {q} : redemptions'[p] = redemptions[p]
  BY DEF Reverse, Redeemed

LEMMA StepMoves ==
    ASSUME ShopInv, NEW r \in Requests, Step(r)
    PROVE  OneMoves(r)
  <1> USE DEF OneMoves, Goto, Enter, Advance, Answer, Idle
  <1>0. /\ pc \in [Requests -> Steps] /\ local \in [Requests -> Memory]
        /\ past \in [Requests -> SUBSET Requests]
    BY DEF ShopInv, Types
  <1>1. CASE BeginCheckout(r)
    BY <1>0, <1>1 DEF BeginCheckout
  <1>2. CASE ReadCart(r)
    BY <1>0, <1>2 DEF ReadCart
  <1>3. CASE Price(r)
    BY <1>0, <1>3 DEF Price
  <1>4. CASE Claim(r)
    BY <1>0, <1>4 DEF Claim
  <1>5. CASE Commit(r)
    BY <1>0, <1>5 DEF Commit
  <1>6. CASE BeginReserve(r)
    BY <1>0, <1>6 DEF BeginReserve
  <1>7. CASE Reserve(r)
    BY <1>0, <1>7 DEF Reserve
  <1>8. CASE BeginRelease(r)
    BY <1>0, <1>8 DEF BeginRelease
  <1>9. CASE Release(r)
    BY <1>0, <1>9 DEF Release
  <1>10. CASE BeginJournal(r)
    BY <1>0, <1>10 DEF BeginJournal
  <1>11. CASE BeginReversal(r)
    BY <1>0, <1>11 DEF BeginReversal
  <1>12. CASE OpenReversal(r)
    BY <1>0, <1>12 DEF OpenReversal
  <1>13. CASE Post(r)
    BY <1>0, <1>13 DEF Post
  <1>14. CASE BeginAdd(r)
    BY <1>0, <1>14 DEF BeginAdd
  <1>15. CASE WriteLine(r)
    BY <1>0, <1>15 DEF WriteLine
  <1>16. CASE ChangeLine(r)
    BY <1>0, <1>16 DEF ChangeLine
  <1>17. CASE BeginEdit(r)
    BY <1>0, <1>17 DEF BeginEdit
  <1>18. CASE ClearLines(r)
    BY <1>0, <1>18 DEF ClearLines
  <1>19. CASE AttachCoupon(r)
    BY <1>0, <1>19 DEF AttachCoupon
  <1>20. CASE BeginMerge(r)
    BY <1>0, <1>20 DEF BeginMerge
  <1>21. CASE ReadLine(r)
    BY <1>0, <1>21 DEF ReadLine
  <1>22. CASE RetireGuest(r)
    BY <1>0, <1>22 DEF RetireGuest
  <1>23. CASE BeginAbandon(r)
    BY <1>0, <1>23 DEF BeginAbandon
  <1>24. CASE Abandon(r)
    BY <1>0, <1>24 DEF Abandon
  <1>25. CASE BeginRecover(r)
    BY <1>0, <1>25 DEF BeginRecover
  <1>26. CASE Recover(r)
    BY <1>0, <1>26 DEF Recover
  <1>27. QED
    BY <1>1, <1>2, <1>3, <1>4, <1>5, <1>6, <1>7, <1>8, <1>9, <1>10, <1>11, <1>12, <1>13,
       <1>14, <1>15, <1>16, <1>17, <1>18, <1>19, <1>20, <1>21, <1>22, <1>23, <1>24, <1>25, <1>26 DEF Step, CartStep

LEMMA StepOwns ==
    ASSUME ShopInv, NEW r \in Requests, Step(r)
    PROVE  RowsOwn(r)
  <1>0. Types /\ Ready(r)
    BY DEF ShopInv
  <1>1. /\ UNCHANGED orders => Ordered' = Ordered
        /\ UNCHANGED redemptions => Redeemed' = Redeemed
        /\ UNCHANGED journals => Posted' = Posted
    BY DEF Ordered, Redeemed, Posted
  <1>2. CASE UNCHANGED <<undone, orders, redemptions, journals, reversed>>
    BY <1>1, <1>2 DEF RowsOwn
  <1>3. CASE BeginCheckout(r)
    BY <1>2, <1>3 DEF BeginCheckout, shopVars
  <1>4. CASE ReadCart(r)
    BY <1>2, <1>4 DEF ReadCart, shopVars
  <1>5. CASE Price(r)
    BY <1>2, <1>5 DEF Price, shopVars
  <1>6. CASE Claim(r)
    BY <1>2, <1>6 DEF Claim, shopVars
  <1>7. CASE BeginReserve(r)
    BY <1>2, <1>7 DEF BeginReserve, shopVars
  <1>8. CASE BeginRelease(r)
    BY <1>2, <1>8 DEF BeginRelease, shopVars
  <1>9. CASE BeginJournal(r)
    BY <1>2, <1>9 DEF BeginJournal, shopVars
  <1>10. CASE BeginReversal(r)
    BY <1>2, <1>10 DEF BeginReversal, shopVars
  <1>11. CASE OpenReversal(r)
    BY <1>2, <1>11 DEF OpenReversal, shopVars
  <1>12. CASE Commit(r)
    <2>1. UNCHANGED <<undone, journals, reversed>>
      BY <1>12 DEF Commit
    <2>2. \/ UNCHANGED orders
          \/ \E row : orders' = With(orders, r, row)
      BY <1>12 DEF Commit
    <2>3. \/ UNCHANGED redemptions
          \/ \E row : redemptions' = With(redemptions, r, row)
      BY <1>12 DEF Commit
    <2>4. /\ Ordered \subseteq Ordered' /\ Ordered' \subseteq Ordered \cup {r}
          /\ \A o \in Ordered \ {r} : orders'[o] = orders[o]
      BY <1>1, <2>2, OrderedRow
    <2>5. Redeemed \subseteq Redeemed' /\ Redeemed' \subseteq Redeemed \cup {r}
      BY <1>1, <2>3, RedeemedRow
    <2>6. QED
      BY <1>1, <2>1, <2>4, <2>5 DEF RowsOwn
  <1>13. CASE Reserve(r)
    <2>1. UNCHANGED <<undone, orders, journals, reversed>> /\ Redeemed' = Redeemed \cup {r}
      BY <1>13, RedeemedRow DEF Reserve
    <2>2. QED
      BY <1>1, <2>1 DEF RowsOwn
  <1>14. CASE Release(r)
    <2>1. local[r].undoes \in Redeemed
      BY <1>0, <1>14 DEF Release, Ready, Knows
    <2>2. /\ UNCHANGED <<undone, orders, journals>> /\ Redeemed' = Redeemed
          /\ reversed' = reversed \cup {[row |-> local[r].undoes, by |-> r]}
      BY <1>14, <2>1, ReversedRow DEF Release
    <2>3. QED
      BY <1>1, <2>2 DEF RowsOwn
  <1>15. CASE Post(r)
    <2>1. /\ UNCHANGED <<undone, orders, redemptions, reversed>> /\ Posted' = Posted \cup {r}
          /\ \A j \in Posted \ {r} : journals'[j] = journals[j]
      BY <1>15, PostedRow DEF Post
    <2>2. QED
      BY <1>1, <2>1 DEF RowsOwn
  <1>16. CASE CartStep(r) /\ UNCHANGED shopVars
    <2>1. UNCHANGED <<orders, redemptions, journals, reversed>>
      BY <1>16 DEF shopVars
    <2>2. CASE \E c, status : Overwrite(r, c, status)
      BY <1>1, <2>1, <2>2 DEF RowsOwn, Overwrite
    <2>3. CASE UNCHANGED undone
      BY <1>2, <2>1, <2>3
    <2>4. QED
      BY <1>16, <2>2, <2>3
         DEF CartStep, BeginAdd, WriteLine, ChangeLine, BeginEdit, ClearLines, AttachCoupon,
             BeginMerge, ReadLine, RetireGuest, BeginAbandon, Abandon, BeginRecover, Recover
  <1>17. QED
    BY <1>3, <1>4, <1>5, <1>6, <1>7, <1>8, <1>9, <1>10, <1>11, <1>12, <1>13, <1>14, <1>15, <1>16
       DEF Step

-----------------------------------------------------------------------------
(* What a step makes of the carts.                                         *)

\* A row that is overwritten, has another version, or has other lines.
LEMMA Restated ==
    ASSUME Types, NEW c \in Carts, NEW s \in Statuses,
           carts' = [carts EXCEPT ![c].status = s, ![c].version = @ + 1]
    PROVE  /\ carts' \in [Carts -> CartRows]
           /\ \A d \in Carts : /\ carts'[d].lines = carts[d].lines
                               /\ carts'[d].status = IF d = c THEN s ELSE carts[d].status
  <1>1. carts \in [Carts -> CartRows]
    BY DEF Types
  <1>2. ASSUME NEW d \in Carts
        PROVE  /\ carts'[d] \in CartRows
               /\ carts'[d].lines = carts[d].lines
               /\ carts'[d].status = IF d = c THEN s ELSE carts[d].status
    <2>1. CASE d = c
      <3> DEFINE v == carts[c].version + 1
                 m == [carts[c] EXCEPT !.status = s]
                 n == [m EXCEPT !.version = v]
      <3>1. carts'[d] = [carts[c] EXCEPT !.status = s, !.version = v]
        BY <1>1, <2>1
      <3>2. v \in Nat /\ carts[c] \in CartRows
        BY <1>1 DEF CartRows
      <3> HIDE DEF v
      <3>3. m \in CartRows /\ m.lines = carts[c].lines /\ m.status = s
        BY <3>2 DEF CartRows
      <3>4. carts'[d] = n
        BY <3>1, Zenon
      <3> HIDE DEF m
      <3>5. n \in CartRows /\ n.lines = m.lines /\ n.status = m.status
        BY <3>2, <3>3 DEF CartRows
      <3> HIDE DEF n
      <3>6. QED
        BY <2>1, <3>3, <3>4, <3>5
    <2>2. CASE d # c
      BY <1>1, <2>2
    <2>3. QED
      BY <2>1, <2>2
  <1>3. DOMAIN carts' = Carts /\ carts' = [d \in Carts |-> carts'[d]]
    BY <1>1
  <1>4. QED
    BY <1>2, <1>3

LEMMA Revised ==
    ASSUME Types, NEW c \in Carts, carts' = [carts EXCEPT ![c].version = @ + 1]
    PROVE  /\ carts' \in [Carts -> CartRows]
           /\ \A d \in Carts : /\ carts'[d].lines = carts[d].lines
                               /\ carts'[d].status = carts[d].status
  <1>1. carts \in [Carts -> CartRows]
    BY DEF Types
  <1> DEFINE v == carts[c].version + 1
  <1>2. v \in Nat
    BY <1>1 DEF CartRows
  <1>3. carts' = [carts EXCEPT ![c] = [carts[c] EXCEPT !.version = v]]
    BY <1>1
  <1> HIDE DEF v
  <1>4. /\ [carts[c] EXCEPT !.version = v] \in CartRows
        /\ [carts[c] EXCEPT !.version = v].lines = carts[c].lines
        /\ [carts[c] EXCEPT !.version = v].status = carts[c].status
    BY <1>1, <1>2 DEF CartRows
  <1>5. QED
    BY <1>1, <1>3, <1>4

LEMMA Relined ==
    ASSUME Types, NEW c \in Carts, NEW t \in Tables, carts' = [carts EXCEPT ![c].lines = t]
    PROVE  /\ carts' \in [Carts -> CartRows]
           /\ \A d \in Carts : /\ carts'[d].lines = IF d = c THEN t ELSE carts[d].lines
                               /\ carts'[d].status = carts[d].status
                               /\ Lines(d)' = IF d = c THEN DOMAIN t ELSE Lines(d)
  <1>1. carts \in [Carts -> CartRows]
    BY DEF Types
  <1>2. carts' = [carts EXCEPT ![c] = [carts[c] EXCEPT !.lines = t]]
    BY <1>1
  <1>3. /\ [carts[c] EXCEPT !.lines = t] \in CartRows
        /\ [carts[c] EXCEPT !.lines = t].lines = t
        /\ [carts[c] EXCEPT !.lines = t].status = carts[c].status
    BY <1>1 DEF CartRows
  <1>4. QED
    BY <1>1, <1>2, <1>3 DEF Lines

\* A line that gets another quantity, or that is created.
LEMMA PutsLine ==
    ASSUME Types, NEW c \in Carts, NEW l, NEW name \in LineNames, NEW n \in 1..Stock,
           PutLine(c, l, name, n)
    PROVE  /\ carts' \in [Carts -> CartRows]
           /\ \A d \in Carts : /\ carts'[d].status = carts[d].status
                               /\ Lines(d)' = IF d = c /\ ~l.found THEN Lines(d) \cup {name}
                                              ELSE Lines(d)
  <1> DEFINE was == carts[c].lines
             t == IF l.found THEN [k \in DOMAIN was |-> IF k = l.line THEN n ELSE was[k]]
                  ELSE [k \in DOMAIN was \cup {name} |-> IF k = name THEN n ELSE was[k]]
  <1>1. was \in Tables
    BY DEF Types, CartRows
  <1>2. DOMAIN was \subseteq LineNames /\ \A k \in DOMAIN was : was[k] \in 1..Stock
    BY <1>1, TableHas
  <1>3. carts' = [carts EXCEPT ![c].lines = t]
    BY DEF PutLine
  <1>4. /\ t \in Tables
        /\ DOMAIN t = IF ~l.found THEN DOMAIN was \cup {name} ELSE DOMAIN was
    <2>1. CASE l.found
      <3>1. t \in [DOMAIN was -> 1..Stock]
        BY <1>2, <2>1
      <3>2. QED
        BY <1>2, <2>1, <3>1, TableMade
    <2>2. CASE ~l.found
      <3>1. t \in [DOMAIN was \cup {name} -> 1..Stock]
        BY <1>2, <2>2
      <3>2. DOMAIN was \cup {name} \in SUBSET LineNames
        BY <1>2
      <3>3. QED
        BY <2>2, <3>1, <3>2, TableMade
    <2>3. QED
      BY <2>1, <2>2
  <1>d. Lines(c) = DOMAIN was
    BY DEF Lines
  <1> HIDE DEF t, was
  <1>5. \A d \in Carts : /\ carts'[d].status = carts[d].status
                         /\ Lines(d)' = IF d = c THEN DOMAIN t ELSE Lines(d)
    BY <1>3, <1>4, Relined
  <1>6. carts' \in [Carts -> CartRows]
    BY <1>3, <1>4, Relined
  <1>7. QED
    BY <1>4, <1>5, <1>6, <1>d

\* The lines of a cart after a step: at most one more, by a request that saw none.
LinesGrow(r) ==
    \E name \in LineNames :
        /\ name[1] = r
        /\ \A d \in Carts : \A l \in Lines(d)' :
              \/ l \in Lines(d)
              \/ /\ pc[r] = "write" /\ ~local[r].found
                 /\ d = local[r].cart /\ l = name

StatusesStay == \A d \in Carts : carts'[d].status = carts[d].status

LEMMA GrowsNot ==
    ASSUME NEW r \in Requests, \A d \in Carts : Lines(d)' \subseteq Lines(d)
    PROVE  LinesGrow(r)
  <1>1. <<r, None>> \in LineNames /\ <<r, None>>[1] = r
    BY DEF LineNames, Makers
  <1>2. QED
    BY <1>1 DEF LinesGrow

LEMMA Writes ==
    ASSUME ShopInv, NEW r \in Requests, WriteLine(r)
    PROVE  carts' \in [Carts -> CartRows] /\ LinesGrow(r) /\ StatusesStay
  <1> DEFINE l == local[r]
             sum == l.quantity + l.delta
  <1>0. Types /\ Ready(r) /\ l \in Memory /\ carts \in [Carts -> CartRows]
    BY DEF ShopInv, Types
  <1>1. l.cart \in Carts /\ l.quantity \in 0..Stock /\ l.source \in Makers
    BY <1>0 DEF Memory
  <1>2. l.delta \in 1..Stock /\ (l.todo # NoLines => l.cart = Mine)
    BY <1>0 DEF WriteLine, Ready, Knows
  <1>3. Stock \in Nat \ {0}
    BY CartAssumption
  <1> DEFINE name == IF l.todo # NoLines THEN <<r, l.source>> ELSE <<r, None>>
             n == IF sum > Stock THEN Stock ELSE sum
  <1>4. name \in LineNames /\ name[1] = r
    BY <1>1 DEF LineNames, Makers
  <1>5. n \in 1..Stock
    BY <1>1, <1>2, <1>3
  <1>6. UNCHANGED carts \/ PutLine(l.cart, l, name, n)
    <2>1. CASE l.todo # NoLines
      BY <1>2, <2>1 DEF WriteLine
    <2>2. CASE l.todo = NoLines
      BY <2>2 DEF WriteLine
    <2>3. QED
      BY <2>1, <2>2
  <1>7. pc[r] = "write"
    BY DEF WriteLine
  <1>8. CASE UNCHANGED carts
    BY <1>0, <1>8, GrowsNot DEF Lines, StatusesStay
  <1>9. CASE PutLine(l.cart, l, name, n)
    <2> HIDE DEF name, n, l
    <2>1. /\ carts' \in [Carts -> CartRows]
          /\ \A d \in Carts : /\ carts'[d].status = carts[d].status
                              /\ Lines(d)' = IF d = l.cart /\ ~l.found
                                             THEN Lines(d) \cup {name} ELSE Lines(d)
      BY <1>0, <1>1, <1>4, <1>5, <1>9, PutsLine
    <2>2. LinesGrow(r)
      BY <1>4, <1>7, <2>1 DEF LinesGrow, l
    <2>3. QED
      BY <2>1, <2>2 DEF StatusesStay
  <1>10. QED
    BY <1>6, <1>8, <1>9

LEMMA Changes ==
    ASSUME ShopInv, NEW r \in Requests, ChangeLine(r)
    PROVE  carts' \in [Carts -> CartRows] /\ LinesGrow(r) /\ StatusesStay
  <1>0. Types
    BY DEF ShopInv
  <1>1. PICK c \in Carts : \E l \in Lines(c), n \in 0..Stock :
           carts' = [carts EXCEPT ![c].lines =
                        [k \in DOMAIN @ \ {x \in {l} : n = 0} |-> IF k = l THEN n ELSE @[k]]]
    BY DEF ChangeLine
  <1>p. PICK l \in Lines(c), n \in 0..Stock :
           carts' = [carts EXCEPT ![c].lines =
                        [k \in DOMAIN @ \ {x \in {l} : n = 0} |-> IF k = l THEN n ELSE @[k]]]
    BY <1>1
  <1> DEFINE was == carts[c].lines
             t == [k \in DOMAIN was \ {x \in {l} : n = 0} |-> IF k = l THEN n ELSE was[k]]
  <1>2. DOMAIN was \subseteq LineNames /\ \A k \in DOMAIN was : was[k] \in 1..Stock
    BY <1>0, TableHas DEF Types, CartRows
  <1>3. t \in [DOMAIN was \ {x \in {l} : n = 0} -> 1..Stock]
    BY <1>2, CartAssumption
  <1>4. t \in Tables /\ DOMAIN t \subseteq DOMAIN was
    BY <1>2, <1>3, TableMade
  <1>5. carts' = [carts EXCEPT ![c].lines = t]
    BY <1>p
  <1> HIDE DEF t
  <1>6. /\ carts' \in [Carts -> CartRows] /\ StatusesStay
        /\ \A d \in Carts : Lines(d)' = IF d = c THEN DOMAIN t ELSE Lines(d)
    BY <1>0, <1>4, <1>5, Relined DEF StatusesStay
  <1>7. QED
    BY <1>4, <1>6, GrowsNot DEF Lines

LEMMA Clears ==
    ASSUME ShopInv, NEW r \in Requests, ClearLines(r)
    PROVE  carts' \in [Carts -> CartRows] /\ LinesGrow(r) /\ StatusesStay
  <1>0. Types /\ local[r].cart \in Carts
    BY DEF ShopInv, Types, Memory
  <1>1. carts' = [carts EXCEPT ![local[r].cart].lines = NoLines]
    BY DEF ClearLines
  <1>2. DOMAIN NoLines = {}
    BY DEF NoLines
  <1>3. /\ carts' \in [Carts -> CartRows]
        /\ \A d \in Carts :
              /\ carts'[d].status = carts[d].status
              /\ Lines(d)' = IF d = local[r].cart THEN DOMAIN NoLines ELSE Lines(d)
    BY <1>0, <1>1, SmallTables, Relined
  <1>4. \A d \in Carts : Lines(d)' \subseteq Lines(d)
    BY <1>2, <1>3
  <1>5. QED
    BY <1>3, <1>4, GrowsNot DEF StatusesStay

LEMMA Overwrites ==
    ASSUME Types, NEW r \in Requests, NEW c \in Carts, NEW s \in Statuses, Overwrite(r, c, s)
    PROVE  /\ carts' \in [Carts -> CartRows] /\ LinesGrow(r)
           /\ \A d \in Carts : carts'[d].status = IF d = c THEN s ELSE carts[d].status
  <1>1. carts' = [carts EXCEPT ![c].status = s, ![c].version = @ + 1]
    BY DEF Overwrite
  <1>2. /\ carts' \in [Carts -> CartRows]
        /\ \A d \in Carts : /\ carts'[d].lines = carts[d].lines
                            /\ carts'[d].status = IF d = c THEN s ELSE carts[d].status
    BY <1>1, Restated
  <1>3. QED
    BY <1>2, GrowsNot DEF Lines

\* The three steps that overwrite a cart, and what they find.
Overwriting(r, c, s) ==
    \/ pc[r] = "retire" /\ c = Guest /\ s = "MERGED"
    \/ pc[r] = "abandon" /\ c = local[r].cart /\ s = "ABANDONED"
    \/ pc[r] = "recover" /\ c = local[r].cart /\ s = "ACTIVE"

\* What a step may do to the carts, in one place.
LEMMA CartsAfter ==
    ASSUME ShopInv, NEW r \in Requests, Step(r)
    PROVE  /\ carts' \in [Carts -> CartRows] /\ LinesGrow(r)
           /\ \/ StatusesStay /\ UNCHANGED <<holder, undone>>
              \/ /\ Commit(r) /\ MayCommit(r) /\ UNCHANGED undone
                 /\ holder' = [holder EXCEPT ![local[r].cart] = r]
                 /\ \A d \in Carts : carts'[d].status =
                                        IF d = local[r].cart THEN "CONVERTED" ELSE carts[d].status
              \/ \E c \in Carts, s \in Statuses :
                    /\ Overwriting(r, c, s) /\ Overwrite(r, c, s)
                    /\ \A d \in Carts : carts'[d].status = IF d = c THEN s ELSE carts[d].status
  <1>0. Types /\ local[r] \in Memory /\ local[r].cart \in Carts /\ carts \in [Carts -> CartRows]
    BY DEF ShopInv, Types, Memory
  <1>1. ASSUME UNCHANGED <<carts, holder, undone>>
        PROVE  /\ carts' \in [Carts -> CartRows] /\ LinesGrow(r) /\ StatusesStay
               /\ UNCHANGED <<holder, undone>>
    BY <1>0, <1>1, GrowsNot DEF StatusesStay, Lines
  <1>2. ASSUME NEW c \in Carts, NEW s \in Statuses, Overwriting(r, c, s), Overwrite(r, c, s)
        PROVE  /\ carts' \in [Carts -> CartRows] /\ LinesGrow(r)
               /\ \A d \in Carts : carts'[d].status = IF d = c THEN s ELSE carts[d].status
    BY <1>0, <1>2, Overwrites
  <1>3. CASE Commit(r) /\ MayCommit(r)
    <2>1. /\ carts' = [carts EXCEPT ![local[r].cart].status = "CONVERTED",
                                    ![local[r].cart].version = @ + 1]
          /\ holder' = [holder EXCEPT ![local[r].cart] = r] /\ UNCHANGED undone
      BY <1>3 DEF Commit
    <2>2. "CONVERTED" \in Statuses
      BY DEF Statuses
    <2>3. /\ carts' \in [Carts -> CartRows]
          /\ \A d \in Carts :
                /\ carts'[d].lines = carts[d].lines
                /\ carts'[d].status = IF d = local[r].cart THEN "CONVERTED" ELSE carts[d].status
      BY <1>0, <2>1, <2>2, Restated
    <2>4. LinesGrow(r)
      BY <2>3, GrowsNot DEF Lines
    <2>5. QED
      BY <1>3, <2>1, <2>3, <2>4
  <1>4. CASE Commit(r) /\ ~MayCommit(r)
    <2>1. UNCHANGED <<carts, holder, undone>>
      BY <1>4 DEF Commit
    <2>2. QED
      BY <1>1, <2>1
  <1>5. CASE WriteLine(r) \/ ChangeLine(r) \/ ClearLines(r)
    <2>1. UNCHANGED <<holder, undone>>
      BY <1>5 DEF WriteLine, ChangeLine, ClearLines
    <2>2. QED
      BY <1>5, <2>1, Writes, Changes, Clears
  <1>6. CASE AttachCoupon(r)
    <2>1. /\ carts' = [carts EXCEPT ![local[r].cart].version = @ + 1]
          /\ UNCHANGED <<holder, undone>>
      BY <1>6 DEF AttachCoupon
    <2>2. /\ carts' \in [Carts -> CartRows]
          /\ \A d \in Carts : /\ carts'[d].lines = carts[d].lines
                              /\ carts'[d].status = carts[d].status
      BY <1>0, <2>1, Revised
    <2>3. QED
      BY <2>1, <2>2, GrowsNot DEF Lines, StatusesStay
  <1>7. CASE RetireGuest(r) \/ Abandon(r) \/ Recover(r)
    <2>1. \E c \in Carts, s \in Statuses : Overwriting(r, c, s) /\ Overwrite(r, c, s)
      BY <1>0, <1>7 DEF RetireGuest, Abandon, Recover, Overwriting, Statuses, Carts
    <2>2. QED
      BY <1>2, <2>1
  <1>8. CASE UNCHANGED <<carts, holder, undone>>
    BY <1>1, <1>8
  <1>9. ASSUME Step(r), ~Commit(r), ~WriteLine(r), ~ChangeLine(r), ~ClearLines(r),
               ~AttachCoupon(r), ~RetireGuest(r), ~Abandon(r), ~Recover(r)
        PROVE  UNCHANGED <<carts, holder, undone>>
    BY <1>9 DEF Step, BeginCheckout, ReadCart, Price, Claim, BeginReserve, Reserve, BeginRelease,
                Release, BeginJournal, BeginReversal, OpenReversal, Post, CartStep, BeginAdd,
                BeginEdit, BeginMerge, ReadLine, BeginAbandon, BeginRecover
  <1>10. QED
    BY <1>3, <1>4, <1>5, <1>6, <1>7, <1>8, <1>9

-----------------------------------------------------------------------------
(* The units of a cart.                                                    *)

LEMMA FiniteLines == IsFiniteSet(LineNames)
  <1>1. IsFiniteSet(Makers)
    BY CartAssumption, FS_AddElement DEF Makers
  <1>2. QED
    BY <1>1, FS_Product DEF LineNames

LEMMA UnitsAreTotal ==
    ASSUME NEW c, IsFiniteSet(Lines(c))
    PROVE  Units(c) = Total(carts[c].lines, Lines(c))
  <1> DEFINE held == carts[c].lines
             S == DOMAIN held
             P(g) == g = [s \in SUBSET S |->
                             IF s = {} THEN 0
                             ELSE LET x == CHOOSE x \in s : TRUE
                                  IN  held[x] + g[s \ {x}]]
             h == CHOOSE g : P(g)
  <1>0. IsFiniteSet(S) /\ S = Lines(c)
    BY DEF Lines
  <1>1. Units(c) = h[S]
    BY Zenon DEF Units, MapThenSumSet, MapThenFoldSet
  <1>2. ASSUME NEW g
        PROVE  P(g) <=> IsSum(g, held, S)
    BY DEF IsSum, Weighed
  <1>3. \E g : P(g)
    <2> HIDE DEF P, S, held
    <2>1. QED
      BY <1>0, <1>2, SumExists
  <1>4. P(h)
    <2> HIDE DEF P
    <2>1. QED
      BY <1>3, Zenon
  <1>5. Units(c) = Total(held, S)
    <2>1. S \in SUBSET S
      OBVIOUS
    <2> HIDE DEF P, S, held, h
    <2>2. QED
      BY <1>0, <1>1, <1>2, <1>4, <2>1, TotalOf
  <1>6. QED
    BY <1>0, <1>5

\* A cart with lines has units.
LEMMA UnitsPositive ==
    ASSUME Types, NEW c \in Carts, Lines(c) # {}
    PROVE  Units(c) \in Nat \ {0}
  <1> DEFINE held == carts[c].lines
             S == Lines(c)
  <1>1. held \in Tables
    BY DEF Types, CartRows
  <1>2. S \subseteq LineNames /\ \A l \in S : held[l] \in 1..Stock
    BY <1>1, TableHas DEF Lines
  <1>3. IsFiniteSet(S) /\ \A l \in S : held[l] \in Nat \ {0}
    BY <1>2, FiniteLines, FS_Subset, CartAssumption
  <1>4. PICK x \in S : TRUE
    OBVIOUS
  <1>5. Units(c) = Total(held, S)
    BY <1>3, UnitsAreTotal
  <1> HIDE DEF held, S
  <1>6. Total(held, S) = held[x] + Total(held, S \ {x})
    BY <1>3, TotalAdds
  <1>7. IsFiniteSet(S \ {x}) /\ \A l \in S \ {x} : held[l] \in Nat
    BY <1>3, FS_RemoveElement
  <1>8. Total(held, S \ {x}) \in Nat
    BY <1>7, TotalIsNat
  <1>9. held[x] \in Nat \ {0}
    BY <1>3
  <1>10. QED
    BY <1>5, <1>6, <1>8, <1>9

-----------------------------------------------------------------------------
(* Types and what requests know are kept.                                  *)

LEMMA OwnPast ==
    ASSUME ShopInv, NEW r \in Requests, OneMoves(r)
    PROVE  past'[r] \in SUBSET Requests /\ \A a \in past'[r] : pc'[a] = "done"
  <1>0. /\ pc \in [Requests -> Steps] /\ past \in [Requests -> SUBSET Requests] /\ Ready(r)
    BY DEF ShopInv, Types
  <1>1. \A a \in Requests : pc[a] = "done" => pc'[a] = "done"
    BY <1>0 DEF OneMoves
  <1>2. past'[r] = Answered \/ past'[r] = past[r]
    BY <1>0 DEF OneMoves
  <1>3. Answered \in SUBSET Requests /\ \A a \in Answered : pc[a] = "done"
    BY DEF Answered
  <1>4. QED
    BY <1>0, <1>1, <1>2, <1>3 DEF Ready

\* The request is answered.
LEMMA Answers ==
    ASSUME ShopInv, NEW r \in Requests, OneMoves(r), pc'[r] = "done", local'[r] = Blank
    PROVE  pc'[r] \in Steps /\ local'[r] \in Memory /\ Ready(r)'
  <1>1. Knows(r)'
    BY DEF Knows, Buying
  <1>2. pc'[r] \in Steps
    BY DEF Steps
  <1>3. QED
    BY <1>1, <1>2, OwnPast, BlankNote DEF Ready

\* The request goes on, and has written no row.
LEMMA Proceeds ==
    ASSUME ShopInv, NEW r \in Requests, OneMoves(r), UNCHANGED shopVars,
           pc'[r] \in Steps, local'[r] \in Memory, Knows(r)'
    PROVE  pc'[r] \in Steps /\ local'[r] \in Memory /\ Ready(r)'
  <1>1. Ready(r) /\ pc[r] # "done"
    BY DEF ShopInv, OneMoves
  <1>2. Ordered' = Ordered /\ Redeemed' = Redeemed /\ Posted' = Posted /\ reversed' = reversed
    BY DEF Ordered, Redeemed, Posted, shopVars
  <1>3. QED
    BY <1>1, <1>2, OwnPast DEF Ready

LEMMA OwnCart ==
    ASSUME ShopInv, NEW r \in Requests, CartStep(r), UNCHANGED shopVars, OneMoves(r)
    PROVE  pc'[r] \in Steps /\ local'[r] \in Memory /\ Ready(r)'
  <1> USE DEF Goto, Enter, Advance, Answer
  <1>0. /\ Types /\ pc \in [Requests -> Steps] /\ local \in [Requests -> Memory]
        /\ past \in [Requests -> SUBSET Requests] /\ local[r] \in Memory /\ Ready(r)
        /\ Stock \in Nat \ {0}
    BY CartAssumption DEF ShopInv, Types
  <1>1. ASSUME NEW c \in Carts
        PROVE  [Blank EXCEPT !.cart = c] \in Memory
    BY BlankNote, Field
  <1>2. ASSUME NEW s \in {"clear", "attach", "abandon", "recover", "retire", "line"},
               pc'[r] = s, local'[r] \in Memory
        PROVE  pc'[r] \in Steps /\ local'[r] \in Memory /\ Ready(r)'
    <2>1. Knows(r)' /\ pc'[r] \in Steps
      BY <1>2 DEF Knows, Buying, Steps
    <2>2. QED
      BY <1>2, <2>1, Proceeds
  <1>3. CASE BeginAdd(r)
    <2>1. PICK c \in Carts : \E l \in FindLine(c) : Enter(r, "write", [l EXCEPT !.delta = 1])
      BY <1>3 DEF BeginAdd
    <2>2. PICK l \in FindLine(c) : Enter(r, "write", [l EXCEPT !.delta = 1])
      BY <2>1
    <2>3. l \in Memory /\ l.cart = c /\ l.todo = NoLines
      BY <1>0, AddsLine
    <2>4. /\ [l EXCEPT !.delta = 1] \in Memory /\ [l EXCEPT !.delta = 1].delta = 1
          /\ [l EXCEPT !.delta = 1].todo = l.todo
      BY <2>3 DEF Memory
    <2>5. pc'[r] = "write" /\ local'[r] = [l EXCEPT !.delta = 1]
      BY <1>0, <2>2
    <2>6. /\ local'[r] \in Memory /\ local'[r].delta = 1 /\ local'[r].todo = NoLines
      BY <2>3, <2>4, <2>5
    <2>7. Knows(r)' /\ pc'[r] \in Steps
      BY <1>0, <2>5, <2>6 DEF Knows, Buying, Steps
    <2>8. QED
      BY <2>6, <2>7, Proceeds
  <1>4. CASE WriteLine(r)
    <2> DEFINE rest == [k \in DOMAIN local[r].todo \ {<<local[r].source, None>>} |-> local[r].todo[k]]
    <2>1. \/ pc'[r] = "done" /\ local'[r] = Blank
          \/ pc'[r] \in {"retire", "line"} /\ local'[r] = [Blank EXCEPT !.todo = rest]
      BY <1>0, <1>4 DEF WriteLine
    <2>2. local[r].todo \in Tables
      BY <1>0 DEF Memory
    <2>3. rest \in Tables
      <3>1. rest \in [DOMAIN local[r].todo \ {<<local[r].source, None>>} -> 1..Stock]
        BY <2>2, TableHas
      <3>2. DOMAIN local[r].todo \ {<<local[r].source, None>>} \in SUBSET LineNames
        BY <2>2, TableHas
      <3> HIDE DEF rest
      <3>3. QED
        BY <3>1, <3>2, TableMade
    <2> HIDE DEF rest
    <2>4. [Blank EXCEPT !.todo = rest] \in Memory
      BY <2>3, BlankNote, Field
    <2>5. QED
      BY <1>2, <2>1, <2>4, Answers
  <1>5. CASE ChangeLine(r)
    <2>1. pc'[r] = "done" /\ local'[r] = Blank
      BY <1>0, <1>5 DEF ChangeLine
    <2>2. QED
      BY <2>1, Answers
  <1>6. CASE BeginEdit(r)
    <2>1. \E c \in Carts : pc'[r] \in {"clear", "attach"} /\ local'[r] = [Blank EXCEPT !.cart = c]
      BY <1>0, <1>6 DEF BeginEdit
    <2>2. QED
      BY <1>1, <1>2, <2>1
  <1>7. CASE ClearLines(r) \/ AttachCoupon(r) \/ RetireGuest(r) \/ Abandon(r) \/ Recover(r)
    <2>1. pc'[r] = "done" /\ local'[r] = Blank
      BY <1>0, <1>7 DEF ClearLines, AttachCoupon, RetireGuest, Abandon, Recover
    <2>2. QED
      BY <2>1, Answers
  <1>8. CASE BeginMerge(r)
    <2>1. pc'[r] = "line" /\ local'[r] = [Blank EXCEPT !.todo = carts[Guest].lines]
      BY <1>0, <1>8 DEF BeginMerge
    <2>2. carts[Guest].lines \in Tables
      BY <1>0 DEF Types, CartRows, Carts
    <2>3. local'[r] \in Memory
      BY <2>1, <2>2, BlankNote, Field
    <2>4. QED
      BY <1>2, <2>1, <2>3
  <1>9. CASE ReadLine(r)
    <2> DEFINE todo == local[r].todo
    <2>1. PICK g \in DOMAIN todo, l \in FindLine(Mine) :
             Advance(r, "write", [l EXCEPT !.source = g[1], !.todo = todo, !.delta = todo[g]])
      BY <1>9 DEF ReadLine
    <2>2. todo \in Tables
      BY <1>0 DEF Memory
    <2>3. g \in LineNames /\ todo[g] \in 1..Stock
      BY <2>2, TableHas
    <2>4. g[1] \in Makers /\ todo[g] \in Int
      BY <1>0, <2>3 DEF LineNames
    <2>5. l \in Memory /\ l.cart = Mine
      BY <1>0, AddsLine DEF Carts
    <2> DEFINE x == [l EXCEPT !.source = g[1], !.todo = todo, !.delta = todo[g]]
    <2>6. pc'[r] = "write" /\ local'[r] = x
      BY <1>0, <2>1
    <2> HIDE DEF todo
    <2>7. x \in Memory /\ x.delta = todo[g] /\ x.cart = l.cart
      <3> DEFINE s == g[1]
                 n == todo[g]
      <3> HIDE DEF s, n
      <3>1. s \in Makers /\ n \in Int
        BY <2>4 DEF s, n
      <3>2. LET y == [l EXCEPT !.source = s, !.todo = todo, !.delta = n]
            IN  y \in Memory /\ y.delta = n /\ y.cart = l.cart
        BY <2>2, <2>5, <3>1 DEF Memory
      <3>3. QED
        BY <3>2 DEF s, n
    <2> HIDE DEF x
    <2>8. Knows(r)' /\ pc'[r] \in Steps /\ local'[r] \in Memory
      BY <2>3, <2>5, <2>6, <2>7 DEF Knows, Buying, Steps
    <2>9. QED
      BY <2>8, Proceeds
  <1>10. CASE BeginAbandon(r)
    <2>1. \E c \in Carts : pc'[r] = "abandon" /\ local'[r] = [Blank EXCEPT !.cart = c]
      BY <1>0, <1>10 DEF BeginAbandon
    <2>2. QED
      BY <1>1, <1>2, <2>1
  <1>11. CASE BeginRecover(r)
    <2>1. \E c \in Carts : pc'[r] = "recover" /\ local'[r] = [Blank EXCEPT !.cart = c]
      BY <1>0, <1>11 DEF BeginRecover
    <2>2. QED
      BY <1>1, <1>2, <2>1
  <1>12. QED
    BY <1>3, <1>4, <1>5, <1>6, <1>7, <1>8, <1>9, <1>10, <1>11 DEF CartStep

LEMMA OwnShop ==
    ASSUME ShopInv, NEW r \in Requests, OneMoves(r),
           \/ BeginCheckout(r) \/ ReadCart(r) \/ Price(r) \/ Claim(r) \/ BeginReserve(r)
           \/ BeginRelease(r) \/ BeginJournal(r) \/ BeginReversal(r) \/ OpenReversal(r)
    PROVE  pc'[r] \in Steps /\ local'[r] \in Memory /\ Ready(r)'
  <1> USE DEF Goto, Enter, Advance, Answer
  <1>0. /\ Types /\ pc \in [Requests -> Steps] /\ local \in [Requests -> Memory]
        /\ past \in [Requests -> SUBSET Requests] /\ local[r] \in Memory /\ Ready(r)
        /\ carts \in [Carts -> CartRows] /\ local[r].cart \in Carts
    BY DEF ShopInv, Types, Memory
  <1>1. UNCHANGED shopVars
    BY DEF BeginCheckout, ReadCart, Price, Claim, BeginReserve, BeginRelease, BeginJournal,
           BeginReversal, OpenReversal
  <1>p. Posted' = Posted /\ Redeemed' = Redeemed
    BY <1>1 DEF shopVars, Posted, Redeemed
  <1>2. CASE pc'[r] = "done" /\ local'[r] = Blank
    BY <1>2, Answers
  <1>3. CASE BeginCheckout(r)
    <2>1. PICK c \in Carts, k \in Keys, tender \in Tenders :
             LET x == [Blank EXCEPT !.cart = c, !.key = k, !.method = tender[1],
                                    !.coupon = tender[2], !.day = day]
             IN  IF Replayed(x) # {} THEN Enter(r, "done", Blank) ELSE Enter(r, "cart", x)
      BY <1>3 DEF BeginCheckout
    <2> DEFINE m == tender[1]
               b == tender[2]
    <2>2. m \in Methods /\ b \in BOOLEAN /\ day \in 0..1
      BY <1>0, CheckoutAssumption DEF Types
    <2> HIDE DEF m, b
    <2> DEFINE x == [Blank EXCEPT !.cart = c, !.key = k, !.method = m, !.coupon = b, !.day = day]
    <2>3. x \in Memory /\ x.key = k
      BY <2>2, BlankNote DEF Memory
    <2>4. \/ pc'[r] = "done" /\ local'[r] = Blank
          \/ pc'[r] = "cart" /\ local'[r] = x
      BY <1>0, <2>1 DEF m, b
    <2> HIDE DEF x
    <2>5. CASE pc'[r] = "cart" /\ local'[r] = x
      <3>1. Knows(r)' /\ pc'[r] \in Steps /\ local'[r] \in Memory
        BY <2>3, <2>5 DEF Knows, Buying, Steps
      <3>2. QED
        BY <1>1, <3>1, Proceeds
    <2>6. QED
      BY <1>2, <2>4, <2>5
  <1>4. CASE ReadCart(r)
    <2> DEFINE v == carts[local[r].cart].version
    <2>1. \/ pc'[r] = "done" /\ local'[r] = Blank
          \/ pc'[r] = "price" /\ local'[r] = [local[r] EXCEPT !.version = v]
      BY <1>0, <1>4 DEF ReadCart
    <2>2. v \in Nat
      BY <1>0 DEF CartRows
    <2>3. local[r].key \in Keys
      BY <1>0, <1>4 DEF ReadCart, Ready, Knows, Buying
    <2> HIDE DEF v
    <2>4. CASE pc'[r] = "price" /\ local'[r] = [local[r] EXCEPT !.version = v]
      <3>1. local'[r] \in Memory
        BY <1>0, <2>2, <2>4, Field
      <3>2. [local[r] EXCEPT !.version = v].key = local[r].key
        BY <1>0 DEF Memory
      <3>3. Knows(r)' /\ pc'[r] \in Steps
        BY <2>3, <2>4, <3>2 DEF Knows, Buying, Steps
      <3>4. QED
        BY <1>1, <3>1, <3>3, Proceeds
    <2>5. QED
      BY <1>2, <2>1, <2>4
  <1>5. CASE Price(r)
    <2> DEFINE n == Units(local[r].cart)
    <2>1. \/ pc'[r] = "done" /\ local'[r] = Blank
          \/ MayCalculate(r) /\ pc'[r] = "claim" /\ local'[r] = [local[r] EXCEPT !.amount = n]
      BY <1>0, <1>5 DEF Price
    <2>2. MayCalculate(r) => n \in Nat \ {0}
      BY <1>0, UnitsPositive DEF MayCalculate
    <2>3. local[r].key \in Keys
      BY <1>0, <1>5 DEF Price, Ready, Knows, Buying
    <2> HIDE DEF n
    <2>4. CASE MayCalculate(r) /\ pc'[r] = "claim" /\ local'[r] = [local[r] EXCEPT !.amount = n]
      <3>1. local'[r] \in Memory /\ n \in Nat \ {0}
        BY <1>0, <2>2, <2>4, Field
      <3>2. /\ [local[r] EXCEPT !.amount = n].key = local[r].key
            /\ [local[r] EXCEPT !.amount = n].amount = n
        BY <1>0 DEF Memory
      <3>3. Knows(r)' /\ pc'[r] \in Steps
        BY <2>3, <2>4, <3>1, <3>2 DEF Knows, Buying, Steps
      <3>4. QED
        BY <1>1, <3>1, <3>3, Proceeds
    <2>5. QED
      BY <1>2, <2>1, <2>4
  <1>6. CASE Claim(r)
    <2>1. \/ pc'[r] = "done" /\ local'[r] = Blank
          \/ pc'[r] = "commit" /\ local'[r] = [local[r] EXCEPT !.delta = wallet]
      BY <1>0, <1>6 DEF Claim
    <2>2. local[r].key \in Keys /\ local[r].amount \in Nat \ {0} /\ wallet \in Int
      BY <1>0, <1>6 DEF Claim, Ready, Knows, Buying, Types
    <2>3. CASE pc'[r] = "commit" /\ local'[r] = [local[r] EXCEPT !.delta = wallet]
      <3>1. local'[r] \in Memory
        BY <1>0, <2>2, <2>3, Field
      <3>2. /\ [local[r] EXCEPT !.delta = wallet].key = local[r].key
            /\ [local[r] EXCEPT !.delta = wallet].amount = local[r].amount
        BY <1>0 DEF Memory
      <3>3. Knows(r)' /\ pc'[r] \in Steps
        BY <2>2, <2>3, <3>2 DEF Knows, Buying, Steps
      <3>4. QED
        BY <1>1, <3>1, <3>3, Proceeds
    <2>4. QED
      BY <1>2, <2>1, <2>3
  <1>7. CASE BeginReserve(r)
    <2>1. pc'[r] = "reserve" /\ local'[r] = Blank
      BY <1>0, <1>7 DEF BeginReserve
    <2>2. Knows(r)' /\ pc'[r] \in Steps /\ local'[r] \in Memory
      BY <2>1, BlankNote DEF Knows, Buying, Steps
    <2>3. QED
      BY <1>1, <2>2, Proceeds
  <1>8. CASE BeginRelease(r)
    <2>1. PICK q \in Standing : pc'[r] = "release" /\ local'[r] = [Blank EXCEPT !.undoes = q]
      BY <1>0, <1>8 DEF BeginRelease
    <2>2. q \in Redeemed /\ q \in Requests
      BY <1>0 DEF Standing, Types
    <2>3. local'[r] \in Memory
      BY <2>1, <2>2, BlankNote, Field
    <2>4. [Blank EXCEPT !.undoes = q].undoes = q
      BY BlankNote DEF Memory
    <2>5. Knows(r)' /\ pc'[r] \in Steps
      BY <1>p, <2>1, <2>2, <2>4 DEF Knows, Buying, Steps
    <2>6. QED
      BY <1>1, <2>3, <2>5, Proceeds
  <1>9. CASE BeginJournal(r)
    <2>1. PICK delta \in {-1, 1} :
             pc'[r] = "post" /\ local'[r] = [Blank EXCEPT !.delta = delta, !.amount = wallet + delta]
      BY <1>0, <1>9 DEF BeginJournal
    <2>2. delta \in Int /\ wallet + delta \in Int
      BY <1>0 DEF Types
    <2> DEFINE n == wallet + delta
               x == [Blank EXCEPT !.delta = delta, !.amount = n]
    <2> HIDE DEF n
    <2>n. n \in Int /\ local'[r] = x
      BY <2>1, <2>2 DEF n
    <2>x. x \in Memory /\ x.undoes = Blank.undoes
      BY <2>2, <2>n, BlankNote DEF Memory
    <2>3. local'[r] \in Memory /\ local'[r].undoes = None
      BY <2>n, <2>x DEF Blank
    <2>4. Knows(r)' /\ pc'[r] \in Steps
      BY <2>1, <2>3 DEF Knows, Buying, Steps
    <2>5. QED
      BY <1>1, <2>3, <2>4, Proceeds
  <1>10. CASE BeginReversal(r)
    <2>1. PICK j \in Posted :
             /\ pc'[r] = "reverse"
             /\ local'[r] = [Blank EXCEPT !.undoes = j, !.delta = -journals[j].delta]
      BY <1>0, <1>10 DEF BeginReversal
    <2>2. j \in Requests \cup {Deposit} /\ -journals[j].delta \in Int
      BY <1>0 DEF Types
    <2> DEFINE n == -journals[j].delta
               x == [Blank EXCEPT !.undoes = j, !.delta = n]
    <2> HIDE DEF n
    <2>n. n \in Int /\ local'[r] = x
      BY <2>1, <2>2 DEF n
    <2>x. x \in Memory /\ x.undoes = j
      BY <2>2, <2>n, BlankNote DEF Memory
    <2>3. local'[r] \in Memory /\ local'[r].undoes = j
      BY <2>n, <2>x
    <2>4. Knows(r)' /\ pc'[r] \in Steps
      BY <1>p, <2>1, <2>3 DEF Knows, Buying, Steps
    <2>5. QED
      BY <1>1, <2>3, <2>4, Proceeds
  <1>11. CASE OpenReversal(r)
    <2> DEFINE n == wallet + local[r].delta
    <2>1. \/ pc'[r] = "done" /\ local'[r] = Blank
          \/ pc'[r] = "post" /\ local'[r] = [local[r] EXCEPT !.amount = n]
      BY <1>0, <1>11 DEF OpenReversal
    <2>2. n \in Int
      BY <1>0 DEF Types, Memory
    <2>3. local[r].undoes \in Posted
      BY <1>0, <1>11 DEF OpenReversal, Ready, Knows
    <2> HIDE DEF n
    <2>4. CASE pc'[r] = "post" /\ local'[r] = [local[r] EXCEPT !.amount = n]
      <3>1. local'[r] \in Memory
        BY <1>0, <2>2, <2>4, Field
      <3>2. [local[r] EXCEPT !.amount = n].undoes = local[r].undoes
        BY <1>0 DEF Memory
      <3>3. Knows(r)' /\ pc'[r] \in Steps
        BY <1>p, <2>3, <2>4, <3>2 DEF Knows, Buying, Steps
      <3>4. QED
        BY <1>1, <3>1, <3>3, Proceeds
    <2>5. QED
      BY <1>2, <2>1, <2>4
  <1>12. QED
    BY <1>3, <1>4, <1>5, <1>6, <1>7, <1>8, <1>9, <1>10, <1>11

LEMMA OwnStep ==
    ASSUME ShopInv, NEW r \in Requests, OneMoves(r), Step(r)
    PROVE  pc'[r] \in Steps /\ local'[r] \in Memory /\ Ready(r)'
  <1>1. CASE Commit(r) \/ Reserve(r) \/ Release(r) \/ Post(r)
    <2>1. pc'[r] = "done" /\ local'[r] = Blank
      BY <1>1 DEF Commit, Reserve, Release, Post, Answer, Advance, Goto, ShopInv, Types
    <2>2. QED
      BY <2>1, Answers
  <1>2. QED
    BY <1>1, OwnShop, OwnCart DEF Step

\* The rows a step writes are of their types.
LEMMA RowsTyped ==
    ASSUME ShopInv, NEW r \in Requests, Step(r), RowsOwn(r)
    PROVE  /\ holder' \in [Carts -> Makers] /\ undone' \subseteq [order : Requests, by : Requests]
           /\ \A o \in Ordered' : orders'[o] \in OrderRows
           /\ \A q \in Redeemed' : redemptions'[q] \in {"RESERVED", "COMMITTED", "REVERSED"}
           /\ usage' \in Int /\ wallet' \in Int /\ day' \in 0..1
           /\ Deposit \in Posted'
           /\ \A j \in Posted' : journals'[j].delta \in Int /\ journals'[j].undoes \in Posted' \cup {None}
           /\ reversed' \subseteq [row : Requests, by : Requests]
  <1>0. /\ Types /\ local[r] \in Memory /\ local[r].cart \in Carts /\ Ready(r)
        /\ local[r].amount \in Int /\ local[r].delta \in Int
    BY DEF ShopInv, Types, Memory
  <1>1. holder' \in [Carts -> Makers] /\ undone' \subseteq [order : Requests, by : Requests]
    <2>1. CASE UNCHANGED <<holder, undone>>
      BY <1>0, <2>1 DEF Types
    <2>2. CASE holder' = [holder EXCEPT ![local[r].cart] = r] /\ UNCHANGED undone
      BY <1>0, <2>2 DEF Types, Makers
    <2>3. ASSUME NEW c \in Carts, NEW s \in Statuses, Overwrite(r, c, s)
          PROVE  holder' \in [Carts -> Makers] /\ undone' \subseteq [order : Requests, by : Requests]
      <3>1. holder' = [holder EXCEPT ![c] = None] /\ holder[c] \in Requests \cup {None}
        BY <1>0, <2>3 DEF Types, Makers, Overwrite
      <3>2. undone' = undone \cup {[order |-> q, by |-> r] : q \in {holder[c]} \ {None}}
        BY <2>3 DEF Overwrite
      <3>3. {[order |-> q, by |-> r] : q \in {holder[c]} \ {None}} \subseteq [order : Requests, by : Requests]
        BY <3>1
      <3>4. QED
        BY <1>0, <3>1, <3>2, <3>3 DEF Types, Makers
    <2>4. QED
      BY <2>1, <2>2, <2>3, CartsAfter
  <1>2. \A o \in Ordered' : orders'[o] \in OrderRows
    <2>1. CASE UNCHANGED orders
      BY <1>0, <2>1 DEF Types, Ordered
    <2>2. CASE Commit(r) /\ MayCommit(r)
      <3> DEFINE row == [cart |-> local[r].cart, key |-> local[r].key, method |-> local[r].method,
                         day |-> local[r].day, amount |-> local[r].amount]
      <3>1. orders' = With(orders, r, row)
        BY <2>2 DEF Commit
      <3>2. local[r].key \in Keys /\ local[r].amount \in Nat \ {0}
        BY <1>0, <2>2 DEF Commit, Ready, Knows, Buying
      <3>3. row \in OrderRows
        BY <1>0, <3>2 DEF Memory, OrderRows
      <3> HIDE DEF row
      <3>4. QED
        BY <1>0, <3>1, <3>3, OrderedRow DEF Types
    <2>3. UNCHANGED orders \/ Commit(r)
      BY DEF Step, BeginCheckout, ReadCart, Price, Claim, BeginReserve, Reserve, BeginRelease,
             Release, BeginJournal, BeginReversal, OpenReversal, Post, shopVars
    <2>4. Commit(r) => UNCHANGED orders \/ MayCommit(r)
      BY DEF Commit
    <2>5. QED
      BY <2>1, <2>2, <2>3, <2>4
  <1>3. /\ \A q \in Redeemed' : redemptions'[q] \in {"RESERVED", "COMMITTED", "REVERSED"}
        /\ reversed' \subseteq [row : Requests, by : Requests] /\ usage' \in Int
    <2>1. CASE UNCHANGED <<redemptions, usage, reversed>>
      BY <1>0, <2>1 DEF Types, Redeemed
    <2>2. CASE Commit(r)
      <3>1. /\ redemptions' = redemptions \/ redemptions' = With(redemptions, r, "COMMITTED")
            /\ usage' \in {usage, usage + 1} /\ reversed' = reversed
        BY <2>2 DEF Commit
      <3>2. \A q \in Redeemed' : redemptions'[q] \in {"RESERVED", "COMMITTED", "REVERSED"}
        <4>1. CASE redemptions' = redemptions
          BY <1>0, <4>1 DEF Types, Redeemed
        <4>2. CASE redemptions' = With(redemptions, r, "COMMITTED")
          BY <1>0, <4>2, RedeemedRow DEF Types
        <4>3. QED
          BY <3>1, <4>1, <4>2
      <3>3. QED
        BY <1>0, <3>1, <3>2 DEF Types
    <2>3. CASE Reserve(r)
      BY <1>0, <2>3, RedeemedRow DEF Reserve, Types
    <2>4. CASE Release(r)
      <3>1. local[r].undoes \in Redeemed
        BY <1>0, <2>4 DEF Release, Ready, Knows
      <3>2. /\ Redeemed' = Redeemed /\ redemptions'[local[r].undoes] = "REVERSED"
            /\ \A p \in Redeemed \ {local[r].undoes} : redemptions'[p] = redemptions[p]
        BY <2>4, <3>1, ReversedRow DEF Release
      <3>3. reversed' = reversed \cup {[row |-> local[r].undoes, by |-> r]} /\ usage' = usage - 1
        BY <2>4 DEF Release
      <3>4. QED
        BY <1>0, <3>1, <3>2, <3>3 DEF Types
    <2>5. UNCHANGED <<redemptions, usage, reversed>> \/ Commit(r) \/ Reserve(r) \/ Release(r)
      BY DEF Step, BeginCheckout, ReadCart, Price, Claim, BeginReserve, BeginRelease,
             BeginJournal, BeginReversal, OpenReversal, Post, shopVars
    <2>6. QED
      BY <2>1, <2>2, <2>3, <2>4, <2>5
  <1>4. /\ Deposit \in Posted'
        /\ \A j \in Posted' : journals'[j].delta \in Int /\ journals'[j].undoes \in Posted' \cup {None}
    <2>1. CASE UNCHANGED journals
      BY <1>0, <2>1 DEF Types, Posted
    <2>2. CASE Post(r)
      <3>1. local[r].undoes \in Posted \cup {None}
        BY <1>0, <2>2 DEF Post, Ready, Knows
      <3> DEFINE row == [delta |-> local[r].delta, undoes |-> local[r].undoes]
      <3>2. journals' = With(journals, r, row) /\ row.delta \in Int /\ row.undoes \in Posted \cup {None}
        BY <1>0, <2>2, <3>1 DEF Post
      <3> HIDE DEF row
      <3>3. QED
        BY <1>0, <3>2, PostedRow DEF Types
    <2>3. UNCHANGED journals \/ Post(r)
      BY DEF Step, Commit, BeginCheckout, ReadCart, Price, Claim, BeginReserve, Reserve, BeginRelease,
             Release, BeginJournal, BeginReversal, OpenReversal, shopVars
    <2>4. QED
      BY <2>1, <2>2, <2>3
  <1>5. wallet' \in Int /\ day' \in 0..1
    <2>1. CASE Commit(r)
      <3>1. wallet' = wallet \/ wallet' = wallet - local[r].amount
        BY <2>1 DEF Commit, Debited
      <3>2. day' = day
        BY <2>1 DEF Commit
      <3>3. QED
        BY <1>0, <3>1, <3>2 DEF Types
    <2>2. CASE Post(r)
      BY <1>0, <2>2 DEF Post, Types
    <2>3. Commit(r) \/ Post(r) \/ UNCHANGED <<wallet, day>>
      BY DEF Step, BeginCheckout, ReadCart, Price, Claim, BeginReserve, Reserve, BeginRelease,
             Release, BeginJournal, BeginReversal, OpenReversal, shopVars
    <2>4. QED
      BY <1>0, <2>1, <2>2, <2>3 DEF Types
  <1>6. QED
    BY <1>1, <1>2, <1>3, <1>4, <1>5

\* What other requests know stays.
LEMMA OthersReady ==
    ASSUME ShopInv, NEW r \in Requests, OneMoves(r), RowsOwn(r), NEW q \in Requests, q # r
    PROVE  Ready(q)'
  <1>0. /\ pc \in [Requests -> Steps] /\ local \in [Requests -> Memory]
        /\ past \in [Requests -> SUBSET Requests] /\ Ready(q)
    BY DEF ShopInv, Types
  <1>1. pc'[q] = pc[q] /\ local'[q] = local[q] /\ past'[q] = past[q]
    BY <1>0 DEF OneMoves
  <1>2. \A a \in past'[q] : pc'[a] = "done"
    BY <1>0, <1>1 DEF OneMoves, Ready
  <1>3. /\ q \in Ordered' => q \in Ordered
        /\ q \in Redeemed' => q \in Redeemed /\ Redeemed \subseteq Redeemed'
        /\ q \in Posted' => q \in Posted
        /\ Redeemed \subseteq Redeemed' /\ Posted \subseteq Posted'
        /\ \A x \in reversed' : x \in reversed \/ x.by = r
    BY DEF RowsOwn
  <1>4. Knows(q)'
    BY <1>0, <1>1, <1>3 DEF Knows, Ready
  <1>5. QED
    BY <1>0, <1>1, <1>2, <1>3, <1>4 DEF Ready

LEMMA StepShop ==
    ASSUME ShopInv, NEW r \in Requests, Step(r)
    PROVE  ShopInv' /\ OneMoves(r) /\ RowsOwn(r)
  <1>1. OneMoves(r) /\ RowsOwn(r)
    BY StepMoves, StepOwns
  <1>2. pc'[r] \in Steps /\ local'[r] \in Memory /\ Ready(r)'
    BY <1>1, OwnStep
  <1>3. /\ pc' \in [Requests -> Steps] /\ local' \in [Requests -> Memory]
        /\ past' \in [Requests -> SUBSET Requests]
    <2>1. Answered \in SUBSET Requests
      BY DEF Answered
    <2>2. QED
      BY <1>1, <1>2, <2>1 DEF OneMoves, ShopInv, Types
  <1>4. carts' \in [Carts -> CartRows]
    BY CartsAfter
  <1>5. /\ Ordered' \subseteq Requests /\ Redeemed' \subseteq Requests
        /\ Posted' \subseteq Requests \cup {Deposit}
    BY <1>1 DEF RowsOwn, ShopInv, Types
  <1>6. Types'
    BY <1>1, <1>3, <1>4, <1>5, RowsTyped DEF Types
  <1>7. QED
    BY <1>1, <1>2, <1>6, OthersReady DEF ShopInv

LEMMA InitShop == CheckoutInit => ShopInv
  <1> SUFFICES ASSUME CheckoutInit
               PROVE  ShopInv
    OBVIOUS
  <1> USE DEF CheckoutInit, CartInit
  <1>1. carts \in [Carts -> CartRows]
    <2>1. \A c \in Carts : carts[c] \in CartRows
      BY SmallTables DEF CartRow, CartRows, Statuses
    <2>2. QED
      BY <2>1
  <1>2. local \in [Requests -> Memory]
    <2>1. \A c \in Carts : [Blank EXCEPT !.cart = c] \in Memory
      BY BlankNote, Field
    <2>2. QED
      BY <2>1 DEF Carts
  <1>3. pc \in [Requests -> Steps]
    BY DEF Steps
  <1>4. Ordered = {} /\ Redeemed = {} /\ Posted = {Deposit}
    BY DEF Ordered, Redeemed, Posted
  <1>5. Types
    BY <1>1, <1>2, <1>3, <1>4, CheckoutAssumption DEF Types, Makers
  <1>6. ASSUME NEW r \in Requests
        PROVE  Ready(r)
    <2>1. pc[r] \in {"idle", "recover"} /\ past[r] = {} /\ r # Deposit
      BY CheckoutAssumption
    <2>2. QED
      BY <1>4, <2>1 DEF Ready, Knows, Buying
  <1>7. QED
    BY <1>5, <1>6 DEF ShopInv

LEMMA NextShop ==
    ASSUME ShopInv, [CheckoutNext]_checkoutVars
    PROVE  ShopInv'
  <1>1. CASE Midnight
    BY <1>1 DEF Midnight, cartVars, requestVars, ShopInv, Types, Ready, Knows, Ordered, Redeemed, Posted
  <1>2. CASE UNCHANGED checkoutVars
    BY <1>2 DEF checkoutVars, shopVars, cartVars, requestVars, ShopInv, Types, Ready, Knows,
                Ordered, Redeemed, Posted
  <1>3. QED
    BY <1>1, <1>2, StepShop DEF CheckoutNext

\* The state of carts, requests and shop has its types, an order costs something, and no
\* journal undoes one that was never posted.
THEOREM CheckoutTypes == CheckoutSpec => []CheckoutTypeOK
  <1>1. ShopInv => CheckoutTypeOK
    <2> SUFFICES ASSUME ShopInv
                 PROVE  CheckoutTypeOK
      OBVIOUS
    <2>0. Types
      BY DEF ShopInv
    <2>1. ASSUME NEW c \in Carts
          PROVE  /\ carts[c].status \in Statuses /\ carts[c].version \in Nat
                 /\ Lines(c) \subseteq LineNames
                 /\ \A l \in Lines(c) : carts[c].lines[l] \in 1..Stock
      <3>1. carts[c] \in CartRows /\ carts[c].lines \in Tables
        BY <2>0 DEF Types, CartRows
      <3>2. QED
        BY <3>1, TableHas DEF Lines, CartRows
    <2>2. ASSUME NEW r \in Requests
          PROVE  DOMAIN local[r] = DOMAIN Blank
      BY <2>0 DEF Types, Memory, Blank
    <2>3. \A u \in undone : u.order \in Requests /\ u.by \in Requests
      BY <2>0 DEF Types
    <2>4. CartTypeOK
      BY <2>0, <2>1, <2>2, <2>3 DEF CartTypeOK, Types
    <2>5. \A o \in Ordered : o \in Requests /\ orders[o].amount \in Nat \ {0}
      BY <2>0 DEF Types, OrderRows
    <2>6. QED
      BY <2>0, <2>4, <2>5 DEF CheckoutTypeOK, Types
  <1>2. QED
    BY <1>1, InitShop, NextShop, PTL DEF CheckoutSpec

-----------------------------------------------------------------------------
(* The lines of a cart.                                                    *)

\* A request that is about to write a line has just read the cart.
LEMMA ReadsLine ==
    ASSUME ShopInv, NEW r \in Requests, Step(r), pc'[r] = "write"
    PROVE  UNCHANGED carts /\ (~local'[r].found => Lines(local'[r].cart) = {})
  <1> USE DEF Goto, Enter, Advance, Answer
  <1>0. /\ Types /\ pc \in [Requests -> Steps] /\ local \in [Requests -> Memory]
    BY DEF ShopInv, Types
  <1>1. CASE BeginAdd(r)
    <2>1. PICK c \in Carts : \E l \in FindLine(c) : Enter(r, "write", [l EXCEPT !.delta = 1])
      BY <1>1 DEF BeginAdd
    <2>2. PICK l \in FindLine(c) : Enter(r, "write", [l EXCEPT !.delta = 1])
      BY <2>1
    <2>3. l \in Memory /\ l.cart = c /\ (~l.found => Lines(c) = {})
      BY <1>0, AddsLine
    <2> DEFINE m == [l EXCEPT !.delta = 1]
    <2>4. m.cart = l.cart /\ m.found = l.found
      BY <2>3 DEF Memory
    <2>5. local'[r] = m
      BY <1>0, <2>2
    <2> HIDE DEF m
    <2>6. UNCHANGED carts
      BY <1>1 DEF BeginAdd
    <2>7. QED
      BY <2>3, <2>4, <2>5, <2>6
  <1>2. CASE ReadLine(r)
    <2> DEFINE todo == local[r].todo
    <2>1. PICK g \in DOMAIN todo, l \in FindLine(Mine) :
             Advance(r, "write", [l EXCEPT !.source = g[1], !.todo = todo, !.delta = todo[g]])
      BY <1>2 DEF ReadLine
    <2>2. l \in Memory /\ l.cart = Mine /\ (~l.found => Lines(Mine) = {})
      BY <1>0, AddsLine DEF Carts
    <2> DEFINE s == g[1]
               n == todo[g]
               m == [l EXCEPT !.source = s, !.todo = todo, !.delta = n]
    <2>3. local'[r] = m
      BY <1>0, <2>1
    <2> HIDE DEF todo, s, n
    <2>4. m.cart = l.cart /\ m.found = l.found
      BY <2>2 DEF Memory
    <2> HIDE DEF m
    <2>5. UNCHANGED carts
      BY <1>2 DEF ReadLine
    <2>6. QED
      BY <2>2, <2>3, <2>4, <2>5
  <1>3. BeginAdd(r) \/ ReadLine(r)
    <2>1. CASE CartStep(r)
      BY <1>0, <2>1 DEF CartStep, BeginAdd, WriteLine, ChangeLine, BeginEdit, ClearLines, AttachCoupon,
             BeginMerge, ReadLine, RetireGuest, BeginAbandon, Abandon, BeginRecover, Recover
    <2>2. CASE ~CartStep(r)
      BY <1>0, <2>2 DEF Step, BeginCheckout, ReadCart, Price, Claim, Commit, BeginReserve, Reserve,
             BeginRelease, Release, BeginJournal, BeginReversal, OpenReversal, Post
    <2>3. QED
      BY <2>1, <2>2
  <1>4. QED
    BY <1>1, <1>2, <1>3

LEMMA StepLines ==
    ASSUME ShopInv, LineInv, NEW r \in Requests, Step(r)
    PROVE  LineInv'
  <1>0. /\ pc \in [Requests -> Steps] /\ local \in [Requests -> Memory]
        /\ past \in [Requests -> SUBSET Requests] /\ OneMoves(r)
        /\ \A c \in Carts : Lines(c) \subseteq LineNames
    <2>1. \A c \in Carts : carts[c].lines \in Tables
      BY DEF ShopInv, Types, CartRows
    <2>2. QED
      BY <2>1, TableHas, StepMoves DEF ShopInv, Types, Lines
  <1>1. PICK name \in LineNames :
           /\ name[1] = r
           /\ \A d \in Carts : \A l \in Lines(d)' :
                 \/ l \in Lines(d)
                 \/ pc[r] = "write" /\ ~local[r].found /\ d = local[r].cart /\ l = name
    BY CartsAfter DEF LinesGrow
  <1>2. \A q \in Requests : /\ q # r => pc'[q] = pc[q] /\ local'[q] = local[q]
                            /\ pc[q] # "idle" => pc'[q] # "idle" /\ past'[q] = past[q]
                            /\ q # r => past'[q] = past[q]
    BY <1>0 DEF OneMoves
  <1>3. pc[r] # "done" /\ pc'[r] # "idle" /\ \A q \in Requests : r \notin past[q]
    BY <1>0 DEF OneMoves, ShopInv, Ready
  <1>4. \A c \in Carts : \A l \in Lines(c) : l[1] \in Requests \cup {None}
    BY <1>0 DEF LineNames, Makers
  <1>5. Made'
    <2> SUFFICES ASSUME NEW c \in Carts, NEW l \in Lines(c)', l[1] # None
                 PROVE  pc'[l[1]] # "idle"
      BY DEF Made
    <2>1. CASE l \in Lines(c)
      BY <1>2, <1>4, <2>1 DEF Made, LineInv
    <2>2. CASE l[1] = r
      BY <1>3, <2>2
    <2>3. QED
      BY <1>1, <2>1, <2>2
  <1>6. ASSUME NEW q \in Requests
        PROVE  Unseen(q)'
    <2>1. CASE q = r
      <3>1. CASE pc'[r] = "write" /\ ~local'[r].found
        <4>1. carts' = carts /\ Lines(local'[r].cart) = {}
          BY <3>1, ReadsLine
        <4>2. Lines(local[r].cart)' = {}
          BY <4>1 DEF Lines
        <4>3. QED
          BY <2>1, <4>2 DEF Unseen
      <3>2. QED
        BY <2>1, <3>1 DEF Unseen
    <2>2. CASE q # r
      <3> SUFFICES ASSUME pc[q] = "write", ~local[q].found, NEW l \in Lines(local[q].cart)'
                   PROVE  l[1] \in Requests \ {q} /\ l[1] \notin past[q]
        BY <1>2, <2>2 DEF Unseen
      <3>1. local[q].cart \in Carts
        BY <1>0 DEF Memory
      <3>2. local'[q] = local[q]
        BY <1>2, <2>2
      <3>3. l \in Lines(local[q].cart) \/ l = name
        BY <1>1, <3>1, <3>2 DEF Lines
      <3>4. QED
        BY <1>1, <1>3, <2>2, <3>3 DEF Unseen, LineInv
    <2>3. QED
      BY <2>1, <2>2
  <1>7. LinesMeet'
    <2> SUFFICES ASSUME NEW c \in Carts, NEW k \in Lines(c)', NEW l \in Lines(c)', k # l
                 PROVE  {k[1], l[1]} \subseteq Requests /\ k[1] # l[1] /\ k[1] \notin past'[l[1]]
      BY DEF LinesMeet
    <2>1. CASE k \in Lines(c) /\ l \in Lines(c)
      <3>1. {k[1], l[1]} \subseteq Requests /\ k[1] # l[1] /\ k[1] \notin past[l[1]]
        BY <2>1 DEF LineInv, LinesMeet
      <3>2. pc[l[1]] # "idle" \/ l[1] = None
        BY <2>1 DEF LineInv, Made
      <3>3. l[1] # None
        BY <3>1, CartAssumption
      <3>4. QED
        BY <1>2, <3>1, <3>2, <3>3
    <2>2. ASSUME NEW m \in Lines(c), pc[r] = "write", ~local[r].found, c = local[r].cart
          PROVE  m[1] \in Requests \ {r} /\ m[1] \notin past[r] /\ past'[m[1]] = past[m[1]]
      BY <1>2, <2>2 DEF LineInv, Unseen
    <2>3. CASE k \notin Lines(c) /\ l \in Lines(c)
      BY <1>1, <1>3, <2>2, <2>3
    <2>4. CASE k \in Lines(c) /\ l \notin Lines(c)
      BY <1>1, <1>2, <2>2, <2>4
    <2>5. CASE k \notin Lines(c) /\ l \notin Lines(c)
      BY <1>1, <2>5
    <2>6. QED
      BY <2>1, <2>3, <2>4, <2>5
  <1>8. QED
    BY <1>5, <1>6, <1>7 DEF LineInv

LEMMA InitLines == CheckoutInit => LineInv
  <1> SUFFICES ASSUME CheckoutInit
               PROVE  LineInv
    OBVIOUS
  <1>1. \A c \in Carts : Lines(c) = {FirstLine}
    BY DEF CheckoutInit, CartInit, Lines, CartRow, LineOf
  <1>2. FirstLine[1] = None
    BY DEF FirstLine
  <1>3. \A r \in Requests : pc[r] # "write"
    BY DEF CheckoutInit, CartInit
  <1>4. QED
    BY <1>1, <1>2, <1>3 DEF LineInv, Made, LinesMeet, Unseen

LEMMA NextLines ==
    ASSUME ShopInv, LineInv, [CheckoutNext]_checkoutVars
    PROVE  LineInv'
  <1>1. CASE UNCHANGED cartVars
    BY <1>1 DEF cartVars, requestVars, LineInv, Made, LinesMeet, Unseen, Lines
  <1>2. QED
    BY <1>1, StepLines DEF CheckoutNext, Midnight, checkoutVars

\* A cart holds two lines of the variant only when two requests made them that overlapped:
\* neither was answered before the other began (addItem and mergeGuestCart read the line,
\* then write it).
THEOREM LinesMeetAlways == CheckoutSpec => []LinesMeet
  <1>1. LineInv => LinesMeet
    BY DEF LineInv
  <1>2. QED
    BY <1>1, InitShop, NextShop, InitLines, NextLines, PTL DEF CheckoutSpec

-----------------------------------------------------------------------------
(* The conversion of a cart.                                               *)

\* Whoever is going to overwrite a cart has just seen it unsold, or did before.
LEMMA TurnsSaw ==
    ASSUME ShopInv, NEW r \in Requests, Step(r), NEW c \in Carts, Turns(r, c)'
    PROVE  /\ UNCHANGED holder
           /\ \/ pc[r] = "idle" /\ carts[c].status \in {"ACTIVE", "ABANDONED"}
              \/ pc[r] # "idle" /\ Turns(r, c)
  <1> USE DEF Goto, Enter, Advance, Answer, Idle
  <1>0. /\ Types /\ pc \in [Requests -> Steps] /\ local \in [Requests -> Memory]
        /\ local[r] \in Memory
    BY DEF ShopInv, Types
  <1>1. ASSUME NEW d \in Carts
        PROVE  [Blank EXCEPT !.cart = d].cart = d
    BY BlankNote DEF Memory
  <1>2. CASE BeginAbandon(r) \/ BeginRecover(r)
    <2>1. \E d \in Carts : /\ carts[d].status \in {"ACTIVE", "ABANDONED"}
                           /\ pc[r] = "idle" /\ pc'[r] \in {"abandon", "recover"}
                           /\ local'[r] = [Blank EXCEPT !.cart = d] /\ UNCHANGED holder
      BY <1>0, <1>2 DEF BeginAbandon, BeginRecover
    <2>2. QED
      BY <1>1, <2>1 DEF Turns
  <1>3. CASE BeginMerge(r)
    <2>1. /\ \A d \in Carts : carts[d].status = "ACTIVE"
          /\ pc[r] = "idle" /\ UNCHANGED holder
      BY <1>3 DEF BeginMerge
    <2>2. QED
      BY <2>1
  <1>4. CASE ReadLine(r) \/ WriteLine(r)
    <2>1. pc[r] # "idle" /\ UNCHANGED holder /\ pc'[r] \notin {"abandon", "recover"}
      BY <1>0, <1>4 DEF ReadLine, WriteLine
    <2>2. c = Guest
      BY <2>1 DEF Turns
    <2>3. ReadLine(r) => pc[r] = "line"
      BY DEF ReadLine
    <2>4. WriteLine(r) => pc[r] = "write" /\ (pc'[r] = "done" \/ local[r].todo # NoLines)
      BY <1>0 DEF WriteLine
    <2>5. pc'[r] # "done"
      BY DEF Turns
    <2>6. QED
      BY <1>4, <2>1, <2>2, <2>3, <2>4, <2>5 DEF Turns
  <1>5. CASE BeginAdd(r)
    <2>1. pc'[r] = "write"
      BY <1>0, <1>5 DEF BeginAdd
    <2>2. local'[r].todo = NoLines
      <3>1. PICK d \in Carts : \E l \in FindLine(d) : Enter(r, "write", [l EXCEPT !.delta = 1])
        BY <1>5 DEF BeginAdd
      <3>2. PICK l \in FindLine(d) : Enter(r, "write", [l EXCEPT !.delta = 1])
        BY <3>1
      <3>3. l \in Memory /\ l.todo = NoLines
        BY <1>0, AddsLine
      <3>4. [l EXCEPT !.delta = 1].todo = l.todo
        BY <3>3 DEF Memory
      <3>5. local'[r] = [l EXCEPT !.delta = 1]
        BY <1>0, <3>2
      <3>6. QED
        BY <3>3, <3>4, <3>5
    <2>3. QED
      BY <2>1, <2>2 DEF Turns
  <1>6. pc'[r] \in {"line", "retire", "write", "abandon", "recover"}
    BY DEF Turns
  <1>7. BeginAbandon(r) \/ BeginRecover(r) \/ BeginMerge(r) \/ ReadLine(r) \/ WriteLine(r) \/ BeginAdd(r)
    <2>1. CASE CartStep(r)
      BY <1>0, <1>6, <2>1 DEF CartStep, ChangeLine, BeginEdit, ClearLines, AttachCoupon,
             RetireGuest, Abandon, Recover
    <2>2. CASE ~CartStep(r)
      BY <1>0, <1>6, <2>2 DEF Step, BeginCheckout, ReadCart, Price, Claim, Commit, BeginReserve, Reserve,
             BeginRelease, Release, BeginJournal, BeginReversal, OpenReversal, Post
    <2>3. QED
      BY <2>1, <2>2
  <1>8. QED
    BY <1>2, <1>3, <1>4, <1>5, <1>7

\* What a transaction that commits an order writes.
LEMMA Sells ==
    ASSUME ShopInv, NEW r \in Requests, Commit(r), MayCommit(r)
    PROVE  /\ pc[r] = "commit" /\ UNCHANGED undone /\ local[r].cart \in Carts
           /\ holder' = [holder EXCEPT ![local[r].cart] = r]
           /\ \A d \in Carts :
                 carts'[d].status = IF d = local[r].cart THEN "CONVERTED" ELSE carts[d].status
           /\ Ordered' = Ordered \cup {r} /\ \A o \in Ordered : orders'[o] = orders[o]
           /\ orders'[r].cart = local[r].cart /\ orders'[r].key = local[r].key
           /\ orders'[r].method = local[r].method /\ orders'[r].day = local[r].day
           /\ orders'[r].amount = local[r].amount
  <1>0. Types /\ Ready(r) /\ local[r].cart \in Carts /\ pc[r] = "commit"
    BY DEF ShopInv, Types, Memory, Commit
  <1>1. /\ carts' = [carts EXCEPT ![local[r].cart].status = "CONVERTED",
                                  ![local[r].cart].version = @ + 1]
        /\ holder' = [holder EXCEPT ![local[r].cart] = r] /\ UNCHANGED undone
        /\ orders' = With(orders, r, [cart |-> local[r].cart, key |-> local[r].key,
                                      method |-> local[r].method, day |-> local[r].day,
                                      amount |-> local[r].amount])
    BY DEF Commit
  <1>2. "CONVERTED" \in Statuses
    BY DEF Statuses
  <1>3. \A d \in Carts :
           carts'[d].status = IF d = local[r].cart THEN "CONVERTED" ELSE carts[d].status
    BY <1>0, <1>1, <1>2, Restated
  <1>4. r \notin Ordered
    BY <1>0 DEF Ready
  <1>5. /\ Ordered' = Ordered \cup {r} /\ \A o \in Ordered : orders'[o] = orders[o]
        /\ orders'[r] = [cart |-> local[r].cart, key |-> local[r].key, method |-> local[r].method,
                         day |-> local[r].day, amount |-> local[r].amount]
    BY <1>1, <1>4, OrderedRow
  <1>6. /\ orders'[r].cart = local[r].cart /\ orders'[r].key = local[r].key
        /\ orders'[r].method = local[r].method /\ orders'[r].day = local[r].day
        /\ orders'[r].amount = local[r].amount
    BY <1>5
  <1>7. UNCHANGED undone /\ holder' = [holder EXCEPT ![local[r].cart] = r]
    BY <1>1
  <1>8. QED
    BY <1>0, <1>3, <1>5, <1>6, <1>7

\* No other step writes orders.
LEMMA OrdersAfter ==
    ASSUME NEW r \in Requests, Step(r)
    PROVE  UNCHANGED orders \/ (Commit(r) /\ MayCommit(r))
  <1>1. UNCHANGED orders \/ Commit(r)
    BY DEF Step, BeginCheckout, ReadCart, Price, Claim, BeginReserve, Reserve, BeginRelease,
           Release, BeginJournal, BeginReversal, OpenReversal, Post, shopVars
  <1>2. CASE Commit(r)
    <2>1. CASE MayCommit(r)
      BY <1>2, <2>1
    <2>2. CASE ~MayCommit(r)
      BY <1>2, <2>2 DEF Commit
    <2>3. QED
      BY <2>1, <2>2
  <1>3. QED
    BY <1>1, <1>2

\* A transaction that is open has claimed its cart.
LEMMA Claims ==
    ASSUME ShopInv, NEW r \in Requests, Step(r), pc'[r] = "commit"
    PROVE  /\ Claim(r) /\ pc[r] = "claim" /\ ~Locked(local[r].cart) /\ MayClaim(r) /\ Affords(r)
           /\ local'[r].cart = local[r].cart /\ local'[r].key = local[r].key
           /\ local'[r].method = local[r].method /\ local'[r].coupon = local[r].coupon
           /\ local'[r].amount = local[r].amount /\ local'[r].day = local[r].day
  <1> USE DEF Goto, Enter, Advance, Answer
  <1>0. /\ pc \in [Requests -> Steps] /\ local \in [Requests -> Memory] /\ local[r] \in Memory
    BY DEF ShopInv, Types
  <1>1. Claim(r)
    <2>1. CASE CartStep(r)
      BY <1>0, <2>1 DEF CartStep, BeginAdd, WriteLine, ChangeLine, BeginEdit, ClearLines, AttachCoupon,
             BeginMerge, ReadLine, RetireGuest, BeginAbandon, Abandon, BeginRecover, Recover
    <2>2. CASE ~CartStep(r)
      BY <1>0, <2>2 DEF Step, BeginCheckout, ReadCart, Price, Commit, BeginReserve, Reserve,
             BeginRelease, Release, BeginJournal, BeginReversal, OpenReversal, Post
    <2>3. QED
      BY <2>1, <2>2
  <1>2. /\ pc[r] = "claim" /\ ~Locked(local[r].cart) /\ MayClaim(r) /\ Affords(r)
        /\ local'[r] = [local[r] EXCEPT !.delta = wallet]
    BY <1>0, <1>1 DEF Claim
  <1> DEFINE m == [local[r] EXCEPT !.delta = wallet]
  <1>3. /\ m.cart = local[r].cart /\ m.key = local[r].key /\ m.method = local[r].method
        /\ m.coupon = local[r].coupon /\ m.amount = local[r].amount /\ m.day = local[r].day
    BY <1>0 DEF Memory
  <1> HIDE DEF m
  <1>4. local'[r] = m
    BY <1>2 DEF m
  <1>5. QED
    BY <1>1, <1>2, <1>3, <1>4

LEMMA StepSale ==
    ASSUME ShopInv, SaleInv, NEW r \in Requests, Step(r)
    PROVE  SaleInv'
  <1>0. /\ pc \in [Requests -> Steps] /\ local \in [Requests -> Memory]
        /\ past \in [Requests -> SUBSET Requests] /\ holder \in [Carts -> Makers]
        /\ undone \subseteq [order : Requests, by : Requests]
        /\ Ordered \subseteq Requests /\ \A o \in Ordered : orders[o].cart \in Carts
        /\ OneMoves(r) /\ RowsOwn(r) /\ None \notin Requests
        /\ \A q \in Requests : local[q].cart \in Carts
    BY StepMoves, StepOwns, CartAssumption DEF ShopInv, Types, OrderRows, Memory
  <1>1. \A q \in Requests : /\ q # r => pc'[q] = pc[q] /\ local'[q] = local[q] /\ past'[q] = past[q]
                            /\ pc[q] # "idle" => pc'[q] # "idle" /\ past'[q] = past[q]
    BY <1>0 DEF OneMoves
  <1>2. pc[r] # "done" /\ pc'[r] # "idle" /\ past'[r] \subseteq Requests
        /\ \A q \in Requests : r \notin past[q]
    BY <1>0, OwnPast DEF OneMoves, ShopInv, Ready
  <1>3. /\ Sold /\ Kept /\ Late
        /\ \A q \in Requests : Claimed(q) /\ Turned(q)
    BY DEF SaleInv
  <1> DEFINE Quiet == StatusesStay /\ UNCHANGED <<holder, undone, orders>>
             Sale == Commit(r) /\ MayCommit(r)
             Over(c, s) == /\ Overwriting(r, c, s) /\ Overwrite(r, c, s) /\ UNCHANGED orders
                           /\ \A d \in Carts : carts'[d].status = IF d = c THEN s ELSE carts[d].status
  <1>4. Quiet \/ Sale \/ \E c \in Carts, s \in Statuses : Over(c, s)
    BY CartsAfter, OrdersAfter
  <1>5. ASSUME Quiet
        PROVE  (Sold /\ Kept)' /\ undone' = undone
               /\ \A d \in Carts : holder'[d] = holder[d] /\ carts'[d].status = carts[d].status
    BY <1>3, <1>5 DEF Sold, Kept, StatusesStay, Ordered
  <1>6. ASSUME Sale
        PROVE  /\ (Sold /\ Kept)' /\ undone' = undone
               /\ \A d \in Carts : /\ d = local[r].cart => holder'[d] = r
                                   /\ d # local[r].cart => /\ holder'[d] = holder[d]
                                                           /\ carts'[d].status = carts[d].status
               /\ pc[r] = "commit"
    <2>1. /\ pc[r] = "commit" /\ UNCHANGED undone /\ local[r].cart \in Carts
          /\ holder' = [holder EXCEPT ![local[r].cart] = r]
          /\ \A d \in Carts :
                carts'[d].status = IF d = local[r].cart THEN "CONVERTED" ELSE carts[d].status
          /\ Ordered' = Ordered \cup {r} /\ \A o \in Ordered : orders'[o] = orders[o]
          /\ orders'[r].cart = local[r].cart
      BY <1>6, Sells
    <2>2. holder[local[r].cart] = None
      BY <1>3, <2>1 DEF Claimed, Sold
    <2>3. Sold'
      BY <1>0, <1>3, <2>1 DEF Sold
    <2>4. Kept'
      BY <1>0, <1>3, <2>1, <2>2 DEF Kept
    <2>5. QED
      BY <1>0, <2>1, <2>3, <2>4
  <1>7. ASSUME NEW c \in Carts, NEW s \in Statuses, Over(c, s)
        PROVE  /\ (Sold /\ Kept /\ Late)' /\ ~Locked(c)
               /\ \A d \in Carts : /\ holder'[d] \in {holder[d], None}
                                   /\ d # c => carts'[d].status = carts[d].status
    <2>1. /\ ~Locked(c) /\ holder' = [holder EXCEPT ![c] = None]
          /\ undone' = undone \cup {[order |-> q, by |-> r] : q \in {holder[c]} \ {None}}
          /\ Ordered' = Ordered /\ orders' = orders
      BY <1>7 DEF Overwrite, Ordered
    <2>2. \A d \in Carts : /\ d # c => holder'[d] = holder[d]
                           /\ d = c => holder'[d] = None
      BY <1>0, <2>1
    <2>3. Sold'
      BY <1>3, <1>7, <2>2 DEF Sold
    <2>4. Kept'
      <3> SUFFICES ASSUME NEW o \in Ordered, holder'[orders[o].cart] # o
                   PROVE  \E u \in undone' : u.order = o
        BY <2>1 DEF Kept
      <3>1. CASE holder[orders[o].cart] = o
        <4>1. orders[o].cart = c /\ holder[c] = o /\ o # None
          BY <1>0, <2>2, <3>1
        <4>2. [order |-> o, by |-> r] \in undone'
          BY <2>1, <4>1
        <4>3. QED
          BY <4>2
      <3>2. CASE holder[orders[o].cart] # o
        BY <1>3, <2>1, <3>2 DEF Kept
      <3>3. QED
        BY <3>1, <3>2
    <2>5. Late'
      <3> SUFFICES ASSUME NEW u \in undone'
                   PROVE  pc'[u.by] # "idle" /\ u.order \notin past'[u.by]
        BY DEF Late
      <3>1. CASE u \in undone
        BY <1>0, <1>1, <1>3, <3>1 DEF Late
      <3>2. CASE u = [order |-> holder[c], by |-> r] /\ holder[c] # None
        <4>1. Turns(r, c) /\ pc[r] # "idle"
          BY <1>7 DEF Overwriting, Turns
        <4>2. holder[c] \notin past[r]
          BY <1>3, <4>1 DEF Turned
        <4>3. QED
          BY <1>1, <1>2, <3>2, <4>1, <4>2
      <3>3. QED
        BY <2>1, <3>1, <3>2
    <2>6. QED
      BY <1>7, <2>1, <2>2, <2>3, <2>4, <2>5
  <1>8. undone' = undone => Late'
    BY <1>0, <1>1, <1>3 DEF Late
  <1>9. ASSUME NEW q \in Requests, pc'[q] = "commit"
        PROVE  /\ carts'[local'[q].cart].status = "ACTIVE"
               /\ \A p \in Requests \ {q} : pc'[p] = "commit" => local'[p].cart # local'[q].cart
    <2>1. CASE pc'[r] # "commit"
      <3>1. q # r /\ Claimed(q) /\ pc[q] = "commit" /\ local'[q] = local[q]
        BY <1>1, <1>3, <1>9, <2>1
      <3>2. \A p \in Requests \ {q} : pc'[p] = "commit" => local'[p].cart # local'[q].cart
        BY <1>1, <2>1, <3>1 DEF Claimed
      <3>3. Sale => local[r].cart # local[q].cart
        BY <1>6, <3>1 DEF Claimed
      <3>4. \A c \in Carts : ~Locked(c) => c # local[q].cart
        BY <3>1 DEF Locked
      <3>5. carts'[local[q].cart].status = "ACTIVE"
        BY <1>0, <1>4, <1>5, <1>6, <1>7, <3>1, <3>3, <3>4 DEF Claimed
      <3>6. QED
        BY <3>1, <3>2, <3>5
    <2>2. CASE pc'[r] = "commit"
      <3>1. /\ Claim(r) /\ ~Locked(local[r].cart) /\ MayClaim(r) /\ local'[r].cart = local[r].cart
        BY <2>2, Claims
      <3>2. UNCHANGED carts
        BY <3>1 DEF Claim
      <3>3. \A p \in Requests \ {r} : pc[p] = "commit" => local[p].cart # local[r].cart
        BY <3>1 DEF Locked
      <3>4. QED
        BY <1>1, <1>3, <1>9, <3>1, <3>2, <3>3 DEF Claimed, MayClaim
    <2>3. QED
      BY <2>1, <2>2
  <1>10. ASSUME NEW q \in Requests, NEW c \in Carts, Turns(q, c)'
         PROVE  holder'[c] \notin past'[q]
    <2>1. CASE q # r
      <3>1. Turns(q, c) /\ past'[q] = past[q] /\ past[q] \subseteq Requests
        BY <1>0, <1>1, <1>10, <2>1 DEF Turns
      <3>2. holder[c] \notin past[q] /\ r \notin past[q] /\ None \notin past[q]
        BY <1>0, <1>2, <1>3, <3>1 DEF Turned
      <3>3. holder'[c] \in {holder[c], r, None}
        BY <1>4, <1>5, <1>6, <1>7
      <3>4. QED
        BY <3>1, <3>2, <3>3
    <2>2. CASE q = r
      <3>1. /\ UNCHANGED holder
            /\ \/ pc[r] = "idle" /\ carts[c].status \in {"ACTIVE", "ABANDONED"}
               \/ pc[r] # "idle" /\ Turns(r, c)
        BY <1>10, <2>2, TurnsSaw
      <3>2. CASE pc[r] = "idle" /\ carts[c].status \in {"ACTIVE", "ABANDONED"}
        BY <1>0, <1>2, <1>3, <2>2, <3>1, <3>2 DEF Sold
      <3>3. CASE pc[r] # "idle" /\ Turns(r, c)
        BY <1>1, <1>3, <2>2, <3>1, <3>3 DEF Turned
      <3>4. QED
        BY <3>1, <3>2, <3>3
    <2>3. QED
      BY <2>1, <2>2
  <1>11. (Sold /\ Kept /\ Late)'
    BY <1>4, <1>5, <1>6, <1>7, <1>8
  <1>12. ASSUME NEW q \in Requests
         PROVE  Claimed(q)' /\ Turned(q)'
    BY <1>9, <1>10 DEF Claimed, Turned
  <1>13. QED
    BY <1>11, <1>12 DEF SaleInv

LEMMA InitSale == CheckoutInit => SaleInv
  <1> SUFFICES ASSUME CheckoutInit
               PROVE  SaleInv
    OBVIOUS
  <1>1. Ordered = {} /\ undone = {} /\ \A c \in Carts : holder[c] = None
    BY DEF CheckoutInit, CartInit, Ordered
  <1>2. \A r \in Requests : pc[r] # "commit" /\ past[r] = {}
    BY DEF CheckoutInit, CartInit
  <1>3. QED
    BY <1>1, <1>2 DEF SaleInv, Sold, Kept, Late, Claimed, Turned

LEMMA NextSale ==
    ASSUME ShopInv, SaleInv, [CheckoutNext]_checkoutVars
    PROVE  SaleInv'
  <1>1. CASE UNCHANGED <<cartVars, orders>>
    BY <1>1 DEF cartVars, requestVars, SaleInv, Sold, Kept, Late, Claimed, Turned, Turns, Ordered
  <1>2. QED
    BY <1>1, StepSale DEF CheckoutNext, Midnight, checkoutVars, shopVars

\* A cart that was sold is turned back only by a request that began before the order was
\* answered (mergeGuestCart, recordAbandonedCart and recoverCart write without a look at the
\* status), and without that no cart is sold twice.
THEOREM ConversionStandsAlways == CheckoutSpec => []ConversionStands
  <1>1. ShopInv /\ SaleInv => ConversionStands
    <2> SUFFICES ASSUME ShopInv, SaleInv
                 PROVE  ConversionStands
      OBVIOUS
    <2>1. \A u \in undone : u.order \notin past[u.by]
      BY DEF SaleInv, Late
    <2>2. ASSUME NEW p \in Ordered, NEW q \in Ordered, p # q, orders[p].cart = orders[q].cart
          PROVE  \E u \in undone : u.order \in {p, q}
      <3>1. holder[orders[p].cart] # p \/ holder[orders[q].cart] # q
        BY <2>2
      <3>2. QED
        BY <3>1 DEF SaleInv, Kept
    <2>3. QED
      BY <2>1, <2>2 DEF ConversionStands
  <1>2. QED
    BY <1>1, InitShop, NextShop, InitSale, NextSale, PTL DEF CheckoutSpec


-----------------------------------------------------------------------------
(* Keys and numbers.                                                       *)

\* No request that was answered before r began has placed the order r asks for.
FirstOfNumber(r) ==
    pc[r] \in Buying => \A o \in past[r] \cap Ordered : Number(orders[o]) # Number(local[r])

KeysDiffer == \A p, q \in Ordered : orders[p].key = orders[q].key => p = q

KeyInv == KeysDiffer /\ \A r \in Requests : FirstOfNumber(r)

-----------------------------------------------------------------------------
(* The coupon.                                                             *)

Counted == IsFiniteSet(reversed) /\ usage = Cardinality(Redeemed) - Cardinality(reversed)

\* Who redeems began when the limit was not reached, reversals aside.
Redeems(r) ==
    \/ pc[r] = "reserve"
    \/ pc[r] \in {"claim", "commit"} /\ local[r].coupon
    \/ r \in Redeemed

InLimit(r) ==
    Redeems(r) => Cardinality(past[r] \cap Redeemed) < Limit + Cardinality(reversed)

\* A redemption that was reversed is marked, so whoever is going to reverse it again began
\* before.
Marked == \A b \in reversed : /\ b.row \in Redeemed /\ redemptions[b.row] = "REVERSED"
                              /\ pc[b.by] = "done"

Again(r) ==
    pc[r] = "release" => \A b \in reversed : b.row = local[r].undoes => b.by \notin past[r]

Together == \A a, b \in reversed : a.row = b.row /\ a # b => a.by \notin past[b.by]

CouponInv == Counted /\ Marked /\ Together /\ \A r \in Requests : InLimit(r) /\ Again(r)

-----------------------------------------------------------------------------
(* What other requests see of a step.                                      *)

LEMMA Others ==
    ASSUME ShopInv, NEW r \in Requests, Step(r)
    PROVE  /\ \A q \in Requests :
                 /\ q # r => pc'[q] = pc[q] /\ local'[q] = local[q] /\ past'[q] = past[q]
                 /\ pc[q] # "idle" => past'[q] = past[q]
                 /\ r \notin past[q] /\ past[q] \subseteq Requests
           /\ pc[r] # "done" /\ past'[r] \subseteq Requests /\ r \notin past'[r]
           /\ \A q \in Requests : pc[q] = "done" => pc'[q] = "done" /\ q # r
           /\ r \notin Ordered /\ r \notin Redeemed /\ r \notin Posted /\ \A x \in reversed : x.by # r
           /\ \A q \in Ordered \cup Redeemed \cup (Posted \ {Deposit}) : q \in Requests /\ pc[q] = "done"
           /\ RowsOwn(r)
  <1>0. /\ pc \in [Requests -> Steps] /\ local \in [Requests -> Memory]
        /\ past \in [Requests -> SUBSET Requests] /\ OneMoves(r) /\ RowsOwn(r)
        /\ \A q \in Requests : Ready(q)
    BY StepMoves, StepOwns DEF ShopInv, Types
  <1>1. \A q \in Requests :
           /\ q # r => pc'[q] = pc[q] /\ local'[q] = local[q] /\ past'[q] = past[q]
           /\ pc[q] # "idle" => past'[q] = past[q]
    BY <1>0 DEF OneMoves
  <1>2. pc[r] # "done" /\ \A q \in Requests : r \notin past[q] /\ past[q] \subseteq Requests
    BY <1>0 DEF OneMoves, Ready
  <1>3. past'[r] = past[r] \/ past'[r] = Answered
    BY <1>0 DEF OneMoves
  <1>4. past'[r] \subseteq Requests /\ r \notin past'[r]
    BY <1>2, <1>3 DEF Answered
  <1>5. \A q \in Requests : pc[q] = "done" => pc'[q] = "done" /\ q # r
    BY <1>1, <1>2
  <1>6. r \notin Ordered /\ r \notin Redeemed /\ r \notin Posted /\ \A x \in reversed : x.by # r
    BY <1>0, <1>2 DEF Ready
  <1>7. \A q \in Ordered \cup Redeemed \cup (Posted \ {Deposit}) : q \in Requests /\ pc[q] = "done"
    BY <1>0 DEF ShopInv, Types, Ready
  <1>8. QED
    BY <1>0, <1>1, <1>2, <1>4, <1>5, <1>6, <1>7

-----------------------------------------------------------------------------
(* Keys and numbers.                                                       *)

\* A request that buys has just found no order of its number, or goes on with what it asks.
LEMMA BuysOn ==
    ASSUME ShopInv, NEW r \in Requests, Step(r), pc'[r] \in Buying
    PROVE  /\ UNCHANGED orders
           /\ \/ \A o \in Ordered : Number(orders[o]) # Number(local'[r])
              \/ /\ pc[r] \in Buying
                 /\ local'[r].cart = local[r].cart /\ local'[r].key = local[r].key
                 /\ local'[r].method = local[r].method /\ local'[r].day = local[r].day
  <1> USE DEF Goto, Enter, Advance, Answer
  <1>0. /\ pc \in [Requests -> Steps] /\ local \in [Requests -> Memory] /\ local[r] \in Memory
    BY DEF ShopInv, Types
  <1>1. CASE BeginCheckout(r)
    <2>1. PICK c \in Carts, k \in Keys, tender \in Tenders :
             LET x == [Blank EXCEPT !.cart = c, !.key = k, !.method = tender[1],
                                    !.coupon = tender[2], !.day = day]
             IN  IF Replayed(x) # {} THEN Enter(r, "done", Blank) ELSE Enter(r, "cart", x)
      BY <1>1 DEF BeginCheckout
    <2> DEFINE x == [Blank EXCEPT !.cart = c, !.key = k, !.method = tender[1],
                                  !.coupon = tender[2], !.day = day]
    <2> HIDE DEF x
    <2>2. IF Replayed(x) # {} THEN Enter(r, "done", Blank) ELSE Enter(r, "cart", x)
      BY <2>1 DEF x
    <2>3. Replayed(x) = {} /\ local'[r] = x
      BY <1>0, <2>2 DEF Buying
    <2>4. \A o \in Ordered : Number(orders[o]) # Number(x)
      BY <2>3 DEF Replayed, Numbered
    <2>5. UNCHANGED orders
      BY <1>1 DEF BeginCheckout, shopVars
    <2>6. QED
      BY <2>3, <2>4, <2>5
  <1>2. CASE ReadCart(r) \/ Price(r) \/ Claim(r)
    <2>1. pc[r] \in Buying /\ UNCHANGED orders
      BY <1>2 DEF ReadCart, Price, Claim, Buying, shopVars
    <2>2. \E n : \/ local'[r] = [local[r] EXCEPT !.version = n]
                 \/ local'[r] = [local[r] EXCEPT !.amount = n]
                 \/ local'[r] = [local[r] EXCEPT !.delta = n]
      BY <1>0, <1>2 DEF ReadCart, Price, Claim, Buying
    <2>3. ASSUME NEW n, NEW x, x \in { [local[r] EXCEPT !.version = n], [local[r] EXCEPT !.amount = n],
                                       [local[r] EXCEPT !.delta = n] }
          PROVE  /\ x.cart = local[r].cart /\ x.key = local[r].key
                 /\ x.method = local[r].method /\ x.day = local[r].day
      BY <1>0, <2>3 DEF Memory
    <2>4. QED
      BY <2>1, <2>2, <2>3
  <1>3. BeginCheckout(r) \/ ReadCart(r) \/ Price(r) \/ Claim(r)
    <2>1. CASE CartStep(r)
      BY <1>0, <2>1 DEF Buying, CartStep, BeginAdd, WriteLine, ChangeLine, BeginEdit, ClearLines,
             AttachCoupon, BeginMerge, ReadLine, RetireGuest, BeginAbandon, Abandon, BeginRecover, Recover
    <2>2. CASE ~CartStep(r)
      BY <1>0, <2>2 DEF Buying, Step, Commit, BeginReserve, Reserve,
             BeginRelease, Release, BeginJournal, BeginReversal, OpenReversal, Post
    <2>3. QED
      BY <2>1, <2>2
  <1>4. QED
    BY <1>1, <1>2, <1>3

LEMMA StepKeys ==
    ASSUME ShopInv, KeyInv, NEW r \in Requests, Step(r)
    PROVE  KeyInv'
  <1>0. /\ \A q \in Requests :
              /\ q # r => pc'[q] = pc[q] /\ local'[q] = local[q] /\ past'[q] = past[q]
              /\ pc[q] # "idle" => past'[q] = past[q]
              /\ r \notin past[q]
        /\ Ordered' \subseteq Ordered \cup {r} /\ \A o \in Ordered \ {r} : orders'[o] = orders[o]
        /\ Ordered \subseteq Ordered'
    BY Others DEF RowsOwn
  <1>1. KeysDiffer'
    <2>1. CASE UNCHANGED orders
      BY <2>1 DEF KeyInv, KeysDiffer, Ordered
    <2>2. CASE Commit(r) /\ MayCommit(r)
      <3>1. /\ Ordered' = Ordered \cup {r} /\ \A o \in Ordered : orders'[o] = orders[o]
            /\ orders'[r].key = local[r].key
        BY <2>2, Sells
      <3>2. \A o \in Ordered : orders[o].key # local[r].key
        BY <2>2 DEF MayCommit
      <3>3. QED
        BY <3>1, <3>2 DEF KeyInv, KeysDiffer
    <2>3. QED
      BY <2>1, <2>2, OrdersAfter
  <1>2. ASSUME NEW q \in Requests
        PROVE  FirstOfNumber(q)'
    <2>1. CASE q # r
      <3> SUFFICES ASSUME pc'[q] \in Buying, NEW o \in past'[q] \cap Ordered'
                   PROVE  Number(orders'[o]) # Number(local'[q])
        BY DEF FirstOfNumber, Number
      <3>1. pc[q] \in Buying /\ o \in past[q] \cap Ordered /\ orders'[o] = orders[o] /\ local'[q] = local[q]
        BY <1>0, <2>1
      <3>2. FirstOfNumber(q)
        BY DEF KeyInv
      <3>3. QED
        BY <3>1, <3>2 DEF FirstOfNumber, Number
    <2>2. CASE q = r
      <3> SUFFICES ASSUME pc'[r] \in Buying, NEW o \in past'[r] \cap Ordered'
                   PROVE  Number(orders'[o]) # Number(local'[r])
        BY <2>2 DEF FirstOfNumber, Number
      <3>1. /\ orders' = orders
            /\ \/ \A x \in Ordered : Number(orders[x]) # Number(local'[r])
               \/ /\ pc[r] \in Buying
                  /\ local'[r].cart = local[r].cart /\ local'[r].key = local[r].key
                  /\ local'[r].method = local[r].method /\ local'[r].day = local[r].day
        BY BuysOn
      <3>2. o \in Ordered /\ orders'[o] = orders[o]
        BY <3>1 DEF Ordered
      <3>3. CASE \A x \in Ordered : Number(orders[x]) # Number(local'[r])
        BY <3>2, <3>3
      <3>4. CASE /\ pc[r] \in Buying
                 /\ local'[r].cart = local[r].cart /\ local'[r].key = local[r].key
                 /\ local'[r].method = local[r].method /\ local'[r].day = local[r].day
        <4>1. o \in past[r]
          BY <1>0, <3>4 DEF Buying
        <4>2. Number(orders[o]) # Number(local[r])
          BY <3>2, <3>4, <4>1 DEF KeyInv, FirstOfNumber
        <4>3. Number(local'[r]) = Number(local[r])
          BY <3>4 DEF Number
        <4>4. QED
          BY <3>2, <4>2, <4>3
      <3>5. QED
        BY <3>1, <3>3, <3>4
    <2>3. QED
      BY <2>1, <2>2
  <1>3. QED
    BY <1>1, <1>2 DEF KeyInv

\* A repeated request of the same day stops at the order it asked for, and a key never
\* places two orders, whatever carts and days it is sent with (placeOrder).
THEOREM KeysBuyOnceAlways == CheckoutSpec => []KeysBuyOnce
  <1>1. CheckoutInit => KeyInv
    BY DEF CheckoutInit, CartInit, KeyInv, KeysDiffer, FirstOfNumber, Buying, Ordered
  <1>2. ShopInv /\ KeyInv /\ [CheckoutNext]_checkoutVars => KeyInv'
    <2>1. UNCHANGED <<cartVars, orders>> /\ KeyInv => KeyInv'
      BY DEF cartVars, requestVars, KeyInv, KeysDiffer, FirstOfNumber, Ordered, Number
    <2>2. QED
      BY <2>1, StepKeys DEF CheckoutNext, Midnight, checkoutVars, shopVars
  <1>3. KeyInv => KeysBuyOnce
    BY DEF KeyInv, KeysDiffer, FirstOfNumber, Buying, KeysBuyOnce
  <1>4. QED
    BY <1>1, <1>2, <1>3, InitShop, NextShop, PTL DEF CheckoutSpec

-----------------------------------------------------------------------------
(* The coupon.                                                             *)

\* What a step does to the coupon.
LEMMA CouponAfter ==
    ASSUME ShopInv, NEW r \in Requests, Step(r)
    PROVE  \/ UNCHANGED <<redemptions, usage, reversed>>
           \/ /\ Redeems(r) /\ pc[r] # "idle" /\ pc'[r] = "done"
              /\ Redeemed' = Redeemed \cup {r} /\ usage' = usage + 1 /\ reversed' = reversed
              /\ \A q \in Redeemed : redemptions'[q] = redemptions[q]
           \/ /\ pc[r] = "release" /\ pc'[r] = "done" /\ local[r].undoes \in Redeemed
              /\ Redeemed' = Redeemed /\ usage' = usage - 1
              /\ reversed' = reversed \cup {[row |-> local[r].undoes, by |-> r]}
              /\ redemptions'[local[r].undoes] = "REVERSED"
              /\ \A q \in Redeemed \ {local[r].undoes} : redemptions'[q] = redemptions[q]
  <1> USE DEF Goto, Advance, Answer
  <1>0. Ready(r) /\ r \notin Redeemed /\ pc \in [Requests -> Steps]
    BY Others DEF ShopInv, Types
  <1>1. CASE Commit(r)
    <2>1. CASE MayCommit(r) /\ local[r].coupon
      <3>1. /\ redemptions' = With(redemptions, r, "COMMITTED") /\ usage' = usage + 1
            /\ reversed' = reversed /\ pc[r] = "commit" /\ pc'[r] = "done"
        BY <1>0, <1>1, <2>1 DEF Commit
      <3>2. QED
        BY <1>0, <2>1, <3>1, RedeemedRow DEF Redeems
    <2>2. CASE ~(MayCommit(r) /\ local[r].coupon)
      BY <1>1, <2>2 DEF Commit
    <2>3. QED
      BY <2>1, <2>2
  <1>2. CASE Reserve(r)
    <2>1. /\ redemptions' = With(redemptions, r, "RESERVED") /\ usage' = usage + 1
          /\ reversed' = reversed /\ pc[r] = "reserve" /\ pc'[r] = "done"
      BY <1>0, <1>2 DEF Reserve
    <2>2. QED
      BY <1>0, <2>1, RedeemedRow DEF Redeems
  <1>3. CASE Release(r)
    <2>1. /\ redemptions' = Reverse(local[r].undoes) /\ usage' = usage - 1
          /\ reversed' = reversed \cup {[row |-> local[r].undoes, by |-> r]}
          /\ pc[r] = "release" /\ pc'[r] = "done"
      BY <1>0, <1>3 DEF Release
    <2>2. local[r].undoes \in Redeemed
      BY <1>0, <2>1 DEF Ready, Knows
    <2>3. QED
      BY <2>1, <2>2, ReversedRow
  <1>4. UNCHANGED <<redemptions, usage, reversed>> \/ Commit(r) \/ Reserve(r) \/ Release(r)
    BY DEF Step, BeginCheckout, ReadCart, Price, Claim, BeginReserve, BeginRelease,
           BeginJournal, BeginReversal, OpenReversal, Post, shopVars
  <1>5. QED
    BY <1>1, <1>2, <1>3, <1>4

\* A request that is going to redeem has just seen the limit not reached, or did before.
LEMMA RedeemsOn ==
    ASSUME ShopInv, NEW r \in Requests, Step(r), Redeems(r)'
    PROVE  \/ Redeems(r) /\ pc[r] # "idle"
           \/ usage < Limit /\ UNCHANGED <<redemptions, usage, reversed>>
  <1> USE DEF Goto, Enter, Advance, Answer
  <1>0. /\ pc \in [Requests -> Steps] /\ local \in [Requests -> Memory] /\ local[r] \in Memory
        /\ r \notin Redeemed
    BY Others DEF ShopInv, Types
  <1>1. CASE r \in Redeemed'
    <2>1. UNCHANGED redemptions => Redeemed' = Redeemed
      BY DEF Redeemed
    <2>2. QED
      BY <1>0, <1>1, <2>1, CouponAfter
  <1>2. CASE pc'[r] = "commit" /\ local'[r].coupon
    <2>1. pc[r] = "claim" /\ local'[r].coupon = local[r].coupon
      BY <1>2, Claims
    <2>2. QED
      BY <1>2, <2>1 DEF Redeems
  <1>3. CASE pc'[r] = "reserve"
    <2>1. BeginReserve(r)
      <3>1. CASE CartStep(r)
        BY <1>0, <1>3, <3>1 DEF CartStep, BeginAdd, WriteLine, ChangeLine, BeginEdit, ClearLines,
             AttachCoupon, BeginMerge, ReadLine, RetireGuest, BeginAbandon, Abandon, BeginRecover, Recover
      <3>2. CASE ~CartStep(r)
        BY <1>0, <1>3, <3>2 DEF Step, BeginCheckout, ReadCart, Price, Claim, Commit, Reserve,
             BeginRelease, Release, BeginJournal, BeginReversal, OpenReversal, Post
      <3>3. QED
        BY <3>1, <3>2
    <2>2. QED
      BY <2>1 DEF BeginReserve, shopVars
  <1>4. CASE pc'[r] = "claim" /\ local'[r].coupon
    <2>1. Price(r)
      <3>1. CASE CartStep(r)
        BY <1>0, <1>4, <3>1 DEF CartStep, BeginAdd, WriteLine, ChangeLine, BeginEdit, ClearLines,
             AttachCoupon, BeginMerge, ReadLine, RetireGuest, BeginAbandon, Abandon, BeginRecover, Recover
      <3>2. CASE ~CartStep(r)
        BY <1>0, <1>4, <3>2 DEF Step, BeginCheckout, ReadCart, Claim, Commit, BeginReserve, Reserve,
             BeginRelease, Release, BeginJournal, BeginReversal, OpenReversal, Post
      <3>3. QED
        BY <3>1, <3>2
    <2> DEFINE n == Units(local[r].cart)
    <2>2. CouponApplies(r) /\ local'[r] = [local[r] EXCEPT !.amount = n]
      BY <1>0, <1>4, <2>1 DEF Price
    <2> HIDE DEF n
    <2>3. [local[r] EXCEPT !.amount = n].coupon = local[r].coupon
      BY <1>0 DEF Memory
    <2>4. local[r].coupon
      BY <1>4, <2>2, <2>3
    <2>5. usage < Limit
      BY <2>2, <2>4 DEF CouponApplies
    <2>6. UNCHANGED <<redemptions, usage, reversed>>
      BY <2>1 DEF Price, shopVars
    <2>7. QED
      BY <2>5, <2>6
  <1>5. QED
    BY <1>1, <1>2, <1>3, <1>4 DEF Redeems

\* A request that is going to reverse a redemption has just seen it not reversed, or did
\* before.
LEMMA ReleasesOn ==
    ASSUME ShopInv, NEW r \in Requests, Step(r), pc'[r] = "release"
    PROVE  /\ UNCHANGED <<redemptions, reversed>>
           /\ redemptions[local'[r].undoes] # "REVERSED"
  <1> USE DEF Goto, Enter, Advance, Answer
  <1>0. /\ pc \in [Requests -> Steps] /\ local \in [Requests -> Memory]
        /\ Redeemed \subseteq Requests
    BY DEF ShopInv, Types
  <1>1. BeginRelease(r)
    <2>1. CASE CartStep(r)
      BY <1>0, <2>1 DEF CartStep, BeginAdd, WriteLine, ChangeLine, BeginEdit, ClearLines,
           AttachCoupon, BeginMerge, ReadLine, RetireGuest, BeginAbandon, Abandon, BeginRecover, Recover
    <2>2. CASE ~CartStep(r)
      BY <1>0, <2>2 DEF Step, BeginCheckout, ReadCart, Price, Claim, Commit, BeginReserve, Reserve,
           Release, BeginJournal, BeginReversal, OpenReversal, Post
    <2>3. QED
      BY <2>1, <2>2
  <1>2. PICK q \in Standing : local'[r] = [Blank EXCEPT !.undoes = q]
    BY <1>0, <1>1 DEF BeginRelease
  <1>3. [Blank EXCEPT !.undoes = q].undoes = q
    BY BlankNote DEF Memory
  <1>4. redemptions[q] # "REVERSED"
    BY DEF Standing
  <1>5. UNCHANGED <<redemptions, reversed>>
    BY <1>1 DEF BeginRelease, shopVars
  <1>6. QED
    BY <1>2, <1>3, <1>4, <1>5

\* Fewer redemptions are in a request's past than there are.
LEMMA PastRedeemed ==
    ASSUME ShopInv, NEW S
    PROVE  /\ IsFiniteSet(Redeemed) /\ Cardinality(Redeemed) \in Nat
           /\ Cardinality(S \cap Redeemed) \in Nat
           /\ Cardinality(S \cap Redeemed) <= Cardinality(Redeemed)
  <1>1. IsFiniteSet(Redeemed)
    BY CartAssumption, FS_Subset DEF ShopInv, Types
  <1>2. S \cap Redeemed \subseteq Redeemed
    OBVIOUS
  <1>3. QED
    BY <1>1, <1>2, FS_Subset, FS_CardinalityType

LEMMA StepCounted ==
    ASSUME ShopInv, CouponInv, NEW r \in Requests, Step(r)
    PROVE  Counted' /\ Cardinality(reversed) <= Cardinality(reversed') /\ Cardinality(reversed) \in Nat
  <1>0. /\ IsFiniteSet(reversed) /\ usage = Cardinality(Redeemed) - Cardinality(reversed)
        /\ Cardinality(reversed) \in Nat
        /\ IsFiniteSet(Redeemed) /\ Cardinality(Redeemed) \in Nat
        /\ r \notin Redeemed /\ \A x \in reversed : x.by # r
    BY Others, PastRedeemed, FS_CardinalityType DEF CouponInv, Counted
  <1>1. CASE UNCHANGED <<redemptions, usage, reversed>>
    BY <1>0, <1>1 DEF Counted, Redeemed
  <1>2. CASE Redeemed' = Redeemed \cup {r} /\ usage' = usage + 1 /\ reversed' = reversed
    <2>1. Cardinality(Redeemed \cup {r}) = Cardinality(Redeemed) + 1
      BY <1>0, FS_AddElement
    <2>2. usage' = Cardinality(Redeemed') - Cardinality(reversed')
      BY <1>0, <1>2, <2>1
    <2>3. QED
      BY <1>0, <1>2, <2>2 DEF Counted
  <1>3. CASE /\ Redeemed' = Redeemed /\ usage' = usage - 1
             /\ reversed' = reversed \cup {[row |-> local[r].undoes, by |-> r]}
    <2> DEFINE x == [row |-> local[r].undoes, by |-> r]
    <2>1. x \notin reversed
      <3>1. x.by = r
        OBVIOUS
      <3> HIDE DEF x
      <3>2. QED
        BY <1>0, <3>1
    <2> HIDE DEF x
    <2>2. /\ IsFiniteSet(reversed \cup {x})
          /\ Cardinality(reversed \cup {x}) = Cardinality(reversed) + 1
      BY <1>0, <2>1, FS_AddElement
    <2>3. reversed' = reversed \cup {x}
      BY <1>3 DEF x
    <2>4. /\ IsFiniteSet(reversed') /\ Cardinality(reversed') = Cardinality(reversed) + 1
      BY <2>2, <2>3
    <2>5. usage' = Cardinality(Redeemed') - Cardinality(reversed')
      BY <1>0, <1>3, <2>4
    <2>6. QED
      BY <1>0, <2>4, <2>5 DEF Counted
  <1>4. QED
    BY <1>1, <1>2, <1>3, CouponAfter

LEMMA StepInLimit ==
    ASSUME ShopInv, CouponInv, NEW r \in Requests, Step(r), NEW q \in Requests
    PROVE  InLimit(q)'
  <1> SUFFICES ASSUME Redeems(q)'
               PROVE  Cardinality(past'[q] \cap Redeemed') < Limit + Cardinality(reversed')
    BY DEF InLimit
  <1>0. /\ \A p \in Requests :
              /\ p # r => pc'[p] = pc[p] /\ local'[p] = local[p] /\ past'[p] = past[p]
              /\ pc[p] # "idle" => past'[p] = past[p]
              /\ r \notin past[p]
        /\ r \notin past'[r]
        /\ Redeemed' \subseteq Redeemed \cup {r} /\ Redeemed \subseteq Redeemed'
    BY Others DEF RowsOwn
  <1>1. /\ Cardinality(reversed) <= Cardinality(reversed') /\ Cardinality(reversed) \in Nat
        /\ Cardinality(reversed') \in Nat
    BY StepCounted, FS_CardinalityType DEF Counted
  <1>2. Limit \in Nat
    BY CheckoutAssumption
  <1>3. ASSUME Redeems(q), past'[q] = past[q], r \notin past[q]
        PROVE  Cardinality(past'[q] \cap Redeemed') < Limit + Cardinality(reversed')
    <2>1. past'[q] \cap Redeemed' = past[q] \cap Redeemed
      BY <1>0, <1>3
    <2>2. Cardinality(past[q] \cap Redeemed) < Limit + Cardinality(reversed)
      BY <1>3 DEF CouponInv, InLimit
    <2>3. Cardinality(past[q] \cap Redeemed) \in Nat
      BY PastRedeemed
    <2> DEFINE n == Cardinality(past[q] \cap Redeemed)
    <2>4. Cardinality(past'[q] \cap Redeemed') = n
      BY <2>1
    <2>5. n \in Nat /\ n < Limit + Cardinality(reversed)
      BY <2>2, <2>3
    <2> HIDE DEF n
    <2>6. QED
      BY <1>1, <1>2, <2>4, <2>5
  <1>4. CASE q # r
    <2>1. Redeems(q)
      BY <1>0, <1>4 DEF Redeems
    <2>2. QED
      BY <1>0, <1>3, <1>4, <2>1
  <1>5. CASE q = r
    <2>1. CASE Redeems(r) /\ pc[r] # "idle"
      BY <1>0, <1>3, <1>5, <2>1
    <2>2. CASE usage < Limit /\ UNCHANGED <<redemptions, usage, reversed>>
      <3>1. Redeemed' = Redeemed /\ reversed' = reversed
        BY <2>2 DEF Redeemed
      <3>2. usage = Cardinality(Redeemed) - Cardinality(reversed)
        BY DEF CouponInv, Counted
      <3>3. /\ Cardinality(past'[q] \cap Redeemed) \in Nat /\ Cardinality(Redeemed) \in Nat
            /\ Cardinality(past'[q] \cap Redeemed) <= Cardinality(Redeemed)
        BY PastRedeemed
      <3> DEFINE n == Cardinality(past'[q] \cap Redeemed)
      <3>4. Cardinality(past'[q] \cap Redeemed') = n
        BY <3>1
      <3>5. n \in Nat /\ n <= Cardinality(Redeemed)
        BY <3>3
      <3> HIDE DEF n
      <3>6. n < Limit + Cardinality(reversed)
        BY <1>1, <1>2, <2>2, <3>2, <3>3, <3>5
      <3>7. QED
        BY <3>1, <3>4, <3>6
    <2>3. QED
      BY <1>5, <2>1, <2>2, RedeemsOn
  <1>6. QED
    BY <1>4, <1>5

LEMMA StepCoupon ==
    ASSUME ShopInv, CouponInv, NEW r \in Requests, Step(r)
    PROVE  CouponInv'
  <1>0. /\ \A p \in Requests :
              /\ p # r => pc'[p] = pc[p] /\ local'[p] = local[p] /\ past'[p] = past[p]
              /\ pc[p] # "idle" => past'[p] = past[p]
              /\ pc[p] = "done" => pc'[p] = "done" /\ p # r
              /\ r \notin past[p]
        /\ r \notin past'[r] /\ r \notin Redeemed /\ \A x \in reversed : x.by # r
        /\ reversed \subseteq [row : Requests, by : Requests]
    BY Others DEF ShopInv, Types
  <1>1. Marked /\ Together /\ \A q \in Requests : Again(q)
    BY DEF CouponInv
  <1>2. \A b \in reversed : b.by \in Requests /\ pc'[b.by] = "done" /\ past'[b.by] = past[b.by]
    BY <1>0, <1>1 DEF Marked
  <1> DEFINE x == [row |-> local[r].undoes, by |-> r]
  <1>x. x.row = local[r].undoes /\ x.by = r
    OBVIOUS
  <1> HIDE DEF x
  <1>3. \/ UNCHANGED <<redemptions, reversed>>
        \/ /\ Redeemed' = Redeemed \cup {r} /\ reversed' = reversed
           /\ \A q \in Redeemed : redemptions'[q] = redemptions[q]
        \/ /\ pc[r] = "release" /\ pc'[r] = "done" /\ local[r].undoes \in Redeemed
           /\ Redeemed' = Redeemed /\ reversed' = reversed \cup {x}
           /\ redemptions'[local[r].undoes] = "REVERSED"
           /\ \A q \in Redeemed \ {local[r].undoes} : redemptions'[q] = redemptions[q]
    BY CouponAfter DEF x
  <1>4. reversed' = reversed \/ (pc[r] = "release" /\ reversed' = reversed \cup {x})
    BY <1>3
  <1>5. Marked'
    <2>1. CASE UNCHANGED <<redemptions, reversed>>
      BY <1>1, <1>2, <2>1 DEF Marked, Redeemed
    <2>2. CASE /\ Redeemed' = Redeemed \cup {r} /\ reversed' = reversed
               /\ \A q \in Redeemed : redemptions'[q] = redemptions[q]
      BY <1>1, <1>2, <2>2 DEF Marked
    <2>3. CASE /\ pc[r] = "release" /\ pc'[r] = "done" /\ local[r].undoes \in Redeemed
               /\ Redeemed' = Redeemed /\ reversed' = reversed \cup {x}
               /\ redemptions'[local[r].undoes] = "REVERSED"
               /\ \A q \in Redeemed \ {local[r].undoes} : redemptions'[q] = redemptions[q]
      BY <1>1, <1>2, <1>x, <2>3 DEF Marked
    <2>4. QED
      BY <1>3, <2>1, <2>2, <2>3
  <1>6. Together'
    <2> SUFFICES ASSUME NEW a \in reversed', NEW b \in reversed', a.row = b.row, a # b
                 PROVE  a.by \notin past'[b.by]
      BY DEF Together
    <2>1. CASE a \in reversed /\ b \in reversed
      BY <1>1, <1>2, <2>1 DEF Together
    <2>2. CASE a \notin reversed /\ b \in reversed
      BY <1>0, <1>2, <1>4, <1>x, <2>2
    <2>3. CASE a \in reversed /\ b \notin reversed
      <3>1. b = x /\ pc[r] = "release" /\ a.row = local[r].undoes
        BY <1>4, <1>x, <2>3
      <3>2. a.by \notin past[r]
        BY <1>1, <2>3, <3>1 DEF Again
      <3>3. QED
        BY <1>0, <1>x, <3>1, <3>2
    <2>4. CASE a \notin reversed /\ b \notin reversed
      BY <1>4, <2>4
    <2>5. QED
      BY <2>1, <2>2, <2>3, <2>4
  <1>7. ASSUME NEW q \in Requests
        PROVE  Again(q)'
    <2> SUFFICES ASSUME pc'[q] = "release", NEW b \in reversed', b.row = local'[q].undoes
                 PROVE  b.by \notin past'[q]
      BY DEF Again
    <2>1. CASE q # r
      <3>1. pc[q] = "release" /\ local'[q] = local[q] /\ past'[q] = past[q]
        BY <1>0, <2>1
      <3>2. CASE b \in reversed
        BY <1>1, <3>1, <3>2 DEF Again
      <3>3. CASE b \notin reversed
        BY <1>0, <1>4, <1>x, <3>1, <3>3
      <3>4. QED
        BY <3>2, <3>3
    <2>2. CASE q = r
      <3>1. reversed' = reversed /\ redemptions[local'[r].undoes] # "REVERSED"
        BY <2>2, ReleasesOn
      <3>2. redemptions[b.row] = "REVERSED"
        BY <1>1, <3>1 DEF Marked
      <3>3. QED
        BY <2>2, <3>1, <3>2
    <2>3. QED
      BY <2>1, <2>2
  <1>8. QED
    BY <1>5, <1>6, <1>7, StepCounted, StepInLimit DEF CouponInv

\* A redemption that began when the limit was reached, reversals aside, is refused; the
\* counter is the rows less the reversals; and a redemption is reversed twice only by
\* requests that overlapped.
THEOREM CouponUseIsCountedAlways == CheckoutSpec => []CouponUseIsCounted
  <1>1. CheckoutInit => CouponInv
    <2> SUFFICES ASSUME CheckoutInit
                 PROVE  CouponInv
      OBVIOUS
    <2>1. Redeemed = {} /\ reversed = {} /\ usage = 0
      BY DEF CheckoutInit, Redeemed
    <2>2. Counted
      BY <2>1, FS_EmptySet DEF Counted
    <2>3. \A r \in Requests : pc[r] \in {"idle", "recover"}
      BY DEF CheckoutInit, CartInit
    <2>4. QED
      BY <2>1, <2>2, <2>3 DEF CouponInv, Marked, Together, InLimit, Redeems, Again
  <1>2. ShopInv /\ CouponInv /\ [CheckoutNext]_checkoutVars => CouponInv'
    <2>1. UNCHANGED <<cartVars, redemptions, usage, reversed>> /\ CouponInv => CouponInv'
      BY DEF cartVars, requestVars, CouponInv, Counted, Marked, Together, InLimit, Redeems, Again, Redeemed
    <2>2. QED
      BY <2>1, StepCoupon DEF CheckoutNext, Midnight, checkoutVars, shopVars
  <1>3. ShopInv /\ CouponInv => CouponUseIsCounted
    BY DEF ShopInv, Types, CouponInv, Counted, Together, InLimit, Redeems, CouponUseIsCounted
  <1>4. QED
    BY <1>1, <1>2, <1>3, InitShop, NextShop, PTL DEF CheckoutSpec

-----------------------------------------------------------------------------
(* The wallet's balance as a sum.                                          *)

\* What the rows of S add up to.
Deltas(rows, S) == Total([j \in S |-> rows[j].delta], S)

Amounts(rows, S) == Total([o \in S |-> rows[o].amount], S)

\* Balance, as the lemmas on sums speak of it.
Booked == Deltas(journals, Posted) - Amounts(orders, Debits)

LEMMA DeltasAre ==
    ASSUME IsFiniteSet(Posted)
    PROVE  MapThenSumSet(LAMBDA j : journals[j].delta, Posted) = Deltas(journals, Posted)
  <1> DEFINE S == Posted
             w == [j \in S |-> journals[j].delta]
             P(g) == g = [s \in SUBSET S |->
                             IF s = {} THEN 0
                             ELSE LET x == CHOOSE x \in s : TRUE
                                  IN  journals[x].delta + g[s \ {x}]]
             h == CHOOSE g : P(g)
             sum == MapThenSumSet(LAMBDA j : journals[j].delta, S)
  <1>1. sum = h[S]
    BY Zenon DEF MapThenSumSet, MapThenFoldSet
  <1>2. ASSUME NEW g
        PROVE  P(g) <=> IsSum(g, w, S)
    BY DEF IsSum, Weighed
  <1>3. \E g : P(g)
    <2> HIDE DEF P, w
    <2>1. QED
      BY <1>2, SumExists
  <1>4. P(h)
    <2> HIDE DEF P
    <2>1. QED
      BY <1>3, Zenon
  <1>5. sum = Total(w, S)
    <2>1. S \in SUBSET S
      OBVIOUS
    <2> HIDE DEF P, w, h, sum
    <2>2. QED
      BY <1>1, <1>2, <1>4, <2>1, TotalOf
  <1>6. QED
    BY <1>5 DEF Deltas

LEMMA AmountsAre ==
    ASSUME IsFiniteSet(Debits)
    PROVE  MapThenSumSet(LAMBDA o : orders[o].amount, Debits) = Amounts(orders, Debits)
  <1> DEFINE S == Debits
             w == [o \in S |-> orders[o].amount]
             P(g) == g = [s \in SUBSET S |->
                             IF s = {} THEN 0
                             ELSE LET x == CHOOSE x \in s : TRUE
                                  IN  orders[x].amount + g[s \ {x}]]
             h == CHOOSE g : P(g)
             sum == MapThenSumSet(LAMBDA o : orders[o].amount, S)
  <1>1. sum = h[S]
    BY Zenon DEF MapThenSumSet, MapThenFoldSet
  <1>2. ASSUME NEW g
        PROVE  P(g) <=> IsSum(g, w, S)
    BY DEF IsSum, Weighed
  <1>3. \E g : P(g)
    <2> HIDE DEF P, w
    <2>1. QED
      BY <1>2, SumExists
  <1>4. P(h)
    <2> HIDE DEF P
    <2>1. QED
      BY <1>3, Zenon
  <1>5. sum = Total(w, S)
    <2>1. S \in SUBSET S
      OBVIOUS
    <2> HIDE DEF P, w, h, sum
    <2>2. QED
      BY <1>1, <1>2, <1>4, <2>1, TotalOf
  <1>6. QED
    BY <1>5 DEF Amounts

LEMMA FiniteRows ==
    ASSUME Types
    PROVE  /\ IsFiniteSet(Posted) /\ IsFiniteSet(Debits)
           /\ \A j \in Posted : journals[j].delta \in Int
           /\ \A o \in Debits : o \in Ordered /\ orders[o].amount \in Int
           /\ Balance = Booked
  <1>1. IsFiniteSet(Requests \cup {Deposit})
    BY CartAssumption, FS_AddElement
  <1>2. Posted \subseteq Requests \cup {Deposit} /\ Debits \subseteq Requests
    BY DEF Types, Debits
  <1>3. IsFiniteSet(Posted) /\ IsFiniteSet(Debits)
    BY <1>1, <1>2, CartAssumption, FS_Subset
  <1>4. \A o \in Debits : o \in Ordered /\ orders[o].amount \in Int
    BY DEF Types, Debits, OrderRows
  <1>5. Balance = Booked
    BY <1>3, DeltasAre, AmountsAre DEF Balance, Booked
  <1>6. QED
    BY <1>3, <1>4, <1>5 DEF Types

\* A row that is added adds what it says.
LEMMA DeltasAdd ==
    ASSUME NEW S, IsFiniteSet(S), NEW r, r \notin S, NEW rows, NEW more,
           \A j \in S \cup {r} : more[j].delta \in Int, \A j \in S : more[j] = rows[j]
    PROVE  /\ Deltas(more, S \cup {r}) = Deltas(rows, S) + more[r].delta
           /\ Deltas(rows, S) \in Int
  <1> DEFINE w == [j \in S \cup {r} |-> more[j].delta]
             v == [j \in S |-> rows[j].delta]
  <1>1. /\ \A j \in S \cup {r} : w[j] \in Int
        /\ \A j \in S : v[j] = w[j]
        /\ w[r] = more[r].delta
    OBVIOUS
  <1>2. Deltas(more, S \cup {r}) = Total(w, S \cup {r}) /\ Deltas(rows, S) = Total(v, S)
    BY DEF Deltas
  <1> HIDE DEF w, v
  <1>3. Total(w, S \cup {r}) = Total(v, S) + w[r] /\ Total(v, S) \in Int
    BY <1>1, TotalJoins
  <1>4. QED
    BY <1>1, <1>2, <1>3

LEMMA AmountsAdd ==
    ASSUME NEW S, IsFiniteSet(S), NEW r, r \notin S, NEW all, all = S \cup {r}, NEW rows, NEW more,
           \A o \in all : more[o].amount \in Int, \A o \in S : more[o] = rows[o]
    PROVE  /\ Amounts(more, all) = Amounts(rows, S) + more[r].amount
           /\ Amounts(rows, S) \in Int
  <1> DEFINE w == [o \in all |-> more[o].amount]
             v == [o \in S |-> rows[o].amount]
  <1>1. /\ \A o \in all : w[o] \in Int
        /\ \A o \in S : v[o] = w[o]
        /\ w[r] = more[r].amount
    OBVIOUS
  <1>2. Amounts(more, all) = Total(w, all) /\ Amounts(rows, S) = Total(v, S)
    BY DEF Amounts
  <1> HIDE DEF w, v
  <1>3. Total(w, all) = Total(v, S) + w[r] /\ Total(v, S) \in Int
    BY <1>1, TotalJoins
  <1>4. QED
    BY <1>1, <1>2, <1>3

LEMMA BookedIsInt ==
    ASSUME Types
    PROVE  /\ Booked \in Int /\ Deltas(journals, Posted) \in Int /\ Amounts(orders, Debits) \in Int
  <1>1. /\ IsFiniteSet(Posted) /\ IsFiniteSet(Debits)
        /\ \A j \in Posted : journals[j].delta \in Int
        /\ \A o \in Debits : orders[o].amount \in Int
    BY FiniteRows
  <1> DEFINE v == [j \in Posted |-> journals[j].delta]
             w == [o \in Debits |-> orders[o].amount]
  <1>2. (\A j \in Posted : v[j] \in Int) /\ (\A o \in Debits : w[o] \in Int)
    BY <1>1
  <1>3. Deltas(journals, Posted) = Total(v, Posted) /\ Amounts(orders, Debits) = Total(w, Debits)
    BY DEF Deltas, Amounts
  <1> HIDE DEF v, w
  <1>4. Total(v, Posted) \in Int /\ Total(w, Debits) \in Int
    BY <1>1, <1>2, TotalAdds
  <1>5. QED
    BY <1>3, <1>4 DEF Booked

-----------------------------------------------------------------------------
(* The wallet.                                                             *)

Writers == Entries \cup Debits

\* No journal overlaps another writer of the wallet.
Serial == \A j \in Entries, w \in Writers : w # j => ~Overlap(w, j)

\* No debit overlaps another writer, and no journal undoes a credit.
OneByOne ==
    /\ \A j \in Entries : journals[j].undoes # None => journals[j].delta >= 0
    /\ \A p \in Debits, q \in Writers : p # q => ~Overlap(p, q)

\* What a request has computed or compared is still so, unless the wallet was written since
\* it began.
Fresh(r) ==
    /\ pc[r] = "post" /\ Writers \subseteq past[r] => local[r].amount = wallet + local[r].delta
    /\ pc[r] = "commit" /\ local[r].method = "CUSTOMER_WALLET" /\ Writers \subseteq past[r] =>
          wallet >= local[r].amount
    /\ pc[r] = "post" /\ (local[r].undoes # None => OneByOne /\ local[r].delta >= 0) =>
          local[r].amount >= 0

MoneyInv ==
    /\ Serial => wallet = Booked
    /\ OneByOne => wallet >= 0
    /\ \A r \in Requests : Fresh(r)

\* What a step does to the wallet: nothing, the debit of an order, or a journal.
Untouched ==
    /\ wallet' = wallet /\ Booked' = Booked
    /\ Entries' = Entries /\ Debits' = Debits /\ Writers' = Writers
    /\ \A j \in Entries : journals'[j] = journals[j]

Pays(r) ==
    /\ pc[r] = "commit" /\ local[r].method = "CUSTOMER_WALLET"
    /\ wallet' = wallet - local[r].amount /\ Booked' = Booked - local[r].amount
    /\ Entries' = Entries /\ Debits' = Debits \cup {r} /\ Writers' = Writers \cup {r}
    /\ \A j \in Entries : journals'[j] = journals[j]

Books(r) ==
    /\ pc[r] = "post"
    /\ wallet' = local[r].amount /\ Booked' = Booked + local[r].delta
    /\ Entries' = Entries \cup {r} /\ Debits' = Debits /\ Writers' = Writers \cup {r}
    /\ \A j \in Entries : journals'[j] = journals[j]
    /\ journals'[r].undoes = local[r].undoes /\ journals'[r].delta = local[r].delta

LEMMA WalletAfter ==
    ASSUME ShopInv, NEW r \in Requests, Step(r)
    PROVE  Untouched \/ Pays(r) \/ Books(r)
  <1>0. /\ Types /\ r \notin Ordered /\ r \notin Posted /\ local[r].amount \in Int /\ local[r].delta \in Int
        /\ IsFiniteSet(Posted) /\ IsFiniteSet(Debits) /\ r # Deposit
        /\ \A j \in Posted : journals[j].delta \in Int
        /\ \A o \in Debits : o \in Ordered /\ orders[o].amount \in Int
        /\ Deltas(journals, Posted) \in Int /\ Amounts(orders, Debits) \in Int
    BY Others, FiniteRows, BookedIsInt, CheckoutAssumption DEF ShopInv, Types, Memory
  <1>1. CASE UNCHANGED <<wallet, journals, orders>>
    BY <1>1 DEF Untouched, Booked, Entries, Writers, Debits, Posted, Ordered, Deltas, Amounts
  <1>2. CASE Commit(r) /\ MayCommit(r)
    <2>1. /\ Ordered' = Ordered \cup {r} /\ \A o \in Ordered : orders'[o] = orders[o]
          /\ orders'[r].method = local[r].method /\ orders'[r].amount = local[r].amount
          /\ pc[r] = "commit"
      BY <1>2, Sells
    <2>2. /\ journals' = journals
          /\ wallet' = IF local[r].method = "CUSTOMER_WALLET" THEN wallet - local[r].amount ELSE wallet
      BY <1>2 DEF Commit, Debited
    <2>3. Posted' = Posted /\ Entries' = Entries
      BY <2>2 DEF Posted, Entries
    <2>4. CASE local[r].method = "CUSTOMER_WALLET"
      <3>1. Debits' = Debits \cup {r} /\ r \notin Debits
        BY <1>0, <2>1, <2>4 DEF Debits
      <3>2. /\ \A o \in Debits : orders'[o] = orders[o]
            /\ \A o \in Debits \cup {r} : orders'[o].amount \in Int
        BY <1>0, <2>1
      <3> DEFINE S == Debits
                 all == Debits'
                 more == orders'
      <3>a. /\ IsFiniteSet(S) /\ r \notin S /\ all = S \cup {r}
            /\ \A o \in all : more[o].amount \in Int
            /\ \A o \in S : more[o] = orders[o]
        BY <1>0, <3>1, <3>2
      <3> HIDE DEF S, all, more
      <3>b. Amounts(more, all) = Amounts(orders, S) + more[r].amount
        <4>1. ASSUME NEW A, NEW B, NEW T, NEW U, U = T \cup {r}, IsFiniteSet(T), r \notin T,
                     \A o \in U : B[o].amount \in Int, \A o \in T : B[o] = A[o]
              PROVE  Amounts(B, U) = Amounts(A, T) + B[r].amount
          BY <4>1, AmountsAdd
        <4>2. QED
          BY <3>a, <4>1
      <3>3. Amounts(orders', Debits') = Amounts(orders, Debits) + orders'[r].amount
        BY <3>b DEF S, all, more
      <3>4. Booked' = Deltas(journals, Posted) - (Amounts(orders, Debits) + local[r].amount)
        BY <2>1, <2>2, <2>3, <3>3 DEF Booked
      <3>5. Booked' = Booked - local[r].amount
        BY <1>0, <3>4 DEF Booked
      <3>6. Writers' = Writers \cup {r}
        BY <2>3, <3>1 DEF Writers
      <3>7. QED
        BY <2>1, <2>2, <2>3, <2>4, <3>1, <3>5, <3>6 DEF Pays
    <2>5. CASE local[r].method # "CUSTOMER_WALLET"
      <3>1. Debits' = Debits /\ \A o \in Debits : orders'[o] = orders[o]
        BY <1>0, <2>1, <2>5 DEF Debits
      <3>2. [o \in Debits |-> orders'[o].amount] = [o \in Debits |-> orders[o].amount]
        BY <3>1
      <3>3. Amounts(orders', Debits) = Amounts(orders, Debits)
        BY <3>2 DEF Amounts
      <3>4. Booked' = Booked
        BY <2>2, <2>3, <3>1, <3>3 DEF Booked
      <3>5. QED
        BY <2>2, <2>3, <2>5, <3>1, <3>4 DEF Untouched, Writers
    <2>6. QED
      BY <2>4, <2>5
  <1>3. CASE Post(r)
    <2>1. /\ journals' = With(journals, r, [delta |-> local[r].delta, undoes |-> local[r].undoes])
          /\ wallet' = local[r].amount /\ orders' = orders /\ pc[r] = "post"
      BY <1>3 DEF Post
    <2>2. /\ Posted' = Posted \cup {r} /\ \A j \in Posted : journals'[j] = journals[j]
          /\ journals'[r] = [delta |-> local[r].delta, undoes |-> local[r].undoes]
      BY <1>0, <2>1, PostedRow
    <2>3. journals'[r].delta = local[r].delta /\ journals'[r].undoes = local[r].undoes
      BY <2>2
    <2>4. Debits' = Debits /\ Entries' = Entries \cup {r} /\ Writers' = Writers \cup {r}
      BY <1>0, <2>1, <2>2 DEF Debits, Ordered, Entries, Writers
    <2>5. \A j \in Posted \cup {r} : journals'[j].delta \in Int
      BY <1>0, <2>2, <2>3
    <2>6. Deltas(journals', Posted \cup {r}) = Deltas(journals, Posted) + journals'[r].delta
      BY <1>0, <2>2, <2>5, DeltasAdd
    <2>7. Booked' = (Deltas(journals, Posted) + local[r].delta) - Amounts(orders, Debits)
      BY <2>1, <2>2, <2>3, <2>4, <2>6 DEF Booked
    <2>8. Booked' = Booked + local[r].delta
      BY <1>0, <2>7 DEF Booked
    <2>9. \A j \in Entries : journals'[j] = journals[j]
      BY <2>2 DEF Entries
    <2>10. QED
      BY <2>1, <2>3, <2>4, <2>8, <2>9 DEF Books
  <1>4. UNCHANGED <<wallet, journals, orders>> \/ Commit(r) \/ Post(r)
    BY DEF Step, BeginCheckout, ReadCart, Price, Claim, BeginReserve, Reserve, BeginRelease,
           Release, BeginJournal, BeginReversal, OpenReversal, shopVars
  <1>5. CASE Commit(r) /\ ~MayCommit(r)
    BY <1>1, <1>5 DEF Commit
  <1>6. QED
    BY <1>1, <1>2, <1>3, <1>4, <1>5

\* A writer is a request that was answered.
LEMMA WritersDone ==
    ASSUME ShopInv
    PROVE  /\ Entries \subseteq Writers
           /\ \A w \in Writers : w \in Requests /\ pc[w] = "done"
  <1>1. \A r \in Requests : Ready(r)
    BY DEF ShopInv
  <1>2. \A j \in Entries : j \in Requests /\ j \in Posted
    BY DEF ShopInv, Types, Entries
  <1>3. \A o \in Debits : o \in Requests /\ o \in Ordered
    BY DEF ShopInv, Types, Debits
  <1>4. QED
    BY <1>1, <1>2, <1>3 DEF Writers, Ready

\* When the writers of the wallet come one after the other they did before the step, and
\* who writes now comes after all of them.
LEMMA OneAfterTheOther ==
    ASSUME ShopInv, NEW r \in Requests, Step(r)
    PROVE  /\ Serial' => Serial
           /\ OneByOne' => OneByOne
           /\ Serial' /\ Books(r) => Writers \subseteq past[r]
           /\ OneByOne' /\ Pays(r) => Writers \subseteq past[r]
  <1>0. /\ Entries \subseteq Writers
        /\ \A w \in Writers : w \in Requests /\ w # r /\ past'[w] = past[w] /\ r \notin past[w]
        /\ pc[r] # "idle" => past'[r] = past[r]
    BY Others, WritersDone
  <1>1. /\ Entries \subseteq Entries' /\ Debits \subseteq Debits' /\ Writers \subseteq Writers'
        /\ \A j \in Entries : journals'[j] = journals[j]
    BY WalletAfter DEF Untouched, Pays, Books
  <1>2. \A v, w \in Writers : Overlap(v, w)' <=> Overlap(v, w)
    BY <1>0 DEF Overlap
  <1>3. Serial' => Serial
    BY <1>0, <1>1, <1>2 DEF Serial
  <1>4. OneByOne' => OneByOne
    BY <1>1, <1>2 DEF OneByOne, Writers
  <1>5. ASSUME Serial', Books(r), NEW w \in Writers
        PROVE  w \in past[r]
    <2>1. r \in Entries' /\ w \in Writers' /\ pc[r] # "idle"
      BY <1>1, <1>5 DEF Books
    <2>2. ~Overlap(w, r)'
      BY <1>0, <1>5, <2>1 DEF Serial
    <2>3. QED
      BY <1>0, <2>1, <2>2 DEF Overlap
  <1>6. ASSUME OneByOne', Pays(r), NEW w \in Writers
        PROVE  w \in past[r]
    <2>1. r \in Debits' /\ w \in Writers' /\ pc[r] # "idle"
      BY <1>1, <1>6 DEF Pays
    <2>2. ~Overlap(r, w)'
      BY <1>0, <1>6, <2>1 DEF OneByOne
    <2>3. QED
      BY <1>0, <2>1, <2>2 DEF Overlap
  <1>7. QED
    BY <1>3, <1>4, <1>5, <1>6

\* A request that is going to post a journal has just computed the balance.
LEMMA Computes ==
    ASSUME ShopInv, NEW r \in Requests, Step(r), pc'[r] = "post"
    PROVE  /\ local'[r].amount = wallet + local'[r].delta /\ wallet' = wallet
           /\ local'[r].delta \in Int
           /\ local'[r].undoes = None => local'[r].amount >= 0
  <1> USE DEF Goto, Enter, Advance, Answer
  <1>0. /\ Types /\ pc \in [Requests -> Steps] /\ local \in [Requests -> Memory]
        /\ local[r] \in Memory /\ Ready(r) /\ wallet \in Int
    BY DEF ShopInv, Types
  <1>1. CASE BeginJournal(r)
    <2>1. PICK delta \in {-1, 1} :
             /\ wallet + delta >= 0
             /\ local'[r] = [Blank EXCEPT !.delta = delta, !.amount = wallet + delta]
      BY <1>0, <1>1 DEF BeginJournal
    <2> DEFINE n == wallet + delta
               x == [Blank EXCEPT !.delta = delta, !.amount = n]
    <2> HIDE DEF n
    <2>2. local'[r] = x
      BY <2>1 DEF n
    <2>3. x.amount = n /\ x.delta = delta
      BY BlankNote DEF Memory
    <2>4. wallet' = wallet
      BY <1>1 DEF BeginJournal, shopVars
    <2> HIDE DEF x
    <2>5. local'[r].amount = n /\ local'[r].delta = delta
      BY <2>2, <2>3
    <2>6. QED
      BY <2>1, <2>4, <2>5 DEF n
  <1>2. CASE OpenReversal(r)
    <2> DEFINE n == wallet + local[r].delta
               x == [local[r] EXCEPT !.amount = n]
    <2>1. local'[r] = x /\ wallet' = wallet /\ pc[r] = "reverse"
      BY <1>0, <1>2 DEF OpenReversal, shopVars
    <2> HIDE DEF n
    <2>2. /\ x.amount = n /\ x.delta = local[r].delta /\ x.undoes = local[r].undoes
          /\ local[r].delta \in Int
      BY <1>0 DEF Memory
    <2> HIDE DEF x
    <2>3. local[r].undoes \in Posted
      BY <1>0, <2>1 DEF Ready, Knows
    <2>4. local[r].undoes # None
      BY <1>0, <2>3, CartAssumption, CheckoutAssumption DEF Types
    <2>5. QED
      BY <2>1, <2>2, <2>4 DEF n
  <1>3. BeginJournal(r) \/ OpenReversal(r)
    <2>1. CASE CartStep(r)
      BY <1>0, <2>1 DEF CartStep, BeginAdd, WriteLine, ChangeLine, BeginEdit, ClearLines,
           AttachCoupon, BeginMerge, ReadLine, RetireGuest, BeginAbandon, Abandon, BeginRecover, Recover
    <2>2. CASE ~CartStep(r)
      BY <1>0, <2>2 DEF Step, BeginCheckout, ReadCart, Price, Claim, Commit, BeginReserve, Reserve,
           BeginRelease, Release, BeginReversal, Post
    <2>3. QED
      BY <2>1, <2>2
  <1>4. QED
    BY <1>1, <1>2, <1>3

LEMMA StepMoney ==
    ASSUME ShopInv, MoneyInv, NEW r \in Requests, Step(r)
    PROVE  MoneyInv'
  <1>0. /\ wallet \in Int /\ Booked \in Int
        /\ \A q \in Requests : local[q].amount \in Int /\ local[q].delta \in Int
        /\ \A q \in Requests :
              /\ q # r => pc'[q] = pc[q] /\ local'[q] = local[q] /\ past'[q] = past[q]
              /\ r \notin past[q]
    BY Others, BookedIsInt DEF ShopInv, Types, Memory
  <1>1. Untouched \/ Pays(r) \/ Books(r)
    BY WalletAfter
  <1>2. /\ Serial' => Serial
        /\ OneByOne' => OneByOne
        /\ Serial' /\ Books(r) => Writers \subseteq past[r]
        /\ OneByOne' /\ Pays(r) => Writers \subseteq past[r]
    BY OneAfterTheOther
  <1>3. ASSUME Serial'
        PROVE  wallet' = Booked'
    <2>1. wallet = Booked
      BY <1>2, <1>3 DEF MoneyInv
    <2>2. CASE Books(r)
      <3>1. local[r].amount = wallet + local[r].delta
        BY <1>2, <1>3, <2>2 DEF MoneyInv, Fresh, Books
      <3>2. QED
        BY <2>1, <2>2, <3>1 DEF Books
    <2>3. QED
      BY <1>1, <2>1, <2>2 DEF Untouched, Pays
  <1>4. ASSUME OneByOne'
        PROVE  wallet' >= 0
    <2>1. wallet >= 0
      BY <1>2, <1>4 DEF MoneyInv
    <2>2. CASE Books(r)
      <3>1. /\ r \in Entries' /\ journals'[r].undoes = local[r].undoes
            /\ journals'[r].delta = local[r].delta
        BY <2>2 DEF Books
      <3>2. local[r].undoes # None => OneByOne /\ local[r].delta >= 0
        BY <1>2, <1>4, <3>1 DEF OneByOne
      <3>3. QED
        BY <2>2, <3>2 DEF MoneyInv, Fresh, Books
    <2>3. CASE Pays(r)
      <3>1. wallet >= local[r].amount
        BY <1>2, <1>4, <2>3 DEF MoneyInv, Fresh, Pays
      <3>2. wallet' = wallet - local[r].amount
        BY <2>3 DEF Pays
      <3>3. QED
        BY <1>0, <3>1, <3>2
    <2>4. QED
      BY <1>1, <2>1, <2>2, <2>3 DEF Untouched
  <1>5. ASSUME NEW q \in Requests
        PROVE  Fresh(q)'
    <2>1. CASE q # r
      <3>1. pc'[q] = pc[q] /\ local'[q] = local[q] /\ past'[q] = past[q] /\ r \notin past[q]
        BY <1>0, <2>1
      <3>2. ASSUME Writers' \subseteq past'[q]
            PROVE  Writers \subseteq past[q] /\ wallet' = wallet
        BY <1>1, <3>1, <3>2 DEF Untouched, Pays, Books
      <3>3. Fresh(q)
        BY DEF MoneyInv
      <3>4. QED
        BY <1>2, <3>1, <3>2, <3>3 DEF Fresh
    <2>2. CASE q = r
      <3>1. pc'[r] = "post" => /\ local'[r].amount = wallet + local'[r].delta /\ wallet' = wallet
                               /\ local'[r].undoes = None => local'[r].amount >= 0
        BY Computes
      <3>2. pc'[r] = "commit" /\ local'[r].method = "CUSTOMER_WALLET" =>
               wallet' = wallet /\ wallet >= local'[r].amount
        <4> SUFFICES ASSUME pc'[r] = "commit", local'[r].method = "CUSTOMER_WALLET"
                     PROVE  wallet' = wallet /\ wallet >= local'[r].amount
          OBVIOUS
        <4>1. /\ Claim(r) /\ Affords(r) /\ local'[r].method = local[r].method
              /\ local'[r].amount = local[r].amount
          BY Claims
        <4>2. QED
          BY <4>1 DEF Claim, Affords, shopVars
      <3>3. pc'[r] = "post" /\ OneByOne' /\ local'[r].delta >= 0 => local'[r].amount >= 0
        <4>1. OneByOne' => wallet >= 0
          BY <1>2 DEF MoneyInv
        <4>2. pc'[r] = "post" => local'[r].delta \in Int
          BY Computes
        <4>3. QED
          BY <1>0, <3>1, <4>1, <4>2
      <3>4. QED
        BY <2>2, <3>1, <3>2, <3>3 DEF Fresh
    <2>3. QED
      BY <2>1, <2>2
  <1>6. QED
    BY <1>3, <1>4, <1>5 DEF MoneyInv

LEMMA InitMoney == CheckoutInit => MoneyInv
  <1> SUFFICES ASSUME CheckoutInit
               PROVE  MoneyInv
    OBVIOUS
  <1>1. /\ Posted = {Deposit} /\ Debits = {} /\ wallet = Opening /\ Opening \in Nat \ {0}
        /\ journals[Deposit].delta = Opening
    BY CheckoutAssumption DEF CheckoutInit, Posted, Debits, Ordered
  <1>2. Deltas(journals, {} \cup {Deposit}) = Deltas(journals, {}) + journals[Deposit].delta
    <2>1. \A j \in {} \cup {Deposit} : journals[j].delta \in Int
      BY <1>1
    <2>2. IsFiniteSet({}) /\ Deposit \notin {} /\ \A j \in {} : journals[j] = journals[j]
      BY FS_EmptySet
    <2>3. QED
      BY <2>1, <2>2, DeltasAdd
  <1>3. Deltas(journals, {}) = 0 /\ Amounts(orders, {}) = 0
    BY FS_EmptySet, TotalAdds DEF Deltas, Amounts
  <1>4. {} \cup {Deposit} = {Deposit}
    OBVIOUS
  <1>5. Booked = Opening
    BY <1>1, <1>2, <1>3, <1>4 DEF Booked
  <1>6. \A r \in Requests : pc[r] \in {"idle", "recover"}
    BY DEF CheckoutInit, CartInit
  <1>7. QED
    BY <1>1, <1>5, <1>6 DEF MoneyInv, Fresh

LEMMA NextMoney ==
    ASSUME ShopInv, MoneyInv, [CheckoutNext]_checkoutVars
    PROVE  MoneyInv'
  <1>1. CASE UNCHANGED <<cartVars, orders, wallet, journals>>
    BY <1>1 DEF cartVars, requestVars, MoneyInv, Serial, OneByOne, Fresh, Overlap, Writers, Entries, Debits,
                Booked, Deltas, Amounts, Posted, Ordered
  <1>2. QED
    BY <1>1, StepMoney DEF CheckoutNext, Midnight, checkoutVars, shopVars

\* Orders debit the wallet by what they cost and journals write the balance they computed:
\* the wallet is what its ledger and its orders say, unless a journal overlapped another
\* writer (recordJournal and reverseJournal; never two orders).
THEOREM MoneyIsKeptAlways == CheckoutSpec => []MoneyIsKept
  <1>1. ShopInv /\ MoneyInv => MoneyIsKept
    <2> SUFFICES ASSUME ShopInv, MoneyInv,
                        \A j \in Entries, w \in Entries \cup Debits : w # j => ~Overlap(w, j)
                 PROVE  wallet = Balance
      BY DEF MoneyIsKept
    <2>1. Balance = Booked
      BY FiniteRows DEF ShopInv
    <2>2. QED
      BY <2>1 DEF MoneyInv, Serial, Writers
  <1>2. QED
    BY <1>1, InitShop, NextShop, InitMoney, NextMoney, PTL DEF CheckoutSpec

\* Without the reversal of a credit, only the debit of an order that overlapped another writer
\* takes the wallet below zero: the balance is compared when it is read (Claim, recordJournal).
THEOREM OverdraftOnlyTogetherAlways == CheckoutSpec => []OverdraftOnlyTogether
  <1>1. ShopInv /\ MoneyInv => OverdraftOnlyTogether
    <2> SUFFICES ASSUME ShopInv, MoneyInv,
                        \A j \in Entries : ~(journals[j].undoes # None /\ journals[j].delta < 0),
                        \A p \in Debits, q \in Debits \cup Entries : p # q => ~Overlap(p, q)
                 PROVE  ~(wallet < 0)
      BY DEF OverdraftOnlyTogether
    <2>0. \A j \in Entries : journals[j].delta \in Int
      BY DEF ShopInv, Types, Entries
    <2>1. OneByOne
      BY <2>0 DEF OneByOne, Writers
    <2>2. wallet \in Int
      BY DEF ShopInv, Types
    <2>3. QED
      BY <2>1, <2>2 DEF MoneyInv
  <1>2. QED
    BY <1>1, InitShop, NextShop, InitMoney, NextMoney, PTL DEF CheckoutSpec
=============================================================================
