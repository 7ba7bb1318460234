------------------------------- MODULE Carts -------------------------------
(***************************************************************************)
(* The carts of one customer: CartService and the abandonment and recovery *)
(* of AbandonedCheckoutRecoveryService.  Mine belongs to the customer;     *)
(* Guest was filled before signing in and may be merged into it.  No       *)
(* operation here runs in a transaction.                                   *)
(*                                                                         *)
(* The carts hold lines of one variant, which is the case that makes lines *)
(* meet; each has a quantity, and prices are left out.  A line is named by *)
(* the request that created it and, when that is a merge, by the guest's   *)
(* line it was made of.  A customer who finds no active cart gets a new    *)
(* one, which is another instance of this module.  A request whose process  *)
(* dies is one that takes no further step.                                 *)
(***************************************************************************)
EXTENDS Integers, FiniteSets

CONSTANTS
    Requests,     \* requests of the customer, and of jobs for the carts
    None,         \* no request
    Mine, Guest,  \* the carts
    Stock,        \* units of the variant that can be sold
    Operations,   \* the operations each request may be
    Delayed       \* requests that found the guest's cart abandoned, and recover it yet

Carts == {Mine, Guest}

ASSUME CartAssumption ==
    /\ None \notin Requests
    /\ Mine # Guest
    /\ Stock \in Nat \ {0}
    /\ Delayed \subseteq Requests
    /\ IsFiniteSet(Requests)

VARIABLES
    carts,   \* cart rows with their lines
    pc,      \* the step each request is about to take
    local,   \* what each request has in memory
    past,    \* history: the requests that were answered before each began
    holder,  \* history: the order each cart was converted by, while it stands
    undone   \* history: the conversions that were overwritten, and by whom

requestVars == <<pc, local, past>>
cartVars == <<carts, requestVars, holder, undone>>

-----------------------------------------------------------------------------
(* Rows and requests.                                                      *)

Statuses == {"ACTIVE", "ABANDONED", "CONVERTED", "MERGED"}

Makers == Requests \cup {None}

LineNames == Makers \X Makers

FirstLine == <<None, None>>

CartRow(status, lines) == [status |-> status, version |-> 1, lines |-> lines]

LineOf(n) == [l \in {FirstLine} |-> n]

NoLines == [l \in {} |-> 0]

Lines(c) == DOMAIN carts[c].lines

Steps == {"idle", "line", "write", "clear", "attach", "retire", "abandon", "recover",
          "cart", "price", "claim", "commit", "reserve", "release", "reverse", "post",
          "done"}

\* What a request remembers: the cart, its version and a line as they were read, the
\* guest's lines left to merge, the units of an order or the balance of a wallet, and
\* the request whose row it undoes.
Blank == [cart |-> Mine, version |-> 0, line |-> FirstLine, found |-> FALSE,
          quantity |-> 0, source |-> None, todo |-> NoLines, key |-> None, method |-> "COD",
          day |-> 0, coupon |-> FALSE, amount |-> 0, delta |-> 0, undoes |-> None]

CartInit ==
    /\ \E status \in {"ACTIVE", "ABANDONED"} :
          carts = [c \in Carts |-> CartRow(IF c = Mine THEN "ACTIVE" ELSE status, LineOf(1))]
    /\ pc = [r \in Requests |-> IF r \in Delayed THEN "recover" ELSE "idle"]
    /\ local = [r \in Requests |-> [Blank EXCEPT !.cart = IF r \in Delayed THEN Guest ELSE Mine]]
    /\ past = [r \in Requests |-> {}]
    /\ holder = [c \in Carts |-> None]
    /\ undone = {}

Idle(r, operation) == pc[r] = "idle" /\ operation \in Operations[r]

Goto(r, step, l) ==
    /\ pc' = [pc EXCEPT ![r] = step]
    /\ local' = [local EXCEPT ![r] = l]

Answered == {r \in Requests : pc[r] = "done"}

\* The first step of a request, and a later one.
Enter(r, step, l) == Goto(r, step, l) /\ past' = [past EXCEPT ![r] = Answered]

Advance(r, step, l) == Goto(r, step, l) /\ UNCHANGED past

Answer(r) == Advance(r, "done", Blank)

\* A transaction that has claimed a cart keeps its row locked: writers wait.
Locked(c) == \E q \in Requests : pc[q] = "commit" /\ local[q].cart = c

\* An update of the row by its key, whatever its status has become.
Overwrite(r, c, status) ==
    /\ ~Locked(c)
    /\ carts' = [carts EXCEPT ![c].status = status, ![c].version = @ + 1]
    /\ holder' = [holder EXCEPT ![c] = None]
    /\ undone' = undone \cup {[order |-> q, by |-> r] : q \in {holder[c]} \ {None}}

-----------------------------------------------------------------------------
(* Editing a cart                                                          *)

\* Variant: the line is not looked for.
AppendLine(c) == {[Blank EXCEPT !.cart = c]}

\* The line of the variant as it is read, one of them if there are several.
FindLine(c) ==
    IF Lines(c) = {} THEN {[Blank EXCEPT !.cart = c]}
    ELSE {[Blank EXCEPT !.cart = c, !.line = l, !.found = TRUE,
                        !.quantity = carts[c].lines[l]] : l \in Lines(c)}

\* getOrCreateActiveCart, then the query of the line.
BeginAdd(r) ==
    /\ Idle(r, "add")
    /\ \E c \in Carts :
          /\ carts[c].status = "ACTIVE"
          /\ \E l \in FindLine(c) : Enter(r, "write", [l EXCEPT !.delta = 1])
    /\ UNCHANGED <<carts, holder, undone>>

\* The line that was read gets the sum, unless it was removed since; if none was read
\* another line is created.
PutLine(c, l, name, n) ==
    carts' = [carts EXCEPT ![c].lines =
                 IF l.found THEN [k \in DOMAIN @ |-> IF k = l.line THEN n ELSE @[k]]
                 ELSE [k \in DOMAIN @ \cup {name} |-> IF k = name THEN n ELSE @[k]]]

\* More than the stock is refused by an addition, and cut down by a merge.
WriteLine(r) ==
    /\ pc[r] = "write"
    /\ LET l == local[r]
           sum == l.quantity + l.delta
           merging == l.todo # NoLines
           rest == [k \in DOMAIN l.todo \ {<<l.source, None>>} |-> l.todo[k]]
       IN  IF merging
           THEN /\ PutLine(Mine, l, <<r, l.source>>, IF sum > Stock THEN Stock ELSE sum)
                /\ Advance(r, IF rest = NoLines THEN "retire" ELSE "line",
                           [Blank EXCEPT !.todo = rest])
           ELSE /\ IF sum > Stock THEN UNCHANGED carts
                   ELSE PutLine(l.cart, l, <<r, None>>, sum)
                /\ Answer(r)
    /\ UNCHANGED <<holder, undone>>

\* updateItemQuantity and removeItem: by the key of the line, without a look at the
\* status of its cart.
ChangeLine(r) ==
    /\ Idle(r, "change")
    /\ \E c \in Carts : \E l \in Lines(c), n \in 0..Stock :
          carts' = [carts EXCEPT ![c].lines =
                       [k \in DOMAIN @ \ {x \in {l} : n = 0} |-> IF k = l THEN n ELSE @[k]]]
    /\ Enter(r, "done", Blank)
    /\ UNCHANGED <<holder, undone>>

BeginEdit(r) ==
    /\ \E c \in Carts :
          /\ carts[c].status = "ACTIVE"
          /\ \/ Idle(r, "clear") /\ Enter(r, "clear", [Blank EXCEPT !.cart = c])
             \/ Idle(r, "coupon") /\ Enter(r, "attach", [Blank EXCEPT !.cart = c])
    /\ UNCHANGED <<carts, holder, undone>>

ClearLines(r) ==
    /\ pc[r] = "clear"
    /\ carts' = [carts EXCEPT ![local[r].cart].lines = NoLines]
    /\ Answer(r)
    /\ UNCHANGED <<holder, undone>>

\* applyCoupon and removeCoupon.  The code they store is in a column no order reads; what
\* an order can meet is the new version.
AttachCoupon(r) ==
    /\ pc[r] = "attach"
    /\ ~Locked(local[r].cart)
    /\ carts' = [carts EXCEPT ![local[r].cart].version = @ + 1]
    /\ Answer(r)
    /\ UNCHANGED <<holder, undone>>

-----------------------------------------------------------------------------
(* mergeGuestCart                                                          *)

BeginMerge(r) ==
    /\ Idle(r, "merge")
    /\ \A c \in Carts : carts[c].status = "ACTIVE"
    /\ Lines(Guest) # {}
    /\ Enter(r, "line", [Blank EXCEPT !.todo = carts[Guest].lines])
    /\ UNCHANGED <<carts, holder, undone>>

ReadLine(r) ==
    /\ pc[r] = "line"
    /\ \E g \in DOMAIN local[r].todo, l \in FindLine(Mine) :
          Advance(r, "write", [l EXCEPT !.source = g[1], !.todo = local[r].todo,
                                        !.delta = local[r].todo[g]])
    /\ UNCHANGED <<carts, holder, undone>>

RetireGuest(r) ==
    /\ pc[r] = "retire"
    /\ Overwrite(r, Guest, "MERGED")
    /\ Answer(r)

-----------------------------------------------------------------------------
(* recordAbandonedCart and recoverCart                                     *)

BeginAbandon(r) ==
    /\ Idle(r, "abandon")
    /\ \E c \in Carts :
          /\ carts[c].status = "ACTIVE" /\ Lines(c) # {}
          /\ Enter(r, "abandon", [Blank EXCEPT !.cart = c])
    /\ UNCHANGED <<carts, holder, undone>>

Abandon(r) ==
    /\ pc[r] = "abandon"
    /\ Overwrite(r, local[r].cart, "ABANDONED")
    /\ Answer(r)

BeginRecover(r) ==
    /\ Idle(r, "recover")
    /\ \E c \in Carts :
          /\ carts[c].status = "ABANDONED"
          /\ Enter(r, "recover", [Blank EXCEPT !.cart = c])
    /\ UNCHANGED <<carts, holder, undone>>

Recover(r) ==
    /\ pc[r] = "recover"
    /\ Overwrite(r, local[r].cart, "ACTIVE")
    /\ Answer(r)

-----------------------------------------------------------------------------
CartStep(r) ==
    \/ BeginAdd(r) \/ WriteLine(r) \/ ChangeLine(r)
    \/ BeginEdit(r) \/ ClearLines(r) \/ AttachCoupon(r)
    \/ BeginMerge(r) \/ ReadLine(r) \/ RetireGuest(r)
    \/ BeginAbandon(r) \/ Abandon(r) \/ BeginRecover(r) \/ Recover(r)

-----------------------------------------------------------------------------
(* Properties                                                              *)

CartTypeOK ==
    /\ \A c \in Carts :
          /\ carts[c].status \in Statuses
          /\ carts[c].version \in Nat
          /\ Lines(c) \subseteq LineNames
          /\ \A l \in Lines(c) : carts[c].lines[l] \in 1..Stock
    /\ pc \in [Requests -> Steps]
    /\ \A r \in Requests : DOMAIN local[r] = DOMAIN Blank
    /\ past \in [Requests -> SUBSET Requests]
    /\ holder \in [Carts -> Makers]
    /\ \A u \in undone : u.order \in Requests /\ u.by \in Requests

\* The variant is added twice, or added while the guest's cart is merged: a cart holds two
\* lines of it only when the requests that created them overlapped, so that one of them
\* could not see the other's line.
LinesMeet ==
    \A c \in Carts : \A k, l \in Lines(c) :
        k # l => {k[1], l[1]} \subseteq Requests /\ k[1] # l[1] /\ k[1] \notin past[l[1]]
=============================================================================
