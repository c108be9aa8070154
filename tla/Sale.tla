-------------------------------- MODULE Sale ---------------------------------
(***************************************************************************)
(* What the orders and the warehouse promise each other, without storages, *)
(* holds, movements, payments or handlers: goods of a product are on one   *)
(* shelf, an order is placed, served and cancelled in single steps, the    *)
(* goods of a pending order are on the shelf, and those of a committed one *)
(* have left it.                                                           *)
(***************************************************************************)
EXTENDS Integers, Sums

CONSTANTS
  Products,      \* catalogue products
  OrderIds,      \* order numbers
  MaxQuantity,   \* bound: largest quantity of one line
  Corrections    \* whether the back office corrects mistakes

VARIABLES
  shelf,         \* units of each product in the shop
  status,        \* the status of each order, "none" before it is placed
  lines          \* the lines of each order: units per product

vars == <<shelf, status, lines>>

Stages == [pending |-> 0, confirmed |-> 1, processing |-> 2, shipped |-> 3, delivered |-> 4]

Some == [Products -> 0 .. MaxQuantity] \ {[p \in Products |-> 0]}

(* The goods of an order that have left the shelf. *)
Out(st, ls, p) == IF st \in {"none", "pending", "cancelled"} THEN 0 ELSE ls[p]

Pending == {o \in OrderIds : status[o] = "pending"}

(* What the pending orders wait for is there. *)
Fits == \A p \in Products : Total([o \in Pending |-> lines[o][p]], Pending) <= shelf[p]

(* Order o changes; goods leave the shelf or come back to it as they must. *)
Moves(o, st, ls) ==
  /\ status' = [status EXCEPT ![o] = st]
  /\ lines' = [lines EXCEPT ![o] = ls]
  /\ shelf' = [p \in Products |-> shelf[p] + Out(status[o], lines[o], p) - Out(st, ls, p)]
  /\ Fits'

-----------------------------------------------------------------------------

Arrives(goods) ==
  /\ shelf' = [p \in Products |-> shelf[p] + goods[p]]
  /\ UNCHANGED <<status, lines>>

Leaves(goods) ==
  /\ shelf' = [p \in Products |-> shelf[p] - goods[p]]
  /\ UNCHANGED <<status, lines>>
  /\ Fits'

Place(o, ls) == status[o] = "none" /\ Moves(o, "pending", ls)

Serve(o, st) ==
  /\ status[o] \in DOMAIN Stages
  /\ Stages[st] > Stages[status[o]]
  /\ Moves(o, st, lines[o])

Cancel(o) ==
  /\ status[o] \in DOMAIN Stages \ {"delivered"}
  /\ Moves(o, "cancelled", lines[o])

Reinstate(o) == status[o] = "cancelled" /\ Moves(o, "pending", lines[o])

Edit(o, ls) == status[o] # "none" /\ Moves(o, status[o], ls)

Correct(o, st) == Corrections /\ status[o] # "none" /\ Moves(o, st, lines[o])

-----------------------------------------------------------------------------

Init ==
  /\ shelf = [p \in Products |-> 0]
  /\ status = [o \in OrderIds |-> "none"]
  /\ lines = [o \in OrderIds |-> [p \in Products |-> 0]]

Next ==
  \/ \E goods \in Some : Arrives(goods) \/ Leaves(goods)
  \/ \E o \in OrderIds :
       \/ \E ls \in Some : Place(o, ls) \/ Edit(o, ls)
       \/ \E st \in DOMAIN Stages : Serve(o, st)
       \/ Cancel(o)
       \/ Reinstate(o)
       \/ \E st \in DOMAIN Stages \cup {"cancelled"} : Correct(o, st)

Spec == Init /\ [][Next]_vars
=============================================================================
