-------------------------------- MODULE Stock --------------------------------
(***************************************************************************)
(* The stock books of the shop and what one database transaction of        *)
(* InventoryService does to them (src/src/inventory/inventory.service.ts). *)
(* There are no variables here: a value s of the books is a record         *)
(*                                                                         *)
(*   s.quantity[c]  physical units of inventory row c                      *)
(*   s.reserved[c]  units of row c held by pending orders                  *)
(*   s.rsv          the inventory_reservations table, oldest row first     *)
(*   s.ledger[c]    units the movement ledger says row c holds             *)
(*                                                                         *)
(* where c = <<location, product>> is the unique key of an inventory row,  *)
(* and every operator maps books to books, so that OrdersService can chain *)
(* several calls in one transaction.  An inventory row that was never      *)
(* created is a row of zeros: no code deletes a row, an absent row has     *)
(* nothing available, and the two paths that would have to create one      *)
(* (addStock and the restocks) store the quantity they add to zero.        *)
(***************************************************************************)
EXTENDS Integers, Sequences, FiniteSets, Sums

CONSTANTS
  Locations,    \* storages
  Products,     \* catalogue products
  OrderIds,     \* order numbers, in order of creation
  NoLocation,   \* "no pickup counter": a delivery order
  MaxQuantity   \* bound: largest quantity of one request line

ASSUME LocationsAssumption == NoLocation \notin Locations
ASSUME FiniteAssumption == IsFiniteSet(Locations) /\ IsFiniteSet(Products)
ASSUME OrderIdsAssumption == OrderIds \subseteq Nat
ASSUME MaxQuantityAssumption == MaxQuantity \in Nat \ {0}

Cells == Locations \X Products

ReservationStatus == {"reserved", "confirmed", "cancelled", "expired"}

Reservation ==
  [order : OrderIds, cell : Cells, quantity : Nat \ {0},
   status : ReservationStatus]

Books ==
  [quantity : [Cells -> Int], reserved : [Cells -> Int],
   rsv : Seq(Reservation), ledger : [Cells -> Int]]

(***************************************************************************)
(* Request lines once duplicate products are collapsed (mergeItems).       *)
(***************************************************************************)
Items == [Products -> 0 .. MaxQuantity]

NoItems == [p \in Products |-> 0]

(* The orders in which the elements of S can be listed. *)
Listings(S) ==
  {q \in [1 .. Cardinality(S) -> S] :
     /\ \A i, j \in DOMAIN q : q[i] = q[j] => i = j
     /\ \A x \in S : \E i \in DOMAIN q : q[i] = x}

Larger(m, n) == IF m < n THEN n ELSE m

Smaller(m, n) == IF m < n THEN m ELSE n

Plus(f, g) == [c \in Cells |-> f[c] + g[c]]

Minus(f, g) == [c \in Cells |-> f[c] - g[c]]

-----------------------------------------------------------------------------
(* Queries *)

Available(s, c) == s.quantity[c] - s.reserved[c]

Qty(s) == [i \in DOMAIN s.rsv |-> s.rsv[i].quantity]

(* Rows of an order, of an inventory row, of one line of an order. *)
RowsOf(s, o, status) ==
  {i \in DOMAIN s.rsv : s.rsv[i].order = o /\ s.rsv[i].status = status}

RowsAt(s, c, status) ==
  {i \in DOMAIN s.rsv : s.rsv[i].cell = c /\ s.rsv[i].status = status}

LineRows(s, o, p, status) == {i \in RowsOf(s, o, status) : s.rsv[i].cell[2] = p}

HeldAt(s, c) == Total(Qty(s), RowsAt(s, c, "reserved"))

(* Units an order holds (or has taken) of each product. *)
Units(s, o, status) ==
  [p \in Products |-> Total(Qty(s), LineRows(s, o, p, status))]

(* Units per inventory row of the reservation rows I. *)
PerCell(s, W, I) ==
  [c \in Cells |-> Total(W, {i \in I : s.rsv[i].cell = c})]

WithStatus(rsv, I, status) ==
  [i \in DOMAIN rsv |->
     IF i \in I THEN [rsv[i] EXCEPT !.status = status] ELSE rsv[i]]

EmptyBooks(initial) ==
  [quantity |-> initial, reserved |-> [c \in Cells |-> 0],
   rsv |-> <<>>, ledger |-> initial]

-----------------------------------------------------------------------------
(* Manual operations: addStock, removeStock, rehomeReservations *)

At(l, items) ==
  [c \in Cells |-> IF c[1] = l THEN items[c[2]] ELSE 0]

addStock(s, l, items) ==
  [s EXCEPT !.quantity = Plus(@, At(l, items)),
            !.ledger   = Plus(@, At(l, items))]

(* Mutant: the check forgets what is on hold. *)
CanRemove_IgnoresHolds(s, l, items) ==
  \A p \in Products : items[p] <= s.quantity[l, p]

(* removeStock throws, and the operation rolls back, unless this holds. *)
CanRemove(s, l, items) ==
  \A p \in Products : items[p] > 0 => items[p] <= Available(s, <<l, p>>)

removeStock(s, l, items) ==
  [s EXCEPT !.quantity = Minus(@, At(l, items)),
            !.ledger   = Minus(@, At(l, items))]

(***************************************************************************)
(* Holds of pickup orders of counter t that sit in another storage.        *)
(* pickup[o] is the counter an order is collected at.                      *)
(***************************************************************************)
Misplaced(s, pickup, t, items) ==
  {i \in DOMAIN s.rsv :
     /\ s.rsv[i].status = "reserved"
     /\ items[s.rsv[i].cell[2]] > 0
     /\ s.rsv[i].cell[1] # t
     /\ pickup[s.rsv[i].order] = t}

(* ORDER BY o.created_at, r.created_at *)
Older(s, i, j) ==
  \/ s.rsv[i].order < s.rsv[j].order
  \/ s.rsv[i].order = s.rsv[j].order /\ i < j

(* Mutant: the loop stops at the first hold that does not fit. *)
RehomesExactly_Breaks(s, pickup, t, items, M) ==
  \A i \in Misplaced(s, pickup, t, items) :
    LET c     == <<t, s.rsv[i].cell[2]>>
        older == {j \in Misplaced(s, pickup, t, items) :
                    s.rsv[j].cell[2] = c[2] /\ Older(s, j, i)}
    IN  i \in M <=>
          /\ older \subseteq M
          /\ s.rsv[i].quantity <= Available(s, c) - Total(Qty(s), older)

(***************************************************************************)
(* M is what the loop of rehomeReservations moves: in age order, a row     *)
(* moves whole or not at all, and moves when what the older moves left     *)
(* available at the counter can hold it.                                   *)
(***************************************************************************)
RehomesExactly(s, pickup, t, items, M) ==
  \A i \in Misplaced(s, pickup, t, items) :
    LET c     == <<t, s.rsv[i].cell[2]>>
        older == {j \in M : s.rsv[j].cell[2] = c[2] /\ Older(s, j, i)}
    IN  i \in M <=>
          s.rsv[i].quantity <= Available(s, c) - Total(Qty(s), older)

(* The table once the rows M sit at storage t. *)
Rehomed(s, t, M) ==
  [i \in DOMAIN s.rsv |->
     IF i \in M THEN [s.rsv[i] EXCEPT !.cell = <<t, @[2]>>] ELSE s.rsv[i]]

(* Mutant: the storage the hold leaves keeps counting it. *)
rehomeReservations_KeepsSource(s, t, M) ==
  [s EXCEPT
     !.reserved = [c \in Cells |->
                     IF c[1] = t
                     THEN @[c] + Total(Qty(s), {i \in M : s.rsv[i].cell[2] = c[2]})
                     ELSE @[c]],
     !.rsv      = Rehomed(s, t, M)]

rehomeReservations(s, t, M) ==
  LET from == PerCell(s, Qty(s), M)
      to   == [c \in Cells |->
                 IF c[1] = t
                 THEN Total(Qty(s), {i \in M : s.rsv[i].cell[2] = c[2]})
                 ELSE 0]
  IN  [s EXCEPT
         !.reserved = [c \in Cells |-> Larger(0, @[c] - from[c]) + to[c]],
         !.rsv      = Rehomed(s, t, M)]

-----------------------------------------------------------------------------
(* Order reservations: reserve, confirmReservations, releaseReservations *)

(***************************************************************************)
(* The sort of reserve: the preferred storage first, then the one with     *)
(* most available; ties in any order.                                      *)
(***************************************************************************)
DrainsBefore(s, c, d, preferred) ==
  IF (c[1] = preferred) # (d[1] = preferred)
  THEN c[1] = preferred
  ELSE Available(s, c) > Available(s, d)

(***************************************************************************)
(* What reserve may take for the lines `items` from the storages `places`  *)
(* (active, and allowed for the order): every unit asked for, never more   *)
(* than is available, and greedily: a storage gives nothing before those   *)
(* ahead of it are drained, and only the last one is left part full.  The  *)
(* set is empty exactly when reserve answers 409.                          *)
(***************************************************************************)
Allocations(s, items, places, preferred) ==
  {a \in [Cells -> 0 .. MaxQuantity] :
     /\ \A c \in Cells : a[c] > 0 => c[1] \in places /\ a[c] <= Available(s, c)
     /\ \A p \in Products : Total(a, {c \in Cells : c[2] = p}) = items[p]
     /\ \A c, d \in Cells :
          c # d /\ c[2] = d[2] /\ c[1] \in places /\ d[1] \in places =>
            /\ DrainsBefore(s, c, d, preferred) /\ a[d] > 0
                 => a[c] = Larger(0, Available(s, c))
            /\ ~ (/\ a[c] \in 1 .. (Available(s, c) - 1)
                  /\ a[d] \in 1 .. (Available(s, d) - 1))}

(* Mutant: storages with nothing available get a row of zero units. *)
RowOrders_WithEmptyRows(a) == Listings(Cells)

(***************************************************************************)
(* One reservation row per storage taken from.  Rows of one transaction    *)
(* share created_at, so q, the order they sort in, is any order.           *)
(***************************************************************************)
RowOrders(a) == Listings({c \in Cells : a[c] > 0})

reserve(s, o, a, q) ==
  [s EXCEPT
     !.reserved = Plus(@, a),
     !.rsv = @ \o [k \in DOMAIN q |->
                     [order |-> o, cell |-> q[k], quantity |-> a[q[k]],
                      status |-> "reserved"]]]

(* The books after a reserve of every line; none when stock is short. *)
Reserved(s, o, items, places, preferred) ==
  UNION {{reserve(s, o, a, q) : q \in RowOrders(a)} :
           a \in Allocations(s, items, places, preferred)}

(* The hold becomes a physical decrement with its OUT movement. *)
Confirm(s, I) ==
  LET n == PerCell(s, Qty(s), I)
  IN  [s EXCEPT !.quantity = Minus(@, n), !.reserved = Minus(@, n),
                !.ledger = Minus(@, n), !.rsv = WithStatus(@, I, "confirmed")]

(* The hold is dropped. *)
Release(s, I, final) ==
  [s EXCEPT !.reserved = Minus(@, PerCell(s, Qty(s), I)),
            !.rsv = WithStatus(@, I, final)]

(* Mutant: the return is not recorded as a movement. *)
Restock_Unrecorded(s, I, final) ==
  [s EXCEPT !.quantity = Plus(@, PerCell(s, Qty(s), I)),
            !.rsv = WithStatus(@, I, final)]

(* Goods already taken go back, with their IN movement. *)
Restock(s, I, final) ==
  LET n == PerCell(s, Qty(s), I)
  IN  [s EXCEPT !.quantity = Plus(@, n), !.ledger = Plus(@, n),
                !.rsv = WithStatus(@, I, final)]

confirmReservations(s, o) == Confirm(s, RowsOf(s, o, "reserved"))

(* The lines P of an order, one call per product. *)
confirmProductReservations(s, o, P) ==
  Confirm(s, {i \in RowsOf(s, o, "reserved") : s.rsv[i].cell[2] \in P})

(* Mutant: nobody has to answer for a restock. *)
CanRelease_Always(s, o, byUser) == TRUE

(* Without a user, releaseReservations throws when there is a restock. *)
CanRelease(s, o, byUser) == byUser \/ RowsOf(s, o, "confirmed") = {}

releaseReservations(s, o, final) ==
  LET held == Release(s, RowsOf(s, o, "reserved"), final)
  IN  Restock(held, RowsOf(held, o, "confirmed"), final)

-----------------------------------------------------------------------------
(* releaseProductUnits: part of the lines, one call per product *)

Live(s, o) == RowsOf(s, o, "reserved") \cup RowsOf(s, o, "confirmed")

(* Held rows are let go before those already taken, oldest first. *)
LetGoBefore(s, i, j) ==
  /\ s.rsv[i].cell[2] = s.rsv[j].cell[2]
  /\ IF s.rsv[i].status = s.rsv[j].status THEN i < j
                                          ELSE s.rsv[i].status = "reserved"

(* How much of row i goes when drop[p] units of each product p are let go. *)
Take(s, o, drop) ==
  [i \in DOMAIN s.rsv |->
     IF i \in Live(s, o)
     THEN LET before == {j \in Live(s, o) : LetGoBefore(s, j, i)}
              left   == drop[s.rsv[i].cell[2]] - Total(Qty(s), before)
          IN  Smaller(s.rsv[i].quantity, Larger(0, left))
     ELSE 0]

(* Mutant: the parts let go leave no trace. *)
SplitOff_Forgotten(s, take, part) == <<>>

(***************************************************************************)
(* The cancelled rows that record what rows let go in part have lost.  At  *)
(* most one row of a product is let go in part, the last one, and the      *)
(* order of cancelled rows is never looked at.                             *)
(***************************************************************************)
SplitOff(s, take, part) ==
  LET q == CHOOSE q \in Listings(part) : TRUE
  IN  [k \in DOMAIN q |->
         [s.rsv[q[k]] EXCEPT !.quantity = take[q[k]], !.status = "cancelled"]]

(***************************************************************************)
(* A row let go whole becomes cancelled; one let go in part keeps the rest *)
(* and a new cancelled row records the part, so that the history of the    *)
(* order still adds up.                                                    *)
(***************************************************************************)
releaseProductUnits(s, o, drop) ==
  LET take  == Take(s, o, drop)
      whole == {i \in Live(s, o) : take[i] = s.rsv[i].quantity}
      part  == {i \in Live(s, o) : take[i] \in 1 .. (s.rsv[i].quantity - 1)}
      held  == PerCell(s, take, RowsOf(s, o, "reserved"))
      taken == PerCell(s, take, RowsOf(s, o, "confirmed"))
      kept  == [i \in DOMAIN s.rsv |->
                  IF i \in part
                  THEN [s.rsv[i] EXCEPT !.quantity = @ - take[i]]
                  ELSE WithStatus(s.rsv, whole, "cancelled")[i]]
  IN  [s EXCEPT !.reserved = Minus(@, held),
                !.quantity = Plus(@, taken),
                !.ledger   = Plus(@, taken),
                !.rsv      = kept \o SplitOff(s, take, part)]

-----------------------------------------------------------------------------
(* The promises of the books *)

(* Rows hold what the counter says they hold. *)
HoldsMatch(s) == \A c \in Cells : s.reserved[c] = HeldAt(s, c)

(* Stock promised to orders is physically there. *)
NeverOversold(s) == \A c \in Cells : s.reserved[c] \in 0 .. s.quantity[c]

(* The movement ledger reconstructs the physical count. *)
LedgerMatches(s) == s.quantity = s.ledger
=============================================================================
