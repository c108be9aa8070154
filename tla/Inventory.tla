------------------------------ MODULE Inventory ------------------------------
(***************************************************************************)
(* InventoryService on its own: the manual operations of the warehouse     *)
(* staff and the stock calls of OrdersService, each in its own database    *)
(* transaction.  The callers are arbitrary: any order may reserve, confirm *)
(* or release at any time, and any set of storages may be the enabled ones *)
(* at that moment, so what holds here holds whatever OrdersService and     *)
(* StockLocationsService do.                                               *)
(***************************************************************************)
EXTENDS Stock

CONSTANTS
  Counters,   \* storages with a pickup counter
  Marks,      \* final statuses of rows let go: cancelled, expired
  MaxUnits,   \* bound: units the shop ever has, on the shelves or sold
  MaxRows     \* bound: rows of the reservations table

ASSUME CountersAssumption == Counters \subseteq Locations
ASSUME MarksAssumption == Marks \subseteq {"cancelled", "expired"}

VARIABLES
  stock,      \* the books
  pickup      \* the counter each order is collected at, fixed at checkout

vars == <<stock, pickup>>

TypeOK ==
  /\ stock \in Books
  /\ pickup \in [OrderIds -> Counters \cup {NoLocation}]

Init ==
  /\ stock = EmptyBooks([c \in Cells |-> 0])
  /\ pickup \in [OrderIds -> Counters \cup {NoLocation}]

-----------------------------------------------------------------------------
(* createOperation *)

Sold(s) == {i \in DOMAIN s.rsv : s.rsv[i].status = "confirmed"}

StockIn(l, items) ==
  /\ Total(stock.quantity, Cells) + Total(Qty(stock), Sold(stock))
       + Total(items, Products) <= MaxUnits
  /\ stock' = addStock(stock, l, items)
  /\ UNCHANGED pickup

StockOut(l, items) ==
  /\ CanRemove(stock, l, items)
  /\ stock' = removeStock(stock, l, items)
  /\ UNCHANGED pickup

Moved(s, l, t, items) == addStock(removeStock(s, l, items), t, items)

Transfer(l, t, items) ==
  /\ l # t
  /\ CanRemove(stock, l, items)
  /\ \E M \in SUBSET Misplaced(stock, pickup, t, items) :
       /\ RehomesExactly(Moved(stock, l, t, items), pickup, t, items, M)
       /\ stock' = rehomeReservations(Moved(stock, l, t, items), t, M)
  /\ UNCHANGED pickup

-----------------------------------------------------------------------------
(* The calls of OrdersService *)

(***************************************************************************)
(* A pickup order prefers its counter.  places is what is enabled and      *)
(* serves the area of the order at the moment of the call.                 *)
(***************************************************************************)
Reserve(o, items, places) ==
  /\ Len(stock.rsv) < MaxRows
  /\ stock' \in Reserved(stock, o, items, places, pickup[o])
  /\ Len(stock'.rsv) <= MaxRows
  /\ UNCHANGED pickup

ConfirmOrder(o) ==
  /\ stock' = confirmReservations(stock, o)
  /\ UNCHANGED pickup

ReleaseOrder(o, byUser, final) ==
  /\ CanRelease(stock, o, byUser)
  /\ stock' = releaseReservations(stock, o, final)
  /\ UNCHANGED pickup

ReleaseLines(o, drop) ==
  /\ stock' = releaseProductUnits(stock, o, drop)
  /\ Len(stock'.rsv) <= MaxRows
  /\ UNCHANGED pickup

ConfirmLines(o, P) ==
  /\ stock' = confirmProductReservations(stock, o, P)
  /\ UNCHANGED pickup

-----------------------------------------------------------------------------

Requests == Items \ {NoItems}

Manual ==
  \/ \E l \in Locations, items \in Requests : StockIn(l, items)
  \/ \E l \in Locations, items \in Requests : StockOut(l, items)
  \/ \E l, t \in Locations, items \in Requests : Transfer(l, t, items)

ByOrders ==
  \/ \E o \in OrderIds, items \in Requests, places \in SUBSET Locations :
       Reserve(o, items, places)
  \/ \E o \in OrderIds : ConfirmOrder(o)
  \/ \E o \in OrderIds, byUser \in BOOLEAN, final \in Marks :
       ReleaseOrder(o, byUser, final)
  \/ \E o \in OrderIds, drop \in Requests : ReleaseLines(o, drop)
  \/ \E o \in OrderIds, P \in SUBSET Products \ {{}} : ConfirmLines(o, P)

Next ==
  \/ Manual
  \/ ByOrders

Spec == Init /\ [][Next]_vars

-----------------------------------------------------------------------------
(* Properties *)

(***************************************************************************)
(* inventory.reservedQuantity is exactly what the reservation rows with    *)
(* status=reserved hold of that row, through splits, partial releases and  *)
(* rows that move to another storage.                                      *)
(***************************************************************************)
HoldsMatchRows == HoldsMatch(stock)

(***************************************************************************)
(* No storage ever promises more than it has: neither a manual OUT or      *)
(* TRANSFER, nor rehoming, nor a confirmation eats held stock.             *)
(***************************************************************************)
NoOversell == NeverOversold(stock)

(***************************************************************************)
(* The movement ledger reconstructs the stock: sales, restocks of whole    *)
(* orders and of part of a line are all recorded.                          *)
(***************************************************************************)
LedgerReconstructs == LedgerMatches(stock)

AllRows(s, o, p) == {i \in DOMAIN s.rsv : s.rsv[i].order = o /\ s.rsv[i].cell[2] = p}

(***************************************************************************)
(* The reservation history of an order adds up: whatever is split, moved   *)
(* or let go, the rows of an order still account for every unit it ever    *)
(* held of a product, and a row that was closed stays closed.              *)
(***************************************************************************)
HistoryKept ==
  [][/\ \A o \in OrderIds, p \in Products :
          Total(Qty(stock), AllRows(stock, o, p))
            <= Total(Qty(stock'), AllRows(stock', o, p))
     /\ \A i \in DOMAIN stock.rsv :
          stock.rsv[i].status \in {"cancelled", "expired"}
            => stock'.rsv[i] = stock.rsv[i]]_(stock.rsv)

(***************************************************************************)
(* A transfer to a counter leaves there no stock that a misplaced hold of  *)
(* one of its pickup orders could have used: every hold still elsewhere is *)
(* larger than what the counter has left (rehomeReservations skips a hold  *)
(* that does not fit, never one that does).                                *)
(***************************************************************************)
TransferRehomesAll ==
  [][\A l, t \in Locations, p \in Products :
       /\ stock'.quantity[l, p] < stock.quantity[l, p]
       /\ stock'.quantity[t, p] > stock.quantity[t, p]
       => \A i \in Misplaced(stock', pickup, t, [NoItems EXCEPT ![p] = 1]) :
            stock'.rsv[i].quantity > Available(stock', <<t, p>>)]_vars
=============================================================================
