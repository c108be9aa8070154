--------------------------- MODULE InventoryProofs ---------------------------
(***************************************************************************)
(* The promises of InventoryService for any set of storages, products,     *)
(* orders and quantities, and any sequence of calls.  None of the three    *)
(* promises is inductive alone: a confirmation keeps NoOversell because    *)
(* the counters match the rows (HoldsMatchRows), and the counters match    *)
(* the rows after a release because rows are typed.  The inductive         *)
(* invariant is their conjunction with the type, Sound of StockProofs,     *)
(* where the argument of each call is made.                                *)
(***************************************************************************)
EXTENDS Inventory, StockProofs

IInv ==
  /\ Sound(stock)
  /\ pickup \in [OrderIds -> Counters \cup {NoLocation}]

(***************************************************************************)
(* An empty shop keeps its promises.                                       *)
(***************************************************************************)
LEMMA InitSound ==
  ASSUME Init
  PROVE  IInv
<1> DEFINE zero == [c \in Cells |-> 0]
<1>1. /\ stock.rsv = << >> /\ stock.quantity = zero
      /\ stock.reserved = zero /\ stock.ledger = zero
  BY DEF Init, EmptyBooks
<1>2. stock \in Books
  <2>1. << >> \in Seq(Reservation)
    BY EmptySeq
  <2> QED
    BY <2>1 DEF Init, EmptyBooks, Books
<1>3. HoldsMatch(stock)
  <2> SUFFICES ASSUME NEW c \in Cells PROVE stock.reserved[c] = HeldAt(stock, c)
    BY DEF HoldsMatch
  <2>1. RowsAt(stock, c, "reserved") = {}
    BY <1>1 DEF RowsAt
  <2>2. HeldAt(stock, c) = 0
    BY <2>1, TotalEmpty DEF HeldAt
  <2> QED
    BY <1>1, <2>2
<1>4. NeverOversold(stock) /\ LedgerMatches(stock)
  BY <1>1 DEF NeverOversold, LedgerMatches
<1> QED
  BY <1>2, <1>3, <1>4 DEF IInv, Sound, Init

(***************************************************************************)
(* A transfer is a move of units and a rehoming on sound books.            *)
(***************************************************************************)
LEMMA TransferIs ==
  ASSUME IInv, NEW l \in Locations, NEW t \in Locations, NEW items \in Requests,
         Transfer(l, t, items)
  PROVE  \E b, M :
           /\ Sound(b) /\ b.rsv = stock.rsv /\ M \in SUBSET Misplaced(b, pickup, t, items)
           /\ b.quantity = Plus(Minus(stock.quantity, At(l, items)), At(t, items))
           /\ RehomesExactly(b, pickup, t, items, M)
           /\ stock' = rehomeReservations(b, t, M)
<1> DEFINE b == Moved(stock, l, t, items)
<1>1. Sound(stock) /\ stock \in Books /\ items \in Items
  BY DEF IInv, Requests, Sound
<1>2. Sound(b)
  <2>1. Sound(removeStock(stock, l, items))
    BY <1>1, RemoveStockSound DEF Transfer
  <2> QED
    BY <1>1, <2>1, AddStockSound DEF Moved
<1>3. /\ b.rsv = stock.rsv
      /\ b.quantity = Plus(Minus(stock.quantity, At(l, items)), At(t, items))
  BY <1>1 DEF Moved, addStock, removeStock, Books
<1>4. Misplaced(b, pickup, t, items) = Misplaced(stock, pickup, t, items)
  BY <1>3 DEF Misplaced
<1>5. PICK M \in SUBSET Misplaced(stock, pickup, t, items) :
        RehomesExactly(b, pickup, t, items, M) /\ stock' = rehomeReservations(b, t, M)
  BY DEF Transfer
<1> HIDE DEF b
<1> QED
  BY <1>2, <1>3, <1>4, <1>5

(***************************************************************************)
(* Every manual operation of the warehouse keeps the promises.             *)
(***************************************************************************)
LEMMA ManualSound ==
  ASSUME IInv, Manual
  PROVE  IInv'
<1>1. Sound(stock) /\ \A items \in Requests : items \in Items
  BY DEF IInv, Requests
<1>2. ASSUME NEW l \in Locations, NEW items \in Requests, StockIn(l, items)
      PROVE  IInv'
  <2>1. Sound(stock')
    BY <1>1, <1>2, AddStockSound DEF StockIn
  <2> QED
    BY <1>2, <2>1 DEF StockIn, IInv
<1>3. ASSUME NEW l \in Locations, NEW items \in Requests, StockOut(l, items)
      PROVE  IInv'
  <2>1. Sound(stock')
    BY <1>1, <1>3, RemoveStockSound DEF StockOut
  <2> QED
    BY <1>3, <2>1 DEF StockOut, IInv
<1>4. ASSUME NEW l \in Locations, NEW t \in Locations, NEW items \in Requests,
             Transfer(l, t, items)
      PROVE  IInv'
  <2>1. PICK b, M : /\ Sound(b) /\ M \in SUBSET Misplaced(b, pickup, t, items)
                    /\ RehomesExactly(b, pickup, t, items, M)
                    /\ stock' = rehomeReservations(b, t, M)
    BY <1>4, TransferIs
  <2>2. Sound(stock')
    BY <2>1, RehomeSound
  <2> QED
    BY <1>4, <2>2 DEF Transfer, IInv
<1> QED
  BY <1>2, <1>3, <1>4 DEF Manual

(***************************************************************************)
(* Every stock call of OrdersService keeps the promises.                   *)
(***************************************************************************)
LEMMA ByOrdersSound ==
  ASSUME IInv, ByOrders
  PROVE  IInv'
<1>1. Sound(stock)
  BY DEF IInv
<1>2. \A items \in Requests : items \in [Products -> Nat]
  BY MaxQuantityAssumption DEF Requests, Items
<1>3. ASSUME NEW o \in OrderIds, NEW items \in Requests, NEW places \in SUBSET Locations,
             Reserve(o, items, places)
      PROVE  IInv'
  <2>1. Sound(stock')
    BY <1>1, <1>3, ReservedSound DEF Reserve
  <2> QED
    BY <1>3, <2>1 DEF Reserve, IInv
<1>4. ASSUME NEW o \in OrderIds, ConfirmOrder(o)
      PROVE  IInv'
  <2>1. Sound(stock')
    BY <1>1, <1>4, ConfirmReservationsSound DEF ConfirmOrder
  <2> QED
    BY <1>4, <2>1 DEF ConfirmOrder, IInv
<1>5. ASSUME NEW o \in OrderIds, NEW byUser \in BOOLEAN,
             NEW final \in Marks, ReleaseOrder(o, byUser, final)
      PROVE  IInv'
  <2>1. final \in ReservationStatus \ {"reserved"}
    BY MarksAssumption DEF ReservationStatus
  <2>2. Sound(stock')
    BY <1>1, <1>5, <2>1, ReleaseReservationsSound DEF ReleaseOrder
  <2> QED
    BY <1>5, <2>2 DEF ReleaseOrder, IInv
<1>6. ASSUME NEW o \in OrderIds, NEW drop \in Requests, ReleaseLines(o, drop)
      PROVE  IInv'
  <2>1. Sound(stock')
    BY <1>1, <1>2, <1>6, ReleaseUnitsSound DEF ReleaseLines
  <2> QED
    BY <1>6, <2>1 DEF ReleaseLines, IInv
<1>7. ASSUME NEW o \in OrderIds, NEW P \in SUBSET Products, ConfirmLines(o, P)
      PROVE  IInv'
  <2>1. Sound(stock')
    BY <1>1, <1>7, ConfirmReservationsSound DEF ConfirmLines
  <2> QED
    BY <1>7, <2>1 DEF ConfirmLines, IInv
<1> QED
  BY <1>3, <1>4, <1>5, <1>6, <1>7 DEF ByOrders

(***************************************************************************)
(* Whatever calls are made, in whatever order, the books stay sound.       *)
(***************************************************************************)
THEOREM BooksStaySound == Spec => []IInv
<1>1. Init => IInv
  BY InitSound
<1>2. IInv /\ [Next]_vars => IInv'
  <2> SUFFICES ASSUME IInv, [Next]_vars PROVE IInv'
    OBVIOUS
  <2>1. CASE Manual
    BY <2>1, ManualSound
  <2>2. CASE ByOrders
    BY <2>2, ByOrdersSound
  <2>3. CASE UNCHANGED vars
    BY <2>3 DEF vars, IInv
  <2> QED
    BY <2>1, <2>2, <2>3 DEF Next
<1> QED
  BY <1>1, <1>2, PTL DEF Spec

(***************************************************************************)
(* Type correctness: the reservations table always holds whole, positive   *)
(* quantities of existing inventory rows.                                  *)
(***************************************************************************)
THEOREM TypeCorrect == Spec => []TypeOK
<1>1. IInv => TypeOK
  BY DEF IInv, Sound, TypeOK
<1> QED
  BY <1>1, BooksStaySound, PTL

(***************************************************************************)
(* inventory.reservedQuantity is the sum of the reserved rows.             *)
(***************************************************************************)
THEOREM CountersMatchRows == Spec => []HoldsMatchRows
<1>1. IInv => HoldsMatchRows
  BY DEF IInv, Sound, HoldsMatchRows
<1> QED
  BY <1>1, BooksStaySound, PTL

(***************************************************************************)
(* No storage promises more than it has.                                   *)
(***************************************************************************)
THEOREM NothingOversold == Spec => []NoOversell
<1>1. IInv => NoOversell
  BY DEF IInv, Sound, NoOversell
<1> QED
  BY <1>1, BooksStaySound, PTL

(***************************************************************************)
(* The movement ledger adds up to the physical stock.                      *)
(***************************************************************************)
THEOREM LedgerAddsUp == Spec => []LedgerReconstructs
<1>1. IInv => LedgerReconstructs
  BY DEF IInv, Sound, LedgerReconstructs
<1> QED
  BY <1>1, BooksStaySound, PTL

-----------------------------------------------------------------------------
(* Transfers *)

(***************************************************************************)
(* What rehomeReservations leaves elsewhere does not fit at the counter:   *)
(* a hold was refused when only older ones had been moved, and then the    *)
(* counter had at least what it has in the end.                            *)
(***************************************************************************)
LEMMA LeftDoesNotFit ==
  ASSUME NEW s, Sound(s), NEW at, NEW t \in Locations, NEW items,
         NEW M \in SUBSET Misplaced(s, at, t, items),
         RehomesExactly(s, at, t, items, M), NEW r, r = rehomeReservations(s, t, M),
         NEW p \in Products, items[p] > 0,
         NEW i \in Misplaced(r, at, t, [NoItems EXCEPT ![p] = 1])
  PROVE  r.rsv[i].quantity > Available(r, <<t, p>>)
<1> DEFINE G     == {j \in M : s.rsv[j].cell[2] = p}
           older == {j \in M : s.rsv[j].cell[2] = p /\ Older(s, j, i)}
           from  == PerCell(s, Qty(s), M)
           to    == [c \in Cells |->
                       IF c[1] = t THEN Total(Qty(s), {j \in M : s.rsv[j].cell[2] = c[2]}) ELSE 0]
           held  == [c \in Cells |-> Larger(0, s.reserved[c] - from[c]) + to[c]]
<1>1. s \in Books /\ M \in SUBSET DOMAIN s.rsv
  BY DEF Sound, Misplaced
<1>2. r.quantity = s.quantity /\ r.reserved = held /\ r.rsv = Rehomed(s, t, M)
  <2>1. r = [s EXCEPT !.reserved = held, !.rsv = Rehomed(s, t, M)]
    BY DEF rehomeReservations
  <2> HIDE DEF held
  <2> QED
    BY <1>1, <2>1 DEF Books
<1>3. PICK c : c = <<t, p>>
  OBVIOUS
<1>4. c \in Cells /\ c[1] = t /\ c[2] = p
  BY <1>3 DEF Cells
<1>5. /\ i \in DOMAIN s.rsv /\ i \notin M /\ r.rsv[i] = s.rsv[i] /\ s.rsv[i].cell[2] = p
      /\ i \in Misplaced(s, at, t, items) /\ s.rsv[i].quantity \in Nat
  <2>1. /\ i \in DOMAIN r.rsv /\ r.rsv[i].status = "reserved" /\ r.rsv[i].cell[1] # t
        /\ at[r.rsv[i].order] = t /\ [NoItems EXCEPT ![p] = 1][r.rsv[i].cell[2]] > 0
    BY DEF Misplaced
  <2>2. /\ i \in DOMAIN s.rsv
        /\ r.rsv[i] = IF i \in M THEN [s.rsv[i] EXCEPT !.cell = <<t, @[2]>>] ELSE s.rsv[i]
    BY <1>2, <2>1 DEF Rehomed
  <2>3. s.rsv[i] \in Reservation
    BY <1>1, <2>2, TableTyped
  <2>4. i \notin M
    <3> SUFFICES ASSUME i \in M PROVE FALSE
      OBVIOUS
    <3>1. r.rsv[i].cell = <<t, s.rsv[i].cell[2]>>
      BY <2>2, <2>3 DEF Reservation
    <3> QED
      BY <2>1, <3>1
  <2>5. r.rsv[i] = s.rsv[i]
    BY <2>2, <2>4
  <2>6. s.rsv[i].cell[2] \in Products /\ s.rsv[i].quantity \in Nat
    BY <2>3 DEF Reservation, Cells
  <2>7. s.rsv[i].cell[2] = p
    BY <2>1, <2>5, <2>6 DEF NoItems
  <2> QED
    BY <2>1, <2>2, <2>4, <2>5, <2>6, <2>7 DEF Misplaced
<1>6. ~ (s.rsv[i].quantity <= Available(s, c) - Total(Qty(s), older))
  BY <1>3, <1>5 DEF RehomesExactly
<1>7. /\ Total(Qty(s), G) \in Nat /\ Total(Qty(s), older) \in Nat
      /\ Total(Qty(s), older) <= Total(Qty(s), G)
  <2>1. G \in SUBSET DOMAIN s.rsv /\ older \subseteq G
    BY <1>1
  <2> HIDE DEF G, older
  <2>2. Weighs(Qty(s), G)
    BY <1>1, <2>1, RowsWeigh
  <2>3. /\ Total(Qty(s), G \ older) = Total(Qty(s), G) - Total(Qty(s), older)
        /\ Total(Qty(s), G) \in Nat /\ Total(Qty(s), older) \in Nat
        /\ Total(Qty(s), G \ older) \in Nat
    BY <2>1, <2>2, TotalDifference
  <2> QED
    BY <2>3
<1>8. from[c] = 0 /\ to[c] = Total(Qty(s), G)
  <2>1. {j \in M : s.rsv[j].cell = c} = {}
    BY <1>4 DEF Misplaced
  <2>2. from[c] = Total(Qty(s), {j \in M : s.rsv[j].cell = c})
    BY <1>4 DEF PerCell
  <2>3. from[c] = 0
    BY <2>1, <2>2, TotalEmpty
  <2>4. to[c] = Total(Qty(s), {j \in M : s.rsv[j].cell[2] = c[2]})
    BY <1>4
  <2> QED
    BY <1>4, <2>3, <2>4
<1>9. s.quantity[c] \in Int /\ s.reserved[c] \in Nat
  BY <1>1, <1>4 DEF Sound, NeverOversold, Books
<1>10. r.reserved[c] = s.reserved[c] + Total(Qty(s), G)
  <2>1. r.reserved[c] = Larger(0, s.reserved[c] - from[c]) + to[c]
    BY <1>2, <1>4
  <2> HIDE DEF from, to, G
  <2> QED
    BY <1>7, <1>8, <1>9, <2>1 DEF Larger
<1> HIDE DEF G, older
<1>11. r.rsv[i].quantity > Available(r, c)
  BY <1>2, <1>5, <1>6, <1>7, <1>9, <1>10 DEF Available
<1> QED
  BY <1>3, <1>11

(***************************************************************************)
(* A call of OrdersService raises the physical count of no inventory row,  *)
(* or lowers that of none.                                                 *)
(***************************************************************************)
LEMMA OneWay ==
  ASSUME IInv, ByOrders
  PROVE  \/ \A c \in Cells : stock'.quantity[c] <= stock.quantity[c]
         \/ \A c \in Cells : stock'.quantity[c] >= stock.quantity[c]
<1> DEFINE s == stock
<1>1. s \in Books /\ \A c \in Cells : s.quantity[c] \in Int
  BY DEF IInv, Sound, Books
<1>2. ASSUME NEW n \in [Cells -> Nat], stock'.quantity = Minus(s.quantity, n)
      PROVE  \A c \in Cells : stock'.quantity[c] <= s.quantity[c]
  BY <1>1, <1>2 DEF Minus
<1>3. ASSUME NEW n \in [Cells -> Nat], stock'.quantity = Plus(s.quantity, n)
      PROVE  \A c \in Cells : stock'.quantity[c] >= s.quantity[c]
  BY <1>1, <1>3 DEF Plus
<1>4. ASSUME NEW o \in OrderIds, NEW items \in Requests, NEW places \in SUBSET Locations,
             Reserve(o, items, places)
      PROVE  \A c \in Cells : stock'.quantity[c] >= s.quantity[c]
  <2>1. PICK a, q : stock' = reserve(s, o, a, q)
    BY <1>4 DEF Reserve, Reserved
  <2>2. stock'.quantity = s.quantity
    BY <1>1, <2>1 DEF reserve, Books
  <2> QED
    BY <1>1, <2>2
<1>5. ASSUME NEW I \in SUBSET DOMAIN s.rsv, stock' = Confirm(s, I)
      PROVE  \A c \in Cells : stock'.quantity[c] <= s.quantity[c]
  <2>1. PICK n : n = PerCell(s, Qty(s), I)
    OBVIOUS
  <2>2. n \in [Cells -> Nat]
    BY <1>1, <2>1, PerCellNat
  <2>3. stock'.quantity = Minus(s.quantity, n)
    BY <1>1, <1>5, <2>1 DEF Confirm, Books
  <2> QED
    BY <1>2, <2>2, <2>3
<1>6. ASSUME NEW o \in OrderIds, NEW final \in Marks, stock' = releaseReservations(s, o, final)
      PROVE  \A c \in Cells : stock'.quantity[c] >= s.quantity[c]
  <2>1. PICK h : h = Release(s, RowsOf(s, o, "reserved"), final)
    OBVIOUS
  <2>2. h.quantity = s.quantity
    BY <1>1, <2>1 DEF Release, Books
  <2>3. h \in Books
    <3>1. final \in ReservationStatus \ {"reserved"}
      BY MarksAssumption DEF ReservationStatus
    <3>2. Sound(h)
      BY <2>1, <3>1, ReleaseSound DEF RowsOf, IInv
    <3> QED
      BY <3>2 DEF Sound
  <2>4. PICK I : I = RowsOf(h, o, "confirmed")
    OBVIOUS
  <2>5. I \in SUBSET DOMAIN h.rsv /\ stock' = Restock(h, I, final)
    BY <1>6, <2>1, <2>4 DEF releaseReservations, RowsOf
  <2>6. PICK n : n = PerCell(h, Qty(h), I)
    OBVIOUS
  <2>7. n \in [Cells -> Nat]
    BY <2>3, <2>5, <2>6, PerCellNat
  <2>8. stock'.quantity = Plus(s.quantity, n)
    BY <2>2, <2>3, <2>5, <2>6 DEF Restock, Books
  <2> QED
    BY <1>3, <2>7, <2>8
<1>7. ASSUME NEW o \in OrderIds, NEW drop \in Requests, stock' = releaseProductUnits(s, o, drop)
      PROVE  \A c \in Cells : stock'.quantity[c] >= s.quantity[c]
  <2>1. PICK take : take = Take(s, o, drop)
    OBVIOUS
  <2>2. \A i \in DOMAIN s.rsv : take[i] \in Nat
    <3>1. drop \in [Products -> Nat]
      BY MaxQuantityAssumption DEF Requests, Items
    <3>2. \A i \in DOMAIN s.rsv : take[i] \in 0 .. s.rsv[i].quantity
      BY <1>1, <2>1, <3>1, TakeBounded
    <3> QED
      BY <3>2
  <2>3. PICK n : n = PerCell(s, take, RowsOf(s, o, "confirmed"))
    OBVIOUS
  <2>4. n \in [Cells -> Nat]
    <3>1. ASSUME NEW c \in Cells
          PROVE  Total(take, {i \in RowsOf(s, o, "confirmed") : s.rsv[i].cell = c}) \in Nat
      <4>1. PICK S : S = {i \in RowsOf(s, o, "confirmed") : s.rsv[i].cell = c}
        OBVIOUS
      <4>2. S \subseteq DOMAIN s.rsv
        BY <4>1 DEF RowsOf
      <4>3. IsFiniteSet(S)
        BY <1>1, <4>2, TableTyped, FS_Subset
      <4>4. Weighs(take, S)
        BY <2>2, <4>2, <4>3 DEF Weighs
      <4> QED
        BY <4>1, <4>4, UnitsFinite
    <3> QED
      BY <2>3, <3>1 DEF PerCell
  <2>5. stock'.quantity = Plus(s.quantity, n)
    <3>1. PICK R, T : stock' = [s EXCEPT !.reserved = R, !.quantity = Plus(s.quantity, n),
                                         !.ledger = Plus(s.ledger, n), !.rsv = T]
      BY <1>1, <1>7, <2>1, <2>3 DEF releaseProductUnits, Books
    <3> QED
      BY <1>1, <3>1 DEF Books
  <2> QED
    BY <1>3, <2>4, <2>5
<1>8. ASSUME NEW o \in OrderIds, NEW P
      PROVE  /\ stock' = confirmReservations(s, o)
                  => \A c \in Cells : stock'.quantity[c] <= s.quantity[c]
             /\ stock' = confirmProductReservations(s, o, P)
                  => \A c \in Cells : stock'.quantity[c] <= s.quantity[c]
  BY <1>5 DEF confirmReservations, confirmProductReservations, RowsOf
<1> QED
  BY <1>4, <1>6, <1>7, <1>8 DEF ByOrders, ConfirmOrder, ConfirmLines, ReleaseOrder, ReleaseLines

(***************************************************************************)
(* For any storages, products, orders and quantities: a transfer to a      *)
(* counter leaves no hold elsewhere that the counter could now serve.      *)
(***************************************************************************)
THEOREM TransfersRehome == Spec => TransferRehomesAll
<1>1. IInv /\ [Next]_vars =>
        [\A l, t \in Locations, p \in Products :
           /\ stock'.quantity[l, p] < stock.quantity[l, p]
           /\ stock'.quantity[t, p] > stock.quantity[t, p]
           => \A i \in Misplaced(stock', pickup, t, [NoItems EXCEPT ![p] = 1]) :
                stock'.rsv[i].quantity > Available(stock', <<t, p>>)]_vars
  <2> SUFFICES ASSUME IInv, Next, NEW l \in Locations, NEW t \in Locations, NEW p \in Products,
                      stock'.quantity[<<l, p>>] < stock.quantity[<<l, p>>],
                      stock'.quantity[<<t, p>>] > stock.quantity[<<t, p>>],
                      NEW i \in Misplaced(stock', pickup, t, [NoItems EXCEPT ![p] = 1])
               PROVE  stock'.rsv[i].quantity > Available(stock', <<t, p>>)
    BY DEF vars
  <2>1. <<l, p>> \in Cells /\ <<t, p>> \in Cells
    BY DEF Cells
  <2>2. stock \in Books /\ stock' \in Books
    BY ManualSound, ByOrdersSound DEF Next, IInv, Sound
  <2>3. \A c \in Cells : stock.quantity[c] \in Int /\ stock'.quantity[c] \in Int
    BY <2>2 DEF Books
  <2>4. CASE ByOrders
    BY <2>1, <2>3, <2>4, OneWay
  <2>5. ASSUME NEW w, NEW items \in Requests
        PROVE  \A c \in Cells : /\ At(w, items)[c] \in Nat
                                /\ c[1] # w => At(w, items)[c] = 0
                                /\ c[1] = w => At(w, items)[c] = items[c[2]]
    BY MaxQuantityAssumption DEF At, Requests, Items, Cells
  <2>6. ASSUME NEW w \in Locations, NEW items \in Requests, StockIn(w, items)
        PROVE  FALSE
    <3>1. stock'.quantity = Plus(stock.quantity, At(w, items))
      BY <2>2, <2>6 DEF StockIn, addStock, Books
    <3> QED
      BY <2>1, <2>3, <2>5, <3>1 DEF Plus
  <2>7. ASSUME NEW w \in Locations, NEW items \in Requests, StockOut(w, items)
        PROVE  FALSE
    <3>1. stock'.quantity = Minus(stock.quantity, At(w, items))
      BY <2>2, <2>7 DEF StockOut, removeStock, Books
    <3> QED
      BY <2>1, <2>3, <2>5, <3>1 DEF Minus
  <2>8. ASSUME NEW w \in Locations, NEW u \in Locations, NEW items \in Requests,
               Transfer(w, u, items)
        PROVE  stock'.rsv[i].quantity > Available(stock', <<t, p>>)
    <3>1. PICK b, M :
            /\ Sound(b) /\ b.rsv = stock.rsv /\ M \in SUBSET Misplaced(b, pickup, u, items)
            /\ b.quantity = Plus(Minus(stock.quantity, At(w, items)), At(u, items))
            /\ RehomesExactly(b, pickup, u, items, M)
            /\ stock' = rehomeReservations(b, u, M)
      BY <2>8, TransferIs
    <3>2. stock'.quantity = b.quantity
      BY <3>1 DEF rehomeReservations, Sound, Books
    <3>3. PICK c : c = <<t, p>>
      OBVIOUS
    <3>4. c \in Cells /\ c[1] = t /\ c[2] = p
      BY <2>1, <3>3
    <3>5. stock'.quantity[c] = (stock.quantity[c] - At(w, items)[c]) + At(u, items)[c]
      BY <3>1, <3>2, <3>4 DEF Plus, Minus
    <3>6. At(u, items)[c] > 0
      BY <2>3, <2>5, <3>3, <3>4, <3>5
    <3>7. u = t /\ items[p] > 0
      BY <2>5, <3>4, <3>6
    <3> QED
      BY <3>1, <3>7, LeftDoesNotFit
  <2> QED
    BY <2>4, <2>6, <2>7, <2>8 DEF Next, Manual
<1> QED
  BY <1>1, BooksStaySound, PTL DEF Spec, TransferRehomesAll

-----------------------------------------------------------------------------
(* The history of an order *)

Accounted(s, o, p) == Total(Qty(s), AllRows(s, o, p))

Closed == {"cancelled", "expired"}

(* Closed rows of s are the same in z, and no unit of a line was lost. *)
Remembers(s, z) ==
  /\ \A o \in OrderIds, p \in Products : Accounted(s, o, p) <= Accounted(z, o, p)
  /\ \A i \in DOMAIN s.rsv : s.rsv[i].status \in Closed => z.rsv[i] = s.rsv[i]

(***************************************************************************)
(* What the rows of a line add up to is a number.                          *)
(***************************************************************************)
LEMMA AccountedNat ==
  ASSUME NEW s \in Books, NEW o, NEW p
  PROVE  /\ AllRows(s, o, p) \in SUBSET DOMAIN s.rsv /\ Weighs(Qty(s), AllRows(s, o, p))
         /\ Accounted(s, o, p) \in Nat
<1>1. AllRows(s, o, p) \in SUBSET DOMAIN s.rsv
  BY DEF AllRows
<1> QED
  BY <1>1, RowsWeigh DEF Accounted

(***************************************************************************)
(* A step that changes only the status of open rows, or their storage,     *)
(* forgets nothing.                                                        *)
(***************************************************************************)
LEMMA SameUnits ==
  ASSUME NEW s \in Books, NEW z, DOMAIN z.rsv = DOMAIN s.rsv,
         \A i \in DOMAIN s.rsv :
           /\ z.rsv[i].order = s.rsv[i].order /\ z.rsv[i].quantity = s.rsv[i].quantity
           /\ z.rsv[i].cell[2] = s.rsv[i].cell[2]
           /\ s.rsv[i].status \in Closed => z.rsv[i] = s.rsv[i]
  PROVE  Remembers(s, z)
<1>1. Qty(z) = Qty(s)
  BY DEF Qty
<1>2. \A o, p : AllRows(z, o, p) = AllRows(s, o, p)
  BY DEF AllRows
<1>3. \A o, p : Accounted(z, o, p) = Accounted(s, o, p) /\ Accounted(s, o, p) \in Nat
  BY <1>1, <1>2, AccountedNat DEF Accounted
<1> QED
  BY <1>3 DEF Remembers

(***************************************************************************)
(* Closing open rows is such a step.                                       *)
(***************************************************************************)
LEMMA ClosingRemembers ==
  ASSUME NEW s \in Books, NEW I \in SUBSET DOMAIN s.rsv, NEW final,
         \A i \in I : s.rsv[i].status \notin Closed,
         NEW z, z.rsv = WithStatus(s.rsv, I, final)
  PROVE  Remembers(s, z)
<1>1. \A i \in DOMAIN s.rsv : s.rsv[i] \in Reservation
  BY TableTyped
<1>2. /\ DOMAIN z.rsv = DOMAIN s.rsv
      /\ \A i \in DOMAIN s.rsv :
           z.rsv[i] = IF i \in I THEN [s.rsv[i] EXCEPT !.status = final] ELSE s.rsv[i]
  BY DEF WithStatus
<1>3. \A i \in DOMAIN s.rsv :
        /\ z.rsv[i].order = s.rsv[i].order /\ z.rsv[i].quantity = s.rsv[i].quantity
        /\ z.rsv[i].cell = s.rsv[i].cell
        /\ s.rsv[i].status \in Closed => z.rsv[i] = s.rsv[i]
  BY <1>1, <1>2 DEF Reservation
<1> QED
  BY <1>2, <1>3, SameUnits

(***************************************************************************)
(* One step after the other.                                               *)
(***************************************************************************)
LEMMA RemembersBoth ==
  ASSUME NEW s \in Books, NEW h \in Books, NEW z \in Books, Remembers(s, h), Remembers(h, z),
         DOMAIN s.rsv \subseteq DOMAIN h.rsv
  PROVE  Remembers(s, z)
<1>1. \A o, p : Accounted(s, o, p) \in Nat /\ Accounted(h, o, p) \in Nat /\ Accounted(z, o, p) \in Nat
  BY AccountedNat
<1>2. \A o \in OrderIds, p \in Products : Accounted(s, o, p) <= Accounted(z, o, p)
  BY <1>1 DEF Remembers
<1>3. \A i \in DOMAIN s.rsv : s.rsv[i].status \in Closed => z.rsv[i] = s.rsv[i]
  BY DEF Remembers
<1> QED
  BY <1>2, <1>3 DEF Remembers

(***************************************************************************)
(* The rows that n old rows and some new ones at the end are.              *)
(***************************************************************************)
NewOf(z, n, o, p) == {i \in AllRows(z, o, p) : i > n}

(***************************************************************************)
(* A line of a longer table: its old rows and its new rows.                *)
(***************************************************************************)
LEMMA LongerTable ==
  ASSUME NEW s \in Books, NEW z \in Books, DOMAIN s.rsv \subseteq DOMAIN z.rsv,
         \A i \in DOMAIN s.rsv : /\ z.rsv[i].order = s.rsv[i].order
                                 /\ z.rsv[i].cell[2] = s.rsv[i].cell[2],
         NEW o, NEW p
  PROVE  /\ Accounted(z, o, p) = Total(Qty(z), AllRows(s, o, p)) + Total(Qty(z), NewOf(z, Len(s.rsv), o, p))
         /\ Total(Qty(z), AllRows(s, o, p)) \in Nat
         /\ Total(Qty(z), NewOf(z, Len(s.rsv), o, p)) \in Nat
<1> DEFINE A == AllRows(s, o, p)
           N == NewOf(z, Len(s.rsv), o, p)
<1>1. /\ Len(s.rsv) \in Nat /\ DOMAIN s.rsv = 1 .. Len(s.rsv)
      /\ Len(z.rsv) \in Nat /\ DOMAIN z.rsv = 1 .. Len(z.rsv)
  BY TableTyped
<1>2. AllRows(z, o, p) = A \cup N /\ A \cap N = {}
  BY <1>1 DEF AllRows, NewOf
<1>3. A \in SUBSET DOMAIN z.rsv /\ N \in SUBSET DOMAIN z.rsv
  BY DEF AllRows, NewOf
<1> HIDE DEF A, N
<1>4. /\ Weighs(Qty(z), A) /\ Weighs(Qty(z), N)
      /\ Total(Qty(z), A) \in Nat /\ Total(Qty(z), N) \in Nat
  BY <1>3, RowsWeigh
<1>5. Total(Qty(z), A \cup N) = Total(Qty(z), A) + Total(Qty(z), N)
  BY <1>2, <1>4, TotalUnion
<1> QED
  BY <1>2, <1>4, <1>5 DEF Accounted, A, N

(***************************************************************************)
(* New rows only add to the history.                                       *)
(***************************************************************************)
LEMMA AppendRemembers ==
  ASSUME NEW s \in Books, NEW x \in Seq(Reservation), NEW z \in Books, z.rsv = s.rsv \o x
  PROVE  Remembers(s, z)
<1>1. s.rsv \in Seq(Reservation)
  BY DEF Books
<1>2. /\ Len(s.rsv) \in Nat /\ DOMAIN s.rsv = 1 .. Len(s.rsv) /\ Len(x) \in Nat
      /\ DOMAIN z.rsv = 1 .. (Len(s.rsv) + Len(x))
  BY <1>1, TableTyped, LenProperties, ConcatProperties
<1>3. \A i \in DOMAIN s.rsv : i \in DOMAIN z.rsv /\ z.rsv[i] = s.rsv[i]
  BY <1>1, <1>2, ConcatProperties
<1>4. ASSUME NEW o, NEW p
      PROVE  Accounted(s, o, p) <= Accounted(z, o, p)
  <2>1. /\ Accounted(z, o, p) = Total(Qty(z), AllRows(s, o, p)) + Total(Qty(z), NewOf(z, Len(s.rsv), o, p))
        /\ Total(Qty(z), AllRows(s, o, p)) \in Nat
        /\ Total(Qty(z), NewOf(z, Len(s.rsv), o, p)) \in Nat
    BY <1>3, LongerTable
  <2>2. Total(Qty(z), AllRows(s, o, p)) = Total(Qty(s), AllRows(s, o, p))
    <3>1. \A i \in AllRows(s, o, p) : Qty(z)[i] = Qty(s)[i]
      BY <1>3 DEF AllRows, Qty
    <3> QED
      BY <3>1, TotalSame
  <2> QED
    BY <2>1, <2>2 DEF Accounted
<1> QED
  BY <1>3, <1>4 DEF Remembers

(* The n rows of s, those of P less the part let go, and the parts in order q. *)
PartsBehind(s, z, o, take, n, P, q) ==
  /\ IsFiniteSet(P) /\ DOMAIN z.rsv = 1 .. (n + Cardinality(P))
  /\ \A i \in P : take[i] \in Nat
  /\ \A i \in DOMAIN s.rsv :
       /\ z.rsv[i].order = s.rsv[i].order /\ z.rsv[i].cell = s.rsv[i].cell
       /\ z.rsv[i].quantity = s.rsv[i].quantity - IF i \in P THEN take[i] ELSE 0
       /\ i \notin Live(s, o) => z.rsv[i] = s.rsv[i]
  /\ \A j \in 1 .. Cardinality(P) :
       /\ z.rsv[n + j].order = s.rsv[q[j]].order
       /\ z.rsv[n + j].cell = s.rsv[q[j]].cell
       /\ z.rsv[n + j].quantity = take[q[j]]

(***************************************************************************)
(* The table after releaseProductUnits: of the rows P part is let go, and  *)
(* behind the old rows each part has a row of its own, in some order q.    *)
(***************************************************************************)
LEMMA PartsSplitOff ==
  ASSUME NEW s \in Books, NEW o \in OrderIds, NEW drop \in [Products -> Nat],
         NEW z, z = releaseProductUnits(s, o, drop),
         NEW take, take = Take(s, o, drop), NEW n, n = Len(s.rsv)
  PROVE  \E P \in SUBSET Live(s, o) : \E q \in Listings(P) : PartsBehind(s, z, o, take, n, P, q)
<1> DEFINE whole == {i \in Live(s, o) : take[i] = s.rsv[i].quantity}
           P     == {i \in Live(s, o) : take[i] \in 1 .. (s.rsv[i].quantity - 1)}
           q     == CHOOSE f \in Listings(P) : TRUE
           m     == Cardinality(P)
           row(i) == IF i \in P
                     THEN [s.rsv[i] EXCEPT !.quantity = @ - take[i]]
                     ELSE WithStatus(s.rsv, whole, "cancelled")[i]
           kept  == [i \in DOMAIN s.rsv |-> row(i)]
           x     == [k \in DOMAIN q |->
                       [s.rsv[q[k]] EXCEPT !.quantity = take[q[k]], !.status = "cancelled"]]
<1>1. z.rsv = kept \o x
  <2>1. PICK R, Q, L, T : /\ z = [s EXCEPT !.reserved = R, !.quantity = Q, !.ledger = L, !.rsv = T]
                          /\ T = kept \o SplitOff(s, take, P)
    BY DEF releaseProductUnits, Books
  <2>2. SplitOff(s, take, P) = x
    BY DEF SplitOff
  <2> HIDE DEF kept, x, P
  <2> QED
    BY <2>1, <2>2 DEF Books
<1>2. /\ n \in Nat /\ DOMAIN s.rsv = 1 .. n /\ IsFiniteSet(DOMAIN s.rsv)
      /\ \A i \in DOMAIN s.rsv : s.rsv[i] \in Reservation
  BY TableTyped
<1>3. Live(s, o) \subseteq DOMAIN s.rsv
  BY DEF Live, RowsOf
<1>4. P \in SUBSET Live(s, o) /\ IsFiniteSet(P)
  BY <1>2, <1>3, FS_Subset
<1>5. \A i \in P : take[i] \in Nat
  OBVIOUS
<1>6. \A i \in DOMAIN s.rsv :
        /\ row(i).order = s.rsv[i].order /\ row(i).cell = s.rsv[i].cell
        /\ row(i).quantity = s.rsv[i].quantity - IF i \in P THEN take[i] ELSE 0
        /\ i \notin Live(s, o) => row(i) = s.rsv[i]
  <2> TAKE i \in DOMAIN s.rsv
  <2>1. s.rsv[i] \in Reservation /\ s.rsv[i].quantity \in Nat
    BY <1>2 DEF Reservation
  <2>2. CASE i \in P
    BY <2>1, <2>2 DEF Reservation
  <2>3. CASE i \notin P
    <3>1. row(i) = IF i \in whole THEN [s.rsv[i] EXCEPT !.status = "cancelled"] ELSE s.rsv[i]
      BY <2>3 DEF WithStatus
    <3> QED
      BY <2>1, <2>3, <3>1 DEF Reservation
  <2> QED
    BY <2>2, <2>3
<1> HIDE DEF P, row
<1>7. m \in Nat /\ q \in Listings(P)
  BY <1>4, ListingExists
<1>8. q \in [1 .. m -> P]
  BY <1>7 DEF Listings
<1> HIDE DEF q, m
<1>9. /\ DOMAIN x = 1 .. m
      /\ \A j \in 1 .. m : /\ x[j].order = s.rsv[q[j]].order /\ x[j].cell = s.rsv[q[j]].cell
                           /\ x[j].quantity = take[q[j]]
  <2>1. \A j \in 1 .. m : s.rsv[q[j]] \in Reservation
    BY <1>2, <1>3, <1>4, <1>8
  <2> QED
    BY <1>8, <2>1 DEF Reservation
<1> HIDE DEF x
<1>10. /\ DOMAIN z.rsv = 1 .. (n + m)
       /\ \A i \in 1 .. n : z.rsv[i] = kept[i]
       /\ \A j \in 1 .. m : z.rsv[n + j] = x[j]
  <2>1. Len(kept) = n /\ Len(x) = m
    BY <1>2, <1>7, <1>9
  <2>2. PICK S : S = {kept[i] : i \in 1 .. n} \cup {x[j] : j \in 1 .. m}
    OBVIOUS
  <2>4. kept \in Seq(S) /\ x \in Seq(S)
    <3>1. kept = [i \in 1 .. n |-> kept[i]] /\ x = [j \in 1 .. m |-> x[j]]
      BY <1>2, <1>9 DEF x
    <3> HIDE DEF kept
    <3>2. kept \in [1 .. n -> S] /\ x \in [1 .. m -> S]
      BY <2>2, <3>1
    <3> HIDE DEF x
    <3>3. kept \in Seq(S)
      BY <1>2, <3>2, SeqDef
    <3>4. x \in Seq(S)
      BY <1>7, <3>2, SeqDef
    <3> QED
      BY <3>3, <3>4
  <2>3. /\ \A i \in 1 .. n : i \in 1 .. (n + m) /\ i <= n
        /\ \A j \in 1 .. m : n + j \in 1 .. (n + m) /\ ~ (n + j <= n) /\ (n + j) - n = j
    BY <1>2, <1>7
  <2> HIDE DEF kept
  <2>5. /\ Len(z.rsv) = n + m /\ DOMAIN z.rsv = 1 .. (n + m)
        /\ \A i \in 1 .. (n + m) : z.rsv[i] = IF i <= n THEN kept[i] ELSE x[i - n]
    <3>1. /\ z.rsv \in Seq(S) /\ Len(z.rsv) = n + m
          /\ \A i \in 1 .. (n + m) : z.rsv[i] = IF i <= n THEN kept[i] ELSE x[i - n]
      <4>1. /\ kept \o x \in Seq(S)
            /\ Len(kept \o x) = Len(kept) + Len(x)
            /\ \A i \in 1 .. Len(kept) + Len(x) :
                 (kept \o x)[i] = IF i <= Len(kept) THEN kept[i] ELSE x[i - Len(kept)]
        BY <2>4, ConcatProperties, Zenon
      <4> QED
        BY <1>1, <2>1, <4>1, Zenon
    <3>2. DOMAIN z.rsv = 1 .. (n + m)
      BY <3>1, LenProperties
    <3> QED
      BY <3>1, <3>2
  <2> QED
    BY <2>3, <2>5
<1>11. \A i \in DOMAIN s.rsv : z.rsv[i] = row(i)
  BY <1>2, <1>10
<1>12. \A j \in 1 .. m : /\ z.rsv[n + j].order = s.rsv[q[j]].order
                          /\ z.rsv[n + j].cell = s.rsv[q[j]].cell
                          /\ z.rsv[n + j].quantity = take[q[j]]
  BY <1>9, <1>10
<1>13. \A i \in DOMAIN s.rsv :
         /\ z.rsv[i].order = s.rsv[i].order /\ z.rsv[i].cell = s.rsv[i].cell
         /\ z.rsv[i].quantity = s.rsv[i].quantity - IF i \in P THEN take[i] ELSE 0
         /\ i \notin Live(s, o) => z.rsv[i] = s.rsv[i]
  BY <1>6, <1>11
<1>14. DOMAIN z.rsv = 1 .. (n + m) /\ P \in SUBSET Live(s, o) /\ q \in Listings(P)
  BY <1>4, <1>7, <1>10
<1> P \in SUBSET Live(s, o) /\ q \in Listings(P)
  BY <1>14
<1> WITNESS P \in SUBSET Live(s, o)
<1> WITNESS q \in Listings(P)
<1> QED
  BY <1>4, <1>5, <1>12, <1>13, <1>14 DEF m, PartsBehind

(***************************************************************************)
(* A partial release forgets nothing: what each row loses, its part keeps. *)
(***************************************************************************)
LEMMA LinesRemember ==
  ASSUME NEW s, Sound(s), NEW o \in OrderIds, NEW drop \in [Products -> Nat],
         NEW z, z = releaseProductUnits(s, o, drop)
  PROVE  Remembers(s, z)
<1>1. s \in Books /\ z \in Books
  <2>1. Sound(releaseProductUnits(s, o, drop))
    BY ReleaseUnitsSound
  <2> QED
    BY <2>1 DEF Sound
<1>2. PICK take, n : take = Take(s, o, drop) /\ n = Len(s.rsv)
  OBVIOUS
<1>3. PICK P \in SUBSET Live(s, o) :
        \E q \in Listings(P) : PartsBehind(s, z, o, take, n, P, q)
  BY <1>1, <1>2, PartsSplitOff
<1>4. PICK q \in Listings(P) : PartsBehind(s, z, o, take, n, P, q)
  BY <1>3
<1>5. PICK m : m = Cardinality(P)
  OBVIOUS
<1>6. /\ n \in Nat /\ m \in Nat /\ DOMAIN s.rsv = 1 .. n /\ DOMAIN z.rsv = 1 .. (n + m)
      /\ P \subseteq DOMAIN s.rsv /\ \A i \in P : take[i] \in Nat
  BY <1>1, <1>2, <1>4, <1>5, TableTyped, FS_CardinalityType DEF Live, RowsOf, PartsBehind
<1>7. /\ q \in [1 .. m -> P] /\ \A j, k \in 1 .. m : q[j] = q[k] => j = k
      /\ \A i \in P : \E j \in 1 .. m : q[j] = i
  BY <1>4, <1>5 DEF Listings
<1>8. \A i \in DOMAIN s.rsv :
        /\ z.rsv[i].order = s.rsv[i].order /\ z.rsv[i].cell = s.rsv[i].cell
        /\ z.rsv[i].quantity = s.rsv[i].quantity - IF i \in P THEN take[i] ELSE 0
        /\ i \notin Live(s, o) => z.rsv[i] = s.rsv[i]
  BY <1>4 DEF PartsBehind
<1>9. \A i \in DOMAIN s.rsv : s.rsv[i].status \in Closed => z.rsv[i] = s.rsv[i]
  <2>1. \A i \in Live(s, o) : s.rsv[i].status \notin Closed
    BY DEF Live, RowsOf, Closed
  <2> QED
    BY <1>8, <2>1
<1>10. ASSUME NEW u \in OrderIds, NEW p \in Products
       PROVE  Accounted(s, u, p) <= Accounted(z, u, p)
  <2> DEFINE A == AllRows(s, u, p)
             B == A \cap P
             N == NewOf(z, n, u, p)
             V == [i \in A |-> IF i \in P THEN take[i] ELSE 0]
             f == [k \in N |-> q[k - n]]
  <2>1. /\ Accounted(z, u, p) = Total(Qty(z), A) + Total(Qty(z), N)
        /\ Total(Qty(z), A) \in Nat /\ Total(Qty(z), N) \in Nat
    <3>1. DOMAIN s.rsv \subseteq DOMAIN z.rsv
      BY <1>6
    <3> QED
      BY <1>1, <1>2, <1>8, <3>1, LongerTable
  <2>2. A \in SUBSET DOMAIN s.rsv /\ A \in SUBSET DOMAIN z.rsv /\ N \in SUBSET DOMAIN z.rsv
    BY <1>6 DEF AllRows, NewOf
  <2>3. Weighs(Qty(z), A) /\ Weighs(Qty(z), N) /\ IsFiniteSet(A)
    <3> HIDE DEF A, N
    <3>1. Weighs(Qty(z), A) /\ Weighs(Qty(z), N)
      BY <1>1, <2>2, RowsWeigh
    <3> QED
      BY <3>1 DEF Weighs
  <2>4. Weighs(V, A)
    BY <1>6, <2>3 DEF Weighs
  <2>5. \A i \in A : Qty(s)[i] = Qty(z)[i] + V[i]
    <3> TAKE i \in A
    <3>1. s.rsv[i].quantity \in Nat
      BY <1>1, <2>2, TableTyped DEF Reservation
    <3>2. Qty(s)[i] = s.rsv[i].quantity /\ Qty(z)[i] = z.rsv[i].quantity
      BY <2>2 DEF Qty
    <3>3. V[i] = (IF i \in P THEN take[i] ELSE 0) /\ V[i] \in Nat
      BY <1>6
    <3>4. z.rsv[i].quantity = s.rsv[i].quantity - V[i]
      BY <1>8, <2>2, <3>3
    <3> HIDE DEF V
    <3> QED
      BY <3>1, <3>2, <3>3, <3>4
  <2>6. Total(Qty(s), A) = Total(Qty(z), A) + Total(V, A)
    <3> HIDE DEF A, V
    <3> QED
      BY <2>3, <2>4, <2>5, TotalPlus
  <2>7. Total(V, A) = Total(take, B)
    <3>1. \A i \in A \ B : V[i] = 0
      OBVIOUS
    <3>2. \A i \in B : V[i] = take[i]
      OBVIOUS
    <3>3. B \in SUBSET A
      OBVIOUS
    <3> HIDE DEF A, B, V
    <3>4. Total(V, A) = Total(V, B)
      BY <3>1, <3>3, TotalZeros
    <3> QED
      BY <3>2, <3>4, TotalSame
  <2>8. \A k \in N : /\ k - n \in 1 .. m /\ n + (k - n) = k /\ q[k - n] \in B
                     /\ Qty(z)[k] = take[q[k - n]]
    <3> TAKE k \in N
    <3>1. /\ k \in 1 .. (n + m) /\ k > n /\ z.rsv[k].order = u /\ z.rsv[k].cell[2] = p
      BY <1>6 DEF NewOf, AllRows
    <3>2. k - n \in 1 .. m /\ n + (k - n) = k
      BY <1>6, <3>1
    <3>3. PICK j : j = k - n
      OBVIOUS
    <3>4. j \in 1 .. m /\ z.rsv[k].order = s.rsv[q[j]].order /\ z.rsv[k].cell = s.rsv[q[j]].cell
          /\ z.rsv[k].quantity = take[q[j]]
      BY <1>4, <1>5, <3>2, <3>3 DEF PartsBehind
    <3>5. q[j] \in P /\ q[j] \in DOMAIN s.rsv
      BY <1>6, <1>7, <3>4
    <3>6. q[j] \in A
      BY <3>1, <3>4, <3>5 DEF AllRows
    <3>7. Qty(z)[k] = z.rsv[k].quantity
      BY <1>6, <3>1 DEF Qty
    <3> QED
      BY <3>2, <3>3, <3>4, <3>5, <3>6, <3>7
  <2>9. \A i \in B : \E k \in N : f[k] = i
    <3> TAKE i \in B
    <3>1. PICK j \in 1 .. m : q[j] = i
      BY <1>7
    <3>2. n + j \in 1 .. (n + m) /\ n + j > n /\ (n + j) - n = j
      BY <1>6
    <3>3. n + j \in N
      BY <1>4, <1>5, <1>6, <3>1, <3>2 DEF NewOf, AllRows, PartsBehind
    <3>4. f[n + j] = i
      BY <3>1, <3>2, <3>3
    <3> QED
      BY <3>3, <3>4
  <2>10. f \in Bijection(N, B)
    <3>1. f \in [N -> B]
      BY <2>8
    <3>2. \A j, k \in N : f[j] = f[k] => j = k
      BY <1>7, <2>8
    <3> HIDE DEF f, N, B
    <3> QED
      BY <2>9, <3>1, <3>2 DEF Bijection, Injection, Surjection, IsInjective
  <2>11. Total(take, B) = Total(Qty(z), N)
    <3>1. \A k \in N : take[f[k]] = Qty(z)[k]
      BY <2>8
    <3> HIDE DEF f, N, B
    <3> QED
      BY <2>3, <2>10, <3>1, TotalRenamed
  <2> HIDE DEF A, B, N, V
  <2>12. Accounted(s, u, p) = Accounted(z, u, p)
    BY <2>1, <2>6, <2>7, <2>11 DEF Accounted, A
  <2> QED
    BY <2>1, <2>12
<1> QED
  BY <1>9, <1>10 DEF Remembers

(***************************************************************************)
(* Every operation of InventoryService remembers what orders ever held.    *)
(***************************************************************************)
LEMMA StepsRemember ==
  ASSUME IInv, Next
  PROVE  Remembers(stock, stock')
<1> DEFINE s == stock
<1>1. Sound(s) /\ s \in Books /\ stock' \in Books
  BY ManualSound, ByOrdersSound DEF Next, IInv, Sound
<1>2. ASSUME stock'.rsv = s.rsv
      PROVE  Remembers(s, stock')
  BY <1>1, <1>2, SameUnits
<1>3. ASSUME NEW l \in Locations, NEW items \in Requests, StockIn(l, items) \/ StockOut(l, items)
      PROVE  Remembers(s, stock')
  <2>1. stock'.rsv = s.rsv
    BY <1>1, <1>3 DEF StockIn, StockOut, addStock, removeStock, Books
  <2> QED
    BY <1>2, <2>1
<1>4. ASSUME NEW l \in Locations, NEW t \in Locations, NEW items \in Requests,
             Transfer(l, t, items)
      PROVE  Remembers(s, stock')
  <2>1. PICK b, M :
          /\ Sound(b) /\ b.rsv = s.rsv /\ M \in SUBSET Misplaced(b, pickup, t, items)
          /\ stock' = rehomeReservations(b, t, M)
    BY <1>4, TransferIs
  <2>2. \A i \in DOMAIN s.rsv : s.rsv[i] \in Reservation
    BY <1>1, TableTyped
  <2>3. stock'.rsv = Rehomed(b, t, M)
    BY <2>1 DEF rehomeReservations, Sound, Books
  <2>4. /\ DOMAIN stock'.rsv = DOMAIN s.rsv
        /\ \A i \in DOMAIN s.rsv :
             stock'.rsv[i] = IF i \in M THEN [s.rsv[i] EXCEPT !.cell = <<t, @[2]>>] ELSE s.rsv[i]
    BY <2>1, <2>3 DEF Rehomed
  <2>5. \A i \in M : s.rsv[i].status \notin Closed
    BY <2>1 DEF Misplaced, Closed
  <2>6. \A i \in DOMAIN s.rsv :
          /\ stock'.rsv[i].order = s.rsv[i].order
          /\ stock'.rsv[i].quantity = s.rsv[i].quantity
          /\ stock'.rsv[i].cell[2] = s.rsv[i].cell[2]
          /\ s.rsv[i].status \in Closed => stock'.rsv[i] = s.rsv[i]
    <3> TAKE i \in DOMAIN s.rsv
    <3>1. CASE i \in M
      <4>1. stock'.rsv[i] = [s.rsv[i] EXCEPT !.cell = <<t, s.rsv[i].cell[2]>>]
        BY <2>4, <3>1
      <4>2. stock'.rsv[i].cell = <<t, s.rsv[i].cell[2]>>
        BY <2>2, <4>1 DEF Reservation
      <4> QED
        BY <2>2, <2>5, <3>1, <4>1, <4>2 DEF Reservation
    <3>2. CASE i \notin M
      BY <2>4, <3>2
    <3> QED
      BY <3>1, <3>2
  <2> QED
    BY <1>1, <2>4, <2>6, SameUnits
<1>5. ASSUME NEW o \in OrderIds, NEW items \in Requests, NEW places \in SUBSET Locations,
             Reserve(o, items, places)
      PROVE  Remembers(s, stock')
  <2>1. PICK a \in Allocations(s, items, places, pickup[o]) :
          \E q \in RowOrders(a) : stock' = reserve(s, o, a, q)
    BY <1>5 DEF Reserve, Reserved
  <2>2. PICK q \in RowOrders(a) : stock' = reserve(s, o, a, q)
    BY <2>1
  <2>3. PICK x : x = [k \in DOMAIN q |-> [order |-> o, cell |-> q[k], quantity |-> a[q[k]],
                                          status |-> "reserved"]]
    OBVIOUS
  <2>4. stock'.rsv = s.rsv \o x
    BY <1>1, <2>2, <2>3 DEF reserve, Books
  <2>5. x \in Seq(Reservation)
    <3> DEFINE S == {c \in Cells : a[c] > 0}
    <3>1. IsFiniteSet(S)
      <4>1. IsFiniteSet(Cells)
        BY FiniteAssumption, FS_Product DEF Cells
      <4> QED
        BY <4>1, FS_Subset
    <3>2. PICK m \in Nat : q \in [1 .. m -> S]
      BY <2>2, <3>1, FS_CardinalityType DEF RowOrders, Listings
    <3>3. \A c \in S : c \in Cells /\ a[c] \in Nat \ {0}
      BY <2>1 DEF Allocations
    <3>4. x \in [1 .. m -> Reservation]
      BY <2>3, <3>2, <3>3 DEF Reservation, ReservationStatus
    <3> QED
      BY <3>2, <3>4, SeqDef
  <2> QED
    BY <1>1, <2>4, <2>5, AppendRemembers
<1>6. ASSUME NEW I \in SUBSET DOMAIN s.rsv, \A i \in I : s.rsv[i].status = "reserved",
             stock' = Confirm(s, I)
      PROVE  Remembers(s, stock')
  <2>1. stock'.rsv = WithStatus(s.rsv, I, "confirmed")
    BY <1>1, <1>6 DEF Confirm, Books
  <2>2. \A i \in I : s.rsv[i].status \notin Closed
    BY <1>6 DEF Closed
  <2> QED
    BY <1>1, <2>1, <2>2, ClosingRemembers
<1>7. ASSUME NEW o \in OrderIds, NEW P, ConfirmOrder(o) \/ ConfirmLines(o, P)
      PROVE  Remembers(s, stock')
  BY <1>6, <1>7 DEF ConfirmOrder, ConfirmLines, confirmReservations, confirmProductReservations,
                    RowsOf
<1>8. ASSUME NEW o \in OrderIds, NEW byUser \in BOOLEAN, NEW final \in Marks,
             ReleaseOrder(o, byUser, final)
      PROVE  Remembers(s, stock')
  <2>1. PICK H, h : H = RowsOf(s, o, "reserved") /\ h = Release(s, H, final)
    OBVIOUS
  <2>2. PICK C : C = RowsOf(h, o, "confirmed")
    OBVIOUS
  <2>3. stock' = Restock(h, C, final)
    BY <1>8, <2>1, <2>2 DEF ReleaseOrder, releaseReservations
  <2>4. H \in SUBSET DOMAIN s.rsv /\ \A i \in H : s.rsv[i].status = "reserved"
    BY <2>1 DEF RowsOf
  <2>5. h \in Books
    <3>1. final \in ReservationStatus \ {"reserved"}
      BY MarksAssumption DEF ReservationStatus
    <3>2. Sound(h)
      BY <1>1, <2>1, <2>4, <3>1, ReleaseSound
    <3> QED
      BY <3>2 DEF Sound
  <2>6. h.rsv = WithStatus(s.rsv, H, final)
    BY <1>1, <2>1 DEF Release, Books
  <2>7. stock'.rsv = WithStatus(h.rsv, C, final)
    BY <2>3, <2>5 DEF Restock, Books
  <2>8. Remembers(s, h)
    BY <1>1, <2>4, <2>6, ClosingRemembers DEF Closed
  <2>9. C \in SUBSET DOMAIN h.rsv /\ \A i \in C : h.rsv[i].status \notin Closed
    BY <2>2 DEF RowsOf, Closed
  <2>10. Remembers(h, stock')
    BY <2>5, <2>7, <2>9, ClosingRemembers
  <2>11. DOMAIN h.rsv = DOMAIN s.rsv
    BY <2>6 DEF WithStatus
  <2> QED
    BY <1>1, <2>5, <2>8, <2>10, <2>11, RemembersBoth
<1>9. ASSUME NEW o \in OrderIds, NEW drop \in Requests, ReleaseLines(o, drop)
      PROVE  Remembers(s, stock')
  <2>1. drop \in [Products -> Nat]
    BY MaxQuantityAssumption DEF Requests, Items
  <2>2. stock' = releaseProductUnits(s, o, drop)
    BY <1>9 DEF ReleaseLines
  <2> QED
    BY <1>1, <2>1, <2>2, LinesRemember
<1> QED
  BY <1>3, <1>4, <1>5, <1>7, <1>8, <1>9 DEF Next, Manual, ByOrders

(***************************************************************************)
(* For any storages, products, orders and quantities: the rows of an order *)
(* go on to account for every unit it ever held, and closed rows stay as   *)
(* they were closed.                                                       *)
(***************************************************************************)
THEOREM HistoryIsKept == Spec => HistoryKept
<1>1. IInv /\ [Next]_vars =>
        [/\ \A o \in OrderIds, p \in Products :
              Total(Qty(stock), AllRows(stock, o, p))
                <= Total(Qty(stock'), AllRows(stock', o, p))
         /\ \A i \in DOMAIN stock.rsv :
              stock.rsv[i].status \in {"cancelled", "expired"}
                => stock'.rsv[i] = stock.rsv[i]]_(stock.rsv)
  <2> SUFFICES ASSUME IInv, Next
               PROVE  /\ \A o \in OrderIds, p \in Products :
                           Total(Qty(stock), AllRows(stock, o, p))
                             <= Total(Qty(stock'), AllRows(stock', o, p))
                      /\ \A i \in DOMAIN stock.rsv :
                           stock.rsv[i].status \in {"cancelled", "expired"}
                             => stock'.rsv[i] = stock.rsv[i]
    BY DEF vars
  <2> QED
    BY StepsRemember DEF Remembers, Accounted, Closed
<1> QED
  BY <1>1, BooksStaySound, PTL DEF Spec, HistoryKept
=============================================================================
