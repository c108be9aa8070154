----------------------------- MODULE StockProofs -----------------------------
(***************************************************************************)
(* Facts about the books of module Stock, for any number of storages,      *)
(* products, orders and reservation rows: each call of InventoryService    *)
(* keeps the three promises of the books, that counters match rows         *)
(* (HoldsMatch), nothing is oversold (NeverOversold) and the ledger        *)
(* reconstructs the stock (LedgerMatches).                                 *)
(***************************************************************************)
EXTENDS Stock, SumsProofs, SequenceTheorems

-----------------------------------------------------------------------------
(* The reservations table *)

(***************************************************************************)
(* What the books promise, together with their type.                       *)
(***************************************************************************)
Sound(s) == s \in Books /\ HoldsMatch(s) /\ NeverOversold(s) /\ LedgerMatches(s)

(***************************************************************************)
(* The rows of the table are reservations, numbered from 1.                *)
(***************************************************************************)
LEMMA TableTyped ==
  ASSUME NEW s \in Books
  PROVE  /\ Len(s.rsv) \in Nat /\ DOMAIN s.rsv = 1 .. Len(s.rsv)
         /\ IsFiniteSet(DOMAIN s.rsv)
         /\ \A i \in DOMAIN s.rsv : s.rsv[i] \in Reservation
<1>1. s.rsv \in Seq(Reservation)
  BY DEF Books
<1>2. Len(s.rsv) \in Nat /\ DOMAIN s.rsv = 1 .. Len(s.rsv)
  BY <1>1, LenProperties
<1>3. IsFiniteSet(1 .. Len(s.rsv))
  BY <1>2, FS_Interval
<1>4. \A i \in 1 .. Len(s.rsv) : s.rsv[i] \in Reservation
  BY <1>1, ElementOfSeq
<1> QED
  BY <1>2, <1>3, <1>4

(***************************************************************************)
(* Any set of rows of the table can be summed.                             *)
(***************************************************************************)
LEMMA RowsWeigh ==
  ASSUME NEW s \in Books, NEW I \in SUBSET DOMAIN s.rsv
  PROVE  Weighs(Qty(s), I) /\ Total(Qty(s), I) \in Nat
<1>1. IsFiniteSet(I)
  BY TableTyped, FS_Subset
<1>2. \A i \in I : Qty(s)[i] \in Nat
  BY TableTyped DEF Qty, Reservation
<1>3. Weighs(Qty(s), I)
  BY <1>1, <1>2 DEF Weighs
<1> QED
  BY <1>3, UnitsFinite

(***************************************************************************)
(* Sums per inventory row are naturals.                                    *)
(***************************************************************************)
LEMMA PerCellNat ==
  ASSUME NEW s \in Books, NEW I \in SUBSET DOMAIN s.rsv
  PROVE  PerCell(s, Qty(s), I) \in [Cells -> Nat]
<1>1. \A c \in Cells : Total(Qty(s), {i \in I : s.rsv[i].cell = c}) \in Nat
  <2> TAKE c \in Cells
  <2>1. {i \in I : s.rsv[i].cell = c} \in SUBSET DOMAIN s.rsv
    OBVIOUS
  <2> QED
    BY <2>1, RowsWeigh, Zenon
<1> QED
  BY <1>1 DEF PerCell

(***************************************************************************)
(* Closing rows gives a table whose rows keep everything but the status.   *)
(***************************************************************************)
LEMMA WithStatusTyped ==
  ASSUME NEW s \in Books, NEW I \in SUBSET DOMAIN s.rsv,
         NEW final \in ReservationStatus
  PROVE  /\ WithStatus(s.rsv, I, final) \in Seq(Reservation)
         /\ DOMAIN WithStatus(s.rsv, I, final) = DOMAIN s.rsv
         /\ \A i \in DOMAIN s.rsv :
              /\ WithStatus(s.rsv, I, final)[i].cell = s.rsv[i].cell
              /\ WithStatus(s.rsv, I, final)[i].order = s.rsv[i].order
              /\ WithStatus(s.rsv, I, final)[i].quantity = s.rsv[i].quantity
              /\ WithStatus(s.rsv, I, final)[i].status
                   = IF i \in I THEN final ELSE s.rsv[i].status
<1> DEFINE row(i) == IF i \in I THEN [s.rsv[i] EXCEPT !.status = final] ELSE s.rsv[i]
<1>1. \A i \in DOMAIN s.rsv : s.rsv[i] \in Reservation
  BY TableTyped
<1>2. \A i \in DOMAIN s.rsv : row(i) \in Reservation
  BY <1>1 DEF Reservation
<1>3. Len(s.rsv) \in Nat /\ DOMAIN s.rsv = 1 .. Len(s.rsv)
  BY TableTyped
<1>4. WithStatus(s.rsv, I, final) \in Seq(Reservation)
  BY <1>2, <1>3, SeqDef DEF WithStatus
<1>5. \A i \in DOMAIN s.rsv :
        /\ row(i).cell = s.rsv[i].cell
        /\ row(i).order = s.rsv[i].order
        /\ row(i).quantity = s.rsv[i].quantity
        /\ row(i).status = IF i \in I THEN final ELSE s.rsv[i].status
  BY <1>1 DEF Reservation
<1> QED
  BY <1>4, <1>5 DEF WithStatus

(***************************************************************************)
(* What the rows hold depends on the table alone.                          *)
(***************************************************************************)
LEMMA HeldSameTable ==
  ASSUME NEW s, NEW t, t.rsv = s.rsv, NEW c
  PROVE  HeldAt(t, c) = HeldAt(s, c)
BY DEF HeldAt, RowsAt, Qty

(***************************************************************************)
(* Closing held rows lowers what is held at every inventory row by what    *)
(* the closed rows held there.                                             *)
(***************************************************************************)
LEMMA SettledHolds ==
  ASSUME NEW s \in Books, NEW I \in SUBSET DOMAIN s.rsv,
         \A i \in I : s.rsv[i].status = "reserved",
         NEW final \in ReservationStatus \ {"reserved"},
         NEW t, t.rsv = WithStatus(s.rsv, I, final), NEW c \in Cells
  PROVE  /\ HeldAt(t, c) = HeldAt(s, c) - PerCell(s, Qty(s), I)[c]
         /\ PerCell(s, Qty(s), I)[c] \in 0 .. HeldAt(s, c)
<1> DEFINE held == RowsAt(s, c, "reserved")
           gone == {i \in I : s.rsv[i].cell = c}
<1>1. /\ DOMAIN t.rsv = DOMAIN s.rsv
      /\ \A i \in DOMAIN s.rsv :
           /\ t.rsv[i].cell = s.rsv[i].cell
           /\ t.rsv[i].quantity = s.rsv[i].quantity
           /\ t.rsv[i].status = IF i \in I THEN final ELSE s.rsv[i].status
  BY WithStatusTyped
<1>2. RowsAt(t, c, "reserved") = held \ gone
  BY <1>1 DEF RowsAt
<1>3. Qty(t) = Qty(s)
  BY <1>1 DEF Qty
<1>4. gone \subseteq held /\ held \in SUBSET DOMAIN s.rsv
  BY DEF RowsAt
<1>5. Weighs(Qty(s), held)
  BY <1>4, RowsWeigh
<1>6. /\ Total(Qty(s), held \ gone) = Total(Qty(s), held) - Total(Qty(s), gone)
      /\ Total(Qty(s), held) \in Nat /\ Total(Qty(s), gone) \in Nat
      /\ Total(Qty(s), held \ gone) \in Nat
  BY <1>4, <1>5, TotalDifference
<1>7. PerCell(s, Qty(s), I)[c] = Total(Qty(s), gone)
  BY DEF PerCell
<1>8. HeldAt(t, c) = Total(Qty(s), held \ gone) /\ HeldAt(s, c) = Total(Qty(s), held)
  BY <1>2, <1>3 DEF HeldAt
<1> HIDE DEF held, gone
<1> QED
  BY <1>6, <1>7, <1>8

(***************************************************************************)
(* Closing rows that hold nothing changes no hold.                         *)
(***************************************************************************)
LEMMA ClosedHoldsNothing ==
  ASSUME NEW s \in Books, NEW I \in SUBSET DOMAIN s.rsv,
         \A i \in I : s.rsv[i].status # "reserved",
         NEW final \in ReservationStatus \ {"reserved"},
         NEW t, t.rsv = WithStatus(s.rsv, I, final), NEW c \in Cells
  PROVE  HeldAt(t, c) = HeldAt(s, c)
<1>1. /\ DOMAIN t.rsv = DOMAIN s.rsv
      /\ \A i \in DOMAIN s.rsv :
           /\ t.rsv[i].cell = s.rsv[i].cell
           /\ t.rsv[i].quantity = s.rsv[i].quantity
           /\ t.rsv[i].status = IF i \in I THEN final ELSE s.rsv[i].status
  BY WithStatusTyped
<1>2. RowsAt(t, c, "reserved") = RowsAt(s, c, "reserved")
  BY <1>1 DEF RowsAt
<1>3. Qty(t) = Qty(s)
  BY <1>1 DEF Qty
<1> QED
  BY <1>2, <1>3 DEF HeldAt

-----------------------------------------------------------------------------
(* Each operation keeps the books sound *)

(***************************************************************************)
(* Counters stay counters when units are added or taken.                   *)
(***************************************************************************)
LEMMA CountersTyped ==
  ASSUME NEW f \in [Cells -> Int], NEW g \in [Cells -> Nat]
  PROVE  Plus(f, g) \in [Cells -> Int] /\ Minus(f, g) \in [Cells -> Int]
BY DEF Plus, Minus

(***************************************************************************)
(* createOperation IN: physical units enter with their movement.           *)
(***************************************************************************)
LEMMA AddStockSound ==
  ASSUME NEW s, Sound(s), NEW l, NEW items \in Items
  PROVE  Sound(addStock(s, l, items))
<1> DEFINE t == addStock(s, l, items)
<1>1. At(l, items) \in [Cells -> Nat]
  BY MaxQuantityAssumption DEF At, Items, Cells
<1>2. s \in Books
  BY DEF Sound
<1>3. /\ t.rsv = s.rsv /\ t.reserved = s.reserved
      /\ t.quantity = Plus(s.quantity, At(l, items))
      /\ t.ledger = Plus(s.ledger, At(l, items))
  BY <1>2 DEF addStock, Books
<1>4. t \in Books
  <2>1. /\ Plus(s.quantity, At(l, items)) \in [Cells -> Int]
        /\ Plus(s.ledger, At(l, items)) \in [Cells -> Int]
    BY <1>1, <1>2, CountersTyped DEF Books
  <2> QED
    BY <1>2, <2>1 DEF addStock, Books
<1>5. HoldsMatch(t)
  BY <1>3, HeldSameTable DEF HoldsMatch, Sound
<1>6. NeverOversold(t)
  BY <1>1, <1>2, <1>3 DEF NeverOversold, Sound, Plus, Books
<1>7. LedgerMatches(t)
  BY <1>3 DEF LedgerMatches, Sound
<1> QED
  BY <1>4, <1>5, <1>6, <1>7 DEF Sound

(***************************************************************************)
(* createOperation OUT: only units that no order holds may leave.          *)
(***************************************************************************)
LEMMA RemoveStockSound ==
  ASSUME NEW s, Sound(s), NEW l \in Locations, NEW items \in Items,
         CanRemove(s, l, items)
  PROVE  Sound(removeStock(s, l, items))
<1> DEFINE t == removeStock(s, l, items)
<1>1. At(l, items) \in [Cells -> Nat]
  BY MaxQuantityAssumption DEF At, Items, Cells
<1>2. s \in Books
  BY DEF Sound
<1>3. /\ t.rsv = s.rsv /\ t.reserved = s.reserved
      /\ t.quantity = Minus(s.quantity, At(l, items))
      /\ t.ledger = Minus(s.ledger, At(l, items))
  BY <1>2 DEF removeStock, Books
<1>4. t \in Books
  <2>1. /\ Minus(s.quantity, At(l, items)) \in [Cells -> Int]
        /\ Minus(s.ledger, At(l, items)) \in [Cells -> Int]
    BY <1>1, <1>2, CountersTyped DEF Books
  <2> QED
    BY <1>2, <2>1 DEF removeStock, Books
<1>5. HoldsMatch(t)
  BY <1>3, HeldSameTable DEF HoldsMatch, Sound
<1>6. NeverOversold(t)
  <2> SUFFICES ASSUME NEW c \in Cells PROVE t.reserved[c] \in 0 .. t.quantity[c]
    BY DEF NeverOversold
  <2>1. /\ s.reserved[c] \in 0 .. s.quantity[c]
        /\ s.quantity[c] \in Int /\ At(l, items)[c] \in Nat
    BY <1>1, <1>2 DEF NeverOversold, Sound, Books
  <2>2. t.reserved[c] = s.reserved[c] /\ t.quantity[c] = s.quantity[c] - At(l, items)[c]
    BY <1>3 DEF Minus
  <2>3. At(l, items)[c] > 0 => At(l, items)[c] <= s.quantity[c] - s.reserved[c]
    <3> SUFFICES ASSUME At(l, items)[c] > 0
                 PROVE  At(l, items)[c] <= s.quantity[c] - s.reserved[c]
      OBVIOUS
    <3>1. c[1] = l /\ At(l, items)[c] = items[c[2]] /\ c = <<l, c[2]>> /\ c[2] \in Products
      BY DEF At, Cells
    <3> QED
      BY <3>1 DEF CanRemove, Available
  <2> QED
    BY <2>1, <2>2, <2>3
<1>7. LedgerMatches(t)
  BY <1>3 DEF LedgerMatches, Sound
<1> QED
  BY <1>4, <1>5, <1>6, <1>7 DEF Sound

(***************************************************************************)
(* The hold becomes a decrement: confirmReservations takes from the shelf  *)
(* exactly what the rows it confirms held.                                 *)
(***************************************************************************)
LEMMA ConfirmSound ==
  ASSUME NEW s, Sound(s), NEW I \in SUBSET DOMAIN s.rsv,
         \A i \in I : s.rsv[i].status = "reserved"
  PROVE  Sound(Confirm(s, I))
<1> DEFINE t == Confirm(s, I)
           n == PerCell(s, Qty(s), I)
<1>1. s \in Books
  BY DEF Sound
<1>2. n \in [Cells -> Nat]
  BY <1>1, PerCellNat
<1>3. WithStatus(s.rsv, I, "confirmed") \in Seq(Reservation)
  BY <1>1, WithStatusTyped DEF ReservationStatus
<1>4. /\ t.rsv = WithStatus(s.rsv, I, "confirmed")
      /\ t.reserved = Minus(s.reserved, n)
      /\ t.quantity = Minus(s.quantity, n)
      /\ t.ledger = Minus(s.ledger, n)
  BY <1>1 DEF Confirm, Books
<1>5. \A c \in Cells : HeldAt(t, c) = HeldAt(s, c) - n[c] /\ n[c] \in 0 .. HeldAt(s, c)
  <2>1. "confirmed" \in ReservationStatus \ {"reserved"}
    BY DEF ReservationStatus
  <2> HIDE DEF t, n
  <2> QED
    BY <1>1, <1>4, <2>1, SettledHolds DEF n
<1> HIDE DEF n
<1>6. t \in Books
  <2>1. /\ Minus(s.quantity, n) \in [Cells -> Int]
        /\ Minus(s.reserved, n) \in [Cells -> Int]
        /\ Minus(s.ledger, n) \in [Cells -> Int]
    BY <1>1, <1>2, CountersTyped DEF Books
  <2> QED
    BY <1>1, <1>3, <2>1 DEF Confirm, Books, n
<1>7. HoldsMatch(t)
  BY <1>4, <1>5 DEF HoldsMatch, Sound, Minus
<1>8. NeverOversold(t)
  <2> HIDE DEF t
  <2> SUFFICES ASSUME NEW c \in Cells PROVE t.reserved[c] \in 0 .. t.quantity[c]
    BY DEF NeverOversold
  <2>1. s.reserved[c] \in 0 .. s.quantity[c] /\ s.quantity[c] \in Int /\ n[c] \in 0 .. s.reserved[c]
    BY <1>1, <1>5 DEF NeverOversold, Sound, Books, HoldsMatch
  <2>2. t.reserved[c] = s.reserved[c] - n[c] /\ t.quantity[c] = s.quantity[c] - n[c]
    BY <1>4 DEF Minus
  <2> QED
    BY <2>1, <2>2
<1>9. LedgerMatches(t)
  BY <1>4 DEF LedgerMatches, Sound
<1> QED
  BY <1>6, <1>7, <1>8, <1>9 DEF Sound

(***************************************************************************)
(* releaseReservations drops exactly what the rows it closes held.         *)
(***************************************************************************)
LEMMA ReleaseSound ==
  ASSUME NEW s, Sound(s), NEW I \in SUBSET DOMAIN s.rsv,
         \A i \in I : s.rsv[i].status = "reserved",
         NEW final \in ReservationStatus \ {"reserved"}
  PROVE  Sound(Release(s, I, final))
<1> DEFINE t == Release(s, I, final)
           n == PerCell(s, Qty(s), I)
<1>1. s \in Books
  BY DEF Sound
<1>2. n \in [Cells -> Nat]
  BY <1>1, PerCellNat
<1>3. WithStatus(s.rsv, I, final) \in Seq(Reservation)
  BY <1>1, WithStatusTyped
<1>4. /\ t.rsv = WithStatus(s.rsv, I, final)
      /\ t.reserved = Minus(s.reserved, n)
      /\ t.quantity = s.quantity
      /\ t.ledger = s.ledger
  BY <1>1 DEF Release, Books
<1>5. \A c \in Cells : HeldAt(t, c) = HeldAt(s, c) - n[c] /\ n[c] \in 0 .. HeldAt(s, c)
  <2> HIDE DEF t, n
  <2> QED
    BY <1>1, <1>4, SettledHolds DEF n
<1> HIDE DEF n
<1>6. t \in Books
  <2>1. /\ Minus(s.reserved, n) \in [Cells -> Int]
    BY <1>1, <1>2, CountersTyped DEF Books
  <2> QED
    BY <1>1, <1>3, <2>1 DEF Release, Books, n
<1>7. HoldsMatch(t)
  BY <1>4, <1>5 DEF HoldsMatch, Sound, Minus
<1>8. NeverOversold(t)
  <2> HIDE DEF t
  <2> SUFFICES ASSUME NEW c \in Cells PROVE t.reserved[c] \in 0 .. t.quantity[c]
    BY DEF NeverOversold
  <2>1. s.reserved[c] \in 0 .. s.quantity[c] /\ s.quantity[c] \in Int /\ n[c] \in 0 .. s.reserved[c]
    BY <1>1, <1>5 DEF NeverOversold, Sound, Books, HoldsMatch
  <2>2. t.reserved[c] = s.reserved[c] - n[c] /\ t.quantity[c] = s.quantity[c]
    BY <1>4 DEF Minus
  <2> QED
    BY <2>1, <2>2
<1>9. LedgerMatches(t)
  BY <1>4 DEF LedgerMatches, Sound
<1> QED
  BY <1>6, <1>7, <1>8, <1>9 DEF Sound

(***************************************************************************)
(* releaseReservations returns goods already taken without touching holds. *)
(***************************************************************************)
LEMMA RestockSound ==
  ASSUME NEW s, Sound(s), NEW I \in SUBSET DOMAIN s.rsv,
         \A i \in I : s.rsv[i].status # "reserved",
         NEW final \in ReservationStatus \ {"reserved"}
  PROVE  Sound(Restock(s, I, final))
<1> DEFINE t == Restock(s, I, final)
           n == PerCell(s, Qty(s), I)
<1>1. s \in Books
  BY DEF Sound
<1>2. n \in [Cells -> Nat]
  BY <1>1, PerCellNat
<1>3. WithStatus(s.rsv, I, final) \in Seq(Reservation)
  BY <1>1, WithStatusTyped
<1>4. /\ t.rsv = WithStatus(s.rsv, I, final)
      /\ t.reserved = s.reserved
      /\ t.quantity = Plus(s.quantity, n)
      /\ t.ledger = Plus(s.ledger, n)
  BY <1>1 DEF Restock, Books
<1>5. \A c \in Cells : HeldAt(t, c) = HeldAt(s, c)
  <2> HIDE DEF t, n
  <2> QED
    BY <1>1, <1>4, ClosedHoldsNothing
<1> HIDE DEF n
<1>6. t \in Books
  <2>1. /\ Plus(s.quantity, n) \in [Cells -> Int]
        /\ Plus(s.ledger, n) \in [Cells -> Int]
    BY <1>1, <1>2, CountersTyped DEF Books
  <2> QED
    BY <1>1, <1>3, <2>1 DEF Restock, Books, n
<1>7. HoldsMatch(t)
  BY <1>4, <1>5 DEF HoldsMatch, Sound
<1>8. NeverOversold(t)
  <2> HIDE DEF t
  <2> QED
    BY <1>1, <1>2, <1>4 DEF NeverOversold, Sound, Books, Plus
<1>9. LedgerMatches(t)
  BY <1>4 DEF LedgerMatches, Sound
<1> QED
  BY <1>6, <1>7, <1>8, <1>9 DEF Sound

(***************************************************************************)
(* A whole order, or some of its lines, is confirmed.                      *)
(***************************************************************************)
LEMMA ConfirmReservationsSound ==
  ASSUME NEW s, Sound(s), NEW o, NEW P
  PROVE  /\ Sound(confirmReservations(s, o))
         /\ Sound(confirmProductReservations(s, o, P))
BY ConfirmSound DEF confirmReservations, confirmProductReservations, RowsOf

(***************************************************************************)
(* A whole order is let go: its holds dropped, what it took returned.      *)
(***************************************************************************)
LEMMA ReleaseReservationsSound ==
  ASSUME NEW s, Sound(s), NEW o, NEW final \in ReservationStatus \ {"reserved"}
  PROVE  Sound(releaseReservations(s, o, final))
<1> DEFINE held == Release(s, RowsOf(s, o, "reserved"), final)
<1>1. Sound(held)
  BY ReleaseSound DEF RowsOf
<1> HIDE DEF held
<1>2. Sound(Restock(held, RowsOf(held, o, "confirmed"), final))
  BY <1>1, RestockSound DEF RowsOf
<1> QED
  BY <1>2 DEF releaseReservations, held

(***************************************************************************)
(* The rows that the rows x, appended to the table of s, add to the holds  *)
(* of inventory row c.                                                     *)
(***************************************************************************)
NewHolds(s, x, c) ==
  {i \in (Len(s.rsv) + 1) .. (Len(s.rsv) + Len(x)) :
     x[i - Len(s.rsv)].cell = c /\ x[i - Len(s.rsv)].status = "reserved"}

(***************************************************************************)
(* Appending rows to the table adds what the new rows hold.                *)
(***************************************************************************)
LEMMA AppendedHolds ==
  ASSUME NEW s \in Books, NEW x \in Seq(Reservation), NEW t \in Books,
         t.rsv = s.rsv \o x, NEW c \in Cells
  PROVE  /\ HeldAt(t, c) = HeldAt(s, c) + Total(Qty(t), NewHolds(s, x, c))
         /\ HeldAt(s, c) \in Nat
         /\ Total(Qty(t), NewHolds(s, x, c)) \in Nat
         /\ \A i \in NewHolds(s, x, c) : Qty(t)[i] = x[i - Len(s.rsv)].quantity
<1> DEFINE n == Len(s.rsv)
           old == RowsAt(s, c, "reserved")
           new == NewHolds(s, x, c)
<1>1. n \in Nat /\ DOMAIN s.rsv = 1 .. n /\ Len(x) \in Nat
  BY TableTyped, LenProperties
<1>2. s.rsv \in Seq(Reservation)
  BY DEF Books
<1>3. Len(t.rsv) = n + Len(x) /\ DOMAIN t.rsv = 1 .. (n + Len(x))
  BY <1>2, TableTyped, ConcatProperties
<1>4. \A i \in 1 .. (n + Len(x)) : t.rsv[i] = IF i <= n THEN s.rsv[i] ELSE x[i - n]
  BY <1>2, ConcatProperties
<1>5. RowsAt(t, c, "reserved") = old \cup new /\ old \cap new = {}
  BY <1>1, <1>3, <1>4 DEF RowsAt, NewHolds
<1>6. old \in SUBSET DOMAIN t.rsv /\ new \in SUBSET DOMAIN t.rsv
  BY <1>1, <1>3 DEF RowsAt, NewHolds
<1>7. /\ Weighs(Qty(t), old) /\ Weighs(Qty(t), new)
      /\ Total(Qty(t), old) \in Nat /\ Total(Qty(t), new) \in Nat
  BY <1>6, RowsWeigh
<1>8. Total(Qty(t), old \cup new) = Total(Qty(t), old) + Total(Qty(t), new)
  BY <1>5, <1>7, TotalUnion, Zenon
<1>9. Total(Qty(t), old) = Total(Qty(s), old)
  <2>1. \A i \in old : Qty(t)[i] = Qty(s)[i]
    BY <1>1, <1>3, <1>4 DEF RowsAt, Qty
  <2> QED
    BY <2>1, TotalSame
<1>10. \A i \in new : Qty(t)[i] = x[i - n].quantity
  BY <1>1, <1>3, <1>4 DEF NewHolds, Qty
<1> QED
  BY <1>5, <1>7, <1>8, <1>9, <1>10 DEF HeldAt

(***************************************************************************)
(* reserve holds only what is available, with one row per storage it takes *)
(* from.                                                                   *)
(***************************************************************************)
LEMMA ReserveSound ==
  ASSUME NEW s, Sound(s), NEW o \in OrderIds, NEW a \in [Cells -> Nat],
         \A c \in Cells : a[c] > 0 => a[c] <= Available(s, c),
         NEW q \in RowOrders(a)
  PROVE  Sound(reserve(s, o, a, q))
<1> DEFINE t == reserve(s, o, a, q)
           S == {c \in Cells : a[c] > 0}
           x == [k \in DOMAIN q |->
                  [order |-> o, cell |-> q[k], quantity |-> a[q[k]],
                   status |-> "reserved"]]
<1>1. s \in Books
  BY DEF Sound
<1>2. IsFiniteSet(S) /\ Cardinality(S) \in Nat
  <2>1. IsFiniteSet(Cells)
    BY FiniteAssumption, FS_Product DEF Cells
  <2> QED
    BY <2>1, FS_Subset, FS_CardinalityType
<1>3. /\ q \in [1 .. Cardinality(S) -> S]
      /\ \A i, j \in DOMAIN q : q[i] = q[j] => i = j
      /\ \A c \in S : \E i \in DOMAIN q : q[i] = c
  BY DEF RowOrders, Listings
<1>4. x \in [1 .. Cardinality(S) -> Reservation]
  BY <1>3 DEF Reservation, ReservationStatus
<1>5. x \in Seq(Reservation) /\ DOMAIN x = 1 .. Len(x) /\ Len(x) = Cardinality(S)
  <2> HIDE DEF x
  <2> DEFINE m == Cardinality(S)
  <2> HIDE DEF m
  <2>1. m \in Nat /\ x \in [1 .. m -> Reservation]
    BY <1>2, <1>4 DEF m
  <2>2. x \in Seq(Reservation)
    BY <2>1, SeqDef
  <2>3. Len(x) \in Nat /\ DOMAIN x = 1 .. Len(x)
    BY <2>2, LenProperties
  <2>4. Len(x) = m
    BY <2>1, <2>2, <2>3
  <2> QED
    BY <2>2, <2>3, <2>4 DEF m
<1>6. t.rsv = s.rsv \o x /\ t.reserved = Plus(s.reserved, a)
      /\ t.quantity = s.quantity /\ t.ledger = s.ledger
  BY <1>1 DEF reserve, Books
<1>7. t \in Books
  <2>1. Plus(s.reserved, a) \in [Cells -> Int]
    BY <1>1, CountersTyped DEF Books
  <2>2. s.rsv \o x \in Seq(Reservation)
    BY <1>1, <1>5, ConcatProperties DEF Books
  <2> HIDE DEF x
  <2> QED
    BY <1>1, <2>1, <2>2 DEF reserve, Books, x
<1> HIDE DEF t
<1>8. \A c \in Cells : HeldAt(t, c) = HeldAt(s, c) + a[c]
  <2> TAKE c \in Cells
  <2>1. /\ HeldAt(t, c) = HeldAt(s, c) + Total(Qty(t), NewHolds(s, x, c))
        /\ HeldAt(s, c) \in Nat
        /\ \A i \in NewHolds(s, x, c) : Qty(t)[i] = x[i - Len(s.rsv)].quantity
    <3> HIDE DEF x
    <3> QED
      BY <1>1, <1>5, <1>6, <1>7, AppendedHolds
  <2>2. Len(s.rsv) \in Nat
    BY <1>1, TableTyped
  <2>3. CASE a[c] = 0
    <3>1. NewHolds(s, x, c) = {}
      <4>1. DOMAIN q = 1 .. Len(x) /\ Len(x) \in Nat
        BY <1>2, <1>3, <1>5
      <4>2. \A j \in 1 .. Len(x) : x[j].cell # c
        <5> TAKE j \in 1 .. Len(x)
        <5>1. x[j].cell = q[j]
          BY <4>1
        <5>2. j \in 1 .. Cardinality(S)
          BY <1>5
        <5>3. q[j] \in S
          BY <1>3, <5>2
        <5> QED
          BY <2>3, <5>1, <5>3
      <4> HIDE DEF x
      <4>3. \A i \in (Len(s.rsv) + 1) .. (Len(s.rsv) + Len(x)) :
              i - Len(s.rsv) \in 1 .. Len(x)
        BY <2>2, <4>1
      <4> QED
        BY <4>2, <4>3 DEF NewHolds
    <3> QED
      BY <2>1, <2>3, <3>1, TotalEmpty
  <2>4. CASE a[c] > 0
    <3>1. PICK k \in DOMAIN q : q[k] = c
      BY <1>3, <2>4
    <3>2. k \in 1 .. Len(x) /\ DOMAIN q = 1 .. Len(x) /\ Len(x) \in Nat
      BY <1>2, <1>3, <1>5
    <3>3. \A j \in 1 .. Len(x) : x[j].cell = q[j] /\ x[j].status = "reserved"
      BY <3>2
    <3>4. \A j \in 1 .. Len(x) : x[j].cell = c <=> j = k
      BY <1>3, <3>1, <3>2, <3>3
    <3> HIDE DEF x
    <3>5. NewHolds(s, x, c) = {Len(s.rsv) + k}
      <4>1. \A i \in (Len(s.rsv) + 1) .. (Len(s.rsv) + Len(x)) :
              /\ i - Len(s.rsv) \in 1 .. Len(x)
              /\ i - Len(s.rsv) = k <=> i = Len(s.rsv) + k
        BY <2>2, <3>2
      <4>2. Len(s.rsv) + k \in (Len(s.rsv) + 1) .. (Len(s.rsv) + Len(x))
        BY <2>2, <3>2
      <4> QED
        BY <3>3, <3>4, <4>1, <4>2 DEF NewHolds
    <3>6. x[k].quantity = a[c]
      BY <3>1 DEF x
    <3>7. Qty(t)[Len(s.rsv) + k] = a[c]
      BY <2>1, <2>2, <3>2, <3>5, <3>6
    <3>8. Total(Qty(t), {Len(s.rsv) + k}) = a[c]
      BY <3>7, TotalSingle
    <3> QED
      BY <2>1, <3>5, <3>8
  <2> QED
    BY <2>3, <2>4
<1>9. HoldsMatch(t)
  BY <1>6, <1>8 DEF HoldsMatch, Sound, Plus
<1>10. NeverOversold(t)
  <2> SUFFICES ASSUME NEW c \in Cells PROVE t.reserved[c] \in 0 .. t.quantity[c]
    BY DEF NeverOversold
  <2>1. s.reserved[c] \in 0 .. s.quantity[c] /\ s.quantity[c] \in Int
    BY <1>1 DEF NeverOversold, Sound, Books
  <2>2. t.reserved[c] = s.reserved[c] + a[c] /\ t.quantity[c] = s.quantity[c]
    BY <1>6 DEF Plus
  <2>3. a[c] \in Nat /\ (a[c] > 0 => a[c] <= s.quantity[c] - s.reserved[c])
    BY DEF Available
  <2> QED
    BY <2>1, <2>2, <2>3
<1>11. LedgerMatches(t)
  BY <1>6 DEF LedgerMatches, Sound
<1> QED
  BY <1>7, <1>9, <1>10, <1>11 DEF Sound, t

(***************************************************************************)
(* Whatever reserve answers, for any storages and any preference, the      *)
(* books are sound.                                                        *)
(***************************************************************************)
LEMMA ReservedSound ==
  ASSUME NEW s, Sound(s), NEW o \in OrderIds, NEW items, NEW places, NEW preferred,
         NEW t \in Reserved(s, o, items, places, preferred)
  PROVE  Sound(t)
<1>1. PICK a \in Allocations(s, items, places, preferred) :
        t \in {reserve(s, o, a, q) : q \in RowOrders(a)}
  BY DEF Reserved
<1>2. PICK q \in RowOrders(a) : t = reserve(s, o, a, q)
  BY <1>1
<1>3. /\ a \in [Cells -> Nat]
      /\ \A c \in Cells : a[c] > 0 => a[c] <= Available(s, c)
  BY MaxQuantityAssumption DEF Allocations
<1> QED
  BY <1>2, <1>3, ReserveSound

-----------------------------------------------------------------------------
(* Part of the lines is let go *)

(***************************************************************************)
(* The elements of a finite set can be listed.                             *)
(***************************************************************************)
LEMMA ListingExists ==
  ASSUME NEW S, IsFiniteSet(S)
  PROVE  Cardinality(S) \in Nat /\ (CHOOSE q \in Listings(S) : TRUE) \in Listings(S)
<1>1. Cardinality(S) \in Nat /\ \E f : f \in Bijection(1 .. Cardinality(S), S)
  BY FS_CardinalityType DEF ExistsBijection
<1>2. PICK f : f \in Bijection(1 .. Cardinality(S), S)
  BY <1>1
<1>3. f \in Listings(S)
  BY <1>2 DEF Bijection, Injection, Surjection, IsInjective, Listings
<1> QED
  BY <1>1, <1>3

(***************************************************************************)
(* No row is let go by more than it has, and rows of other orders, or      *)
(* closed ones, not at all.                                                *)
(***************************************************************************)
LEMMA TakeBounded ==
  ASSUME NEW s \in Books, NEW o, NEW drop \in [Products -> Nat]
  PROVE  /\ \A i \in DOMAIN s.rsv : Take(s, o, drop)[i] \in 0 .. s.rsv[i].quantity
         /\ \A i \in DOMAIN s.rsv \ Live(s, o) : Take(s, o, drop)[i] = 0
<1>1. \A i \in DOMAIN s.rsv : s.rsv[i].quantity \in Nat /\ s.rsv[i].cell[2] \in Products
  BY TableTyped DEF Reservation, Cells
<1>2. \A i \in DOMAIN s.rsv : Total(Qty(s), {j \in Live(s, o) : LetGoBefore(s, j, i)}) \in Nat
  <2> TAKE i \in DOMAIN s.rsv
  <2>1. {j \in Live(s, o) : LetGoBefore(s, j, i)} \in SUBSET DOMAIN s.rsv
    BY DEF Live, RowsOf
  <2> QED
    BY <2>1, RowsWeigh, Zenon
<1>3. \A i \in DOMAIN s.rsv \ Live(s, o) : Take(s, o, drop)[i] = 0
  BY DEF Take
<1>4. \A i \in Live(s, o) : Take(s, o, drop)[i] \in 0 .. s.rsv[i].quantity
  <2> SUFFICES ASSUME NEW i \in Live(s, o)
               PROVE  Take(s, o, drop)[i] \in 0 .. s.rsv[i].quantity
    OBVIOUS
  <2> DEFINE m == Total(Qty(s), {j \in Live(s, o) : LetGoBefore(s, j, i)})
  <2>1. i \in DOMAIN s.rsv
    BY DEF Live, RowsOf
  <2>2. Take(s, o, drop)[i]
          = Smaller(s.rsv[i].quantity, Larger(0, drop[s.rsv[i].cell[2]] - m))
    BY <2>1 DEF Take
  <2>3. m \in Nat
    BY <1>2, <2>1
  <2> HIDE DEF m
  <2>4. drop[s.rsv[i].cell[2]] \in Nat /\ s.rsv[i].quantity \in Nat
    BY <1>1, <2>1
  <2> QED
    BY <2>2, <2>3, <2>4 DEF Smaller, Larger
<1> QED
  BY <1>1, <1>3, <1>4

(***************************************************************************)
(* The rows that record the parts let go are cancelled reservations.       *)
(***************************************************************************)
LEMMA SplitOffTyped ==
  ASSUME NEW s \in Books, NEW take, NEW part \in SUBSET DOMAIN s.rsv,
         \A i \in part : take[i] \in Nat \ {0}
  PROVE  /\ SplitOff(s, take, part) \in Seq(Reservation)
         /\ \A k \in DOMAIN SplitOff(s, take, part) :
              SplitOff(s, take, part)[k].status = "cancelled"
<1> DEFINE q == CHOOSE f \in Listings(part) : TRUE
           m == Cardinality(part)
           x == [k \in DOMAIN q |->
                  [s.rsv[q[k]] EXCEPT !.quantity = take[q[k]], !.status = "cancelled"]]
<1>1. IsFiniteSet(part)
  BY TableTyped, FS_Subset
<1>2. m \in Nat /\ q \in Listings(part)
  BY <1>1, ListingExists
<1>3. SplitOff(s, take, part) = x
  BY DEF SplitOff
<1>4. q \in [1 .. m -> part]
  BY <1>2 DEF Listings
<1> HIDE DEF q, m
<1>5. \A i \in DOMAIN s.rsv : s.rsv[i] \in Reservation
  BY TableTyped
<1>6. \A k \in 1 .. m :
        /\ [s.rsv[q[k]] EXCEPT !.quantity = take[q[k]], !.status = "cancelled"] \in Reservation
        /\ [s.rsv[q[k]] EXCEPT !.quantity = take[q[k]], !.status = "cancelled"].status
             = "cancelled"
  <2> TAKE k \in 1 .. m
  <2>1. q[k] \in part
    BY <1>4
  <2>2. s.rsv[q[k]] \in Reservation /\ take[q[k]] \in Nat \ {0}
    BY <1>5, <2>1
  <2> QED
    BY <2>2 DEF Reservation, ReservationStatus
<1>7. x \in [1 .. m -> Reservation] /\ \A k \in DOMAIN x : x[k].status = "cancelled"
  BY <1>4, <1>6
<1> HIDE DEF x
<1>8. x \in Seq(Reservation)
  BY <1>2, <1>7, SeqDef
<1> QED
  BY <1>3, <1>7, <1>8

(***************************************************************************)
(* The books after releaseProductUnits, row by row: the table k has the    *)
(* rows of s in their places, let go whole, in part or not at all, and the *)
(* rows x behind them record the parts.                                    *)
(***************************************************************************)
LEMMA LetGoRows ==
  ASSUME NEW s \in Books, NEW o \in OrderIds, NEW drop \in [Products -> Nat]
  PROVE  \E k \in Books, x \in Seq(Reservation) :
           /\ releaseProductUnits(s, o, drop).rsv = k.rsv \o x
           /\ DOMAIN k.rsv = DOMAIN s.rsv
           /\ \A j \in DOMAIN x : x[j].status = "cancelled"
           /\ \A i \in DOMAIN s.rsv :
                /\ k.rsv[i].cell = s.rsv[i].cell /\ k.rsv[i].order = s.rsv[i].order
                /\ Take(s, o, drop)[i] = s.rsv[i].quantity => k.rsv[i].status = "cancelled"
                /\ Take(s, o, drop)[i] # s.rsv[i].quantity
                     => /\ k.rsv[i].status = s.rsv[i].status
                        /\ k.rsv[i].quantity = s.rsv[i].quantity - Take(s, o, drop)[i]
                /\ i \notin Live(s, o) => k.rsv[i] = s.rsv[i]
<1> DEFINE t     == releaseProductUnits(s, o, drop)
           take  == Take(s, o, drop)
           whole == {i \in Live(s, o) : take[i] = s.rsv[i].quantity}
           part  == {i \in Live(s, o) : take[i] \in 1 .. (s.rsv[i].quantity - 1)}
           held  == PerCell(s, take, RowsOf(s, o, "reserved"))
           taken == PerCell(s, take, RowsOf(s, o, "confirmed"))
           row(i) == IF i \in part
                     THEN [s.rsv[i] EXCEPT !.quantity = @ - take[i]]
                     ELSE WithStatus(s.rsv, whole, "cancelled")[i]
           kept  == [i \in DOMAIN s.rsv |-> row(i)]
           x     == SplitOff(s, take, part)
           k     == [s EXCEPT !.rsv = kept]
<1>1. t.rsv = kept \o x
  <2>1. t = [s EXCEPT !.reserved = Minus(@, held), !.quantity = Plus(@, taken),
                      !.ledger = Plus(@, taken), !.rsv = kept \o x]
    BY DEF releaseProductUnits
  <2> HIDE DEF t, held, taken, kept, x
  <2> QED
    BY <2>1 DEF Books
<1> HIDE DEF t
<1>2. /\ \A i \in DOMAIN s.rsv : take[i] \in 0 .. s.rsv[i].quantity
      /\ \A i \in DOMAIN s.rsv \ Live(s, o) : take[i] = 0
  BY TakeBounded
<1> HIDE DEF take
<1>3. \A i \in DOMAIN s.rsv : s.rsv[i] \in Reservation
  BY TableTyped
<1>4. Live(s, o) \in SUBSET DOMAIN s.rsv
  BY DEF Live, RowsOf
<1>5. x \in Seq(Reservation) /\ \A j \in DOMAIN x : x[j].status = "cancelled"
  <2>1. \A i \in part : take[i] \in Nat \ {0}
    BY <1>2, <1>3, <1>4 DEF Reservation
  <2> QED
    BY <1>4, <2>1, SplitOffTyped
<1> HIDE DEF x
<1>6. \A i \in DOMAIN s.rsv :
        /\ row(i) \in Reservation
        /\ row(i).cell = s.rsv[i].cell /\ row(i).order = s.rsv[i].order
        /\ i \notin whole => /\ row(i).status = s.rsv[i].status
                            /\ row(i).quantity = s.rsv[i].quantity - take[i]
        /\ i \in whole => row(i).status = "cancelled"
        /\ i \notin Live(s, o) => row(i) = s.rsv[i]
  <2> TAKE i \in DOMAIN s.rsv
  <2>1. /\ s.rsv[i] \in Reservation /\ take[i] \in 0 .. s.rsv[i].quantity
        /\ s.rsv[i].quantity \in Nat \ {0}
    BY <1>2, <1>3 DEF Reservation
  <2>2. CASE i \in part
    BY <2>1, <2>2 DEF Reservation
  <2>3. CASE i \in whole
    <3>1. i \notin part
      BY <2>1, <2>3
    <3>2. row(i) = [s.rsv[i] EXCEPT !.status = "cancelled"]
      BY <2>3, <3>1 DEF WithStatus
    <3> QED
      BY <2>1, <2>3, <3>2 DEF Reservation, ReservationStatus
  <2>4. CASE i \notin part /\ i \notin whole
    <3>1. row(i) = s.rsv[i]
      BY <2>4 DEF WithStatus
    <3>2. take[i] = 0
      BY <1>2, <2>1, <2>4
    <3> QED
      BY <2>1, <2>4, <3>1, <3>2 DEF Reservation
  <2> QED
    BY <2>2, <2>3, <2>4
<1>7. \A i \in DOMAIN s.rsv : i \in whole <=> take[i] = s.rsv[i].quantity
  BY <1>2, <1>3 DEF Reservation
<1> HIDE DEF row, whole
<1>8. k \in Books /\ k.rsv = kept
  <2>1. Len(s.rsv) \in Nat /\ DOMAIN s.rsv = 1 .. Len(s.rsv)
    BY TableTyped
  <2>2. kept \in [1 .. Len(s.rsv) -> Reservation]
    BY <1>6, <2>1
  <2>3. kept \in Seq(Reservation)
    BY <2>1, <2>2, SeqDef
  <2> HIDE DEF kept
  <2> QED
    BY <2>3 DEF Books
<1>9. /\ DOMAIN k.rsv = DOMAIN s.rsv
      /\ \A i \in DOMAIN s.rsv :
           /\ k.rsv[i].cell = s.rsv[i].cell /\ k.rsv[i].order = s.rsv[i].order
           /\ take[i] = s.rsv[i].quantity => k.rsv[i].status = "cancelled"
           /\ take[i] # s.rsv[i].quantity
                => /\ k.rsv[i].status = s.rsv[i].status
                   /\ k.rsv[i].quantity = s.rsv[i].quantity - take[i]
           /\ i \notin Live(s, o) => k.rsv[i] = s.rsv[i]
  <2>1. DOMAIN k.rsv = DOMAIN s.rsv /\ \A i \in DOMAIN s.rsv : k.rsv[i] = row(i)
    BY <1>8
  <2> HIDE DEF k
  <2> QED
    BY <1>6, <1>7, <2>1
<1> HIDE DEF k
<1>10. t.rsv = k.rsv \o x
  BY <1>1, <1>8
<1>11. k \in Books /\ x \in Seq(Reservation)
  BY <1>5, <1>8
<1> USE <1>11
<1> WITNESS k \in Books, x \in Seq(Reservation)
<1> QED
  BY <1>5, <1>9, <1>10 DEF t, take

(***************************************************************************)
(* releaseProductUnits lowers the counters by what the rows let go and     *)
(* returns to the shelf what had been taken, to the unit.                  *)
(***************************************************************************)
LEMMA ReleaseUnitsSound ==
  ASSUME NEW s, Sound(s), NEW o \in OrderIds, NEW drop \in [Products -> Nat]
  PROVE  Sound(releaseProductUnits(s, o, drop))
<1> DEFINE t     == releaseProductUnits(s, o, drop)
           take  == Take(s, o, drop)
           whole == {i \in DOMAIN s.rsv : take[i] = s.rsv[i].quantity}
           held  == PerCell(s, take, RowsOf(s, o, "reserved"))
           taken == PerCell(s, take, RowsOf(s, o, "confirmed"))
<1>1. s \in Books
  BY DEF Sound
<1>2. /\ t.reserved = Minus(s.reserved, held)
      /\ t.quantity = Plus(s.quantity, taken) /\ t.ledger = Plus(s.ledger, taken)
      /\ t = [quantity |-> t.quantity, reserved |-> t.reserved, rsv |-> t.rsv,
              ledger |-> t.ledger]
  <2>1. \E rows : t = [s EXCEPT !.reserved = Minus(@, held), !.quantity = Plus(@, taken),
                                !.ledger = Plus(@, taken), !.rsv = rows]
    BY DEF releaseProductUnits
  <2> HIDE DEF t, held, taken
  <2> QED
    BY <1>1, <2>1 DEF Books
<1>3. /\ \A i \in DOMAIN s.rsv : take[i] \in 0 .. s.rsv[i].quantity
      /\ \A i \in DOMAIN s.rsv \ Live(s, o) : take[i] = 0
  BY <1>1, TakeBounded
<1>4. \A i \in DOMAIN s.rsv : s.rsv[i] \in Reservation
  BY <1>1, TableTyped
<1>5. Live(s, o) \in SUBSET DOMAIN s.rsv
  BY DEF Live, RowsOf
<1>6. PICK k \in Books, x \in Seq(Reservation) :
        /\ releaseProductUnits(s, o, drop).rsv = k.rsv \o x
        /\ DOMAIN k.rsv = DOMAIN s.rsv
        /\ \A j \in DOMAIN x : x[j].status = "cancelled"
        /\ \A i \in DOMAIN s.rsv :
             /\ k.rsv[i].cell = s.rsv[i].cell /\ k.rsv[i].order = s.rsv[i].order
             /\ Take(s, o, drop)[i] = s.rsv[i].quantity => k.rsv[i].status = "cancelled"
             /\ Take(s, o, drop)[i] # s.rsv[i].quantity
                  => /\ k.rsv[i].status = s.rsv[i].status
                     /\ k.rsv[i].quantity = s.rsv[i].quantity - Take(s, o, drop)[i]
             /\ i \notin Live(s, o) => k.rsv[i] = s.rsv[i]
  <2> HIDE DEF t, take
  <2> QED
    BY <1>1, LetGoRows, Zenon
<1>7. /\ t.rsv = k.rsv \o x
      /\ \A i \in DOMAIN s.rsv :
           /\ k.rsv[i].cell = s.rsv[i].cell
           /\ i \notin whole => /\ k.rsv[i].status = s.rsv[i].status
                               /\ k.rsv[i].quantity = s.rsv[i].quantity - take[i]
           /\ i \in whole => k.rsv[i].status = "cancelled"
  BY <1>6
<1> HIDE DEF t, take
<1>9. \A I \in SUBSET DOMAIN s.rsv : Weighs(take, I) /\ Total(take, I) \in Nat
  <2> TAKE I \in SUBSET DOMAIN s.rsv
  <2>1. IsFiniteSet(I)
    BY <1>1, TableTyped, FS_Subset
  <2>2. \A i \in I : take[i] \in Nat
    BY <1>3, <1>4 DEF Reservation
  <2>3. Weighs(take, I)
    BY <2>1, <2>2 DEF Weighs
  <2> QED
    BY <2>3, UnitsFinite
<1>10. held \in [Cells -> Nat] /\ taken \in [Cells -> Nat]
  <2>1. \A c \in Cells, st \in ReservationStatus :
          {i \in RowsOf(s, o, st) : s.rsv[i].cell = c} \in SUBSET DOMAIN s.rsv
    BY DEF RowsOf
  <2>2. \A c \in Cells, st \in ReservationStatus :
          Total(take, {i \in RowsOf(s, o, st) : s.rsv[i].cell = c}) \in Nat
    BY <1>9, <2>1, Zenon
  <2> QED
    BY <2>2 DEF PerCell, ReservationStatus
<1>11. \A c \in Cells : HeldAt(k, c) = HeldAt(s, c) - held[c] /\ HeldAt(k, c) \in Nat
  <2> TAKE c \in Cells
  <2> DEFINE R    == RowsAt(s, c, "reserved")
             mine == {i \in RowsOf(s, o, "reserved") : s.rsv[i].cell = c}
             rest == [i \in DOMAIN s.rsv |-> s.rsv[i].quantity - take[i]]
  <2>1. R \in SUBSET DOMAIN s.rsv /\ mine \in SUBSET R /\ IsFiniteSet(R)
    <3>1. R \in SUBSET DOMAIN s.rsv /\ mine \in SUBSET R
      BY DEF RowsAt, RowsOf
    <3> QED
      BY <1>1, <3>1, TableTyped, FS_Subset
  <2>2. Weighs(rest, R)
    <3>1. \A i \in R : rest[i] \in Nat
      BY <1>3, <1>4, <2>1 DEF Reservation
    <3> QED
      BY <2>1, <3>1 DEF Weighs
  <2>3. Total(Qty(s), R) = Total(take, R) + Total(rest, R)
    <3>1. \A i \in R : Qty(s)[i] = take[i] + rest[i]
      BY <1>3, <1>4, <2>1 DEF Reservation, Qty
    <3>2. Weighs(take, R)
      BY <1>9, <2>1
    <3> HIDE DEF R, rest
    <3> QED
      BY <2>2, <3>1, <3>2, TotalPlus
  <2>4. Total(take, R) = held[c]
    <3>1. \A i \in R \ mine : take[i] = 0
      BY <1>3 DEF Live, RowsOf, RowsAt
    <3>2. Total(take, R) = Total(take, mine)
      BY <2>1, <3>1, TotalZeros
    <3> QED
      BY <3>2 DEF PerCell
  <2>5. Total(rest, R) = Total(rest, R \ whole)
    <3>1. \A i \in R \ (R \ whole) : rest[i] = 0
      BY <1>4, <2>1 DEF Reservation
    <3>2. (R \ whole) \in SUBSET R
      OBVIOUS
    <3> HIDE DEF R, rest, whole
    <3> QED
      BY <3>1, <3>2, TotalZeros
  <2>6. RowsAt(k, c, "reserved") = R \ whole
    BY <1>6, <1>7 DEF RowsAt
  <2>7. Total(Qty(k), R \ whole) = Total(rest, R \ whole)
    <3>1. \A i \in R \ whole : Qty(k)[i] = rest[i]
      <4> TAKE i \in R \ whole
      <4>1. i \in DOMAIN s.rsv
        BY <2>1
      <4> QED
        BY <1>6, <1>7, <4>1 DEF Qty
    <3> HIDE DEF R, rest, whole
    <3> QED
      BY <3>1, TotalSame
  <2>8. Total(take, R) \in Nat /\ Total(rest, R) \in Nat
    BY <1>9, <2>1, <2>2, UnitsFinite
  <2>9. HeldAt(k, c) = Total(rest, R) /\ HeldAt(s, c) = Total(Qty(s), R)
    BY <2>5, <2>6, <2>7 DEF HeldAt
  <2> HIDE DEF R, rest, whole, held
  <2> QED
    BY <2>3, <2>4, <2>8, <2>9
<1>12. t \in Books
  <2>1. k.rsv \o x \in Seq(Reservation)
    BY <1>6, ConcatProperties DEF Books
  <2>2. /\ Minus(s.reserved, held) \in [Cells -> Int]
        /\ Plus(s.quantity, taken) \in [Cells -> Int]
        /\ Plus(s.ledger, taken) \in [Cells -> Int]
    BY <1>1, <1>10, CountersTyped DEF Books
  <2> HIDE DEF held, taken
  <2> QED
    BY <1>2, <1>7, <2>1, <2>2 DEF Books
<1>13. \A c \in Cells : HeldAt(t, c) = HeldAt(k, c)
  <2> TAKE c \in Cells
  <2>1. /\ HeldAt(t, c) = HeldAt(k, c) + Total(Qty(t), NewHolds(k, x, c))
        /\ HeldAt(k, c) \in Nat
    BY <1>7, <1>12, AppendedHolds
  <2>2. NewHolds(k, x, c) = {}
    <3>1. Len(x) \in Nat /\ DOMAIN x = 1 .. Len(x) /\ Len(k.rsv) \in Nat
      BY <1>6, LenProperties, TableTyped
    <3>2. \A i \in (Len(k.rsv) + 1) .. (Len(k.rsv) + Len(x)) : i - Len(k.rsv) \in DOMAIN x
      BY <3>1
    <3> QED
      BY <1>6, <3>2 DEF NewHolds
  <2> QED
    BY <2>1, <2>2, TotalEmpty
<1> HIDE DEF held, taken, whole
<1>14. HoldsMatch(t)
  BY <1>2, <1>11, <1>13 DEF HoldsMatch, Sound, Minus
<1>15. NeverOversold(t)
  <2> SUFFICES ASSUME NEW c \in Cells PROVE t.reserved[c] \in 0 .. t.quantity[c]
    BY DEF NeverOversold
  <2>1. /\ s.reserved[c] \in 0 .. s.quantity[c] /\ s.quantity[c] \in Int
        /\ s.reserved[c] = HeldAt(s, c)
    BY <1>1 DEF NeverOversold, Sound, Books, HoldsMatch
  <2>2. t.reserved[c] = s.reserved[c] - held[c] /\ t.quantity[c] = s.quantity[c] + taken[c]
    BY <1>2 DEF Minus, Plus
  <2>3. held[c] \in Nat /\ taken[c] \in Nat /\ s.reserved[c] - held[c] \in Nat
    BY <1>10, <1>11, <2>1
  <2> QED
    BY <2>1, <2>2, <2>3
<1>16. LedgerMatches(t)
  BY <1>2 DEF LedgerMatches, Sound
<1> QED
  BY <1>12, <1>14, <1>15, <1>16 DEF Sound, t

-----------------------------------------------------------------------------
(* Holds move to the counter where they are collected *)

(***************************************************************************)
(* Among some rows of the table one is the youngest: all others come       *)
(* before it in the order rehomeReservations goes through them.            *)
(***************************************************************************)
LEMMA YoungestExists ==
  ASSUME NEW s \in Books, NEW G \in SUBSET DOMAIN s.rsv, G # {}
  PROVE  \E i \in G : \A j \in G \ {i} : Older(s, j, i) /\ ~ Older(s, i, i)
<1> DEFINE younger(i) == {j \in G : Older(s, i, j)}
           T == {younger(i) : i \in G}
           R == StrictSubsetOrdering(G)
<1>1. IsFiniteSet(G)
  BY TableTyped, FS_Subset
<1>2. IsWellFoundedOn(R, SUBSET G)
  BY <1>1, FS_StrictSubsetOrderingWellFounded, FS_FiniteSubsetsOfFinite
<1>3. T \subseteq SUBSET G /\ T # {}
  OBVIOUS
<1>4. PICK y \in T : \A z \in T : ~ (<<z, y>> \in R)
  <2> HIDE DEF T, R
  <2> QED
    BY <1>2, <1>3, WFMin
<1>5. PICK i \in G : y = younger(i)
  BY <1>4
<1>6. \A j \in G : s.rsv[j].order \in Nat /\ j \in Nat
  <2>1. \A j \in DOMAIN s.rsv : s.rsv[j] \in Reservation /\ j \in Nat
    BY TableTyped
  <2> QED
    BY <2>1, OrderIdsAssumption DEF Reservation
<1>7. \A j \in G : ~ Older(s, i, j)
  <2> SUFFICES ASSUME NEW j \in G, Older(s, i, j) PROVE FALSE
    OBVIOUS
  <2>1. younger(j) \subseteq younger(i)
    BY <1>6 DEF Older
  <2>2. j \in younger(i) /\ j \notin younger(j)
    BY <1>6 DEF Older
  <2>3. <<younger(j), younger(i)>> \in R
    BY <2>1, <2>2 DEF StrictSubsetOrdering
  <2> QED
    BY <1>4, <1>5, <2>3
<1>8. \A j \in G \ {i} : Older(s, j, i)
  BY <1>6, <1>7 DEF Older
<1> QED
  BY <1>7, <1>8

(***************************************************************************)
(* The holds that move to the counter fit in what is available there.      *)
(***************************************************************************)
LEMMA RehomedFits ==
  ASSUME NEW s, Sound(s), NEW pickup, NEW t \in Locations, NEW items,
         NEW M \in SUBSET Misplaced(s, pickup, t, items),
         RehomesExactly(s, pickup, t, items, M), NEW p \in Products
  PROVE  /\ Total(Qty(s), {i \in M : s.rsv[i].cell[2] = p}) \in Nat
         /\ Total(Qty(s), {i \in M : s.rsv[i].cell[2] = p}) <= Available(s, <<t, p>>)
<1> DEFINE G == {i \in M : s.rsv[i].cell[2] = p}
<1>1. s \in Books
  BY DEF Sound
<1>2. G \in SUBSET DOMAIN s.rsv
  BY DEF Misplaced
<1>3. Total(Qty(s), G) \in Nat
  BY <1>1, <1>2, RowsWeigh
<1>4. CASE G = {}
  <2>1. Total(Qty(s), G) = 0
    BY <1>4, TotalEmpty
  <2>2. <<t, p>> \in Cells
    BY DEF Cells
  <2>3. Available(s, <<t, p>>) >= 0
    BY <1>1, <2>2 DEF Available, Sound, NeverOversold, Books
  <2> HIDE DEF G
  <2> QED
    BY <1>3, <2>1, <2>3 DEF G
<1>5. CASE G # {}
  <2>1. PICK i \in G : \A j \in G \ {i} : Older(s, j, i) /\ ~ Older(s, i, i)
    BY <1>1, <1>2, <1>5, YoungestExists
  <2> DEFINE older == {j \in M : s.rsv[j].cell[2] = p /\ Older(s, j, i)}
  <2>2. /\ i \in M /\ i \in DOMAIN s.rsv /\ s.rsv[i].cell[2] = p
        /\ s.rsv[i].quantity \in Nat
    <3>1. i \in M /\ i \in DOMAIN s.rsv /\ s.rsv[i].cell[2] = p
      BY <1>2, <2>1
    <3> QED
      BY <1>1, <3>1, TableTyped DEF Reservation
  <2>3. s.rsv[i].quantity <= Available(s, <<t, p>>) - Total(Qty(s), older)
    BY <2>2 DEF RehomesExactly
  <2>4. ~ Older(s, i, i)
    <3>1. i \in Nat /\ s.rsv[i] \in Reservation
      BY <1>1, <2>2, TableTyped
    <3>2. s.rsv[i].order \in Nat
      BY <3>1, OrderIdsAssumption DEF Reservation
    <3> QED
      BY <3>1, <3>2 DEF Older
  <2>5. older = G \ {i}
    BY <2>1, <2>4
  <2>6. Total(Qty(s), {i}) = s.rsv[i].quantity
    <3>1. Qty(s)[i] = s.rsv[i].quantity
      BY <2>2 DEF Qty
    <3> QED
      BY <2>2, <3>1, TotalSingle
  <2>7. /\ Total(Qty(s), G \ {i}) = Total(Qty(s), G) - Total(Qty(s), {i})
        /\ Total(Qty(s), G \ {i}) \in Nat
    <3>1. Weighs(Qty(s), G)
      BY <1>1, <1>2, RowsWeigh
    <3>2. {i} \subseteq G
      BY <2>1
    <3> HIDE DEF G
    <3> QED
      BY <3>1, <3>2, TotalDifference
  <2>8. Available(s, <<t, p>>) \in Int
    BY <1>1 DEF Available, Books, Cells
  <2>9. Total(Qty(s), G) <= Available(s, <<t, p>>)
    <3> DEFINE n == Total(Qty(s), G)
               m == Total(Qty(s), older)
               a == Available(s, <<t, p>>)
               w == s.rsv[i].quantity
    <3>1. n \in Nat /\ m \in Nat /\ a \in Int /\ w \in Nat /\ m = n - w /\ w <= a - m
      BY <1>3, <2>2, <2>3, <2>5, <2>6, <2>7, <2>8
    <3> HIDE DEF n, m, a, w
    <3>2. n <= a
      BY <3>1
    <3> QED
      BY <3>2 DEF n, a
  <2> QED
    BY <1>3, <2>9
<1> QED
  BY <1>4, <1>5

(***************************************************************************)
(* rehomeReservations moves every hold with its units, and what arrives at *)
(* the counter is there.                                                   *)
(***************************************************************************)
LEMMA RehomeSound ==
  ASSUME NEW s, Sound(s), NEW pickup, NEW t \in Locations, NEW items,
         NEW M \in SUBSET Misplaced(s, pickup, t, items),
         RehomesExactly(s, pickup, t, items, M)
  PROVE  Sound(rehomeReservations(s, t, M))
<1> DEFINE r    == rehomeReservations(s, t, M)
           from == PerCell(s, Qty(s), M)
           to   == [c \in Cells |->
                     IF c[1] = t
                     THEN Total(Qty(s), {i \in M : s.rsv[i].cell[2] = c[2]})
                     ELSE 0]
           row(i) == IF i \in M THEN [s.rsv[i] EXCEPT !.cell = <<t, @[2]>>] ELSE s.rsv[i]
           moved == [i \in DOMAIN s.rsv |-> row(i)]
           held == [c \in Cells |-> Larger(0, s.reserved[c] - from[c]) + to[c]]
<1>1. s \in Books
  BY DEF Sound
<1>2. /\ r.rsv = moved /\ r.reserved = held /\ r.quantity = s.quantity /\ r.ledger = s.ledger
      /\ r = [quantity |-> r.quantity, reserved |-> r.reserved, rsv |-> r.rsv,
              ledger |-> r.ledger]
  <2>1. r = [s EXCEPT !.reserved = held, !.rsv = moved]
    BY DEF rehomeReservations, Rehomed
  <2> HIDE DEF r, held, moved
  <2> QED
    BY <1>1, <2>1 DEF Books
<1> HIDE DEF r
<1>3. M \in SUBSET DOMAIN s.rsv
  BY DEF Misplaced
<1>4. \A i \in DOMAIN s.rsv : s.rsv[i] \in Reservation
  BY <1>1, TableTyped
<1>5. from \in [Cells -> Nat]
  BY <1>1, <1>3, PerCellNat
<1>6. to \in [Cells -> Nat] /\ \A c \in Cells : c[1] = t => to[c] <= Available(s, c)
  <2>1. \A c \in Cells : c[2] \in Products /\ (c[1] = t => c = <<t, c[2]>>)
    BY DEF Cells
  <2>2. \A p \in Products :
          /\ Total(Qty(s), {i \in M : s.rsv[i].cell[2] = p}) \in Nat
          /\ Total(Qty(s), {i \in M : s.rsv[i].cell[2] = p}) <= Available(s, <<t, p>>)
    BY RehomedFits, Zenon
  <2>3. \A c \in Cells : to[c] \in Nat
    BY <2>1, <2>2
  <2>4. \A c \in Cells : c[1] = t => to[c] <= Available(s, c)
    BY <2>1, <2>2
  <2> QED
    BY <2>3, <2>4
<1>7. \A i \in DOMAIN s.rsv :
        /\ row(i) \in Reservation
        /\ row(i).quantity = s.rsv[i].quantity
        /\ row(i).status = s.rsv[i].status
        /\ row(i).cell = IF i \in M THEN <<t, s.rsv[i].cell[2]>> ELSE s.rsv[i].cell
  BY <1>4 DEF Reservation, Cells
<1> HIDE DEF row
<1>8. r \in Books
  <2>1. Len(s.rsv) \in Nat /\ DOMAIN s.rsv = 1 .. Len(s.rsv)
    BY <1>1, TableTyped
  <2>2. moved \in [1 .. Len(s.rsv) -> Reservation]
    BY <1>7, <2>1
  <2>3. moved \in Seq(Reservation)
    BY <2>1, <2>2, SeqDef
  <2>4. held \in [Cells -> Int]
    <3> HIDE DEF from, to
    <3> QED
      BY <1>1, <1>5, <1>6 DEF Books, Larger
  <2> HIDE DEF moved, held
  <2> QED
    BY <1>1, <1>2, <2>3, <2>4 DEF Books
<1>9. Qty(r) = Qty(s)
  BY <1>2, <1>7 DEF Qty
<1>10. \A c \in Cells : /\ from[c] \in 0 .. HeldAt(s, c)
                        /\ HeldAt(s, c) \in Nat
                        /\ HeldAt(r, c) = HeldAt(s, c) - from[c] + to[c]
  <2> SUFFICES ASSUME NEW c \in Cells
               PROVE  /\ from[c] \in 0 .. HeldAt(s, c)
                      /\ HeldAt(s, c) \in Nat
                      /\ HeldAt(r, c) = HeldAt(s, c) - from[c] + to[c]
    OBVIOUS
  <2> DEFINE R    == RowsAt(s, c, "reserved")
             gone == {i \in M : s.rsv[i].cell = c}
             come == {i \in M : s.rsv[i].cell[2] = c[2]}
  <2>1. R \in SUBSET DOMAIN s.rsv /\ gone \subseteq R
    BY DEF RowsAt, Misplaced
  <2>2. Weighs(Qty(s), R) /\ Total(Qty(s), R) \in Nat
    BY <1>1, <2>1, RowsWeigh
  <2>3. /\ Total(Qty(s), R \ gone) = Total(Qty(s), R) - Total(Qty(s), gone)
        /\ Total(Qty(s), gone) \in Nat /\ Total(Qty(s), R \ gone) \in Nat
    <3> HIDE DEF R, gone
    <3> QED
      BY <2>1, <2>2, TotalDifference
  <2>4. from[c] = Total(Qty(s), gone) /\ HeldAt(s, c) = Total(Qty(s), R)
    BY DEF PerCell, HeldAt
  <2>5. CASE c[1] # t
    <3>1. RowsAt(r, c, "reserved") = R \ gone
      <4>1. \A i \in DOMAIN s.rsv :
              row(i).cell = c <=> i \notin M /\ s.rsv[i].cell = c
        <5>1. \A p : <<t, p>> # c
          BY <2>5
        <5>2. \A i \in DOMAIN s.rsv :
                row(i).cell = IF i \in M THEN <<t, s.rsv[i].cell[2]>> ELSE s.rsv[i].cell
          BY <1>7
        <5> QED
          BY <5>1, <5>2, Zenon
      <4>2. DOMAIN r.rsv = DOMAIN s.rsv /\ \A i \in DOMAIN s.rsv : r.rsv[i] = row(i)
        BY <1>2
      <4> QED
        BY <1>7, <4>1, <4>2 DEF RowsAt
    <3>2. to[c] = 0
      BY <2>5
    <3>3. HeldAt(r, c) = Total(Qty(s), R \ gone)
      BY <1>9, <3>1 DEF HeldAt
    <3> HIDE DEF R, gone, from, to
    <3> QED
      BY <2>2, <2>3, <2>4, <3>2, <3>3
  <2>6. CASE c[1] = t
    <3>1. gone = {}
      BY <2>6 DEF Misplaced
    <3>2. from[c] = 0
      BY <2>4, <3>1, TotalEmpty
    <3>3. to[c] = Total(Qty(s), come)
      BY <2>6
    <3>4. c = <<t, c[2]>> /\ come \in SUBSET DOMAIN s.rsv
      BY <1>3, <2>6 DEF Cells
    <3>5. \A i \in M : s.rsv[i].status = "reserved" /\ s.rsv[i].cell[1] # t
      BY DEF Misplaced
    <3>6. RowsAt(r, c, "reserved") = R \cup come
      <4>1. \A i \in M : row(i).cell = c <=> s.rsv[i].cell[2] = c[2]
        <5>1. \A p : <<t, p>> = c <=> p = c[2]
          BY <3>4
        <5>2. \A i \in M : row(i).cell = <<t, s.rsv[i].cell[2]>>
          BY <1>3, <1>7
        <5> QED
          BY <5>1, <5>2, Zenon
      <4>2. \A i \in DOMAIN s.rsv \ M : row(i).cell = s.rsv[i].cell
        BY <1>7
      <4>3. DOMAIN r.rsv = DOMAIN s.rsv /\ \A i \in DOMAIN s.rsv : r.rsv[i] = row(i)
        BY <1>2
      <4>4. \A i \in M : s.rsv[i].cell # c
        BY <2>6, <3>5
      <4> QED
        <5>1. RowsAt(r, c, "reserved")
                = {i \in DOMAIN s.rsv : row(i).cell = c /\ s.rsv[i].status = "reserved"}
          BY <1>7, <4>3 DEF RowsAt
        <5> QED
          BY <1>3, <3>5, <4>1, <4>2, <4>4, <5>1 DEF RowsAt
    <3>7. R \cap come = {}
      BY <2>6, <3>5 DEF RowsAt
    <3>8. Weighs(Qty(s), come) /\ Total(Qty(s), come) \in Nat
      BY <1>1, <3>4, RowsWeigh
    <3>9. Total(Qty(s), R \cup come) = Total(Qty(s), R) + Total(Qty(s), come)
      BY <2>2, <3>7, <3>8, TotalUnion
    <3>10. HeldAt(r, c) = Total(Qty(s), R \cup come)
      BY <1>9, <3>6 DEF HeldAt
    <3> HIDE DEF R, come, from, to
    <3> QED
      BY <2>2, <2>4, <3>2, <3>3, <3>8, <3>9, <3>10
  <2> QED
    BY <2>5, <2>6
<1>11. \A c \in Cells : s.reserved[c] = HeldAt(s, c)
  BY DEF Sound, HoldsMatch
<1> HIDE DEF from, to
<1>12. \A c \in Cells : r.reserved[c] = s.reserved[c] - from[c] + to[c]
  BY <1>2, <1>5, <1>6, <1>10, <1>11 DEF Larger
<1>13. HoldsMatch(r)
  BY <1>10, <1>11, <1>12 DEF HoldsMatch
<1>14. NeverOversold(r)
  <2> SUFFICES ASSUME NEW c \in Cells PROVE r.reserved[c] \in 0 .. r.quantity[c]
    BY DEF NeverOversold
  <2>1. s.reserved[c] \in 0 .. s.quantity[c] /\ s.quantity[c] \in Int
    BY <1>1 DEF NeverOversold, Sound, Books
  <2>2. /\ r.reserved[c] = s.reserved[c] - from[c] + to[c] /\ r.quantity[c] = s.quantity[c]
        /\ from[c] \in 0 .. s.reserved[c] /\ to[c] \in Nat
    BY <1>2, <1>6, <1>10, <1>11, <1>12
  <2>3. c[1] # t => to[c] = 0
    BY DEF to
  <2>4. c[1] = t => to[c] <= s.quantity[c] - s.reserved[c]
    BY <1>6 DEF Available
  <2> QED
    BY <2>1, <2>2, <2>3, <2>4
<1>15. LedgerMatches(r)
  BY <1>2 DEF LedgerMatches, Sound
<1> QED
  BY <1>8, <1>13, <1>14, <1>15 DEF Sound, r

-----------------------------------------------------------------------------
(* What each call does to the units of the orders *)

(***************************************************************************)
(* Units are naturals, and depend on the table alone.                      *)
(***************************************************************************)
LEMMA UnitsTyped ==
  ASSUME NEW s \in Books, NEW o, NEW p \in Products, NEW st
  PROVE  /\ LineRows(s, o, p, st) \in SUBSET DOMAIN s.rsv
         /\ Units(s, o, st)[p] = Total(Qty(s), LineRows(s, o, p, st))
         /\ Units(s, o, st)[p] \in Nat
<1>1. LineRows(s, o, p, st) \in SUBSET DOMAIN s.rsv
  BY DEF LineRows, RowsOf
<1> QED
  BY <1>1, RowsWeigh DEF Units

(***************************************************************************)
(* Operations that do not touch the table change nobody's units.           *)
(***************************************************************************)
LEMMA UnitsSameTable ==
  ASSUME NEW s, NEW t, t.rsv = s.rsv, NEW o, NEW st
  PROVE  Units(t, o, st) = Units(s, o, st)
BY DEF Units, LineRows, RowsOf, Qty

(***************************************************************************)
(* Rows that change status leave the units of the one and join the other.  *)
(***************************************************************************)
LEMMA WithStatusLines ==
  ASSUME NEW s \in Books, NEW I \in SUBSET DOMAIN s.rsv, NEW final \in ReservationStatus,
         NEW t, t.rsv = WithStatus(s.rsv, I, final)
  PROVE  /\ Qty(t) = Qty(s) /\ DOMAIN t.rsv = DOMAIN s.rsv
         /\ \A o, p, st :
              LineRows(t, o, p, st)
                = IF st = final
                  THEN LineRows(s, o, p, st)
                         \cup {i \in I : s.rsv[i].order = o /\ s.rsv[i].cell[2] = p}
                  ELSE LineRows(s, o, p, st) \ I
<1>1. /\ DOMAIN t.rsv = DOMAIN s.rsv
      /\ \A i \in DOMAIN s.rsv :
           /\ t.rsv[i].cell = s.rsv[i].cell
           /\ t.rsv[i].order = s.rsv[i].order
           /\ t.rsv[i].quantity = s.rsv[i].quantity
           /\ t.rsv[i].status = IF i \in I THEN final ELSE s.rsv[i].status
  BY TableTyped DEF WithStatus, Reservation
<1>2. Qty(t) = Qty(s)
  BY <1>1 DEF Qty
<1>3. ASSUME NEW o, NEW p, NEW st
      PROVE  LineRows(t, o, p, st)
               = IF st = final
                 THEN LineRows(s, o, p, st)
                        \cup {i \in I : s.rsv[i].order = o /\ s.rsv[i].cell[2] = p}
                 ELSE LineRows(s, o, p, st) \ I
  BY <1>1 DEF LineRows, RowsOf
<1> QED
  BY <1>1, <1>2, <1>3

(***************************************************************************)
(* Confirming the lines P of an order turns their holds into goods taken,  *)
(* and touches nothing else.                                               *)
(***************************************************************************)
LEMMA ConfirmUnits ==
  ASSUME NEW s \in Books, NEW o \in OrderIds, NEW P \in SUBSET Products,
         NEW x \in OrderIds, NEW p \in Products
  PROVE  LET t == confirmProductReservations(s, o, P)
         IN  IF x = o /\ p \in P
             THEN /\ Units(t, x, "reserved")[p] = 0
                  /\ Units(t, x, "confirmed")[p]
                       = Units(s, x, "confirmed")[p] + Units(s, x, "reserved")[p]
             ELSE /\ Units(t, x, "reserved")[p] = Units(s, x, "reserved")[p]
                  /\ Units(t, x, "confirmed")[p] = Units(s, x, "confirmed")[p]
<1> DEFINE I == {i \in RowsOf(s, o, "reserved") : s.rsv[i].cell[2] \in P}
           t == confirmProductReservations(s, o, P)
           R == LineRows(s, x, p, "reserved")
           C == LineRows(s, x, p, "confirmed")
<1>1. t.rsv = WithStatus(s.rsv, I, "confirmed") /\ I \in SUBSET DOMAIN s.rsv
  BY DEF confirmProductReservations, Confirm, Books, RowsOf
<1> HIDE DEF t
<1>2. /\ Qty(t) = Qty(s)
      /\ LineRows(t, x, p, "reserved") = R \ I
      /\ LineRows(t, x, p, "confirmed")
           = C \cup {i \in I : s.rsv[i].order = x /\ s.rsv[i].cell[2] = p}
  <2>1. "confirmed" \in ReservationStatus
    BY DEF ReservationStatus
  <2> HIDE DEF I
  <2>2. /\ Qty(t) = Qty(s)
        /\ \A u, r, st :
             LineRows(t, u, r, st)
               = IF st = "confirmed"
                 THEN LineRows(s, u, r, st) \cup {i \in I : s.rsv[i].order = u /\ s.rsv[i].cell[2] = r}
                 ELSE LineRows(s, u, r, st) \ I
    BY <1>1, <2>1, WithStatusLines
  <2> QED
    BY <2>2
<1>3. /\ Units(s, x, "reserved")[p] = Total(Qty(s), R)
      /\ Units(s, x, "confirmed")[p] = Total(Qty(s), C)
      /\ Units(t, x, "reserved")[p] = Total(Qty(s), LineRows(t, x, p, "reserved"))
      /\ Units(t, x, "confirmed")[p] = Total(Qty(s), LineRows(t, x, p, "confirmed"))
  BY <1>2 DEF Units
<1>4. CASE x = o /\ p \in P
  <2>1. R \ I = {} /\ C \cap R = {}
        /\ {i \in I : s.rsv[i].order = x /\ s.rsv[i].cell[2] = p} = R
    BY <1>4 DEF LineRows, RowsOf
  <2>2. Weighs(Qty(s), C) /\ Weighs(Qty(s), R)
    BY UnitsTyped, RowsWeigh
  <2>3. Total(Qty(s), C \cup R) = Total(Qty(s), C) + Total(Qty(s), R)
    BY <2>1, <2>2, TotalUnion
  <2> QED
    BY <1>2, <1>3, <1>4, <2>1, <2>3, TotalEmpty DEF t
<1>5. CASE ~ (x = o /\ p \in P)
  <2>1. R \ I = R /\ {i \in I : s.rsv[i].order = x /\ s.rsv[i].cell[2] = p} = {}
    BY <1>5 DEF LineRows, RowsOf
  <2> QED
    BY <1>2, <1>3, <1>5, <2>1 DEF t
<1> QED
  BY <1>4, <1>5 DEF t

(***************************************************************************)
(* Confirming an order is confirming all its lines.                        *)
(***************************************************************************)
LEMMA ConfirmAll ==
  ASSUME NEW s \in Books, NEW o
  PROVE  confirmReservations(s, o) = confirmProductReservations(s, o, Products)
<1>1. \A i \in DOMAIN s.rsv : s.rsv[i].cell[2] \in Products
  BY TableTyped DEF Reservation, Cells
<1>2. {i \in RowsOf(s, o, "reserved") : s.rsv[i].cell[2] \in Products} = RowsOf(s, o, "reserved")
  BY <1>1 DEF RowsOf
<1> QED
  BY <1>2 DEF confirmReservations, confirmProductReservations

(***************************************************************************)
(* releaseReservations closes the held and the taken rows of its order,    *)
(* and no other row.                                                       *)
(***************************************************************************)
LEMMA LinesReleased ==
  ASSUME NEW s \in Books, NEW o, NEW final \in {"cancelled", "expired"}
  PROVE  LET t == releaseReservations(s, o, final)
         IN  /\ DOMAIN t.rsv = DOMAIN s.rsv /\ Qty(t) = Qty(s)
             /\ \A i \in DOMAIN s.rsv : /\ t.rsv[i].order = s.rsv[i].order
                                        /\ t.rsv[i] # s.rsv[i] => i \in Live(s, o)
             /\ \A x, p : \A st \in {"reserved", "confirmed"} :
                  LineRows(t, x, p, st) = IF x = o THEN {} ELSE LineRows(s, x, p, st)
<1> DEFINE H == RowsOf(s, o, "reserved")
           h == Release(s, H, final)
           C == RowsOf(h, o, "confirmed")
           t == releaseReservations(s, o, final)
<1>1. H \in SUBSET DOMAIN s.rsv /\ final \in ReservationStatus
  BY DEF RowsOf, ReservationStatus
<1>2. h.rsv = WithStatus(s.rsv, H, final)
  BY DEF Release, Books
<1>3. h.rsv \in Seq(Reservation)
  BY <1>1, <1>2, WithStatusTyped
<1>4. h \in Books
  <2>1. Minus(s.reserved, PerCell(s, Qty(s), H)) \in [Cells -> Int]
    BY <1>1, PerCellNat, CountersTyped DEF Books
  <2> HIDE DEF H
  <2> QED
    BY <1>2, <1>3, <2>1 DEF Release, Books
<1>5. t.rsv = WithStatus(h.rsv, C, final) /\ C \in SUBSET DOMAIN h.rsv
  <2>1. t = Restock(h, C, final)
    BY DEF releaseReservations
  <2> HIDE DEF h, t
  <2>2. C \in SUBSET DOMAIN h.rsv
    BY DEF RowsOf
  <2> HIDE DEF C
  <2> QED
    BY <1>4, <2>1, <2>2 DEF Restock, Books
<1> HIDE DEF h, t
<1>6. /\ Qty(h) = Qty(s) /\ DOMAIN h.rsv = DOMAIN s.rsv
      /\ \A x, p : \A st \in {"reserved", "confirmed"} :
           LineRows(h, x, p, st) = LineRows(s, x, p, st) \ H
  <2> HIDE DEF H
  <2> QED
    BY <1>1, <1>2, WithStatusLines
<1>7. /\ Qty(t) = Qty(h) /\ DOMAIN t.rsv = DOMAIN h.rsv
      /\ \A x, p : \A st \in {"reserved", "confirmed"} :
           LineRows(t, x, p, st) = LineRows(h, x, p, st) \ C
  <2> HIDE DEF C, H
  <2>1. final \in ReservationStatus /\ \A st \in {"reserved", "confirmed"} : st # final
    BY DEF ReservationStatus
  <2> QED
    BY <1>4, <1>5, <2>1, WithStatusLines
<1>8. \A i \in DOMAIN s.rsv : h.rsv[i].order = s.rsv[i].order
                              /\ (i \notin H => h.rsv[i] = s.rsv[i])
  <2> HIDE DEF H
  <2> QED
    BY <1>1, <1>2, WithStatusTyped DEF WithStatus
<1>9. C = RowsOf(s, o, "confirmed")
  <2>1. \A i \in H : h.rsv[i].status # "confirmed"
    BY <1>1, <1>2, WithStatusTyped
  <2>2. \A i \in H : s.rsv[i].status # "confirmed"
    BY DEF RowsOf
  <2> HIDE DEF H
  <2> QED
    BY <1>6, <1>8, <2>1, <2>2 DEF RowsOf
<1>10. \A i \in DOMAIN s.rsv : /\ t.rsv[i].order = s.rsv[i].order
                               /\ t.rsv[i] # s.rsv[i] => i \in Live(s, o)
  <2>1. \A i \in DOMAIN s.rsv : i \notin C => t.rsv[i] = h.rsv[i]
    BY <1>5, <1>6 DEF WithStatus
  <2>2. \A i \in DOMAIN h.rsv : t.rsv[i].order = h.rsv[i].order
    <3>1. \A i \in DOMAIN h.rsv : h.rsv[i] \in Reservation
      BY <1>4, TableTyped
    <3> HIDE DEF C
    <3> QED
      BY <1>5, <3>1 DEF WithStatus, Reservation
  <2> QED
    BY <1>6, <1>8, <1>9, <2>1, <2>2 DEF Live
<1>11. ASSUME NEW x, NEW p, NEW st \in {"reserved", "confirmed"}
       PROVE  LineRows(t, x, p, st) = IF x = o THEN {} ELSE LineRows(s, x, p, st)
  <2>1. LineRows(t, x, p, st) = (LineRows(s, x, p, st) \ H) \ C
    BY <1>6, <1>7
  <2> QED
    BY <1>9, <2>1 DEF LineRows, RowsOf
<1> QED
  BY <1>6, <1>7, <1>10, <1>11 DEF t

(***************************************************************************)
(* An order let go has no units left, and the others have what they had.   *)
(***************************************************************************)
LEMMA ReleaseUnits ==
  ASSUME NEW s \in Books, NEW o \in OrderIds, NEW final \in {"cancelled", "expired"},
         NEW x \in OrderIds, NEW st \in {"reserved", "confirmed"}
  PROVE  Units(releaseReservations(s, o, final), x, st)
           = IF x = o THEN NoItems ELSE Units(s, x, st)
<1> DEFINE t == releaseReservations(s, o, final)
<1>1. /\ Qty(t) = Qty(s)
      /\ \A p : LineRows(t, x, p, st) = IF x = o THEN {} ELSE LineRows(s, x, p, st)
  BY LinesReleased
<1> HIDE DEF t
<1>2. CASE x = o
  BY <1>1, <1>2, TotalEmpty DEF Units, NoItems, t
<1>3. CASE x # o
  BY <1>1, <1>3 DEF Units, t
<1> QED
  BY <1>2, <1>3

(***************************************************************************)
(* The rows that the rows y, appended to the table of s, add to a line.    *)
(***************************************************************************)
NewLines(s, y, o, p, st) ==
  {i \in (Len(s.rsv) + 1) .. (Len(s.rsv) + Len(y)) :
     /\ y[i - Len(s.rsv)].order = o
     /\ y[i - Len(s.rsv)].cell[2] = p
     /\ y[i - Len(s.rsv)].status = st}

(***************************************************************************)
(* Appended rows come after the others, which stay as they were.           *)
(***************************************************************************)
LEMMA AppendedRows ==
  ASSUME NEW s \in Books, NEW y \in Seq(Reservation), NEW t \in Books,
         t.rsv = s.rsv \o y
  PROVE  /\ Len(s.rsv) \in Nat /\ DOMAIN s.rsv = 1 .. Len(s.rsv) /\ Len(y) \in Nat
         /\ DOMAIN y = 1 .. Len(y)
         /\ DOMAIN t.rsv = 1 .. (Len(s.rsv) + Len(y))
         /\ \A i \in DOMAIN t.rsv :
              t.rsv[i] = IF i <= Len(s.rsv) THEN s.rsv[i] ELSE y[i - Len(s.rsv)]
         /\ \A i \in DOMAIN s.rsv : i \in DOMAIN t.rsv /\ t.rsv[i] = s.rsv[i]
<1>1. /\ Len(s.rsv) \in Nat /\ DOMAIN s.rsv = 1 .. Len(s.rsv) /\ Len(y) \in Nat
      /\ DOMAIN y = 1 .. Len(y)
  BY TableTyped, LenProperties
<1>2. s.rsv \in Seq(Reservation)
  BY DEF Books
<1>3. DOMAIN t.rsv = 1 .. (Len(s.rsv) + Len(y))
  BY <1>2, TableTyped, ConcatProperties
<1>4. \A i \in DOMAIN t.rsv :
        t.rsv[i] = IF i <= Len(s.rsv) THEN s.rsv[i] ELSE y[i - Len(s.rsv)]
  BY <1>2, <1>3, ConcatProperties
<1>5. \A i \in DOMAIN s.rsv : i \in DOMAIN t.rsv /\ t.rsv[i] = s.rsv[i]
  BY <1>1, <1>3, <1>4
<1> QED
  BY <1>1, <1>3, <1>4, <1>5

(***************************************************************************)
(* What the appended rows weigh is what they say.                          *)
(***************************************************************************)
LEMMA AppendedWeights ==
  ASSUME NEW s \in Books, NEW y \in Seq(Reservation), NEW t \in Books,
         t.rsv = s.rsv \o y, NEW o \in OrderIds, NEW p \in Products, NEW st \in ReservationStatus
  PROVE  /\ NewLines(s, y, o, p, st) \in SUBSET DOMAIN t.rsv
         /\ \A i \in NewLines(s, y, o, p, st) : Qty(t)[i] = y[i - Len(s.rsv)].quantity
<1>1. /\ Len(s.rsv) \in Nat /\ Len(y) \in Nat
      /\ DOMAIN t.rsv = 1 .. (Len(s.rsv) + Len(y))
      /\ \A i \in DOMAIN t.rsv :
           t.rsv[i] = IF i <= Len(s.rsv) THEN s.rsv[i] ELSE y[i - Len(s.rsv)]
  BY AppendedRows
<1> QED
  BY <1>1 DEF NewLines, Qty

(***************************************************************************)
(* Appended rows add their units to those of the rows before them.         *)
(***************************************************************************)
LEMMA AppendedUnits ==
  ASSUME NEW s \in Books, NEW y \in Seq(Reservation), NEW t \in Books,
         t.rsv = s.rsv \o y, NEW o \in OrderIds, NEW p \in Products, NEW st \in ReservationStatus
  PROVE  Units(t, o, st)[p] = Units(s, o, st)[p] + Total(Qty(t), NewLines(s, y, o, p, st))
<1> DEFINE n == Len(s.rsv)
           old == LineRows(s, o, p, st)
           new == NewLines(s, y, o, p, st)
<1>1. /\ n \in Nat /\ DOMAIN s.rsv = 1 .. n /\ Len(y) \in Nat
      /\ DOMAIN t.rsv = 1 .. (n + Len(y))
      /\ \A i \in 1 .. (n + Len(y)) : t.rsv[i] = IF i <= n THEN s.rsv[i] ELSE y[i - n]
  BY AppendedRows
<1>5. LineRows(t, o, p, st) = old \cup new /\ old \cap new = {}
  BY <1>1 DEF LineRows, RowsOf, NewLines
<1>6. old \in SUBSET DOMAIN t.rsv /\ new \in SUBSET DOMAIN t.rsv
  BY <1>1 DEF LineRows, RowsOf, NewLines
<1>7. Weighs(Qty(t), old) /\ Weighs(Qty(t), new)
  BY <1>6, RowsWeigh
<1>8. Total(Qty(t), old \cup new) = Total(Qty(t), old) + Total(Qty(t), new)
  BY <1>5, <1>7, TotalUnion, Zenon
<1>9. Total(Qty(t), old) = Total(Qty(s), old)
  <2>1. \A i \in old : Qty(t)[i] = Qty(s)[i]
    BY <1>1 DEF LineRows, RowsOf, Qty
  <2> QED
    BY <2>1, TotalSame
<1> QED
  BY <1>5, <1>8, <1>9 DEF Units

(***************************************************************************)
(* The rows y hold for order o what the allocation a takes, in the order q *)
(* of the inventory rows.                                                  *)
(***************************************************************************)
HoldRows(y, o, a, q) ==
  /\ DOMAIN q = 1 .. Len(y) /\ Len(y) \in Nat
  /\ \A k \in 1 .. Len(y) : /\ y[k].order = o /\ y[k].cell = q[k] /\ y[k].quantity = a[q[k]]
                            /\ y[k].status = "reserved"

(***************************************************************************)
(* reserve only appends rows: one hold of its order for each inventory row *)
(* that the allocation takes from.                                         *)
(***************************************************************************)
LEMMA ReservedAppends ==
  ASSUME NEW s, Sound(s), NEW o \in OrderIds, NEW items \in Items, NEW places, NEW preferred,
         NEW t \in Reserved(s, o, items, places, preferred)
  PROVE  \E a \in Allocations(s, items, places, preferred) :
         \E q \in RowOrders(a), y \in Seq(Reservation) :
           t.rsv = s.rsv \o y /\ HoldRows(y, o, a, q)
<1>1. PICK a \in Allocations(s, items, places, preferred) :
        t \in {reserve(s, o, a, q) : q \in RowOrders(a)}
  BY DEF Reserved
<1>2. PICK q \in RowOrders(a) : t = reserve(s, o, a, q)
  BY <1>1
<1> DEFINE S == {c \in Cells : a[c] > 0}
           z == [k \in DOMAIN q |->
                  [order |-> o, cell |-> q[k], quantity |-> a[q[k]], status |-> "reserved"]]
<1>3. s \in Books /\ t \in Books 
  BY ReservedSound DEF Sound
<1>4. a \in [Cells -> Nat]
  BY MaxQuantityAssumption DEF Allocations
<1>5. IsFiniteSet(Cells) /\ IsFiniteSet(S) /\ Cardinality(S) \in Nat
  <2>1. IsFiniteSet(Cells)
    BY FiniteAssumption, FS_Product DEF Cells
  <2> QED
    BY <2>1, FS_Subset, FS_CardinalityType
<1>6. /\ q \in [1 .. Cardinality(S) -> S]
      /\ \A i, j \in DOMAIN q : q[i] = q[j] => i = j
      /\ \A c \in S : \E i \in DOMAIN q : q[i] = c
  BY DEF RowOrders, Listings
<1>7. z \in [1 .. Cardinality(S) -> Reservation]
  BY <1>4, <1>6 DEF Reservation, ReservationStatus
<1>8. z \in Seq(Reservation) /\ DOMAIN q = 1 .. Len(z) /\ Len(z) \in Nat
  <2> HIDE DEF z
  <2> DEFINE m == Cardinality(S)
  <2> HIDE DEF m
  <2>1. m \in Nat /\ z \in [1 .. m -> Reservation]
    BY <1>5, <1>7 DEF m
  <2>2. z \in Seq(Reservation)
    BY <2>1, SeqDef
  <2>3. Len(z) = m
    BY <2>1, <2>2, LenProperties
  <2> QED
    BY <1>6, <2>1, <2>2, <2>3 DEF m
<1>9. t.rsv = s.rsv \o z
  BY <1>2, <1>3 DEF reserve, Books
<1>10. \A k \in 1 .. Len(z) :
         /\ z[k].order = o /\ z[k].cell = q[k] /\ z[k].quantity = a[q[k]]
         /\ z[k].status = "reserved"
  BY <1>8
<1> HIDE DEF z
<1>11. HoldRows(z, o, a, q)
  BY <1>8, <1>10 DEF HoldRows
<1> QED
  BY <1>8, <1>9, <1>11

(***************************************************************************)
(* The rows already there stay as they were.                               *)
(***************************************************************************)
LEMMA ReservedRows ==
  ASSUME NEW s, Sound(s), NEW o \in OrderIds, NEW items \in Items, NEW places, NEW preferred,
         NEW t \in Reserved(s, o, items, places, preferred)
  PROVE  \A i \in DOMAIN s.rsv : i \in DOMAIN t.rsv /\ t.rsv[i] = s.rsv[i]
<1>1. s \in Books /\ t \in Books
  BY ReservedSound DEF Sound
<1>2. PICK y \in Seq(Reservation) : t.rsv = s.rsv \o y
  BY ReservedAppends
<1> QED
  BY <1>1, <1>2, AppendedRows

(***************************************************************************)
(* reserve adds to the holds of its order exactly the lines asked for,     *)
(* however they are spread over the storages.                              *)
(***************************************************************************)
LEMMA ReservedUnits ==
  ASSUME NEW s, Sound(s), NEW o \in OrderIds, NEW items \in Items, NEW places, NEW preferred,
         NEW t \in Reserved(s, o, items, places, preferred), NEW x \in OrderIds, NEW p \in Products
  PROVE  /\ Units(t, x, "confirmed")[p] = Units(s, x, "confirmed")[p]
         /\ Units(t, x, "reserved")[p]
              = Units(s, x, "reserved")[p] + (IF x = o THEN items[p] ELSE 0)
<1>1. PICK a \in Allocations(s, items, places, preferred) :
        \E q \in RowOrders(a), y \in Seq(Reservation) :
          t.rsv = s.rsv \o y /\ HoldRows(y, o, a, q)
  BY ReservedAppends
<1>0. PICK q \in RowOrders(a), y \in Seq(Reservation) :
        t.rsv = s.rsv \o y /\ HoldRows(y, o, a, q)
  BY <1>1
<1>2. /\ t.rsv = s.rsv \o y /\ DOMAIN q = 1 .. Len(y) /\ Len(y) \in Nat
      /\ \A k \in 1 .. Len(y) :
           /\ y[k].order = o /\ y[k].cell = q[k] /\ y[k].quantity = a[q[k]]
           /\ y[k].status = "reserved"
  BY <1>0 DEF HoldRows
<1> DEFINE S == {c \in Cells : a[c] > 0}
           n == Len(s.rsv)
<1>3. s \in Books /\ t \in Books /\ n \in Nat
  BY ReservedSound, TableTyped DEF Sound
<1>4. a \in [Cells -> Nat] /\ Total(a, {c \in Cells : c[2] = p}) = items[p]
  <2>1. a \in [Cells -> 0 .. MaxQuantity] /\ Total(a, {c \in Cells : c[2] = p}) = items[p]
    BY Zenon DEF Allocations
  <2> QED
    BY <2>1, MaxQuantityAssumption
<1>5. /\ q \in [1 .. Cardinality(S) -> S]
      /\ \A i, j \in DOMAIN q : q[i] = q[j] => i = j
      /\ \A c \in S : \E i \in DOMAIN q : q[i] = c
  BY DEF RowOrders, Listings
<1>6. ASSUME NEW st \in ReservationStatus
      PROVE  Units(t, x, st)[p]
               = Units(s, x, st)[p] + Total(Qty(t), NewLines(s, y, x, p, st))
  <2>1. t.rsv = s.rsv \o y /\ s \in Books /\ t \in Books
    BY <1>2, <1>3
  <2> HIDE DEF S, n
  <2> QED
    BY <1>6, <2>1, AppendedUnits
<1>7. ASSUME NEW st \in ReservationStatus
      PROVE  /\ NewLines(s, y, x, p, st) \in SUBSET DOMAIN t.rsv
             /\ \A i \in NewLines(s, y, x, p, st) : Qty(t)[i] = y[i - n].quantity
  BY <1>2, <1>3, AppendedWeights
<1>8. \A i \in (n + 1) .. (n + Len(y)) : i - n \in 1 .. Len(y)
  BY <1>3, <1>2
<1>9. Units(s, x, "confirmed")[p] \in Nat /\ Units(s, x, "reserved")[p] \in Nat
  BY <1>3, UnitsTyped
<1>10. NewLines(s, y, x, p, "confirmed") = {} /\ (x # o => NewLines(s, y, x, p, "reserved") = {})
  BY <1>2, <1>8 DEF NewLines
<1>11. x = o => Total(Qty(t), NewLines(s, y, x, p, "reserved")) = items[p]
  <2> SUFFICES ASSUME x = o PROVE Total(Qty(t), NewLines(s, y, o, p, "reserved")) = items[p]
    OBVIOUS
  <2> DEFINE N == NewLines(s, y, o, p, "reserved")
             Sp == {c \in S : c[2] = p}
             f == [i \in N |-> q[i - n]]
  <2>1. N = {i \in (n + 1) .. (n + Len(y)) : q[i - n][2] = p}
    BY <1>2, <1>8 DEF NewLines
  <2>2. \A i \in N : i - n \in DOMAIN q /\ i - n \in 1 .. Len(y) /\ q[i - n] \in Sp
    <3>1. \A i \in N : i - n \in DOMAIN q /\ i - n \in 1 .. Len(y) /\ q[i - n][2] = p
      BY <1>2, <1>8, <2>1
    <3>2. \A k \in DOMAIN q : q[k] \in S
      BY <1>5
    <3> HIDE DEF N
    <3> QED
      BY <3>1, <3>2
  <2>3. \A i, j \in N : q[i - n] = q[j - n] => i = j
    <3>1. \A i \in N : i \in Int
      BY <1>3, <1>2, <2>1
    <3>2. \A i, j \in N : q[i - n] = q[j - n] => i - n = j - n
      BY <1>5, <2>2
    <3> HIDE DEF N
    <3> QED
      BY <1>3, <3>1, <3>2
  <2>4. \A c \in Sp : \E i \in N : q[i - n] = c
    <3> TAKE c \in Sp
    <3>1. PICK k \in DOMAIN q : q[k] = c
      BY <1>5
    <3>2. n + k \in (n + 1) .. (n + Len(y)) /\ (n + k) - n = k
      BY <1>3, <1>2
    <3> QED
      BY <2>1, <3>1, <3>2
  <2>5. f \in Bijection(N, Sp)
    <3> HIDE DEF N, Sp
    <3> QED
      BY <2>2, <2>3, <2>4 DEF Bijection, Injection, Surjection, IsInjective
  <2>6. \A i \in N : a[f[i]] = Qty(t)[i]
    <3>1. \A i \in N : Qty(t)[i] = y[i - n].quantity
      BY <1>7 DEF ReservationStatus
    <3> HIDE DEF N
    <3> QED
      BY <1>2, <2>2, <3>1
  <2>7. Weighs(Qty(t), N)
    BY <1>3, <1>7, RowsWeigh DEF ReservationStatus
  <2>8. Total(a, Sp) = Total(Qty(t), N)
    <3> HIDE DEF N, Sp, f
    <3> QED
      BY <2>5, <2>6, <2>7, TotalRenamed
  <2>9. Total(a, {c \in Cells : c[2] = p}) = Total(a, Sp)
    <3>1. Sp \in SUBSET {c \in Cells : c[2] = p}
      OBVIOUS
    <3>2. \A c \in {c \in Cells : c[2] = p} \ Sp : a[c] = 0
      BY <1>4
    <3> HIDE DEF Sp
    <3> QED
      BY <3>1, <3>2, TotalZeros
  <2> QED
    BY <1>4, <2>8, <2>9
<1>12. Total(Qty(t), {}) = 0
  BY TotalEmpty
<1>13. Units(t, x, "confirmed")[p] = Units(s, x, "confirmed")[p]
  <2>1. Units(t, x, "confirmed")[p]
          = Units(s, x, "confirmed")[p] + Total(Qty(t), NewLines(s, y, x, p, "confirmed"))
    BY <1>6 DEF ReservationStatus
  <2>2. Total(Qty(t), NewLines(s, y, x, p, "confirmed")) = 0
    BY <1>10, <1>12
  <2> QED
    BY <1>9, <2>1, <2>2
<1>14. Units(t, x, "reserved")[p]
             = Units(s, x, "reserved")[p] + Total(Qty(t), NewLines(s, y, x, p, "reserved"))
  BY <1>6 DEF ReservationStatus
<1>15. CASE x = o
  BY <1>11, <1>13, <1>14, <1>15
<1>16. CASE x # o
  BY <1>9, <1>10, <1>12, <1>13, <1>14, <1>16
<1> QED
  BY <1>15, <1>16

(***************************************************************************)
(* Some rows of the table have a first and a last one.                     *)
(***************************************************************************)
LEMMA FirstAndLast ==
  ASSUME NEW s \in Books, NEW S \in SUBSET DOMAIN s.rsv, S # {}
  PROVE  (\E i \in S : \A j \in S : i <= j) /\ (\E i \in S : \A j \in S : j <= i)
<1> DEFINE n == Len(s.rsv)
           T == {n - i : i \in S}
<1>1. n \in Nat /\ S \subseteq 1 .. n
  BY TableTyped
<1> HIDE DEF n
<1>2. S \subseteq Nat /\ T \subseteq Nat /\ T # {} /\ \A i \in S : n - i \in T
  BY <1>1
<1>3. \E i \in S : \A j \in S : i <= j
  <2>1. PICK i \in S : \A j \in S : ~ (<<j, i>> \in OpToRel(<, Nat))
    BY <1>2, WFMin, NatLessThanWellFounded
  <2>2. \A j \in S : ~ (j < i)
    BY <1>2, <2>1 DEF OpToRel
  <2> QED
    BY <1>2, <2>2
<1>4. \E i \in S : \A j \in S : j <= i
  <2>1. PICK t \in T : \A u \in T : ~ (<<u, t>> \in OpToRel(<, Nat))
    <3> HIDE DEF T
    <3> QED
      BY <1>2, WFMin, NatLessThanWellFounded
  <2>2. PICK i \in S : t = n - i
    OBVIOUS
  <2>3. ASSUME NEW j \in S PROVE j <= i
    <3>1. n - j \in T /\ n - j \in Nat /\ n - i \in Nat
      BY <1>2, <2>2
    <3>2. ~ (n - j < n - i)
      BY <2>1, <2>2, <3>1 DEF OpToRel
    <3> QED
      BY <1>1, <1>2, <3>2
  <2> QED
    BY <2>3
<1> QED
  BY <1>3, <1>4

(***************************************************************************)
(* Letting go of part of a line takes from its rows, oldest first, exactly *)
(* the units asked for, when the line has them and all of them are in one  *)
(* state: the rows before the first that is not wholly let go are let go   *)
(* whole, that one gives the rest, and those after it nothing.             *)
(***************************************************************************)
LEMMA TakeLine ==
  ASSUME NEW s \in Books, NEW o \in OrderIds, NEW drop \in [Products -> Nat],
         NEW p \in Products, NEW st \in {"reserved", "confirmed"},
         \A i \in Live(s, o) : s.rsv[i].cell[2] = p => s.rsv[i].status = st,
         drop[p] <= Units(s, o, st)[p]
  PROVE  Total(Take(s, o, drop), LineRows(s, o, p, st)) = drop[p]
<1> DEFINE L    == LineRows(s, o, p, st)
           B(i) == {j \in L : j < i}
           q    == Qty(s)
           take == Take(s, o, drop)
           d    == drop[p]
           D    == {i \in L : Total(q, B(i)) + q[i] <= d}
<1>1. /\ L \in SUBSET DOMAIN s.rsv /\ IsFiniteSet(L) /\ L \subseteq Nat
      /\ L = {i \in Live(s, o) : s.rsv[i].cell[2] = p}
  <2>1. L \in SUBSET DOMAIN s.rsv /\ L = {i \in Live(s, o) : s.rsv[i].cell[2] = p}
    BY DEF LineRows, RowsOf, Live
  <2> QED
    BY <2>1, TableTyped, FS_Subset
<1>2. d \in Nat /\ d <= Total(q, L)
  BY DEF Units
<1>3. \A I \in SUBSET L : /\ Weighs(q, I) /\ Total(q, I) \in Nat
  BY <1>1, RowsWeigh
<1>4. \A i \in L : q[i] \in Nat \ {0} /\ B(i) \in SUBSET L
  BY <1>1, TableTyped DEF Qty, Reservation
<1>5. \A i \in L : take[i] = Smaller(q[i], Larger(0, d - Total(q, B(i))))
  <2> TAKE i \in L
  <2>1. i \in Live(s, o) /\ i \in DOMAIN s.rsv /\ s.rsv[i].cell[2] = p /\ s.rsv[i].status = st
    BY <1>1
  <2>2. {j \in Live(s, o) : LetGoBefore(s, j, i)} = B(i)
    BY <1>1, <2>1 DEF LetGoBefore
  <2>3. take[i] = Smaller(s.rsv[i].quantity,
                          Larger(0, drop[s.rsv[i].cell[2]]
                                      - Total(Qty(s), {j \in Live(s, o) : LetGoBefore(s, j, i)})))
    BY <2>1 DEF Take
  <2> QED
    BY <2>1, <2>2, <2>3 DEF Qty
<1>6. \A i \in L : take[i] \in Nat
  <2>1. \A i \in DOMAIN s.rsv : take[i] \in 0 .. s.rsv[i].quantity
    BY TakeBounded
  <2>2. \A i \in L : s.rsv[i].quantity \in Nat
    BY <1>1, TableTyped DEF Reservation
  <2> QED
    BY <1>1, <2>1, <2>2
<1> SUFFICES Total(take, L) = d
  OBVIOUS
<1> HIDE DEF L, q, take, d
<1>7. ASSUME NEW i \in L
      PROVE  Total(q, B(i) \cup {i}) = Total(q, B(i)) + q[i]
  <2>1. Weighs(q, B(i)) /\ Weighs(q, {i}) /\ B(i) \cap {i} = {}
    BY <1>1, <1>3, <1>4
  <2>2. Total(q, {i}) = q[i]
    BY <1>4, TotalSingle
  <2> QED
    BY <2>1, <2>2, TotalUnion
<1>8. ASSUME NEW I \in SUBSET L, NEW J \in SUBSET I
      PROVE  Total(q, J) <= Total(q, I)
  <2>1. /\ Total(q, I \ J) = Total(q, I) - Total(q, J)
        /\ Total(q, I) \in Nat /\ Total(q, J) \in Nat /\ Total(q, I \ J) \in Nat
    BY <1>3, TotalDifference
  <2> QED
    BY <2>1
<1>9. \A i \in D : take[i] = q[i]
  <2> TAKE i \in D
  <2>1. /\ q[i] \in Nat /\ Total(q, B(i)) \in Nat
        /\ Total(q, B(i)) + q[i] <= d
        /\ take[i] = Smaller(q[i], Larger(0, d - Total(q, B(i))))
    BY <1>3, <1>4, <1>5
  <2> QED
    BY <1>2, <2>1 DEF Smaller, Larger
<1>10. CASE L \subseteq D
  <2>1. Total(take, L) = Total(q, L)
    BY <1>9, <1>10, TotalSame
  <2>2. CASE L = {}
    BY <1>2, <2>1, <2>2, TotalEmpty
  <2>3. CASE L # {}
    <3>1. PICK z \in L : \A j \in L : j <= z
      BY <1>1, <2>3, FirstAndLast
    <3>2. L = B(z) \cup {z}
      BY <1>1, <3>1
    <3>3. Total(q, L) = Total(q, B(z)) + q[z]
      BY <1>7, <3>2
    <3>4. Total(q, B(z)) + q[z] <= d
      BY <1>10
    <3>5. Total(q, L) \in Nat
      BY <1>3
    <3> QED
      BY <1>2, <2>1, <3>3, <3>4, <3>5
  <2> QED
    BY <2>2, <2>3
<1>11. CASE ~ (L \subseteq D)
  <2>1. PICK i \in L \ D : \A j \in L \ D : i <= j
    <3>1. (L \ D) \in SUBSET DOMAIN s.rsv /\ L \ D # {}
      BY <1>1, <1>11
    <3> HIDE DEF D
    <3> QED
      BY <3>1, FirstAndLast
  <2>2. B(i) \subseteq D
    BY <1>1, <2>1
  <2>3. /\ Total(q, B(i)) \in Nat /\ q[i] \in Nat /\ ~ (Total(q, B(i)) + q[i] <= d)
    BY <1>3, <1>4
  <2>4. Total(q, B(i)) <= d
    <3>1. CASE B(i) = {}
      BY <1>2, <3>1, TotalEmpty
    <3>2. CASE B(i) # {}
      <4>1. PICK j \in B(i) : \A k \in B(i) : k <= j
        BY <1>1, <3>2, FirstAndLast
      <4>2. B(i) = B(j) \cup {j}
        BY <1>1, <4>1
      <4>3. Total(q, B(i)) = Total(q, B(j)) + q[j]
        BY <1>7, <4>2
      <4>4. Total(q, B(j)) + q[j] <= d
        BY <2>2
      <4> QED
        BY <4>3, <4>4
    <3> QED
      BY <3>1, <3>2
  <2>5. take[i] = d - Total(q, B(i))
    BY <1>2, <1>5, <2>3, <2>4 DEF Smaller, Larger
  <2>6. ASSUME NEW k \in L, k > i PROVE take[k] = 0
    <3>1. (B(i) \cup {i}) \in SUBSET B(k) /\ B(k) \in SUBSET L
      BY <1>1, <2>6
    <3>2. Total(q, B(i) \cup {i}) <= Total(q, B(k))
      BY <1>8, <3>1
    <3>3. /\ Total(q, B(k)) \in Nat /\ q[k] \in Nat
          /\ Total(q, B(i)) + q[i] <= Total(q, B(k))
      BY <1>3, <1>4, <1>7, <3>2
    <3>4. take[k] = Smaller(q[k], Larger(0, d - Total(q, B(k))))
      BY <1>5
    <3> QED
      BY <1>2, <2>3, <3>3, <3>4 DEF Smaller, Larger
  <2>7. Total(take, L) = Total(take, B(i) \cup {i})
    <3>1. (B(i) \cup {i}) \in SUBSET L
      OBVIOUS
    <3>2. \A k \in L \ (B(i) \cup {i}) : take[k] = 0
      BY <1>1, <2>6
    <3> QED
      BY <3>1, <3>2, TotalZeros
  <2>8. Total(take, B(i) \cup {i}) = Total(take, B(i)) + take[i]
    <3>1. IsFiniteSet(B(i)) /\ B(i) \subseteq L /\ IsFiniteSet({i}) /\ B(i) \cap {i} = {}
      BY <1>1, FS_Subset, FS_Singleton
    <3>2. Weighs(take, B(i)) /\ Weighs(take, {i})
      BY <1>6, <3>1 DEF Weighs
    <3>3. Total(take, {i}) = take[i]
      BY <1>6, TotalSingle
    <3> QED
      BY <3>1, <3>2, <3>3, TotalUnion
  <2>9. Total(take, B(i)) = Total(q, B(i))
    <3>1. \A j \in B(i) : take[j] = q[j]
      BY <1>9, <2>2
    <3> QED
      BY <3>1, TotalSame
  <2> QED
    BY <1>2, <2>3, <2>5, <2>7, <2>8, <2>9
<1> QED
  BY <1>10, <1>11

(***************************************************************************)
(* releaseProductUnits changes only live rows of its order.                *)
(***************************************************************************)
LEMMA LetGoKeepsRows ==
  ASSUME NEW s, Sound(s), NEW o \in OrderIds, NEW drop \in [Products -> Nat]
  PROVE  \A i \in DOMAIN s.rsv :
           /\ i \in DOMAIN releaseProductUnits(s, o, drop).rsv
           /\ releaseProductUnits(s, o, drop).rsv[i].order = s.rsv[i].order
           /\ releaseProductUnits(s, o, drop).rsv[i] # s.rsv[i] => i \in Live(s, o)
<1> DEFINE t == releaseProductUnits(s, o, drop)
<1>1. s \in Books
  BY DEF Sound
<1>2. t \in Books
  BY ReleaseUnitsSound DEF Sound
<1> HIDE DEF t
<1>3. PICK k \in Books, x \in Seq(Reservation) :
        /\ releaseProductUnits(s, o, drop).rsv = k.rsv \o x
        /\ DOMAIN k.rsv = DOMAIN s.rsv
        /\ \A j \in DOMAIN x : x[j].status = "cancelled"
        /\ \A i \in DOMAIN s.rsv :
             /\ k.rsv[i].cell = s.rsv[i].cell /\ k.rsv[i].order = s.rsv[i].order
             /\ Take(s, o, drop)[i] = s.rsv[i].quantity => k.rsv[i].status = "cancelled"
             /\ Take(s, o, drop)[i] # s.rsv[i].quantity
                  => /\ k.rsv[i].status = s.rsv[i].status
                     /\ k.rsv[i].quantity = s.rsv[i].quantity - Take(s, o, drop)[i]
             /\ i \notin Live(s, o) => k.rsv[i] = s.rsv[i]
  BY <1>1, LetGoRows, Zenon
<1>4. \A i \in DOMAIN k.rsv : i \in DOMAIN t.rsv /\ t.rsv[i] = k.rsv[i]
  BY <1>2, <1>3, AppendedRows DEF t
<1> QED
  BY <1>3, <1>4 DEF t

(***************************************************************************)
(* An order that lets go of part of its lines has less by what its rows    *)
(* gave, and the other orders have what they had.                          *)
(***************************************************************************)
LEMMA LetGoUnits ==
  ASSUME NEW s, Sound(s), NEW o \in OrderIds, NEW drop \in [Products -> Nat],
         NEW x \in OrderIds, NEW p \in Products, NEW st \in {"reserved", "confirmed"}
  PROVE  /\ Total(Take(s, o, drop), LineRows(s, o, p, st)) \in Nat
         /\ Units(releaseProductUnits(s, o, drop), x, st)[p]
              = Units(s, x, st)[p]
                  - (IF x = o THEN Total(Take(s, o, drop), LineRows(s, o, p, st)) ELSE 0)
<1> DEFINE t    == releaseProductUnits(s, o, drop)
           take == Take(s, o, drop)
           whole == {i \in DOMAIN s.rsv : take[i] = s.rsv[i].quantity}
           L    == LineRows(s, x, p, st)
           rest == [i \in DOMAIN s.rsv |-> s.rsv[i].quantity - take[i]]
<1>1. s \in Books /\ st \in ReservationStatus
  BY DEF Sound, ReservationStatus
<1>2. t \in Books
  BY ReleaseUnitsSound DEF Sound
<1>3. /\ \A i \in DOMAIN s.rsv : take[i] \in 0 .. s.rsv[i].quantity
      /\ \A i \in DOMAIN s.rsv \ Live(s, o) : take[i] = 0
  BY <1>1, TakeBounded
<1>4. \A i \in DOMAIN s.rsv : s.rsv[i] \in Reservation /\ s.rsv[i].quantity \in Nat \ {0}
  BY <1>1, TableTyped DEF Reservation
<1>5. PICK k \in Books, y \in Seq(Reservation) :
        /\ releaseProductUnits(s, o, drop).rsv = k.rsv \o y
        /\ DOMAIN k.rsv = DOMAIN s.rsv
        /\ \A j \in DOMAIN y : y[j].status = "cancelled"
        /\ \A i \in DOMAIN s.rsv :
             /\ k.rsv[i].cell = s.rsv[i].cell /\ k.rsv[i].order = s.rsv[i].order
             /\ Take(s, o, drop)[i] = s.rsv[i].quantity => k.rsv[i].status = "cancelled"
             /\ Take(s, o, drop)[i] # s.rsv[i].quantity
                  => /\ k.rsv[i].status = s.rsv[i].status
                     /\ k.rsv[i].quantity = s.rsv[i].quantity - Take(s, o, drop)[i]
             /\ i \notin Live(s, o) => k.rsv[i] = s.rsv[i]
  <2> HIDE DEF t, take
  <2> QED
    BY <1>1, LetGoRows, Zenon
<1>6. /\ t.rsv = k.rsv \o y
      /\ \A i \in DOMAIN s.rsv :
           /\ k.rsv[i].cell = s.rsv[i].cell /\ k.rsv[i].order = s.rsv[i].order
           /\ i \notin whole => /\ k.rsv[i].status = s.rsv[i].status
                               /\ k.rsv[i].quantity = s.rsv[i].quantity - take[i]
           /\ i \in whole => k.rsv[i].status = "cancelled"
  BY <1>5
<1> SUFFICES /\ Total(take, LineRows(s, o, p, st)) \in Nat
             /\ Units(t, x, st)[p]
                  = Units(s, x, st)[p]
                      - (IF x = o THEN Total(take, LineRows(s, o, p, st)) ELSE 0)
  OBVIOUS
<1> HIDE DEF t, take
<1>7. \A I \in SUBSET DOMAIN s.rsv : Weighs(take, I) /\ Total(take, I) \in Nat
  <2> TAKE I \in SUBSET DOMAIN s.rsv
  <2>1. IsFiniteSet(I)
    BY <1>1, TableTyped, FS_Subset
  <2>2. \A i \in I : take[i] \in Nat
    BY <1>3, <1>4
  <2>3. Weighs(take, I)
    BY <2>1, <2>2 DEF Weighs
  <2> QED
    BY <2>3, UnitsFinite
<1>8. L \in SUBSET DOMAIN s.rsv /\ LineRows(s, o, p, st) \in SUBSET DOMAIN s.rsv
  BY DEF LineRows, RowsOf
<1>9. Weighs(rest, L)
  <2>1. \A i \in L : rest[i] \in Nat
    BY <1>3, <1>4, <1>8
  <2>2. IsFiniteSet(L)
    BY <1>1, <1>8, TableTyped, FS_Subset
  <2> QED
    BY <2>1, <2>2 DEF Weighs
<1>10. Total(Qty(s), L) = Total(take, L) + Total(rest, L)
  <2>1. \A i \in L : Qty(s)[i] = take[i] + rest[i]
    BY <1>3, <1>4, <1>8 DEF Qty
  <2>2. Weighs(take, L)
    BY <1>7, <1>8
  <2> HIDE DEF L, rest
  <2> QED
    BY <1>9, <2>1, <2>2, TotalPlus
<1>11. Total(take, L) = IF x = o THEN Total(take, LineRows(s, o, p, st)) ELSE 0
  <2>1. CASE x = o
    BY <2>1
  <2>2. CASE x # o
    <3>1. \A i \in L \ {} : take[i] = 0
      BY <1>3, <1>8, <2>2 DEF LineRows, RowsOf, Live
    <3>2. {} \in SUBSET L
      OBVIOUS
    <3> HIDE DEF L
    <3>3. Total(take, L) = Total(take, {})
      BY <3>1, <3>2, TotalZeros
    <3> QED
      BY <2>2, <3>3, TotalEmpty
  <2> QED
    BY <2>1, <2>2
<1>12. Total(rest, L) = Total(rest, L \ whole)
  <2>1. \A i \in L \ (L \ whole) : rest[i] = 0
    BY <1>4, <1>8
  <2>2. (L \ whole) \in SUBSET L
    OBVIOUS
  <2> HIDE DEF L, rest, whole
  <2> QED
    BY <2>1, <2>2, TotalZeros
<1>13. LineRows(k, x, p, st) = L \ whole
  BY <1>5, <1>6 DEF LineRows, RowsOf
<1>14. Total(Qty(k), L \ whole) = Total(rest, L \ whole)
  <2>1. \A i \in L \ whole : Qty(k)[i] = rest[i]
    <3> TAKE i \in L \ whole
    <3>1. i \in DOMAIN s.rsv
      BY <1>8
    <3> QED
      BY <1>5, <1>6, <3>1 DEF Qty
  <2> HIDE DEF L, rest, whole
  <2> QED
    BY <2>1, TotalSame
<1>15. Units(t, x, st)[p] = Units(k, x, st)[p] /\ Units(k, x, st)[p] \in Nat
  <2>1. Units(t, x, st)[p] = Units(k, x, st)[p] + Total(Qty(t), NewLines(k, y, x, p, st))
    <3>1. k \in Books /\ t \in Books /\ t.rsv = k.rsv \o y /\ st \in ReservationStatus
      BY <1>1, <1>2, <1>6
    <3> HIDE DEF L, rest, whole
    <3> QED
      BY <3>1, AppendedUnits
  <2>2. NewLines(k, y, x, p, st) = {}
    <3>1. Len(y) \in Nat /\ DOMAIN y = 1 .. Len(y) /\ Len(k.rsv) \in Nat
      BY LenProperties, TableTyped
    <3>2. \A i \in (Len(k.rsv) + 1) .. (Len(k.rsv) + Len(y)) : i - Len(k.rsv) \in DOMAIN y
      BY <3>1
    <3> QED
      BY <1>5, <3>2 DEF NewLines
  <2>3. Units(k, x, st)[p] \in Nat
    BY UnitsTyped
  <2>4. Total(Qty(t), NewLines(k, y, x, p, st)) = 0
    BY <2>2, TotalEmpty
  <2> QED
    BY <2>1, <2>3, <2>4
<1>16. Units(k, x, st)[p] = Total(rest, L) /\ Units(s, x, st)[p] = Total(Qty(s), L)
  BY <1>12, <1>13, <1>14 DEF Units
<1>17. Total(take, L) \in Nat /\ Total(rest, L) \in Nat
  BY <1>7, <1>8, <1>9, UnitsFinite
<1> HIDE DEF L, rest
<1> QED
  BY <1>7, <1>8, <1>10, <1>11, <1>15, <1>16, <1>17

-----------------------------------------------------------------------------
(* Which rows a call may touch *)

(***************************************************************************)
(* From books s to books t no row goes, changes its order, or changes at   *)
(* all unless it is of order o.                                            *)
(***************************************************************************)
OnlyRowsOf(s, t, o) ==
  \A i \in DOMAIN s.rsv :
    /\ i \in DOMAIN t.rsv
    /\ t.rsv[i].order = s.rsv[i].order
    /\ t.rsv[i] # s.rsv[i] => s.rsv[i].order = o

(***************************************************************************)
(* One call after another touches the rows of the same order.              *)
(***************************************************************************)
LEMMA OnlyRowsChain ==
  ASSUME NEW s, NEW t, NEW u, NEW o, OnlyRowsOf(s, t, o), OnlyRowsOf(t, u, o)
  PROVE  OnlyRowsOf(s, u, o)
BY DEF OnlyRowsOf

(***************************************************************************)
(* Reserving, confirming, releasing and letting go in part touch only the  *)
(* rows of the order they are called for.                                  *)
(***************************************************************************)
LEMMA CallsTouchOneOrder ==
  ASSUME NEW s, Sound(s), NEW o \in OrderIds
  PROVE  /\ \A items \in Items : \A t \in Reserved(s, o, items, Locations, NoLocation) :
              OnlyRowsOf(s, t, o)
         /\ \A P \in SUBSET Products : OnlyRowsOf(s, confirmProductReservations(s, o, P), o)
         /\ OnlyRowsOf(s, confirmReservations(s, o), o)
         /\ \A final \in {"cancelled", "expired"} :
              OnlyRowsOf(s, releaseReservations(s, o, final), o)
         /\ \A drop \in [Products -> Nat] : OnlyRowsOf(s, releaseProductUnits(s, o, drop), o)
<1>1. s \in Books
  BY DEF Sound
<1>2. \A i \in Live(s, o) : s.rsv[i].order = o
  BY DEF Live, RowsOf
<1>3. \A items \in Items : \A t \in Reserved(s, o, items, Locations, NoLocation) :
        OnlyRowsOf(s, t, o)
  BY ReservedRows DEF OnlyRowsOf
<1>4. ASSUME NEW P \in SUBSET Products
      PROVE  OnlyRowsOf(s, confirmProductReservations(s, o, P), o)
  <2> DEFINE I == {i \in RowsOf(s, o, "reserved") : s.rsv[i].cell[2] \in P}
             t == confirmProductReservations(s, o, P)
  <2>1. t.rsv = WithStatus(s.rsv, I, "confirmed") /\ I \in SUBSET DOMAIN s.rsv
    BY <1>1 DEF confirmProductReservations, Confirm, Books, RowsOf
  <2>2. \A i \in I : s.rsv[i].order = o
    BY DEF RowsOf
  <2>3. \A i \in DOMAIN s.rsv : s.rsv[i] \in Reservation
    BY <1>1, TableTyped
  <2> HIDE DEF t, I
  <2>4. OnlyRowsOf(s, t, o)
    BY <2>1, <2>2, <2>3 DEF OnlyRowsOf, WithStatus, Reservation
  <2> QED
    BY <2>4 DEF t
<1>5. OnlyRowsOf(s, confirmReservations(s, o), o)
  BY <1>1, <1>4, ConfirmAll
<1>6. ASSUME NEW final \in {"cancelled", "expired"}
      PROVE  OnlyRowsOf(s, releaseReservations(s, o, final), o)
  <2> DEFINE t == releaseReservations(s, o, final)
  <2>1. /\ DOMAIN t.rsv = DOMAIN s.rsv
        /\ \A i \in DOMAIN s.rsv : /\ t.rsv[i].order = s.rsv[i].order
                                   /\ t.rsv[i] # s.rsv[i] => i \in Live(s, o)
    BY <1>1, LinesReleased
  <2> HIDE DEF t
  <2>2. OnlyRowsOf(s, t, o)
    BY <1>2, <2>1 DEF OnlyRowsOf
  <2> QED
    BY <2>2 DEF t
<1>7. ASSUME NEW drop \in [Products -> Nat]
      PROVE  OnlyRowsOf(s, releaseProductUnits(s, o, drop), o)
  <2> DEFINE t == releaseProductUnits(s, o, drop)
  <2>1. \A i \in DOMAIN s.rsv : /\ i \in DOMAIN t.rsv
                                /\ t.rsv[i].order = s.rsv[i].order
                                /\ t.rsv[i] # s.rsv[i] => i \in Live(s, o)
    BY LetGoKeepsRows
  <2> HIDE DEF t
  <2>2. OnlyRowsOf(s, t, o)
    BY <1>2, <2>1 DEF OnlyRowsOf
  <2> QED
    BY <2>2 DEF t
<1> QED
  BY <1>3, <1>4, <1>5, <1>6, <1>7

-----------------------------------------------------------------------------
(* Goods on the shelves of all storages *)

Column(p) == {c \in Cells : c[2] = p}

Shelf(s, p) == Total(s.quantity, Column(p))

(***************************************************************************)
(* The goods on the shelves of sound books can be counted.                 *)
(***************************************************************************)
LEMMA ShelfTyped ==
  ASSUME NEW s, Sound(s), NEW p
  PROVE  /\ IsFiniteSet(Column(p)) /\ s.quantity \in [Cells -> Nat]
         /\ s.reserved \in [Cells -> Nat] /\ \A c \in Cells : s.reserved[c] <= s.quantity[c]
         /\ Weighs(s.quantity, Column(p)) /\ Weighs(s.reserved, Column(p))
         /\ Shelf(s, p) \in Nat
<1>1. IsFiniteSet(Cells)
  BY FiniteAssumption, FS_Product DEF Cells
<1>2. IsFiniteSet(Column(p))
  BY <1>1, FS_Subset DEF Column
<1>3. /\ s.quantity \in [Cells -> Nat] /\ s.reserved \in [Cells -> Nat]
      /\ \A c \in Cells : s.reserved[c] <= s.quantity[c]
  BY DEF Sound, Books, NeverOversold
<1>4. Weighs(s.quantity, Column(p)) /\ Weighs(s.reserved, Column(p))
  BY <1>2, <1>3 DEF Weighs, Column
<1> QED
  BY <1>2, <1>3, <1>4, UnitsFinite DEF Shelf

(***************************************************************************)
(* What rows take per storage is what they take of each product.           *)
(***************************************************************************)
LEMMA PerColumn ==
  ASSUME NEW s \in Books, NEW I \in SUBSET DOMAIN s.rsv, NEW W, Weighs(W, I), NEW p
  PROVE  /\ Total(PerCell(s, W, I), Column(p)) = Total(W, {i \in I : s.rsv[i].cell[2] = p})
         /\ Weighs(PerCell(s, W, I), Column(p))
         /\ Total(W, {i \in I : s.rsv[i].cell[2] = p}) \in Nat
<1> DEFINE R == {i \in I : s.rsv[i].cell[2] = p}
           f == [i \in R |-> s.rsv[i].cell]
           V == PerCell(s, W, I)
<1>1. \A J \in SUBSET I : Weighs(W, J)
  BY FS_Subset DEF Weighs
<1>2. \A i \in I : s.rsv[i].cell \in Cells
  BY TableTyped DEF Reservation
<1>3. \A i \in R : f[i] \in Column(p)
  BY <1>2 DEF Column
<1>4. \A c \in Column(p) : V[c] = Total(W, Fibre(R, f, c))
  <2> TAKE c \in Column(p)
  <2>1. {i \in I : s.rsv[i].cell = c} = Fibre(R, f, c)
    BY DEF Column, Fibre
  <2> QED
    BY <2>1 DEF PerCell, Column
<1>5. Weighs(W, R)
  BY <1>1
<1>6. Weighs(V, Column(p))
  <2>1. \A c \in Column(p) : V[c] \in Nat
    <3> TAKE c \in Column(p)
    <3>1. Weighs(W, Fibre(R, f, c))
      BY <1>1 DEF Fibre
    <3> QED
      BY <1>4, <3>1, UnitsFinite
  <2>2. IsFiniteSet(Column(p))
    <3>1. IsFiniteSet(Cells)
      BY FiniteAssumption, FS_Product DEF Cells
    <3> QED
      BY <3>1, FS_Subset DEF Column
  <2> QED
    BY <2>1, <2>2 DEF Weighs
<1> HIDE DEF R, f, V
<1>7. Total(V, Column(p)) = Total(W, R)
  <2>1. Groups(V, Column(p), W, R, f)
    BY <1>3, <1>4 DEF Groups
  <2> QED
    BY <1>5, <2>1, TotalByGroup
<1> QED
  BY <1>5, <1>6, <1>7, UnitsFinite DEF R, V

(***************************************************************************)
(* The goods of order o are on the shelves or with the order, and the step *)
(* from s to t moves them between the two.                                 *)
(***************************************************************************)
GoodsKept(s, t, o) ==
  \A p \in Products :
    Shelf(t, p) + Units(t, o, "confirmed")[p] = Shelf(s, p) + Units(s, o, "confirmed")[p]

(***************************************************************************)
(* Calls that follow each other keep the goods.                            *)
(***************************************************************************)
LEMMA GoodsChain ==
  ASSUME NEW s, NEW t, NEW u, NEW o, GoodsKept(s, t, o), GoodsKept(t, u, o)
  PROVE  GoodsKept(s, u, o)
BY DEF GoodsKept

(***************************************************************************)
(* A hold moves nothing.                                                   *)
(***************************************************************************)
LEMMA HoldMovesNothing ==
  ASSUME NEW s, NEW o, NEW items, NEW places, NEW preferred,
         NEW t \in Reserved(s, o, items, places, preferred), s \in Books
  PROVE  t.quantity = s.quantity
<1>1. PICK a \in Allocations(s, items, places, preferred) :
        t \in {reserve(s, o, a, q) : q \in RowOrders(a)}
  BY DEF Reserved
<1>2. PICK q \in RowOrders(a) : t = reserve(s, o, a, q)
  BY <1>1
<1> QED
  BY <1>2 DEF reserve, Books

(***************************************************************************)
(* Confirming takes from the shelves what it adds to the order.            *)
(***************************************************************************)
LEMMA ConfirmKeepsGoods ==
  ASSUME NEW s, Sound(s), NEW o \in OrderIds, NEW P \in SUBSET Products
  PROVE  GoodsKept(s, confirmProductReservations(s, o, P), o)
<1> DEFINE I == {i \in RowsOf(s, o, "reserved") : s.rsv[i].cell[2] \in P}
           t == confirmProductReservations(s, o, P)
           n == PerCell(s, Qty(s), I)
<1>1. s \in Books /\ Sound(t) /\ t \in Books
  BY ConfirmReservationsSound DEF Sound
<1>2. I \in SUBSET DOMAIN s.rsv /\ t.quantity = Minus(s.quantity, n)
  BY <1>1 DEF confirmProductReservations, Confirm, Books, RowsOf
<1> SUFFICES ASSUME NEW p \in Products
             PROVE  Shelf(t, p) + Units(t, o, "confirmed")[p]
                      = Shelf(s, p) + Units(s, o, "confirmed")[p]
  BY DEF GoodsKept
<1>3. IF p \in P
      THEN Units(t, o, "confirmed")[p] = Units(s, o, "confirmed")[p] + Units(s, o, "reserved")[p]
      ELSE Units(t, o, "confirmed")[p] = Units(s, o, "confirmed")[p]
  BY <1>1, ConfirmUnits
<1> HIDE DEF t
<1>4. {i \in I : s.rsv[i].cell[2] = p}
        = IF p \in P THEN LineRows(s, o, p, "reserved") ELSE {}
  BY DEF LineRows, RowsOf
<1> HIDE DEF I
<1>5. /\ Total(n, Column(p)) = Total(Qty(s), {i \in I : s.rsv[i].cell[2] = p})
      /\ Weighs(n, Column(p))
  BY <1>1, <1>2, RowsWeigh, PerColumn
<1>6. Total(n, Column(p)) = IF p \in P THEN Units(s, o, "reserved")[p] ELSE 0
  BY <1>4, <1>5, TotalEmpty DEF Units
<1>7. Total(s.quantity, Column(p)) = Total(t.quantity, Column(p)) + Total(n, Column(p))
  <2>1. \A c \in Column(p) : s.quantity[c] = t.quantity[c] + n[c]
    <3> TAKE c \in Column(p)
    <3>1. c \in Cells /\ s.quantity[c] \in Nat
      BY ShelfTyped DEF Column
    <3>2. n[c] \in Nat
      BY <1>5, Zenon DEF Weighs
    <3>3. t.quantity[c] = s.quantity[c] - n[c]
      BY <1>2, <3>1 DEF Minus
    <3> HIDE DEF n
    <3> QED
      BY <3>1, <3>2, <3>3
  <2>2. Weighs(t.quantity, Column(p))
    BY <1>1, ShelfTyped
  <2> HIDE DEF n
  <2> QED
    BY <1>5, <2>1, <2>2, TotalPlus
<1>8. /\ Units(s, o, "confirmed")[p] \in Nat /\ Units(s, o, "reserved")[p] \in Nat
      /\ Shelf(t, p) \in Nat
  BY <1>1, UnitsTyped, ShelfTyped
<1> QED
  BY <1>3, <1>6, <1>7, <1>8 DEF Shelf

(***************************************************************************)
(* Units that leave an order by weights W on its taken rows, and go back   *)
(* to the shelves by the same weights, are kept.                           *)
(***************************************************************************)
LEMMA ReturnKeepsGoods ==
  ASSUME NEW s, Sound(s), NEW t, Sound(t), NEW o, NEW W,
         Weighs(W, RowsOf(s, o, "confirmed")),
         t.quantity = Plus(s.quantity, PerCell(s, W, RowsOf(s, o, "confirmed"))),
         \A p \in Products : Units(t, o, "confirmed")[p]
           = Units(s, o, "confirmed")[p] - Total(W, LineRows(s, o, p, "confirmed"))
  PROVE  GoodsKept(s, t, o)
<1> DEFINE I == RowsOf(s, o, "confirmed")
           n == PerCell(s, W, I)
<1>1. s \in Books /\ I \in SUBSET DOMAIN s.rsv
  BY DEF Sound, RowsOf
<1> SUFFICES ASSUME NEW p \in Products
             PROVE  Shelf(t, p) + Units(t, o, "confirmed")[p]
                      = Shelf(s, p) + Units(s, o, "confirmed")[p]
  BY DEF GoodsKept
<1>2. {i \in I : s.rsv[i].cell[2] = p} = LineRows(s, o, p, "confirmed")
  BY DEF LineRows
<1> HIDE DEF I
<1>3. /\ Total(n, Column(p)) = Total(W, LineRows(s, o, p, "confirmed"))
      /\ Weighs(n, Column(p)) /\ Total(W, LineRows(s, o, p, "confirmed")) \in Nat
  <2>1. Weighs(W, I)
    BY DEF I
  <2> QED
    BY <1>1, <1>2, <2>1, PerColumn
<1>4. Total(t.quantity, Column(p)) = Total(s.quantity, Column(p)) + Total(n, Column(p))
  <2>1. \A c \in Column(p) : t.quantity[c] = s.quantity[c] + n[c]
    BY DEF Plus, Column, I
  <2>2. Weighs(s.quantity, Column(p))
    BY ShelfTyped
  <2> HIDE DEF n
  <2> QED
    BY <1>3, <2>1, <2>2, TotalPlus
<1>5. Units(s, o, "confirmed")[p] \in Nat /\ Shelf(s, p) \in Nat
  BY <1>1, UnitsTyped, ShelfTyped
<1>6. PICK m \in Nat : m = Total(W, LineRows(s, o, p, "confirmed"))
  BY <1>3
<1>7. Shelf(t, p) = Shelf(s, p) + m /\ Units(t, o, "confirmed")[p] = Units(s, o, "confirmed")[p] - m
  BY <1>3, <1>4, <1>6 DEF Shelf
<1> QED
  BY <1>5, <1>6, <1>7

(***************************************************************************)
(* An order let go puts back what it had taken.                            *)
(***************************************************************************)
LEMMA ReleaseKeepsGoods ==
  ASSUME NEW s, Sound(s), NEW o \in OrderIds, NEW final \in {"cancelled", "expired"}
  PROVE  GoodsKept(s, releaseReservations(s, o, final), o)
<1> DEFINE H == RowsOf(s, o, "reserved")
           h == Release(s, H, final)
           C == RowsOf(h, o, "confirmed")
           t == releaseReservations(s, o, final)
<1>1. s \in Books /\ Sound(t) /\ H \in SUBSET DOMAIN s.rsv
  BY ReleaseReservationsSound DEF Sound, ReservationStatus, RowsOf
<1>2. h.rsv = WithStatus(s.rsv, H, final) /\ h.quantity = s.quantity
  BY <1>1 DEF Release, Books
<1>3. \A i \in DOMAIN s.rsv : s.rsv[i] \in Reservation
  BY <1>1, TableTyped
<1>4. /\ DOMAIN h.rsv = DOMAIN s.rsv
      /\ \A i \in DOMAIN s.rsv :
           /\ h.rsv[i].order = s.rsv[i].order /\ h.rsv[i].cell = s.rsv[i].cell
           /\ h.rsv[i].quantity = s.rsv[i].quantity
           /\ h.rsv[i].status = IF i \in H THEN final ELSE s.rsv[i].status
  <2> HIDE DEF h, H
  <2> QED
    BY <1>2, <1>3 DEF WithStatus, Reservation
<1>5. t.quantity = Plus(h.quantity, PerCell(h, Qty(h), C))
  <2>1. t = Restock(h, C, final)
    BY DEF releaseReservations
  <2>2. h = [quantity |-> h.quantity, reserved |-> h.reserved, rsv |-> h.rsv, ledger |-> h.ledger]
    <3>1. PICK r, v : h = [s EXCEPT !.reserved = r, !.rsv = v]
      BY Zenon DEF Release
    <3> HIDE DEF h
    <3> QED
      BY <1>1, <3>1 DEF Books
  <2> HIDE DEF h, t, C
  <2> QED
    BY <2>1, <2>2 DEF Restock
<1> HIDE DEF h, t
<1>6. C = RowsOf(s, o, "confirmed")
  BY <1>4 DEF RowsOf
<1>7. Qty(h) = Qty(s)
  BY <1>4 DEF Qty
<1>8. PerCell(h, Qty(h), C) = PerCell(s, Qty(s), C)
  <2>1. \A c : {i \in C : h.rsv[i].cell = c} = {i \in C : s.rsv[i].cell = c}
    BY <1>4 DEF RowsOf
  <2> HIDE DEF C
  <2> QED
    BY <1>7, <2>1 DEF PerCell
<1>9. t.quantity = Plus(s.quantity, PerCell(s, Qty(s), RowsOf(s, o, "confirmed")))
  BY <1>2, <1>5, <1>6, <1>8 DEF h
<1>10. Weighs(Qty(s), RowsOf(s, o, "confirmed"))
  BY <1>1, RowsWeigh DEF RowsOf
<1>11. \A p \in Products : Units(t, o, "confirmed")[p]
         = Units(s, o, "confirmed")[p] - Total(Qty(s), LineRows(s, o, p, "confirmed"))
  <2> TAKE p \in Products
  <2>1. Units(t, o, "confirmed")[p] = 0
    BY <1>1, ReleaseUnits DEF NoItems, t
  <2>2. /\ Units(s, o, "confirmed")[p] \in Nat
        /\ Units(s, o, "confirmed")[p] = Total(Qty(s), LineRows(s, o, p, "confirmed"))
    BY <1>1, UnitsTyped
  <2> QED
    BY <2>1, <2>2
<1>12. GoodsKept(s, t, o)
  BY <1>1, <1>9, <1>10, <1>11, ReturnKeepsGoods
<1> QED
  BY <1>12 DEF t

(***************************************************************************)
(* So does an order that lets go of part of its lines.                     *)
(***************************************************************************)
LEMMA LetGoKeepsGoods ==
  ASSUME NEW s, Sound(s), NEW o \in OrderIds, NEW drop \in [Products -> Nat]
  PROVE  GoodsKept(s, releaseProductUnits(s, o, drop), o)
<1> DEFINE t == releaseProductUnits(s, o, drop)
           take == Take(s, o, drop)
<1>1. s \in Books /\ Sound(t)
  BY ReleaseUnitsSound DEF Sound
<1>2. t.quantity = Plus(s.quantity, PerCell(s, take, RowsOf(s, o, "confirmed")))
  <2> HIDE DEF take
  <2> QED
    BY <1>1 DEF releaseProductUnits, Books, take
<1>3. Weighs(take, RowsOf(s, o, "confirmed"))
  <2>1. \A i \in DOMAIN s.rsv : take[i] \in 0 .. s.rsv[i].quantity
    BY <1>1, TakeBounded
  <2>2. \A i \in DOMAIN s.rsv : s.rsv[i].quantity \in Nat
    BY <1>1, TableTyped DEF Reservation
  <2>3. IsFiniteSet(RowsOf(s, o, "confirmed"))
    BY <1>1, TableTyped, FS_Subset DEF RowsOf
  <2> HIDE DEF take
  <2> QED
    BY <2>1, <2>2, <2>3 DEF Weighs, RowsOf
<1>4. \A p \in Products : Units(t, o, "confirmed")[p]
        = Units(s, o, "confirmed")[p] - Total(take, LineRows(s, o, p, "confirmed"))
  BY LetGoUnits
<1>5. GoodsKept(s, t, o)
  <2> HIDE DEF t, take
  <2> QED
    BY <1>1, <1>2, <1>3, <1>4, ReturnKeepsGoods
<1> QED
  BY <1>5 DEF t

(***************************************************************************)
(* What orders hold of a product, all together, is on its shelves.         *)
(***************************************************************************)
LEMMA HeldIsOnShelves ==
  ASSUME NEW s, Sound(s), NEW p \in Products, NEW P \in SUBSET OrderIds, NEW V,
         \A o \in P : V[o] = Units(s, o, "reserved")[p],
         \A o \in OrderIds \ P : Units(s, o, "reserved")[p] = 0
  PROVE  Total(V, P) <= Shelf(s, p)
<1> DEFINE R == {i \in DOMAIN s.rsv : s.rsv[i].status = "reserved" /\ s.rsv[i].cell[2] = p}
           byOrder == [i \in R |-> s.rsv[i].order]
           byCell  == [i \in R |-> s.rsv[i].cell]
           H == [o \in OrderIds |-> Units(s, o, "reserved")[p]]
<1>1. s \in Books /\ HoldsMatch(s)
  BY DEF Sound
<1>2. Weighs(Qty(s), R)
  BY <1>1, RowsWeigh
<1>3. \A i \in R : s.rsv[i].order \in OrderIds /\ s.rsv[i].cell \in Cells
  BY <1>1, TableTyped DEF Reservation
<1>4. Total(H, OrderIds) = Total(Qty(s), R)
  <2>1. \A i \in R : byOrder[i] \in OrderIds
    BY <1>3
  <2>2. \A o \in OrderIds : H[o] = Total(Qty(s), Fibre(R, byOrder, o))
    <3> TAKE o \in OrderIds
    <3>1. Fibre(R, byOrder, o) = LineRows(s, o, p, "reserved")
      BY DEF LineRows, RowsOf, Fibre
    <3> QED
      BY <3>1 DEF Units
  <2> HIDE DEF R, byOrder, H
  <2>3. Groups(H, OrderIds, Qty(s), R, byOrder)
    BY <2>1, <2>2 DEF Groups
  <2> QED
    BY <1>2, <2>3, TotalByGroup
<1>5. Total(s.reserved, Column(p)) = Total(Qty(s), R)
  <2>1. \A i \in R : byCell[i] \in Column(p)
    BY <1>3 DEF Column
  <2>2. \A c \in Column(p) : s.reserved[c] = Total(Qty(s), Fibre(R, byCell, c))
    <3> TAKE c \in Column(p)
    <3>1. Fibre(R, byCell, c) = RowsAt(s, c, "reserved")
      BY DEF RowsAt, Column, Fibre
    <3> QED
      BY <1>1, <3>1 DEF HoldsMatch, HeldAt, Column
  <2> HIDE DEF R, byCell
  <2>3. Groups(s.reserved, Column(p), Qty(s), R, byCell)
    BY <2>1, <2>2 DEF Groups
  <2> QED
    BY <1>2, <2>3, TotalByGroup
<1>6. Total(V, P) = Total(H, OrderIds)
  <2>1. Total(V, P) = Total(H, P)
    <3>1. \A o \in P : V[o] = H[o]
      OBVIOUS
    <3> HIDE DEF H
    <3> QED
      BY <3>1, TotalSame
  <2>2. Total(H, OrderIds) = Total(H, P)
    <3>1. \A o \in OrderIds \ P : H[o] = 0
      OBVIOUS
    <3> HIDE DEF H
    <3> QED
      BY <3>1, TotalZeros
  <2> QED
    BY <2>1, <2>2
<1>7. Total(s.reserved, Column(p)) <= Total(s.quantity, Column(p))
  <2>1. /\ Weighs(s.reserved, Column(p)) /\ Weighs(s.quantity, Column(p))
        /\ \A c \in Column(p) : s.reserved[c] <= s.quantity[c]
    BY ShelfTyped DEF Column
  <2> QED
    BY <2>1, TotalMonotone
<1> QED
  BY <1>4, <1>5, <1>6, <1>7 DEF Shelf
=============================================================================
