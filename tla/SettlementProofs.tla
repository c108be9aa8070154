-------------------------- MODULE SettlementProofs ---------------------------
(***************************************************************************)
(* Transactions on different orders, whatever rows they lock in whatever   *)
(* order, commit as one call of InventoryService each: for any number of   *)
(* transactions, storages, products and reservations.                      *)
(***************************************************************************)
EXTENDS Settlement, StockProofs

Todo(x) == {x.todo[k] : k \in DOMAIN x.todo}

Once(q) == \A j, k \in DOMAIN q : q[j] = q[k] => j = k

(* What a transaction x with job j has marked, and has yet to mark, of the  *)
(* rows of its order: nobody else touches them.                             *)
Planned(s, x, j) ==
  LET H == RowsOf(s, j.order, "reserved")
      C == RowsOf(s, j.order, "confirmed")
  IN  /\ x.stage \in {"ledger", "find"} => x.settled = {}
      /\ x.stage \in {"ledger", "find", "settle", "findTaken"} => x.returned = {}
      /\ x.stage = "ledger" => j.effect = "confirm"
      /\ x.stage \in {"find", "settle", "commit"} /\ j.effect = "confirm" => x.moves = H
      /\ x.stage = "settle" => /\ x.settled \cup Todo(x) = H /\ x.settled \cap Todo(x) = {}
                               /\ Once(x.todo)
      /\ x.stage \in {"findTaken", "restock", "commit"} => x.settled = H
      /\ x.stage \in {"findTaken", "restock"} => j.effect # "confirm"
      /\ x.stage = "restock" => /\ x.returned \cup Todo(x) = C /\ x.returned \cap Todo(x) = {}
                                /\ Once(x.todo) /\ x.moves = C
      /\ x.stage = "commit" /\ j.effect = "confirm" => x.returned = {}
      /\ x.stage = "commit" /\ j.effect # "confirm" =>
           x.returned = C /\ x.moves = C /\ (j.byUser \/ C = {})

Ended == {"done", "aborted"}

(* It owns the inventory rows of what it has marked, and no others. *)
Owns(s, L, t, x) ==
  \A c \in Cells :
    L[c] = t <=> x.stage \notin Ended /\ \E i \in x.settled \cup x.returned : s.rsv[i].cell = c

(* Its own values of these are the committed ones, less what it has marked. *)
Counts(s, L, t, x, j) ==
  \A c \in Cells : L[c] = t =>
    /\ x.quantity[c] = s.quantity[c] + PerCell(s, Qty(s), x.returned)[c]
                         - IF j.effect = "confirm" THEN PerCell(s, Qty(s), x.settled)[c] ELSE 0
    /\ x.reserved[c] = s.reserved[c] - PerCell(s, Qty(s), x.settled)[c]

TxOK(s, L, t, x, j) ==
  /\ x \in Tx
  /\ x.settled \subseteq DOMAIN s.rsv /\ x.returned \subseteq DOMAIN s.rsv
  /\ Planned(s, x, j)
  /\ Owns(s, L, t, x)
  /\ Counts(s, L, t, x, j)

StInv ==
  /\ Sound(stock)
  /\ job \in Jobs
  /\ lock \in [Cells -> Txs \cup {NoTx}]
  /\ tx \in [Txs -> Tx]
  /\ \A t \in Txs : TxOK(stock, lock, t, tx[t], job[t])

-----------------------------------------------------------------------------
(* Rows and their sums *)

(***************************************************************************)
(* A query answers every row once.                                         *)
(***************************************************************************)
LEMMA ListingRows ==
  ASSUME NEW S \in SUBSET Nat, IsFiniteSet(S), NEW q \in Listings(S)
  PROVE  q \in Seq(Nat) /\ Once(q) /\ {q[k] : k \in DOMAIN q} = S
<1>1. Cardinality(S) \in Nat
  BY FS_CardinalityType
<1>2. q \in [1 .. Cardinality(S) -> S]
  BY DEF Listings
<1>3. q \in [1 .. Cardinality(S) -> Nat]
  BY <1>2
<1>4. q \in Seq(Nat)
  BY <1>1, <1>3, SeqDef
<1>5. Once(q)
  BY DEF Listings, Once
<1>6. {q[k] : k \in DOMAIN q} = S
  <2>1. \A k \in DOMAIN q : q[k] \in S
    BY <1>2
  <2>2. \A x \in S : \E k \in DOMAIN q : q[k] = x
    BY DEF Listings
  <2> QED
    BY <2>1, <2>2
<1> QED
  BY <1>4, <1>5, <1>6

(***************************************************************************)
(* A list without repetitions is its head and the rest, which lacks it.    *)
(***************************************************************************)
LEMMA HeadAndRest ==
  ASSUME NEW q \in Seq(Nat), q # <<>>, Once(q)
  PROVE  /\ Tail(q) \in Seq(Nat) /\ Once(Tail(q))
         /\ {q[k] : k \in DOMAIN q} = {Head(q)} \cup {Tail(q)[k] : k \in DOMAIN Tail(q)}
         /\ Head(q) \notin {Tail(q)[k] : k \in DOMAIN Tail(q)}
<1>1. /\ Len(q) \in Nat /\ Len(q) > 0 /\ DOMAIN q = 1 .. Len(q) /\ Head(q) = q[1]
  BY LenProperties, EmptySeq, HeadTailProperties
<1>2. /\ Tail(q) \in Seq(Nat) /\ Len(Tail(q)) = Len(q) - 1
      /\ \A k \in 1 .. Len(Tail(q)) : Tail(q)[k] = q[k + 1]
  BY HeadTailProperties
<1>3. DOMAIN Tail(q) = 1 .. (Len(q) - 1)
  BY <1>2, LenProperties
<1>4. \A k \in 1 .. (Len(q) - 1) : Tail(q)[k] = q[k + 1] /\ k + 1 \in 1 .. Len(q)
  BY <1>1, <1>2
<1>5. Once(Tail(q))
  BY <1>1, <1>3, <1>4 DEF Once
<1>6. \A k \in 1 .. Len(q) : k = 1 \/ (k - 1 \in 1 .. (Len(q) - 1) /\ (k - 1) + 1 = k)
  BY <1>1
<1>7. {q[k] : k \in DOMAIN q} = {Head(q)} \cup {Tail(q)[k] : k \in DOMAIN Tail(q)}
  <2>1. \A k \in DOMAIN q : q[k] = Head(q) \/ \E m \in DOMAIN Tail(q) : q[k] = Tail(q)[m]
    BY <1>1, <1>3, <1>4, <1>6
  <2>2. \A m \in DOMAIN Tail(q) : \E k \in DOMAIN q : q[k] = Tail(q)[m]
    BY <1>1, <1>3, <1>4
  <2>3. \E k \in DOMAIN q : q[k] = Head(q)
    BY <1>1
  <2> QED
    BY <2>1, <2>2, <2>3
<1>8. Head(q) \notin {Tail(q)[k] : k \in DOMAIN Tail(q)}
  BY <1>1, <1>3, <1>4 DEF Once
<1> QED
  BY <1>2, <1>5, <1>7, <1>8

(***************************************************************************)
(* One more row adds its quantity at its inventory row.                    *)
(***************************************************************************)
LEMMA OneMoreRow ==
  ASSUME NEW s \in Books, NEW I \in SUBSET DOMAIN s.rsv, NEW i \in DOMAIN s.rsv \ I,
         NEW c \in Cells
  PROVE  /\ PerCell(s, Qty(s), I)[c] \in Nat
         /\ PerCell(s, Qty(s), I \cup {i})[c] = PerCell(s, Qty(s), I)[c]
              + IF s.rsv[i].cell = c THEN s.rsv[i].quantity ELSE 0
<1> DEFINE A == {k \in I : s.rsv[k].cell = c}
           B == {k \in I \cup {i} : s.rsv[k].cell = c}
<1>1. A \in SUBSET DOMAIN s.rsv /\ {i} \in SUBSET DOMAIN s.rsv
  OBVIOUS
<1>2. Weighs(Qty(s), A) /\ Total(Qty(s), A) \in Nat /\ Weighs(Qty(s), {i})
  <2> HIDE DEF A
  <2> QED
    BY <1>1, RowsWeigh
<1>3. Total(Qty(s), {i}) = s.rsv[i].quantity
  <2>1. Qty(s)[i] = s.rsv[i].quantity /\ Qty(s)[i] \in Nat
    BY <1>2 DEF Weighs, Qty
  <2> QED
    BY <2>1, TotalSingle
<1>4. CASE s.rsv[i].cell = c
  <2>1. B = A \cup {i} /\ A \cap {i} = {}
    BY <1>4
  <2>2. Total(Qty(s), B) = Total(Qty(s), A) + s.rsv[i].quantity
    <3> HIDE DEF A, B
    <3> QED
      BY <1>2, <1>3, <2>1, TotalUnion
  <2> QED
    BY <1>2, <1>4, <2>2 DEF PerCell
<1>5. CASE s.rsv[i].cell # c
  <2>1. B = A
    BY <1>5
  <2>2. PerCell(s, Qty(s), I)[c] = Total(Qty(s), A)
    BY DEF PerCell
  <2>3. PerCell(s, Qty(s), I \cup {i})[c] = Total(Qty(s), B)
    BY DEF PerCell
  <2> HIDE DEF A, B
  <2> QED
    BY <1>2, <1>5, <2>1, <2>2, <2>3
<1> QED
  BY <1>4, <1>5

(***************************************************************************)
(* Where none of the rows is, they sum up to nothing.                      *)
(***************************************************************************)
LEMMA NoRowThere ==
  ASSUME NEW s \in Books, NEW I \in SUBSET DOMAIN s.rsv, NEW c \in Cells,
         \A i \in I : s.rsv[i].cell # c
  PROVE  PerCell(s, Qty(s), I)[c] = 0
<1>1. {i \in I : s.rsv[i].cell = c} = {}
  OBVIOUS
<1> QED
  BY <1>1, TotalEmpty DEF PerCell

(***************************************************************************)
(* What a transaction sees of an inventory row, locked or not yet.         *)
(***************************************************************************)
LEMMA SeenCounters ==
  ASSUME NEW s \in Books, NEW L, NEW t, NEW x, NEW j, TxOK(s, L, t, x, j),
         x.stage \notin Ended, NEW c \in Cells
  PROVE  /\ PerCell(s, Qty(s), x.settled)[c] \in Nat
         /\ PerCell(s, Qty(s), x.returned)[c] \in Nat
         /\ s.quantity[c] \in Int /\ s.reserved[c] \in Int
         /\ (IF L[c] = t THEN x.quantity[c] ELSE s.quantity[c])
              = s.quantity[c] + PerCell(s, Qty(s), x.returned)[c]
                  - IF j.effect = "confirm" THEN PerCell(s, Qty(s), x.settled)[c] ELSE 0
         /\ (IF L[c] = t THEN x.reserved[c] ELSE s.reserved[c])
              = s.reserved[c] - PerCell(s, Qty(s), x.settled)[c]
<1>1. x.settled \in SUBSET DOMAIN s.rsv /\ x.returned \in SUBSET DOMAIN s.rsv
  BY DEF TxOK
<1>2. /\ PerCell(s, Qty(s), x.settled)[c] \in Nat
      /\ PerCell(s, Qty(s), x.returned)[c] \in Nat
      /\ s.quantity[c] \in Int /\ s.reserved[c] \in Int
  <2>1. PerCell(s, Qty(s), x.settled) \in [Cells -> Nat]
    BY <1>1, PerCellNat
  <2>2. PerCell(s, Qty(s), x.returned) \in [Cells -> Nat]
    BY <1>1, PerCellNat
  <2> QED
    BY <2>1, <2>2 DEF Books
<1>3. CASE L[c] = t
  BY <1>2, <1>3 DEF TxOK, Counts
<1>4. CASE L[c] # t
  <2>1. \A i \in x.settled \cup x.returned : s.rsv[i].cell # c
    BY <1>4 DEF TxOK, Owns
  <2>2. PerCell(s, Qty(s), x.settled)[c] = 0 /\ PerCell(s, Qty(s), x.returned)[c] = 0
    BY <1>1, <2>1, NoRowThere
  <2> QED
    BY <1>2, <1>4, <2>2
<1> QED
  BY <1>3, <1>4

-----------------------------------------------------------------------------
(* One transaction among others *)

(***************************************************************************)
(* A transaction is not disturbed by a change of the books that keeps the  *)
(* rows of its order and the counters it has locked, as a commit for       *)
(* another order does.                                                     *)
(***************************************************************************)
LEMMA OthersGoOn ==
  ASSUME NEW s \in Books, NEW z \in Books, NEW L, NEW K, NEW u, NEW x, NEW j,
         TxOK(s, L, u, x, j),
         \A c \in Cells : K[c] = u <=> L[c] = u,
         \A c \in Cells : L[c] = u => z.quantity[c] = s.quantity[c] /\ z.reserved[c] = s.reserved[c],
         DOMAIN z.rsv = DOMAIN s.rsv,
         \A i \in DOMAIN s.rsv : /\ z.rsv[i].cell = s.rsv[i].cell
                                 /\ z.rsv[i].quantity = s.rsv[i].quantity
                                 /\ z.rsv[i].order = s.rsv[i].order
                                 /\ s.rsv[i].order = j.order => z.rsv[i] = s.rsv[i]
  PROVE  TxOK(z, K, u, x, j)
<1>1. \A st : RowsOf(z, j.order, st) = RowsOf(s, j.order, st)
  BY DEF RowsOf
<1>2. Planned(z, x, j)
  BY <1>1 DEF TxOK, Planned
<1>3. Owns(z, K, u, x)
  BY DEF TxOK, Owns
<1>4. Qty(z) = Qty(s)
  BY DEF Qty
<1>5. ASSUME NEW I \in SUBSET DOMAIN s.rsv
      PROVE  PerCell(z, Qty(z), I) = PerCell(s, Qty(s), I)
  <2>1. \A c \in Cells : {i \in I : z.rsv[i].cell = c} = {i \in I : s.rsv[i].cell = c}
    OBVIOUS
  <2> QED
    BY <1>4, <2>1 DEF PerCell
<1>6. /\ PerCell(z, Qty(z), x.settled) = PerCell(s, Qty(s), x.settled)
      /\ PerCell(z, Qty(z), x.returned) = PerCell(s, Qty(s), x.returned)
  BY <1>5 DEF TxOK
<1>7. Counts(z, K, u, x, j)
  <2> SUFFICES ASSUME NEW c \in Cells, K[c] = u
               PROVE  /\ x.quantity[c] = z.quantity[c] + PerCell(z, Qty(z), x.returned)[c]
                           - IF j.effect = "confirm" THEN PerCell(z, Qty(z), x.settled)[c] ELSE 0
                      /\ x.reserved[c] = z.reserved[c] - PerCell(z, Qty(z), x.settled)[c]
    BY DEF Counts
  <2> QED
    BY <1>6 DEF TxOK, Counts
<1> QED
  BY <1>2, <1>3, <1>7 DEF TxOK

(***************************************************************************)
(* A transaction that moves to another stage and locks nothing.            *)
(***************************************************************************)
LEMMA StageMoves ==
  ASSUME NEW s \in Books, NEW L, NEW t, NEW x, NEW y, NEW j, TxOK(s, L, t, x, j),
         y \in Tx, x.stage \notin Ended, y.stage \notin Ended,
         y.settled = x.settled, y.returned = x.returned,
         y.quantity = x.quantity, y.reserved = x.reserved, Planned(s, y, j)
  PROVE  TxOK(s, L, t, y, j)
BY DEF TxOK, Owns, Counts

(***************************************************************************)
(* From x to y the transaction t marks row i, settled or returned to the   *)
(* shelf, and changes the counters of its inventory row.                   *)
(***************************************************************************)
RowDone(s, L, t, x, y, j, i) ==
  LET c  == s.rsv[i].cell
      n  == s.rsv[i].quantity
      qu == IF L[c] = t THEN x.quantity[c] ELSE s.quantity[c]
      re == IF L[c] = t THEN x.reserved[c] ELSE s.reserved[c]
  IN  /\ \A d \in Cells \ {c} : y.quantity[d] = x.quantity[d] /\ y.reserved[d] = x.reserved[d]
      /\ \/ /\ i \notin x.settled /\ y.settled = x.settled \cup {i} /\ y.returned = x.returned
            /\ y.quantity[c] = qu - IF j.effect = "confirm" THEN n ELSE 0
            /\ y.reserved[c] = re - n
         \/ /\ i \notin x.returned /\ y.settled = x.settled /\ y.returned = x.returned \cup {i}
            /\ y.quantity[c] = qu + n
            /\ y.reserved[c] = re

(***************************************************************************)
(* Then t owns that inventory row, and counts it right.                    *)
(***************************************************************************)
LEMMA RowMarked ==
  ASSUME NEW s \in Books, NEW L \in [Cells -> Txs \cup {NoTx}], NEW t \in Txs, NEW x, NEW y, NEW j,
         TxOK(s, L, t, x, j), y \in Tx, x.stage \notin Ended, y.stage = x.stage,
         NEW i \in DOMAIN s.rsv, Planned(s, y, j), RowDone(s, L, t, x, y, j, i)
  PROVE  TxOK(s, [L EXCEPT ![s.rsv[i].cell] = t], t, y, j)
<1>1. PICK c, n : c = s.rsv[i].cell /\ n = s.rsv[i].quantity
  OBVIOUS
<1>2. c \in Cells /\ n \in Nat
  <2>1. s.rsv[i] \in Reservation
    BY TableTyped
  <2> QED
    BY <1>1, <2>1 DEF Reservation
<1>3. PICK qu, re : /\ qu = (IF L[c] = t THEN x.quantity[c] ELSE s.quantity[c])
                    /\ re = (IF L[c] = t THEN x.reserved[c] ELSE s.reserved[c])
  OBVIOUS
<1>4. PICK K : K = [L EXCEPT ![c] = t]
  OBVIOUS
<1>5. /\ \A d \in Cells \ {c} : y.quantity[d] = x.quantity[d] /\ y.reserved[d] = x.reserved[d]
      /\ \/ /\ i \notin x.settled /\ y.settled = x.settled \cup {i} /\ y.returned = x.returned
            /\ y.quantity[c] = qu - (IF j.effect = "confirm" THEN n ELSE 0)
            /\ y.reserved[c] = re - n
         \/ /\ i \notin x.returned /\ y.settled = x.settled /\ y.returned = x.returned \cup {i}
            /\ y.quantity[c] = qu + n
            /\ y.reserved[c] = re
  BY <1>1, <1>3 DEF RowDone
<1> DEFINE S(d) == PerCell(s, Qty(s), x.settled)[d]
           R(d) == PerCell(s, Qty(s), x.returned)[d]
           S1(d) == PerCell(s, Qty(s), y.settled)[d]
           R1(d) == PerCell(s, Qty(s), y.returned)[d]
<1>6. \A d \in Cells : K[d] = IF d = c THEN t ELSE L[d]
  BY <1>2, <1>4
<1>7. /\ x.settled \in SUBSET DOMAIN s.rsv /\ x.returned \in SUBSET DOMAIN s.rsv
      /\ y.settled \in SUBSET DOMAIN s.rsv /\ y.returned \in SUBSET DOMAIN s.rsv
  BY <1>5 DEF TxOK
<1>8. Owns(s, K, t, y)
  BY <1>6, <1>1, <1>5 DEF TxOK, Owns
<1>9. ASSUME NEW d \in Cells
      PROVE  /\ S(d) \in Nat /\ R(d) \in Nat /\ s.quantity[d] \in Int /\ s.reserved[d] \in Int
             /\ (IF L[d] = t THEN x.quantity[d] ELSE s.quantity[d])
                  = s.quantity[d] + R(d) - IF j.effect = "confirm" THEN S(d) ELSE 0
             /\ (IF L[d] = t THEN x.reserved[d] ELSE s.reserved[d]) = s.reserved[d] - S(d)
  BY SeenCounters
<1>10. ASSUME NEW d \in Cells
      PROVE  \/ /\ y.settled = x.settled \cup {i} /\ i \notin x.settled
                /\ S1(d) = S(d) + (IF d = c THEN n ELSE 0) /\ R1(d) = R(d)
             \/ /\ y.returned = x.returned \cup {i} /\ i \notin x.returned
                /\ S1(d) = S(d) /\ R1(d) = R(d) + (IF d = c THEN n ELSE 0)
  <2>1. i \notin x.settled =>
          PerCell(s, Qty(s), x.settled \cup {i})[d] = S(d) + IF s.rsv[i].cell = d THEN s.rsv[i].quantity ELSE 0
    BY <1>7, OneMoreRow
  <2>2. i \notin x.returned =>
          PerCell(s, Qty(s), x.returned \cup {i})[d] = R(d) + IF s.rsv[i].cell = d THEN s.rsv[i].quantity ELSE 0
    BY <1>7, OneMoreRow
  <2> QED
    BY <1>1, <1>5, <2>1, <2>2
<1> HIDE DEF S, R, S1, R1
<1>11. ASSUME NEW d \in Cells, K[d] = t
      PROVE  /\ y.quantity[d] = s.quantity[d] + R1(d) - IF j.effect = "confirm" THEN S1(d) ELSE 0
             /\ y.reserved[d] = s.reserved[d] - S1(d)
  <2>1. CASE d = c
    <3>1. CASE i \notin x.settled /\ y.settled = x.settled \cup {i} /\ y.returned = x.returned
      BY <1>2, <1>3, <1>5, <1>9, <1>10, <2>1, <3>1
    <3>2. CASE i \notin x.returned /\ y.settled = x.settled /\ y.returned = x.returned \cup {i}
      <4>1. S1(d) = S(d) /\ R1(d) = R(d) + n
        <5>1. i \notin x.settled => y.settled # x.settled \cup {i}
          BY <3>2
        <5> QED
          BY <1>10, <2>1, <3>2, <5>1
      <4>2. y.quantity[c] = qu + n /\ y.reserved[c] = re
        BY <1>5, <3>2
      <4> QED
        BY <1>2, <1>3, <1>9, <2>1, <4>1, <4>2
    <3> QED
      BY <1>5, <3>1, <3>2
  <2>2. CASE d # c
    <3>1. L[d] = t /\ d \in Cells \ {c}
      BY <1>6, <1>11, <2>2
    <3> QED
      BY <1>5, <1>9, <1>10, <2>2, <3>1
  <2> QED
    BY <2>1, <2>2
<1>12. Counts(s, K, t, y, j)
  BY <1>11 DEF Counts, S1, R1
<1> QED
  BY <1>1, <1>4, <1>7, <1>8, <1>12 DEF TxOK

-----------------------------------------------------------------------------
(* The commit is one call *)

(***************************************************************************)
(* The fields of the books after a confirmation.                           *)
(***************************************************************************)
LEMMA ConfirmIs ==
  ASSUME NEW s \in Books, NEW H
  PROVE  Confirm(s, H) =
           [quantity |-> Minus(s.quantity, PerCell(s, Qty(s), H)),
            reserved |-> Minus(s.reserved, PerCell(s, Qty(s), H)),
            rsv      |-> WithStatus(s.rsv, H, "confirmed"),
            ledger   |-> Minus(s.ledger, PerCell(s, Qty(s), H))]
<1>1. s = [quantity |-> s.quantity, reserved |-> s.reserved, rsv |-> s.rsv, ledger |-> s.ledger]
  BY DEF Books
<1>2. PICK n : n = PerCell(s, Qty(s), H)
  OBVIOUS
<1>3. Confirm(s, H) = [s EXCEPT !.quantity = Minus(s.quantity, n), !.reserved = Minus(s.reserved, n),
                                !.ledger = Minus(s.ledger, n),
                                !.rsv = WithStatus(s.rsv, H, "confirmed")]
  BY <1>1, <1>2 DEF Confirm
<1> QED
  BY <1>1, <1>2, <1>3

(***************************************************************************)
(* releaseReservations in one go: holds are dropped, what was taken goes   *)
(* back, and both are closed.                                              *)
(***************************************************************************)
LEMMA ReleaseIs ==
  ASSUME NEW s \in Books, NEW o, NEW final \in {"cancelled", "expired"},
         NEW H, H = RowsOf(s, o, "reserved"), NEW C, C = RowsOf(s, o, "confirmed")
  PROVE  releaseReservations(s, o, final) =
           [quantity |-> Plus(s.quantity, PerCell(s, Qty(s), C)),
            reserved |-> Minus(s.reserved, PerCell(s, Qty(s), H)),
            rsv      |-> WithStatus(s.rsv, H \cup C, final),
            ledger   |-> Plus(s.ledger, PerCell(s, Qty(s), C))]
<1>1. H \in SUBSET DOMAIN s.rsv /\ C \in SUBSET DOMAIN s.rsv /\ final \in ReservationStatus
  BY DEF RowsOf, ReservationStatus
<1>2. PICK h : h = Release(s, H, final)
  OBVIOUS
<1>3. h = [quantity |-> s.quantity, reserved |-> Minus(s.reserved, PerCell(s, Qty(s), H)),
           rsv |-> WithStatus(s.rsv, H, final), ledger |-> s.ledger]
  BY <1>2 DEF Release, Books
<1>4. DOMAIN h.rsv = DOMAIN s.rsv /\ \A i \in DOMAIN s.rsv :
        /\ h.rsv[i].cell = s.rsv[i].cell /\ h.rsv[i].order = s.rsv[i].order
        /\ h.rsv[i].quantity = s.rsv[i].quantity
        /\ h.rsv[i].status = IF i \in H THEN final ELSE s.rsv[i].status
  <2>1. h.rsv = WithStatus(s.rsv, H, final)
    BY <1>3
  <2>2. DOMAIN h.rsv = DOMAIN s.rsv /\ \A i \in DOMAIN s.rsv :
          h.rsv[i] = IF i \in H THEN [s.rsv[i] EXCEPT !.status = final] ELSE s.rsv[i]
    BY <2>1 DEF WithStatus
  <2>3. \A i \in DOMAIN s.rsv : s.rsv[i] \in Reservation
    BY TableTyped
  <2> QED
    BY <2>2, <2>3 DEF Reservation
<1>5. RowsOf(h, o, "confirmed") = C
  BY <1>4 DEF RowsOf
<1>6. PerCell(h, Qty(h), C) = PerCell(s, Qty(s), C)
  <2>1. Qty(h) = Qty(s)
    BY <1>4 DEF Qty
  <2>2. \A c \in Cells : {i \in C : h.rsv[i].cell = c} = {i \in C : s.rsv[i].cell = c}
    BY <1>1, <1>4
  <2> QED
    BY <2>1, <2>2 DEF PerCell
<1>7. WithStatus(h.rsv, C, final) = WithStatus(s.rsv, H \cup C, final)
  <2>1. h.rsv = WithStatus(s.rsv, H, final)
    BY <1>3
  <2>2. \A i \in DOMAIN s.rsv : i \in C => i \notin H
    BY DEF RowsOf
  <2>3. \A i \in DOMAIN s.rsv : i \in C => h.rsv[i] = s.rsv[i]
    BY <2>1, <2>2 DEF WithStatus
  <2>4. \A i \in DOMAIN s.rsv : i \notin C =>
          h.rsv[i] = IF i \in H THEN [s.rsv[i] EXCEPT !.status = final] ELSE s.rsv[i]
    BY <2>1 DEF WithStatus
  <2>5. \A i \in DOMAIN s.rsv : WithStatus(h.rsv, C, final)[i] = WithStatus(s.rsv, H \cup C, final)[i]
    BY <1>4, <2>3, <2>4 DEF WithStatus
  <2> QED
    BY <1>4, <2>5 DEF WithStatus
<1>8. releaseReservations(s, o, final) = Restock(h, C, final)
  BY <1>2, <1>5 DEF releaseReservations
<1>9. PICK n, m, y, z : /\ n = PerCell(s, Qty(s), C) /\ m = PerCell(s, Qty(s), H)
                        /\ y = WithStatus(s.rsv, H, final) /\ z = WithStatus(s.rsv, H \cup C, final)
  OBVIOUS
<1>10. releaseReservations(s, o, final)
         = [h EXCEPT !.quantity = Plus(h.quantity, n), !.ledger = Plus(h.ledger, n), !.rsv = z]
  BY <1>6, <1>7, <1>8, <1>9 DEF Restock
<1>11. h = [quantity |-> s.quantity, reserved |-> Minus(s.reserved, m), rsv |-> y,
            ledger |-> s.ledger]
  BY <1>3, <1>9
<1> QED
  BY <1>9, <1>10, <1>11

(***************************************************************************)
(* The books a transaction commits are those of one call on the books it   *)
(* finds, even if others committed after its first read.                   *)
(***************************************************************************)
LEMMA CommitIsCall ==
  ASSUME StInv, NEW t \in Txs, Commit(t), NEW o, o = job[t].order
  PROVE  /\ job[t].effect = "confirm" => stock' = confirmReservations(stock, o)
         /\ job[t].effect # "confirm" =>
              /\ FinalStatus(job[t].effect) \in {"cancelled", "expired"}
              /\ CanRelease(stock, o, job[t].byUser)
              /\ stock' = releaseReservations(stock, o, FinalStatus(job[t].effect))
<1> DEFINE x == tx[t]
           e == job[t].effect
           H == RowsOf(stock, o, "reserved")
           C == RowsOf(stock, o, "confirmed")
           mine == {c \in Cells : lock[c] = t}
           Q == [c \in Cells |-> IF c \in mine THEN x.quantity[c] ELSE stock.quantity[c]]
           V == [c \in Cells |-> IF c \in mine THEN x.reserved[c] ELSE stock.reserved[c]]
<1>1. /\ stock \in Books /\ TxOK(stock, lock, t, x, job[t]) /\ Planned(stock, x, job[t])
      /\ x.stage = "commit" /\ x.stage \notin Ended
  BY DEF StInv, Sound, Commit, Ended, TxOK
<1>2. stock' = [quantity |-> Q, reserved |-> V,
                rsv      |-> WithStatus(stock.rsv, x.settled \cup x.returned, FinalStatus(e)),
                ledger   |-> IF e = "confirm"
                             THEN Minus(stock.ledger, PerCell(stock, Qty(stock), x.moves))
                             ELSE Plus(stock.ledger, PerCell(stock, Qty(stock), x.moves))]
  BY DEF Commit
<1>3. ASSUME NEW c \in Cells
      PROVE  /\ PerCell(stock, Qty(stock), x.settled)[c] \in Nat
             /\ PerCell(stock, Qty(stock), x.returned)[c] \in Nat
             /\ stock.quantity[c] \in Int /\ stock.reserved[c] \in Int
             /\ Q[c] = stock.quantity[c] + PerCell(stock, Qty(stock), x.returned)[c]
                         - IF e = "confirm" THEN PerCell(stock, Qty(stock), x.settled)[c] ELSE 0
             /\ V[c] = stock.reserved[c] - PerCell(stock, Qty(stock), x.settled)[c]
  <2>1. /\ PerCell(stock, Qty(stock), x.settled)[c] \in Nat
        /\ PerCell(stock, Qty(stock), x.returned)[c] \in Nat
        /\ stock.quantity[c] \in Int /\ stock.reserved[c] \in Int
        /\ (IF lock[c] = t THEN x.quantity[c] ELSE stock.quantity[c])
             = stock.quantity[c] + PerCell(stock, Qty(stock), x.returned)[c]
                 - IF e = "confirm" THEN PerCell(stock, Qty(stock), x.settled)[c] ELSE 0
        /\ (IF lock[c] = t THEN x.reserved[c] ELSE stock.reserved[c])
             = stock.reserved[c] - PerCell(stock, Qty(stock), x.settled)[c]
    BY <1>1, SeenCounters
  <2>2. /\ Q[c] = IF lock[c] = t THEN x.quantity[c] ELSE stock.quantity[c]
        /\ V[c] = IF lock[c] = t THEN x.reserved[c] ELSE stock.reserved[c]
    OBVIOUS
  <2> QED
    BY <2>1, <2>2
<1>4. V = Minus(stock.reserved, PerCell(stock, Qty(stock), x.settled))
  BY <1>3 DEF Minus
<1>5. CASE e = "confirm"
  <2>1. x.settled = H /\ x.returned = {} /\ x.moves = H
    BY <1>1, <1>5 DEF Planned
  <2>2. Q = Minus(stock.quantity, PerCell(stock, Qty(stock), H))
    <3>1. \A c \in Cells : PerCell(stock, Qty(stock), {})[c] = 0
      BY TotalEmpty DEF PerCell
    <3>2. \A c \in Cells : Q[c] = stock.quantity[c] - PerCell(stock, Qty(stock), H)[c]
      BY <1>3, <1>5, <2>1, <3>1
    <3> QED
      BY <3>2 DEF Minus
  <2> HIDE DEF Q, V, H
  <2>3. stock' = [quantity |-> Minus(stock.quantity, PerCell(stock, Qty(stock), H)),
                  reserved |-> Minus(stock.reserved, PerCell(stock, Qty(stock), H)),
                  rsv |-> WithStatus(stock.rsv, H, "confirmed"),
                  ledger |-> Minus(stock.ledger, PerCell(stock, Qty(stock), H))]
    <3>1. FinalStatus(e) = "confirmed"
      BY <1>5 DEF FinalStatus
    <3>2. x.settled \cup x.returned = H
      BY <2>1
    <3> QED
      BY <1>2, <1>4, <1>5, <2>1, <2>2, <3>1, <3>2
  <2>4. stock' = Confirm(stock, H)
    BY <1>1, <2>3, ConfirmIs
  <2> QED
    BY <1>5, <2>4 DEF confirmReservations, H
<1>6. CASE e # "confirm"
  <2>1. x.settled = H /\ x.returned = C /\ x.moves = C /\ (job[t].byUser \/ C = {})
    BY <1>1, <1>6 DEF Planned
  <2>2. FinalStatus(e) \in {"cancelled", "expired"}
    <3>1. e \in Effects
      BY JobsAssumption DEF StInv, Job
    <3> QED
      BY <1>6, <3>1 DEF Effects, FinalStatus
  <2>3. Q = Plus(stock.quantity, PerCell(stock, Qty(stock), C))
    <3>1. \A c \in Cells : Q[c] = stock.quantity[c] + PerCell(stock, Qty(stock), C)[c]
      BY <1>3, <1>6, <2>1
    <3> QED
      BY <3>1 DEF Plus
  <2>4. CanRelease(stock, o, job[t].byUser)
    BY <2>1 DEF CanRelease
  <2> HIDE DEF Q, V, H, C
  <2>5. stock' = [quantity |-> Plus(stock.quantity, PerCell(stock, Qty(stock), C)),
                  reserved |-> Minus(stock.reserved, PerCell(stock, Qty(stock), H)),
                  rsv |-> WithStatus(stock.rsv, H \cup C, FinalStatus(e)),
                  ledger |-> Plus(stock.ledger, PerCell(stock, Qty(stock), C))]
    BY <1>2, <1>4, <1>6, <2>1, <2>3
  <2>6. stock' = releaseReservations(stock, o, FinalStatus(e))
    <3>1. H = RowsOf(stock, o, "reserved") /\ C = RowsOf(stock, o, "confirmed")
      BY DEF H, C
    <3> QED
      BY <1>1, <2>2, <2>5, <3>1, ReleaseIs
  <2> QED
    BY <1>6, <2>2, <2>4, <2>6
<1> QED
  BY <1>5, <1>6

-----------------------------------------------------------------------------
(* Steps *)

(***************************************************************************)
(* A statement of one transaction leaves the others as they were.          *)
(***************************************************************************)
LEMMA StatementKeeps ==
  ASSUME StInv, NEW t \in Txs, stock' = stock, job' = job,
         lock' \in [Cells -> Txs \cup {NoTx}],
         \A u \in Txs \ {t} : tx'[u] = tx[u] /\ \A c \in Cells : lock'[c] = u <=> lock[c] = u,
         tx' = [u \in Txs |-> tx'[u]],
         TxOK(stock, lock', t, tx'[t], job[t])
  PROVE  StInv'
<1>1. ASSUME NEW u \in Txs
      PROVE  TxOK(stock, lock', u, tx'[u], job[u]) /\ tx'[u] \in Tx
  <2>1. CASE u = t
    BY <2>1 DEF TxOK
  <2>2. CASE u # t
    <3>1. TxOK(stock, lock, u, tx[u], job[u]) /\ stock \in Books
      BY DEF StInv, Sound
    <3>2. TxOK(stock, lock', u, tx[u], job[u])
      BY <2>2, <3>1, OthersGoOn
    <3> QED
      BY <2>2, <3>2 DEF TxOK
  <2> QED
    BY <2>1, <2>2
<1>2. tx' \in [Txs -> Tx]
  BY <1>1
<1> QED
  BY <1>1, <1>2 DEF StInv

(***************************************************************************)
(* The queries: what is to be recorded, what is held, what was taken.      *)
(***************************************************************************)
LEMMA QueriesKeep ==
  ASSUME StInv, NEW t \in Txs, FindMoves(t) \/ FindReserved(t) \/ FindTaken(t)
  PROVE  StInv'
<1> DEFINE x == tx[t]
           H == RowsOf(stock, job[t].order, "reserved")
           C == RowsOf(stock, job[t].order, "confirmed")
<1>1. /\ stock \in Books /\ TxOK(stock, lock, t, x, job[t]) /\ Planned(stock, x, job[t])
      /\ x \in Tx /\ tx \in [Txs -> Tx] /\ lock \in [Cells -> Txs \cup {NoTx}]
  BY DEF StInv, Sound, TxOK
<1>2. H \in SUBSET Nat /\ IsFiniteSet(H) /\ C \in SUBSET Nat /\ IsFiniteSet(C)
  <2>1. IsFiniteSet(DOMAIN stock.rsv) /\ DOMAIN stock.rsv \subseteq Nat
    BY <1>1, TableTyped
  <2>2. H \in SUBSET DOMAIN stock.rsv /\ C \in SUBSET DOMAIN stock.rsv
    BY DEF RowsOf
  <2> HIDE DEF H, C
  <2> QED
    BY <2>1, <2>2, FS_Subset
<1>3. stock' = stock /\ job' = job /\ lock' = lock
  BY DEF FindMoves, FindReserved, FindTaken
<1>4. ASSUME NEW y \in Tx, tx' = [tx EXCEPT ![t] = y],
             x.stage \notin Ended, y.stage \notin Ended,
             y.settled = x.settled, y.returned = x.returned,
             y.quantity = x.quantity, y.reserved = x.reserved, Planned(stock, y, job[t])
      PROVE  StInv'
  <2>1. TxOK(stock, lock, t, y, job[t])
    BY <1>1, <1>4, StageMoves
  <2>2. tx'[t] = y /\ tx' = [u \in Txs |-> tx'[u]] /\ \A u \in Txs \ {t} : tx'[u] = tx[u]
    BY <1>1, <1>4
  <2> QED
    BY <1>1, <1>3, <2>1, <2>2, StatementKeeps
<1> HIDE DEF H, C
<1>5. CASE FindMoves(t)
  <2>1. PICK y : y = [x EXCEPT !.moves = H, !.stage = "find"]
    OBVIOUS
  <2>2. tx' = [tx EXCEPT ![t] = y]
    BY <1>1, <1>5, <2>1 DEF FindMoves, H
  <2>3. /\ y \in Tx /\ y.stage = "find" /\ y.moves = H /\ y.settled = x.settled
        /\ y.returned = x.returned /\ y.quantity = x.quantity /\ y.reserved = x.reserved
    BY <1>1, <1>2, <2>1 DEF Tx, Stage
  <2>4. x.stage = "ledger"
    BY <1>5 DEF FindMoves
  <2>5. Planned(stock, y, job[t])
    BY <1>1, <2>3, <2>4 DEF Planned, H
  <2> QED
    BY <1>4, <2>2, <2>3, <2>4, <2>5 DEF Ended
<1>6. CASE FindReserved(t)
  <2>1. PICK q \in Listings(H) : tx' = [tx EXCEPT ![t].todo = q, ![t].stage = "settle"]
    BY <1>6 DEF FindReserved, H
  <2>2. q \in Seq(Nat) /\ Once(q) /\ {q[k] : k \in DOMAIN q} = H
    BY <1>2, ListingRows
  <2>3. PICK y : y = [x EXCEPT !.todo = q, !.stage = "settle"]
    OBVIOUS
  <2>4. tx' = [tx EXCEPT ![t] = y]
    BY <1>1, <2>1, <2>3
  <2>5. /\ y \in Tx /\ y.stage = "settle" /\ y.moves = x.moves /\ y.settled = x.settled
        /\ y.returned = x.returned /\ y.quantity = x.quantity /\ y.reserved = x.reserved
        /\ y.todo = q
    BY <1>1, <2>2, <2>3 DEF Tx, Stage
  <2>6. x.stage = "find"
    BY <1>6 DEF FindReserved
  <2>7. Planned(stock, y, job[t])
    <3>1. Todo(y) = H
      BY <2>2, <2>5 DEF Todo
    <3> QED
      BY <1>1, <2>2, <2>5, <2>6, <3>1 DEF Planned, H
  <2> QED
    BY <1>4, <2>4, <2>5, <2>6, <2>7 DEF Ended
<1>7. CASE FindTaken(t)
  <2>1. x.stage = "findTaken" /\ x.settled = H
    BY <1>1, <1>7 DEF FindTaken, Planned, H
  <2>2. C \ x.settled = C
    BY <2>1 DEF RowsOf, H, C
  <2>3. PICK q \in Listings(C) :
          tx' = [tx EXCEPT ![t].todo = q, ![t].moves = C, ![t].stage = "restock"]
    BY <1>7, <2>2 DEF FindTaken, C
  <2>4. q \in Seq(Nat) /\ Once(q) /\ {q[k] : k \in DOMAIN q} = C
    BY <1>2, ListingRows
  <2>5. PICK y : y = [x EXCEPT !.todo = q, !.moves = C, !.stage = "restock"]
    OBVIOUS
  <2>6. tx' = [tx EXCEPT ![t] = y]
    BY <1>1, <2>3, <2>5
  <2>7. /\ y \in Tx /\ y.stage = "restock" /\ y.moves = C /\ y.settled = x.settled
        /\ y.returned = x.returned /\ y.quantity = x.quantity /\ y.reserved = x.reserved
        /\ y.todo = q
    BY <1>1, <1>2, <2>4, <2>5 DEF Tx, Stage
  <2>8. Planned(stock, y, job[t])
    <3>1. Todo(y) = C
      BY <2>4, <2>7 DEF Todo
    <3> QED
      BY <1>1, <2>1, <2>4, <2>7, <3>1 DEF Planned, H, C
  <2> QED
    BY <1>4, <2>1, <2>6, <2>7, <2>8 DEF Ended
<1> QED
  BY <1>5, <1>6, <1>7

(***************************************************************************)
(* The loops end: on to the confirmed rows, or to the commit.              *)
(***************************************************************************)
LEMMA LoopsEnd ==
  ASSUME StInv, NEW t \in Txs, NEW to,
         tx[t].todo = <<>>, tx' = [tx EXCEPT ![t].stage = to],
         stock' = stock, job' = job, lock' = lock,
         \/ /\ tx[t].stage = "settle"
            /\ to = IF job[t].effect = "confirm" THEN "commit" ELSE "findTaken"
         \/ /\ tx[t].stage = "restock" /\ to = "commit"
            /\ tx[t].moves = {} \/ job[t].byUser
  PROVE  StInv'
<1> DEFINE x == tx[t]
<1>1. /\ stock \in Books /\ TxOK(stock, lock, t, x, job[t]) /\ Planned(stock, x, job[t])
      /\ x \in Tx /\ tx \in [Txs -> Tx] /\ lock \in [Cells -> Txs \cup {NoTx}]
  BY DEF StInv, Sound, TxOK
<1>2. PICK y : y = [x EXCEPT !.stage = to]
  OBVIOUS
<1>3. /\ y \in Tx /\ y.stage = to /\ y.moves = x.moves /\ y.settled = x.settled
      /\ y.returned = x.returned /\ y.quantity = x.quantity /\ y.reserved = x.reserved
      /\ y.todo = x.todo
  BY <1>1, <1>2 DEF Tx, Stage
<1>4. /\ tx'[t] = y /\ tx' = [u \in Txs |-> tx'[u]]
      /\ \A u \in Txs \ {t} : tx'[u] = tx[u]
  BY <1>1, <1>2
<1>5. Todo(x) = {}
  BY DEF Todo
<1>6. Planned(stock, y, job[t])
  BY <1>1, <1>3, <1>5 DEF Planned
<1>7. TxOK(stock, lock, t, y, job[t])
  BY <1>1, <1>3, <1>6, StageMoves DEF Ended
<1> QED
  BY <1>1, <1>4, <1>7, StatementKeeps

(***************************************************************************)
(* A transaction with other values in some of its fields.                  *)
(***************************************************************************)
Changed(x, f, g, S, R, q) ==
  [x EXCEPT !.quantity = f, !.reserved = g, !.settled = S, !.returned = R, !.todo = q]

(***************************************************************************)
(* A held row is settled under the lock of its inventory row.              *)
(***************************************************************************)
LEMMA SettleRowKeeps ==
  ASSUME StInv, NEW t \in Txs, SettleRow(t)
  PROVE  StInv'
<1> DEFINE x == tx[t]
           i == Head(x.todo)
           c == stock.rsv[i].cell
           n == stock.rsv[i].quantity
           H == RowsOf(stock, job[t].order, "reserved")
           qu == IF lock[c] = t THEN x.quantity[c] ELSE stock.quantity[c]
           re == IF lock[c] = t THEN x.reserved[c] ELSE stock.reserved[c]
           sold == IF job[t].effect = "confirm" THEN n ELSE 0
<1>1. /\ stock \in Books /\ TxOK(stock, lock, t, x, job[t]) /\ Planned(stock, x, job[t])
      /\ x \in Tx /\ tx \in [Txs -> Tx] /\ lock \in [Cells -> Txs \cup {NoTx}]
      /\ x.stage = "settle" /\ x.todo # <<>> /\ x.todo \in Seq(Nat)
  BY DEF StInv, Sound, TxOK, SettleRow, Tx
<1>2. x.settled \cup Todo(x) = H /\ x.settled \cap Todo(x) = {} /\ Once(x.todo)
  BY <1>1 DEF Planned
<1>3. /\ Tail(x.todo) \in Seq(Nat) /\ Once(Tail(x.todo))
      /\ Todo(x) = {i} \cup {Tail(x.todo)[k] : k \in DOMAIN Tail(x.todo)}
      /\ i \notin {Tail(x.todo)[k] : k \in DOMAIN Tail(x.todo)}
  BY <1>1, <1>2, HeadAndRest DEF Todo
<1>4. i \in DOMAIN stock.rsv /\ i \in Nat /\ i \notin x.settled
  <2>1. i \in H /\ i \notin x.settled
    BY <1>2, <1>3
  <2> QED
    BY <1>1, <2>1, TableTyped DEF RowsOf
<1>5. c \in Cells /\ n \in Nat
  <2>1. stock.rsv[i] \in Reservation
    BY <1>1, <1>4, TableTyped
  <2> QED
    BY <2>1 DEF Reservation
<1>6. /\ lock[c] \in {t, NoTx} /\ lock' = [lock EXCEPT ![c] = t]
      /\ tx' = [tx EXCEPT ![t].quantity[c] = qu - sold, ![t].reserved[c] = re - n,
                          ![t].settled = x.settled \cup {i}, ![t].todo = Tail(x.todo)]
      /\ stock' = stock /\ job' = job
  BY <1>1 DEF SettleRow, NextCell, MayTake, QuantityFor, ReservedFor
<1>7. qu \in Int /\ re \in Int /\ sold \in Int
  <2>1. /\ x.quantity \in [Cells -> Int] /\ x.reserved \in [Cells -> Int]
        /\ stock.quantity \in [Cells -> Int] /\ stock.reserved \in [Cells -> Int]
    BY <1>1 DEF Tx, Books
  <2>2. /\ x.quantity[c] \in Int /\ x.reserved[c] \in Int
        /\ stock.quantity[c] \in Int /\ stock.reserved[c] \in Int
    BY <1>5, <2>1
  <2>3. n \in Int /\ 0 \in Int
    BY <1>5
  <2> HIDE DEF x, i, c, n
  <2> QED
    BY <2>2, <2>3
<1> HIDE DEF i, c, n, qu, re, sold
<1>8. PICK f, g : /\ f = [x.quantity EXCEPT ![c] = qu - sold] /\ g = [x.reserved EXCEPT ![c] = re - n]
  OBVIOUS
<1>9. /\ f \in [Cells -> Int] /\ g \in [Cells -> Int] /\ f[c] = qu - sold /\ g[c] = re - n
      /\ \A d \in Cells \ {c} : f[d] = x.quantity[d] /\ g[d] = x.reserved[d]
  BY <1>1, <1>5, <1>7, <1>8 DEF Tx
<1>10. PICK S, R, q, y : /\ S = x.settled \cup {i} /\ R = x.returned /\ q = Tail(x.todo)
                         /\ y = Changed(x, f, g, S, R, q)
  OBVIOUS
<1>11. /\ y \in Tx /\ y.stage = x.stage /\ y.moves = x.moves
       /\ y.settled = x.settled \cup {i} /\ y.returned = x.returned
       /\ y.todo = Tail(x.todo) /\ y.quantity = f /\ y.reserved = g
  <2>1. /\ S \in SUBSET Nat /\ R \in SUBSET Nat /\ q \in Seq(Nat)
        /\ f \in [Cells -> Int] /\ g \in [Cells -> Int]
    BY <1>1, <1>3, <1>4, <1>9, <1>10 DEF Tx
  <2>2. PICK z : z = x
    OBVIOUS
  <2>3. z \in Tx /\ y = Changed(z, f, g, S, R, q)
    BY <1>1, <1>10, <2>2
  <2>4. /\ y \in Tx /\ y.stage = z.stage /\ y.moves = z.moves /\ y.settled = S
        /\ y.returned = R /\ y.todo = q /\ y.quantity = f /\ y.reserved = g
    BY <2>1, <2>3 DEF Tx, Changed
  <2> QED
    BY <1>10, <2>2, <2>4
<1>12. /\ tx'[t] = y /\ tx' = [u \in Txs |-> tx'[u]]
       /\ \A u \in Txs \ {t} : tx'[u] = tx[u]
  BY <1>1, <1>6, <1>8, <1>10 DEF Tx, Changed
<1>13. Planned(stock, y, job[t])
  <2> DEFINE rest == {Tail(x.todo)[k] : k \in DOMAIN Tail(x.todo)}
  <2>1. Todo(y) = rest
    BY <1>11 DEF Todo
  <2> HIDE DEF rest
  <2>2. y.settled \cup Todo(y) = H /\ y.settled \cap Todo(y) = {} /\ Once(y.todo)
    BY <1>2, <1>3, <1>4, <1>11, <2>1 DEF rest
  <2> QED
    BY <1>1, <1>11, <2>2 DEF Planned
<1>14. TxOK(stock, lock', t, y, job[t])
  <2>1. RowDone(stock, lock, t, x, y, job[t], i)
    BY <1>4, <1>9, <1>11 DEF RowDone, c, n, qu, re, sold
  <2>2. lock' = [lock EXCEPT ![stock.rsv[i].cell] = t]
    BY <1>6 DEF c
  <2> QED
    BY <1>1, <1>4, <1>11, <1>13, <2>1, <2>2, RowMarked DEF Ended
<1>15. /\ lock' \in [Cells -> Txs \cup {NoTx}]
       /\ \A u \in Txs \ {t} : \A d \in Cells : lock'[d] = u <=> lock[d] = u
  BY <1>1, <1>5, <1>6, JobsAssumption
<1> QED
  BY <1>6, <1>12, <1>14, <1>15, StatementKeeps

(***************************************************************************)
(* A taken row goes back under the lock of its inventory row.              *)
(***************************************************************************)
LEMMA RestockRowKeeps ==
  ASSUME StInv, NEW t \in Txs, RestockRow(t)
  PROVE  StInv'
<1> DEFINE x == tx[t]
           i == Head(x.todo)
           c == stock.rsv[i].cell
           n == stock.rsv[i].quantity
           C == RowsOf(stock, job[t].order, "confirmed")
           qu == IF lock[c] = t THEN x.quantity[c] ELSE stock.quantity[c]
           re == IF lock[c] = t THEN x.reserved[c] ELSE stock.reserved[c]
<1>1. /\ stock \in Books /\ TxOK(stock, lock, t, x, job[t]) /\ Planned(stock, x, job[t])
      /\ x \in Tx /\ tx \in [Txs -> Tx] /\ lock \in [Cells -> Txs \cup {NoTx}]
      /\ x.stage = "restock" /\ x.todo # <<>> /\ x.todo \in Seq(Nat)
  BY DEF StInv, Sound, TxOK, RestockRow, Tx
<1>2. x.returned \cup Todo(x) = C /\ x.returned \cap Todo(x) = {} /\ Once(x.todo)
  BY <1>1 DEF Planned
<1>3. /\ Tail(x.todo) \in Seq(Nat) /\ Once(Tail(x.todo))
      /\ Todo(x) = {i} \cup {Tail(x.todo)[k] : k \in DOMAIN Tail(x.todo)}
      /\ i \notin {Tail(x.todo)[k] : k \in DOMAIN Tail(x.todo)}
  BY <1>1, <1>2, HeadAndRest DEF Todo
<1>4. i \in DOMAIN stock.rsv /\ i \in Nat /\ i \notin x.returned
  <2>1. i \in C /\ i \notin x.returned
    BY <1>2, <1>3
  <2> QED
    BY <1>1, <2>1, TableTyped DEF RowsOf
<1>5. c \in Cells /\ n \in Nat
  <2>1. stock.rsv[i] \in Reservation
    BY <1>1, <1>4, TableTyped
  <2> QED
    BY <2>1 DEF Reservation
<1>6. /\ lock[c] \in {t, NoTx} /\ lock' = [lock EXCEPT ![c] = t]
      /\ tx' = [tx EXCEPT ![t].quantity[c] = qu + n, ![t].reserved[c] = re,
                          ![t].returned = x.returned \cup {i}, ![t].todo = Tail(x.todo)]
      /\ stock' = stock /\ job' = job
  BY <1>1 DEF RestockRow, NextCell, MayTake, QuantityFor, ReservedFor
<1>7. qu \in Int /\ re \in Int
  BY <1>1, <1>5 DEF Tx, Books
<1> HIDE DEF i, c, n, qu, re
<1>8. PICK f, g : /\ f = [x.quantity EXCEPT ![c] = qu + n] /\ g = [x.reserved EXCEPT ![c] = re]
  OBVIOUS
<1>9. /\ f \in [Cells -> Int] /\ g \in [Cells -> Int] /\ f[c] = qu + n /\ g[c] = re
      /\ \A d \in Cells \ {c} : f[d] = x.quantity[d] /\ g[d] = x.reserved[d]
  BY <1>1, <1>5, <1>7, <1>8 DEF Tx
<1>10. PICK S, R, q, y : /\ S = x.settled /\ R = x.returned \cup {i} /\ q = Tail(x.todo)
                         /\ y = Changed(x, f, g, S, R, q)
  OBVIOUS
<1>11. /\ y \in Tx /\ y.stage = x.stage /\ y.moves = x.moves
       /\ y.settled = x.settled /\ y.returned = x.returned \cup {i}
       /\ y.todo = Tail(x.todo) /\ y.quantity = f /\ y.reserved = g
  <2>1. /\ S \in SUBSET Nat /\ R \in SUBSET Nat /\ q \in Seq(Nat)
        /\ f \in [Cells -> Int] /\ g \in [Cells -> Int]
    BY <1>1, <1>3, <1>4, <1>9, <1>10 DEF Tx
  <2>2. PICK z : z = x
    OBVIOUS
  <2>3. z \in Tx /\ y = Changed(z, f, g, S, R, q)
    BY <1>1, <1>10, <2>2
  <2>4. /\ y \in Tx /\ y.stage = z.stage /\ y.moves = z.moves /\ y.settled = S
        /\ y.returned = R /\ y.todo = q /\ y.quantity = f /\ y.reserved = g
    BY <2>1, <2>3 DEF Tx, Changed
  <2> QED
    BY <1>10, <2>2, <2>4
<1>12. /\ tx'[t] = y /\ tx' = [u \in Txs |-> tx'[u]]
       /\ \A u \in Txs \ {t} : tx'[u] = tx[u]
  BY <1>1, <1>6, <1>8, <1>10 DEF Tx, Changed
<1>13. Planned(stock, y, job[t])
  <2> DEFINE rest == {Tail(x.todo)[k] : k \in DOMAIN Tail(x.todo)}
  <2>1. Todo(y) = rest
    BY <1>11 DEF Todo
  <2> HIDE DEF rest
  <2>2. y.returned \cup Todo(y) = C /\ y.returned \cap Todo(y) = {} /\ Once(y.todo)
    BY <1>2, <1>3, <1>4, <1>11, <2>1 DEF rest
  <2> QED
    BY <1>1, <1>11, <2>2 DEF Planned
<1>14. TxOK(stock, lock', t, y, job[t])
  <2>1. RowDone(stock, lock, t, x, y, job[t], i)
    BY <1>4, <1>9, <1>11 DEF RowDone, c, n, qu, re
  <2>2. lock' = [lock EXCEPT ![stock.rsv[i].cell] = t]
    BY <1>6 DEF c
  <2> QED
    BY <1>1, <1>4, <1>11, <1>13, <2>1, <2>2, RowMarked DEF Ended
<1>15. /\ lock' \in [Cells -> Txs \cup {NoTx}]
       /\ \A u \in Txs \ {t} : \A d \in Cells : lock'[d] = u <=> lock[d] = u
  BY <1>1, <1>5, <1>6, JobsAssumption
<1> QED
  BY <1>6, <1>12, <1>14, <1>15, StatementKeeps

(***************************************************************************)
(* A transaction rolled back gives its locks back and nothing else.        *)
(***************************************************************************)
LEMMA AbortKeeps ==
  ASSUME StInv, NEW t \in Txs, Abort(t)
  PROVE  StInv'
<1> DEFINE x == tx[t]
<1>1. /\ stock \in Books /\ TxOK(stock, lock, t, x, job[t]) /\ x \in Tx /\ tx \in [Txs -> Tx]
      /\ lock \in [Cells -> Txs \cup {NoTx}]
  BY DEF StInv, Sound, TxOK
<1>2. PICK y : y = [x EXCEPT !.stage = "aborted"]
  OBVIOUS
<1>3. /\ y \in Tx /\ y.stage = "aborted" /\ y.settled = x.settled /\ y.returned = x.returned
  BY <1>1, <1>2 DEF Tx, Stage
<1>4. /\ tx'[t] = y /\ tx' = [u \in Txs |-> tx'[u]] /\ \A u \in Txs \ {t} : tx'[u] = tx[u]
      /\ stock' = stock /\ job' = job
  BY <1>1, <1>2 DEF Abort, Goto
<1>5. /\ lock' \in [Cells -> Txs \cup {NoTx}] /\ \A c \in Cells : lock'[c] # t
      /\ \A u \in Txs \ {t} : \A c \in Cells : lock'[c] = u <=> lock[c] = u
  BY <1>1, JobsAssumption DEF Abort, Unlocked
<1>6. Planned(stock, y, job[t])
  BY <1>3 DEF Planned
<1>7. TxOK(stock, lock', t, y, job[t])
  BY <1>1, <1>3, <1>5, <1>6 DEF TxOK, Owns, Counts, Ended
<1> QED
  BY <1>4, <1>5, <1>7, StatementKeeps

(* No two transactions work on the same order. *)
DistinctOrders == \A j \in Jobs : \A t, u \in Txs : j[t].order = j[u].order => t = u

(***************************************************************************)
(* What a commit leaves alone: the rows of other orders, what rows say     *)
(* besides their status, and the counters of rows it has not locked.       *)
(***************************************************************************)
LEMMA CommitTouches ==
  ASSUME StInv, NEW t \in Txs, Commit(t)
  PROVE  /\ \A c \in Cells : lock[c] # t => /\ stock'.quantity[c] = stock.quantity[c]
                                            /\ stock'.reserved[c] = stock.reserved[c]
         /\ DOMAIN stock'.rsv = DOMAIN stock.rsv
         /\ \A i \in DOMAIN stock.rsv :
              /\ stock'.rsv[i].cell = stock.rsv[i].cell
              /\ stock'.rsv[i].quantity = stock.rsv[i].quantity
              /\ stock'.rsv[i].order = stock.rsv[i].order
              /\ stock.rsv[i].order # job[t].order => stock'.rsv[i] = stock.rsv[i]
<1> DEFINE x == tx[t]
           e == job[t].effect
<1>1. /\ stock \in Books /\ Planned(stock, x, job[t]) /\ x.stage = "commit"
      /\ x.settled \subseteq DOMAIN stock.rsv /\ x.returned \subseteq DOMAIN stock.rsv
  BY DEF StInv, Sound, TxOK, Commit
<1>2. PICK I, f : I = x.settled \cup x.returned /\ f = FinalStatus(e)
  OBVIOUS
<1>3. stock'.rsv = WithStatus(stock.rsv, I, f)
  BY <1>2 DEF Commit
<1>4. \A c \in Cells : lock[c] # t => /\ stock'.quantity[c] = stock.quantity[c]
                                      /\ stock'.reserved[c] = stock.reserved[c]
  BY DEF Commit
<1>5. \A i \in I : stock.rsv[i].order = job[t].order
  <2>1. x.settled = RowsOf(stock, job[t].order, "reserved")
    BY <1>1 DEF Planned
  <2>2. x.returned = {} \/ x.returned = RowsOf(stock, job[t].order, "confirmed")
    BY <1>1 DEF Planned
  <2> QED
    BY <1>2, <2>1, <2>2 DEF RowsOf
<1>6. \A i \in DOMAIN stock.rsv : stock.rsv[i] \in Reservation
  BY <1>1, TableTyped
<1>7. /\ DOMAIN stock'.rsv = DOMAIN stock.rsv
      /\ \A i \in DOMAIN stock.rsv :
           stock'.rsv[i] = IF i \in I THEN [stock.rsv[i] EXCEPT !.status = f] ELSE stock.rsv[i]
  BY <1>3 DEF WithStatus
<1>8. \A i \in DOMAIN stock.rsv :
        /\ stock'.rsv[i].cell = stock.rsv[i].cell
        /\ stock'.rsv[i].quantity = stock.rsv[i].quantity
        /\ stock'.rsv[i].order = stock.rsv[i].order
  BY <1>6, <1>7 DEF Reservation
<1> QED
  BY <1>4, <1>5, <1>7, <1>8

(***************************************************************************)
(* A commit leaves sound books, and the transactions of other orders go on *)
(* as if they had found these.                                             *)
(***************************************************************************)
LEMMA CommitKeeps ==
  ASSUME StInv, DistinctOrders, NEW t \in Txs, Commit(t)
  PROVE  StInv'
<1> DEFINE x == tx[t]
<1>1. /\ stock \in Books /\ TxOK(stock, lock, t, x, job[t]) /\ x \in Tx /\ tx \in [Txs -> Tx]
      /\ lock \in [Cells -> Txs \cup {NoTx}] /\ job \in Jobs
  BY DEF StInv, Sound, TxOK
<1>2. Sound(stock')
  <2>1. PICK o : o = job[t].order
    OBVIOUS
  <2>2. Sound(stock)
    BY DEF StInv
  <2>3. CASE job[t].effect = "confirm"
    <3>1. stock' = confirmReservations(stock, o)
      BY <2>1, <2>3, CommitIsCall
    <3> QED
      BY <2>2, <3>1, ConfirmReservationsSound
  <2>4. CASE job[t].effect # "confirm"
    <3>1. PICK f : f = FinalStatus(job[t].effect)
      OBVIOUS
    <3>2. stock' = releaseReservations(stock, o, f) /\ f \in {"cancelled", "expired"}
      BY <2>1, <2>4, <3>1, CommitIsCall
    <3>3. f \in ReservationStatus \ {"reserved"}
      BY <3>2 DEF ReservationStatus
    <3>4. Sound(releaseReservations(stock, o, f))
      BY <2>2, <3>3, ReleaseReservationsSound
    <3> QED
      BY <3>2, <3>4
  <2> QED
    BY <2>3, <2>4
<1>3. stock' \in Books
  BY <1>2 DEF Sound
<1>4. /\ lock' \in [Cells -> Txs \cup {NoTx}] /\ \A c \in Cells : lock'[c] # t
      /\ \A u \in Txs \ {t} : \A c \in Cells : lock'[c] = u <=> lock[c] = u
  BY <1>1, JobsAssumption DEF Commit, Unlocked
<1>5. PICK y : y = [x EXCEPT !.stage = "done"]
  OBVIOUS
<1>6. y \in Tx /\ y.stage = "done" /\ y.settled = x.settled /\ y.returned = x.returned
  BY <1>1, <1>5 DEF Tx, Stage
<1>7. /\ tx'[t] = y /\ tx' = [u \in Txs |-> tx'[u]] /\ \A u \in Txs \ {t} : tx'[u] = tx[u]
      /\ job' = job
  BY <1>1, <1>5 DEF Commit, Goto
<1>8. DOMAIN stock'.rsv = DOMAIN stock.rsv
  BY CommitTouches
<1>9. TxOK(stock', lock', t, y, job[t])
  <2>1. Planned(stock', y, job[t])
    BY <1>6 DEF Planned
  <2> QED
    BY <1>1, <1>4, <1>6, <1>8, <2>1 DEF TxOK, Owns, Counts, Ended
<1>10. ASSUME NEW u \in Txs \ {t}
       PROVE  TxOK(stock', lock', u, tx[u], job[u])
  <2>1. TxOK(stock, lock, u, tx[u], job[u])
    BY DEF StInv
  <2>2. job[u].order # job[t].order
    BY <1>1 DEF DistinctOrders
  <2>3. \A c \in Cells : lock[c] = u => /\ stock'.quantity[c] = stock.quantity[c]
                                        /\ stock'.reserved[c] = stock.reserved[c]
    BY CommitTouches
  <2>4. \A i \in DOMAIN stock.rsv :
          /\ stock'.rsv[i].cell = stock.rsv[i].cell
          /\ stock'.rsv[i].quantity = stock.rsv[i].quantity
          /\ stock'.rsv[i].order = stock.rsv[i].order
          /\ stock.rsv[i].order = job[u].order => stock'.rsv[i] = stock.rsv[i]
    BY <2>2, CommitTouches
  <2> QED
    BY <1>1, <1>3, <1>4, <1>8, <2>1, <2>3, <2>4, OthersGoOn
<1>11. \A u \in Txs : TxOK(stock', lock', u, tx'[u], job[u])
  BY <1>7, <1>9, <1>10
<1>12. tx' \in [Txs -> Tx]
  BY <1>7, <1>11 DEF TxOK
<1> QED
  BY <1>1, <1>2, <1>4, <1>7, <1>11, <1>12 DEF StInv

-----------------------------------------------------------------------------
(* The invariant *)

(***************************************************************************)
(* The transactions start with nothing marked and nothing locked.          *)
(***************************************************************************)
LEMMA StInvInit ==
  ASSUME Sound(StartBooks), Init
  PROVE  StInv
<1>1. job \in Jobs /\ stock = StartBooks /\ lock = [c \in Cells |-> NoTx]
      /\ tx = [t \in Txs |-> Fresh(job[t].effect)]
  BY DEF Init
<1>2. ASSUME NEW t \in Txs
      PROVE  TxOK(stock, lock, t, tx[t], job[t])
  <2>1. PICK x : x = tx[t]
    OBVIOUS
  <2>2. x = Fresh(job[t].effect)
    BY <1>1, <2>1
  <2>3. /\ x.settled = {} /\ x.returned = {}
        /\ x.stage = IF job[t].effect = "confirm" THEN "ledger" ELSE "find"
    BY <2>2 DEF Fresh
  <2>4. x \in Tx
    <3>1. Zero \in [Cells -> Int] /\ <<>> \in Seq(Nat) /\ {} \in SUBSET Nat
      BY DEF Zero
    <3> QED
      BY <2>2, <3>1 DEF Fresh, Tx, Stage
  <2>5. Planned(stock, x, job[t])
    BY <2>3 DEF Planned
  <2>6. \A c \in Cells : lock[c] # t
    BY <1>1, JobsAssumption
  <2>7. Owns(stock, lock, t, x)
    BY <2>3, <2>6 DEF Owns
  <2>8. Counts(stock, lock, t, x, job[t])
    BY <2>6 DEF Counts
  <2> QED
    BY <2>1, <2>3, <2>4, <2>5, <2>7, <2>8 DEF TxOK
<1>3. tx \in [Txs -> Tx]
  BY <1>1, <1>2 DEF TxOK
<1>4. lock \in [Cells -> Txs \cup {NoTx}]
  BY <1>1
<1> QED
  BY <1>1, <1>2, <1>3, <1>4 DEF StInv

(***************************************************************************)
(* And every step keeps what they have marked, locked and counted in line. *)
(***************************************************************************)
LEMMA StInvNext ==
  ASSUME DistinctOrders, StInv, [Next]_vars
  PROVE  StInv'
<1>1. CASE UNCHANGED vars
  BY <1>1 DEF StInv, vars
<1>2. ASSUME NEW t \in Txs, Step(t)
      PROVE  StInv'
  <2>1. CASE FindMoves(t) \/ FindReserved(t) \/ FindTaken(t)
    BY <2>1, QueriesKeep
  <2>2. CASE SettleRow(t)
    BY <2>2, SettleRowKeeps
  <2>3. CASE RestockRow(t)
    BY <2>3, RestockRowKeeps
  <2>4. CASE Settled(t)
    <3>1. PICK to : to = IF job[t].effect = "confirm" THEN "commit" ELSE "findTaken"
      OBVIOUS
    <3>2. /\ tx[t].stage = "settle" /\ tx[t].todo = <<>> /\ tx' = [tx EXCEPT ![t].stage = to]
          /\ stock' = stock /\ job' = job /\ lock' = lock
      BY <2>4, <3>1 DEF Settled, Goto
    <3> QED
      BY <3>1, <3>2, LoopsEnd
  <2>5. CASE Restocked(t)
    <3>1. CASE Abort(t)
      BY <3>1, AbortKeeps
    <3>2. CASE ~ Abort(t)
      <4>1. PICK to : to = "commit"
        OBVIOUS
      <4>2. /\ tx[t].stage = "restock" /\ tx[t].todo = <<>> /\ tx' = [tx EXCEPT ![t].stage = to]
            /\ tx[t].moves = {} \/ job[t].byUser
            /\ stock' = stock /\ job' = job /\ lock' = lock
        BY <2>5, <3>2, <4>1 DEF Restocked, Goto
      <4> QED
        BY <4>1, <4>2, LoopsEnd
    <3> QED
      BY <3>1, <3>2
  <2>6. CASE Commit(t)
    BY <2>6, CommitKeeps
  <2>7. CASE DeadlockAbort(t)
    BY <2>7, AbortKeeps DEF DeadlockAbort
  <2> QED
    BY <1>2, <2>1, <2>2, <2>3, <2>4, <2>5, <2>6, <2>7 DEF Step
<1> QED
  BY <1>1, <1>2 DEF Next

(***************************************************************************)
(* Transactions on different orders settle stock exactly once.  The books  *)
(* they start from are those InventoryService leaves (InventoryProofs).    *)
(***************************************************************************)
THEOREM SettledExactlyOnce ==
  ASSUME Sound(StartBooks), DistinctOrders
  PROVE  Spec => []SettledOnce
<1>1. Init => StInv
  BY StInvInit
<1>2. StInv /\ [Next]_vars => StInv'
  BY StInvNext
<1>3. StInv => SettledOnce
  BY DEF StInv, Sound, SettledOnce
<1> QED
  BY <1>1, <1>2, <1>3, PTL DEF Spec

-----------------------------------------------------------------------------
(* The refinement *)

(***************************************************************************)
(* The operators of the instance are those of module Stock.                *)
(***************************************************************************)
LEMMA SameCalls ==
  ASSUME NEW s, NEW o, NEW final, NEW byUser
  PROVE  /\ Calls!confirmReservations(s, o) = confirmReservations(s, o)
         /\ Calls!releaseReservations(s, o, final) = releaseReservations(s, o, final)
         /\ Calls!CanRelease(s, o, byUser) <=> CanRelease(s, o, byUser)
<1>1. \A S : Calls!Cardinality(S) = Cardinality(S)
  BY DEF Calls!Cardinality, Cardinality
<1>2. \A W, S : Calls!Total(W, S) = Total(W, S)
  BY <1>1 DEF Calls!Total, Total, Calls!UnitsOf, UnitsOf
<1>3. \A b, W, I : Calls!PerCell(b, W, I) = PerCell(b, W, I)
  BY <1>2 DEF Calls!PerCell, PerCell, Calls!Cells, Cells
<1>4. \A b, p, st : Calls!RowsOf(b, p, st) = RowsOf(b, p, st)
  BY DEF Calls!RowsOf, RowsOf
<1>5. \A b : Calls!Qty(b) = Qty(b)
  BY DEF Calls!Qty, Qty
<1>6. \A r, I, st : Calls!WithStatus(r, I, st) = WithStatus(r, I, st)
  BY DEF Calls!WithStatus, WithStatus
<1>7. \A f, g : Calls!Plus(f, g) = Plus(f, g) /\ Calls!Minus(f, g) = Minus(f, g)
  BY DEF Calls!Plus, Plus, Calls!Minus, Minus, Calls!Cells, Cells
<1>8. \A b, I : Calls!Confirm(b, I) = Confirm(b, I)
  BY <1>3, <1>5, <1>6, <1>7 DEF Calls!Confirm, Confirm
<1>9. \A b, I, st : Calls!Release(b, I, st) = Release(b, I, st)
  BY <1>3, <1>5, <1>6, <1>7 DEF Calls!Release, Release
<1>10. \A b, I, st : Calls!Restock(b, I, st) = Restock(b, I, st)
  BY <1>3, <1>5, <1>6, <1>7 DEF Calls!Restock, Restock
<1>11. Calls!confirmReservations(s, o) = confirmReservations(s, o)
  BY <1>4, <1>8 DEF Calls!confirmReservations, confirmReservations
<1>12. Calls!releaseReservations(s, o, final) = releaseReservations(s, o, final)
  BY <1>4, <1>9, <1>10 DEF Calls!releaseReservations, releaseReservations
<1>13. Calls!CanRelease(s, o, byUser) <=> CanRelease(s, o, byUser)
  BY <1>4 DEF Calls!CanRelease, CanRelease
<1> QED
  BY <1>11, <1>12, <1>13

(***************************************************************************)
(* A commit is a call of confirmReservations or releaseReservations.       *)
(***************************************************************************)
LEMMA CommitRefines ==
  ASSUME StInv, NEW t \in Txs, Commit(t)
  PROVE  Calls!ByOrders
<1>1. PICK o, e, byUser : o = job[t].order /\ e = job[t].effect /\ byUser = job[t].byUser
  OBVIOUS
<1>2. o \in OrderIds /\ byUser \in BOOLEAN
  <2>1. job[t] \in Job
    BY JobsAssumption DEF StInv
  <2> QED
    BY <1>1, <2>1 DEF Job
<1>3. CASE e = "confirm"
  <2>1. stock' = Calls!confirmReservations(stock, o)
    BY <1>1, <1>3, CommitIsCall, SameCalls
  <2>2. Calls!ConfirmOrder(o)
    BY <2>1 DEF Calls!ConfirmOrder
  <2> QED
    BY <1>2, <2>2 DEF Calls!ByOrders
<1>4. CASE e # "confirm"
  <2>1. PICK f : f = FinalStatus(e)
    OBVIOUS
  <2>2. /\ f \in {"cancelled", "expired"} /\ Calls!CanRelease(stock, o, byUser)
        /\ stock' = Calls!releaseReservations(stock, o, f)
    BY <1>1, <1>4, <2>1, CommitIsCall, SameCalls
  <2>3. Calls!ReleaseOrder(o, byUser, f)
    BY <2>2 DEF Calls!ReleaseOrder
  <2> QED
    BY <1>2, <2>2, <2>3 DEF Calls!ByOrders
<1> QED
  BY <1>3, <1>4

(***************************************************************************)
(* The transactions, statement by statement, implement the atomic calls of *)
(* module Inventory: only a commit changes the books, and as one call on   *)
(* the books it finds.                                                     *)
(***************************************************************************)
THEOREM TransactionsAreAtomic ==
  ASSUME Sound(StartBooks), DistinctOrders
  PROVE  Spec => AtomicTransactions
<1>1. Init => StInv
  BY StInvInit
<1>2. StInv /\ [Next]_vars => StInv'
  BY StInvNext
<1>3. StInv /\ [Next]_vars => [Calls!ByOrders]_stock
  <2> SUFFICES ASSUME StInv, [Next]_vars
               PROVE  Calls!ByOrders \/ stock' = stock
    OBVIOUS
  <2>1. CASE UNCHANGED vars
    BY <2>1 DEF vars
  <2>2. ASSUME NEW t \in Txs, Step(t)
        PROVE  Calls!ByOrders \/ stock' = stock
    <3>1. CASE Commit(t)
      BY <3>1, CommitRefines
    <3>2. CASE ~ Commit(t)
      BY <2>2, <3>2 DEF Step, FindMoves, FindReserved, FindTaken, SettleRow, RestockRow,
                        Settled, Restocked, Abort, DeadlockAbort
    <3> QED
      BY <3>1, <3>2
  <2> QED
    BY <2>1, <2>2 DEF Next
<1> QED
  BY <1>1, <1>2, <1>3, PTL DEF Spec, AtomicTransactions
=============================================================================
