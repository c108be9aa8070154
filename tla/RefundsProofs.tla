---------------------------- MODULE RefundsProofs ----------------------------
(***************************************************************************)
(* The rules of RefundsService for any number of handlers, refunds and     *)
(* amounts: first those that hold as long as no refund has been in two     *)
(* pairs of hands (~ shared; two on one refund can exceed the total), then *)
(* the part of the cap that holds whatever overlaps.                       *)
(*                                                                         *)
(* WithinCap is not inductive: a request compares a total and a sum that   *)
(* it read in earlier steps.  The invariant says why they still hold when  *)
(* it inserts: the lock has one owner (OneLock), which keeps the total     *)
(* (CopyIsCurrent), and no other step adds to the sum (SumIsBound),        *)
(* because a refund in hand is a requested one (InHandIsOpen, OneHand).    *)
(***************************************************************************)
EXTENDS Refunds, SumsProofs, SequenceTheorems

TablesTyped ==
  /\ order \in Order
  /\ refunds \in Seq(Refund)
  /\ req \in [Handlers -> Request]

LockSteps == {"count", "insert"}

HandSteps == {"load", "write", "tally", "close", "reject"}

Live == {"requested", "completed"}

OneLock ==
  \A g, h \in Handlers :
    req[g].step \in LockSteps /\ req[h].step \in LockSteps => g = h

CopyIsCurrent == \A h \in Handlers : req[h].step \in LockSteps => req[h].copy = order

SumIsBound == \A h \in Handlers : req[h].step = "insert" => Committed <= req[h].sum

InHandIsOpen ==
  \A h \in Handlers :
    req[h].step \in HandSteps =>
      req[h].refund \in With(refunds, {"requested"})

OneHand ==
  \A g, h \in Handlers :
    /\ req[g].step \in HandSteps /\ req[h].step \in HandSteps
    /\ req[g].refund = req[h].refund
    => g = h

TallyIsBound ==
  \A h \in Handlers : req[h].step = "close" => req[h].sum <= completedCents(h)

IInv ==
  /\ TablesTyped /\ OneLock /\ CopyIsCurrent /\ SumIsBound
  /\ InHandIsOpen /\ OneHand /\ TallyIsBound

-----------------------------------------------------------------------------
(* The refunds table *)

(***************************************************************************)
(* Any set of refunds can be summed.                                       *)
(***************************************************************************)
LEMMA RefundsWeigh ==
  ASSUME NEW r \in Seq(Refund), NEW S \in SUBSET DOMAIN r
  PROVE  /\ Weighs(Amount(r), S) /\ Total(Amount(r), S) \in Nat
         /\ DOMAIN r = 1 .. Len(r) /\ Len(r) \in Nat
<1>1. DOMAIN r = 1 .. Len(r) /\ Len(r) \in Nat
  BY LenProperties
<1>2. IsFiniteSet(S)
  <2>1. IsFiniteSet(1 .. Len(r))
    BY <1>1, FS_Interval
  <2> QED
    BY <1>1, <2>1, FS_Subset
<1>3. \A i \in S : Amount(r)[i] \in Nat
  <2>1. \A i \in 1 .. Len(r) : r[i] \in Refund
    BY ElementOfSeq
  <2> QED
    BY <1>1, <2>1 DEF Refund, Amount
<1> QED
  BY <1>1, <1>2, <1>3, UnitsFinite DEF Weighs

(***************************************************************************)
(* Sums are natural numbers.                                               *)
(***************************************************************************)
LEMMA CentsNat ==
  ASSUME NEW r \in Seq(Refund), NEW T
  PROVE  Cents(r, T) \in Nat
BY RefundsWeigh, With(r, T) \in SUBSET DOMAIN r DEF Cents, With

(***************************************************************************)
(* A new request adds its amount to what is committed, and nothing else    *)
(* to the table.                                                           *)
(***************************************************************************)
LEMMA AppendAdds ==
  ASSUME NEW r \in Seq(Refund), NEW x \in Refund, x.status = "requested"
  PROVE  /\ Append(r, x) \in Seq(Refund)
         /\ Cents(Append(r, x), Live) = Cents(r, Live) + x.amount
         /\ With(Append(r, x), {"completed"}) = With(r, {"completed"})
         /\ With(r, {"requested"}) \subseteq With(Append(r, x), {"requested"})
         /\ DOMAIN r \subseteq DOMAIN Append(r, x)
         /\ \A i \in DOMAIN r : Append(r, x)[i] = r[i]
<1> DEFINE q == Append(r, x)
           n == Len(r) + 1
<1>1. /\ q \in Seq(Refund) /\ Len(q) = n
      /\ \A i \in 1 .. Len(r) : q[i] = r[i]
      /\ q[n] = x
  BY AppendProperties
<1>2. DOMAIN r = 1 .. Len(r) /\ DOMAIN q = 1 .. n /\ Len(r) \in Nat
  BY <1>1, LenProperties
<1>3. With(q, Live) = With(r, Live) \cup {n} /\ With(r, Live) \cap {n} = {}
  BY <1>1, <1>2 DEF With, Live
<1>4. \A i \in With(r, Live) : Amount(q)[i] = Amount(r)[i]
  BY <1>1, <1>2 DEF With, Amount
<1>5. Total(Amount(q), With(r, Live)) = Cents(r, Live)
  BY <1>4, TotalSame DEF Cents
<1>6. Weighs(Amount(q), With(r, Live)) /\ Weighs(Amount(q), {n})
  <2>1. With(r, Live) \in SUBSET DOMAIN q /\ {n} \in SUBSET DOMAIN q
    BY <1>2 DEF With
  <2> QED
    BY <1>1, <2>1, RefundsWeigh
<1>7. Amount(q)[n] = x.amount /\ x.amount \in Nat
  BY <1>1, <1>2 DEF Amount, Refund
<1>8. Total(Amount(q), {n}) = x.amount
  BY <1>7, TotalSingle
<1>9. Cents(q, Live) = Cents(r, Live) + x.amount
  BY <1>3, <1>5, <1>6, <1>8, TotalUnion DEF Cents
<1>10. With(q, {"completed"}) = With(r, {"completed"})
  BY <1>1, <1>2 DEF With
<1>11. With(r, {"requested"}) \subseteq With(q, {"requested"})
  BY <1>1, <1>2 DEF With
<1> QED
  BY <1>1, <1>2, <1>9, <1>10, <1>11

(***************************************************************************)
(* Table q is table r with refund i settled.                               *)
(***************************************************************************)
SettledAs(r, q, i, status) ==
  /\ q = [j \in DOMAIN r |-> q[j]]
  /\ \A j \in DOMAIN r : j # i => q[j] = r[j]
  /\ q[i] = [r[i] EXCEPT !.status = status]

Unharmed(r, q, i, status) ==
  /\ q \in Seq(Refund) /\ DOMAIN q = DOMAIN r /\ Amount(q) = Amount(r)
  /\ Cents(q, Live) <= Cents(r, Live)
  /\ \A j \in DOMAIN r : j # i => q[j] = r[j]
  /\ With(q, {"requested"}) = With(r, {"requested"}) \ {i}
  /\ status = "completed" => With(q, {"completed"}) = With(r, {"completed"}) \cup {i}
  /\ status = "rejected" => With(q, {"completed"}) = With(r, {"completed"})

(***************************************************************************)
(* Settling an open refund adds nothing to what is committed, leaves the   *)
(* amounts and the other refunds alone, and completes no other refund.     *)
(***************************************************************************)
LEMMA SettleKeeps ==
  ASSUME NEW r \in Seq(Refund), NEW i \in With(r, {"requested"}),
         NEW status, status \in {"completed", "rejected"},
         NEW q, SettledAs(r, q, i, status)
  PROVE  Unharmed(r, q, i, status)
<1>1. /\ DOMAIN r = 1 .. Len(r) /\ Len(r) \in Nat
      /\ \A j \in DOMAIN r : r[j] \in Refund
      /\ i \in DOMAIN r /\ r[i].status = "requested"
  BY LenProperties, ElementOfSeq DEF With
<1>2. DOMAIN q = DOMAIN r /\ \A j \in DOMAIN r : j # i => q[j] = r[j]
  BY DEF SettledAs
<1>3. q[i] = [r[i] EXCEPT !.status = status]
  BY DEF SettledAs
<1>4. q[i] \in Refund /\ q[i].amount = r[i].amount /\ q[i].status = status
  BY <1>1, <1>3 DEF Refund, RefundStatus
<1>5. q \in Seq(Refund)
  <2>1. \A j \in 1 .. Len(r) : q[j] \in Refund
    BY <1>1, <1>2, <1>4
  <2>2. q = [j \in 1 .. Len(r) |-> q[j]]
    BY <1>1 DEF SettledAs
  <2> QED
    BY <1>1, <2>1, <2>2, IsASeq
<1>6. Amount(q) = Amount(r)
  BY <1>2, <1>4 DEF Amount
<1>7. Cents(q, Live) <= Cents(r, Live)
  <2>1. With(q, Live) = With(r, Live) \/ With(q, Live) = With(r, Live) \ {i}
    BY <1>1, <1>2, <1>4 DEF With, Live
  <2>2. Weighs(Amount(r), With(r, Live)) /\ Total(Amount(r), With(r, Live)) \in Nat
    BY RefundsWeigh, With(r, Live) \in SUBSET DOMAIN r DEF With
  <2>3. i \in With(r, Live)
    BY <1>1 DEF With, Live
  <2>4. Total(Amount(r), With(r, Live) \ {i}) <= Total(Amount(r), With(r, Live))
    <3>1. {i} \subseteq With(r, Live)
      BY <2>3
    <3>2. /\ Total(Amount(r), With(r, Live) \ {i})
             = Total(Amount(r), With(r, Live)) - Total(Amount(r), {i})
          /\ Total(Amount(r), {i}) \in Nat
      BY <2>2, <3>1, TotalDifference
    <3> QED
      BY <2>2, <3>2
  <2>5. Cents(q, Live) = Total(Amount(r), With(q, Live))
    BY <1>6 DEF Cents
  <2>6. CASE With(q, Live) = With(r, Live)
    BY <2>2, <2>5, <2>6 DEF Cents
  <2>7. CASE With(q, Live) = With(r, Live) \ {i}
    BY <2>4, <2>5, <2>7 DEF Cents
  <2> QED
    BY <2>1, <2>6, <2>7
<1>8. /\ With(q, {"requested"}) = With(r, {"requested"}) \ {i}
      /\ status = "completed" => With(q, {"completed"}) = With(r, {"completed"}) \cup {i}
      /\ status = "rejected" => With(q, {"completed"}) = With(r, {"completed"})
  BY <1>1, <1>2, <1>4 DEF With
<1> QED
  BY <1>2, <1>5, <1>6, <1>7, <1>8 DEF Unharmed

(***************************************************************************)
(* More refunds, more cents.                                               *)
(***************************************************************************)
LEMMA TotalGrows ==
  ASSUME NEW r \in Seq(Refund), NEW T \in SUBSET DOMAIN r, NEW S \in SUBSET T
  PROVE  Total(Amount(r), S) <= Total(Amount(r), T)
<1>1. Weighs(Amount(r), T)
  BY RefundsWeigh
<1>2. /\ Total(Amount(r), T \ S) = Total(Amount(r), T) - Total(Amount(r), S)
      /\ Total(Amount(r), T) \in Nat /\ Total(Amount(r), S) \in Nat
      /\ Total(Amount(r), T \ S) \in Nat
  BY <1>1, TotalDifference
<1> QED
  BY <1>2

-----------------------------------------------------------------------------
(* The steps of the handlers *)

(***************************************************************************)
(* What handler h may come to know, when the tables stay as they are.      *)
(***************************************************************************)
Consistent(h, new) ==
  /\ new \in Request
  /\ new.step \in LockSteps =>
       /\ new.copy = order
       /\ \A g \in Handlers : g # h => req[g].step \notin LockSteps
  /\ new.step = "insert" => Committed <= new.sum
  /\ new.step \in HandSteps =>
       /\ new.refund \in With(refunds, {"requested"})
       /\ \A g \in Handlers :
            g # h /\ req[g].step \in HandSteps => req[g].refund # new.refund
  /\ new.step = "close" =>
       new.sum <= Total(Amount(refunds), With(refunds, {"completed"}) \cup {new.refund})

(***************************************************************************)
(* A step that only reads.                                                 *)
(***************************************************************************)
LEMMA ReadStep ==
  ASSUME IInv, NEW h \in Handlers, NEW new, Consistent(h, new),
         req' = [req EXCEPT ![h] = new], UNCHANGED <<order, refunds>>
  PROVE  IInv'
<1>1. /\ req'[h] = new /\ \A g \in Handlers : g # h => req'[g] = req[g]
      /\ req' \in [Handlers -> Request]
  BY DEF IInv, TablesTyped, Consistent
<1>2. TablesTyped'
  BY <1>1 DEF IInv, TablesTyped
<1>3. OneLock' /\ CopyIsCurrent'
  BY <1>1 DEF IInv, OneLock, CopyIsCurrent, Consistent
<1>4. SumIsBound'
  BY <1>1 DEF IInv, SumIsBound, Consistent, Committed
<1>5. InHandIsOpen' /\ OneHand'
  BY <1>1 DEF IInv, InHandIsOpen, OneHand, Consistent
<1>6. TallyIsBound'
  BY <1>1 DEF IInv, TallyIsBound, completedCents, Consistent
<1> QED
  BY <1>2, <1>3, <1>4, <1>5, <1>6 DEF IInv

(***************************************************************************)
(* The last step of handler h, which commits what it wrote.  Who owns the  *)
(* order row finds the order and the sum as they were; the refunds others  *)
(* work on stay open; and no completion is undone.                         *)
(***************************************************************************)
LEMMA WriteStep ==
  ASSUME IInv, NEW h \in Handlers, Done(h),
         order' \in Order, refunds' \in Seq(Refund),
         \/ order' = order /\ Cents(refunds', Live) <= Cents(refunds, Live)
         \/ \A g \in Handlers : g # h => req[g].step \notin LockSteps,
         \A g \in Handlers :
           g # h /\ req[g].step \in HandSteps =>
             req[g].refund \in With(refunds', {"requested"}),
         \A g \in Handlers :
           g # h /\ req[g].step = "close" =>
             completedCents(g) <=
               Total(Amount(refunds'), With(refunds', {"completed"}) \cup {req[g].refund})
  PROVE  IInv'
<1>1. NoRequest \in Request
  BY DEF NoRequest, Request, Step, Order, PaymentStatus
<1>2. /\ req'[h] = NoRequest /\ \A g \in Handlers : g # h => req'[g] = req[g]
      /\ req' \in [Handlers -> Request]
  BY <1>1 DEF IInv, TablesTyped, Done
<1>3. NoRequest.step \notin LockSteps \cup HandSteps
  BY DEF NoRequest, LockSteps, HandSteps
<1>4. TablesTyped'
  BY <1>2 DEF TablesTyped
<1>5. OneLock' /\ CopyIsCurrent'
  BY <1>2, <1>3 DEF IInv, OneLock, CopyIsCurrent
<1>6. SumIsBound'
  <2> SUFFICES ASSUME NEW g \in Handlers, req'[g].step = "insert"
               PROVE  Cents(refunds', Live) <= req'[g].sum
    BY DEF SumIsBound, Committed, Live
  <2>1. g # h /\ req'[g] = req[g] /\ req[g].step \in LockSteps
    BY <1>2, <1>3 DEF LockSteps
  <2>2. Cents(refunds, Live) <= req[g].sum
    BY <2>1 DEF IInv, SumIsBound, Committed, Live
  <2>3. Cents(refunds', Live) <= Cents(refunds, Live)
    BY <2>1
  <2>4. Cents(refunds', Live) \in Nat /\ Cents(refunds, Live) \in Nat
    BY CentsNat DEF IInv, TablesTyped
  <2>5. req[g].sum \in Nat
    BY DEF IInv, TablesTyped, Request
  <2> QED
    BY <2>1, <2>2, <2>3, <2>4, <2>5
<1>7. InHandIsOpen' /\ OneHand'
  BY <1>2, <1>3 DEF IInv, InHandIsOpen, OneHand
<1>8. TallyIsBound'
  <2> SUFFICES ASSUME NEW g \in Handlers, req'[g].step = "close"
               PROVE  req'[g].sum <= completedCents(g)'
    BY DEF TallyIsBound
  <2> DEFINE T == With(refunds, {"completed"}) \cup {req[g].refund}
             U == With(refunds', {"completed"}) \cup {req[g].refund}
  <2>1. g # h /\ req'[g] = req[g] /\ req[g].step \in HandSteps
    BY <1>2, <1>3 DEF HandSteps
  <2>2. req[g].sum <= Total(Amount(refunds), T)
    BY <2>1 DEF IInv, TallyIsBound, completedCents
  <2>3. Total(Amount(refunds), T) <= Total(Amount(refunds'), U)
    BY <2>1 DEF completedCents
  <2>4. T \in SUBSET DOMAIN refunds /\ U \in SUBSET DOMAIN refunds'
    BY <2>1 DEF IInv, InHandIsOpen, With
  <2>5. Total(Amount(refunds), T) \in Nat /\ Total(Amount(refunds'), U) \in Nat
    BY <2>4, RefundsWeigh DEF IInv, TablesTyped
  <2>6. req[g].sum \in Nat
    BY DEF IInv, TablesTyped, Request
  <2>7. completedCents(g)' = Total(Amount(refunds'), U)
    BY <2>1 DEF completedCents
  <2> QED
    BY <2>1, <2>2, <2>3, <2>5, <2>6, <2>7
<1> QED
  BY <1>4, <1>5, <1>6, <1>7, <1>8 DEF IInv

(***************************************************************************)
(* A refund that is taken up is open, and in nobody else's hands.          *)
(***************************************************************************)
LEMMA TakenUp ==
  ASSUME IInv, ~ shared', NEW h \in Handlers, NEW i \in DOMAIN refunds, TakesUp(h, i)
  PROVE  /\ i \in With(refunds, {"requested"}) /\ i \in Nat
         /\ \A g \in Handlers : req[g].step \in HandSteps => req[g].refund # i
<1>1. i \in With(refunds, {"requested"})
  BY DEF TakesUp, With
<1>2. i \in Nat
  BY LenProperties DEF IInv, TablesTyped
<1>3. ~ InHand(i)
  BY DEF TakesUp
<1> QED
  BY <1>1, <1>2, <1>3 DEF InHand, HandSteps

(***************************************************************************)
(* What a new arrival finds out is consistent.                             *)
(***************************************************************************)
LEMMA ArriveKeeps ==
  ASSUME IInv, ~ shared', NEW h \in Handlers, Arrive(h)
  PROVE  IInv'
<1> USE DEF Idle
<1>1. req[h] \in Request /\ req \in [Handlers -> Request] /\ order \in Order
  BY DEF IInv, TablesTyped
<1>2. ASSUME NEW a \in Amounts \cup {Rest}, RequestLock(h, a)
      PROVE  IInv'
  <2> DEFINE new == [req[h] EXCEPT !.step = "count", !.amount = a, !.copy = order]
  <2>1. new \in Request /\ new.step = "count" /\ new.copy = order
    BY <1>1 DEF Request, Step
  <2>2. \A g \in Handlers : req[g].step \notin LockSteps
    BY <1>2 DEF RequestLock, Locked, LockSteps
  <2>3. Consistent(h, new)
    BY <2>1, <2>2 DEF Consistent, HandSteps
  <2>4. req' = [req EXCEPT ![h] = new]
    BY <1>1, <1>2 DEF RequestLock
  <2> QED
    BY <1>2, <2>3, <2>4, ReadStep DEF RequestLock
<1>3. ASSUME NEW i \in DOMAIN refunds, CompleteFind(h, i)
      PROVE  IInv'
  <2> DEFINE new == [req[h] EXCEPT !.step = "load", !.refund = i]
  <2>1. /\ i \in With(refunds, {"requested"}) /\ i \in Nat
        /\ \A g \in Handlers : req[g].step \in HandSteps => req[g].refund # i
    BY <1>3, TakenUp DEF CompleteFind
  <2>2. new \in Request /\ new.step = "load" /\ new.refund = i
    BY <1>1, <2>1 DEF Request, Step
  <2>3. Consistent(h, new)
    BY <2>1, <2>2 DEF Consistent, LockSteps
  <2>4. req' = [req EXCEPT ![h] = new]
    BY <1>1, <1>3 DEF CompleteFind
  <2> QED
    BY <1>3, <2>3, <2>4, ReadStep DEF CompleteFind
<1>4. ASSUME NEW i \in DOMAIN refunds, RejectFind(h, i)
      PROVE  IInv'
  <2> DEFINE new == [req[h] EXCEPT !.step = "reject", !.refund = i]
  <2>1. /\ i \in With(refunds, {"requested"}) /\ i \in Nat
        /\ \A g \in Handlers : req[g].step \in HandSteps => req[g].refund # i
    BY <1>4, TakenUp DEF RejectFind
  <2>2. new \in Request /\ new.step = "reject" /\ new.refund = i
    BY <1>1, <2>1 DEF Request, Step
  <2>3. Consistent(h, new)
    BY <2>1, <2>2 DEF Consistent, LockSteps
  <2>4. req' = [req EXCEPT ![h] = new]
    BY <1>1, <1>4 DEF RejectFind
  <2> QED
    BY <1>4, <2>3, <2>4, ReadStep DEF RejectFind
<1>5. ASSUME NEW payment \in ByHand, MarkFind(h, payment)
      PROVE  IInv'
  <2> DEFINE new == [req[h] EXCEPT !.step = "save",
                                   !.copy = [order EXCEPT !.payment = payment]]
  <2>1. [order EXCEPT !.payment = payment] \in Order
    BY <1>1, ByHandAssumption DEF Order
  <2>2. new \in Request /\ new.step = "save"
    BY <1>1, <2>1 DEF Request, Step
  <2>3. Consistent(h, new)
    BY <2>2 DEF Consistent, LockSteps, HandSteps
  <2>4. req' = [req EXCEPT ![h] = new]
    BY <1>1, <1>5 DEF MarkFind
  <2> QED
    BY <1>5, <2>3, <2>4, ReadStep DEF MarkFind
<1> QED
  BY <1>2, <1>3, <1>4, <1>5 DEF Arrive

(***************************************************************************)
(* The reads of a handler at work are consistent too.                      *)
(***************************************************************************)
LEMMA ReadsKeep ==
  ASSUME IInv, NEW h \in Handlers,
         \/ RequestCount(h) \/ CompleteLoad(h) \/ CompleteWrite(h) \/ CompleteTally(h)
  PROVE  IInv'
<1>1. req[h] \in Request /\ req \in [Handlers -> Request] /\ order \in Order
  BY DEF IInv, TablesTyped
<1>2. ASSUME req[h].step \in HandSteps
      PROVE  /\ req[h].refund \in With(refunds, {"requested"})
             /\ \A g \in Handlers :
                  g # h /\ req[g].step \in HandSteps => req[g].refund # req[h].refund
  BY <1>2 DEF IInv, InHandIsOpen, OneHand
<1>3. CASE RequestCount(h)
  <2> DEFINE new == [req[h] EXCEPT !.step = "insert", !.sum = Committed]
  <2>1. Committed \in Nat
    BY CentsNat DEF IInv, TablesTyped, Committed
  <2>2. new \in Request /\ new.step = "insert" /\ new.sum = Committed /\ new.copy = req[h].copy
    BY <1>1, <2>1 DEF Request, Step
  <2>3. /\ req[h].copy = order
        /\ \A g \in Handlers : g # h => req[g].step \notin LockSteps
    BY <1>3 DEF RequestCount, IInv, CopyIsCurrent, OneLock, LockSteps
  <2>4. Consistent(h, new)
    BY <2>1, <2>2, <2>3 DEF Consistent, HandSteps
  <2>5. req' = [req EXCEPT ![h] = new]
    BY <1>1, <1>3 DEF RequestCount
  <2> QED
    BY <1>3, <2>4, <2>5, ReadStep DEF RequestCount
<1>4. CASE CompleteLoad(h)
  <2> DEFINE new == [req[h] EXCEPT !.step = "write", !.copy = order]
  <2>1. new \in Request /\ new.step = "write" /\ new.refund = req[h].refund
    BY <1>1 DEF Request, Step
  <2>2. Consistent(h, new)
    BY <1>2, <1>4, <2>1 DEF CompleteLoad, Consistent, HandSteps, LockSteps
  <2>3. req' = [req EXCEPT ![h] = new]
    BY <1>1, <1>4 DEF CompleteLoad
  <2> QED
    BY <1>4, <2>2, <2>3, ReadStep DEF CompleteLoad
<1>5. CASE CompleteWrite(h)
  <2> DEFINE new == [req[h] EXCEPT !.step = "tally"]
  <2>1. new \in Request /\ new.step = "tally" /\ new.refund = req[h].refund
    BY <1>1 DEF Request, Step
  <2>2. Consistent(h, new)
    BY <1>2, <1>5, <2>1 DEF CompleteWrite, Consistent, HandSteps, LockSteps
  <2>3. req' = [req EXCEPT ![h] = new]
    BY <1>1, <1>5 DEF CompleteWrite
  <2> QED
    BY <1>5, <2>2, <2>3, ReadStep DEF CompleteWrite
<1>6. CASE CompleteTally(h)
  <2> DEFINE new == [req[h] EXCEPT !.step = "close", !.sum = completedCents(h)]
  <2>1. req[h].step \in HandSteps
    BY <1>6 DEF CompleteTally, HandSteps
  <2>2. completedCents(h) \in Nat
    <3>1. With(refunds, {"completed"}) \cup {req[h].refund} \in SUBSET DOMAIN refunds
      BY <1>2, <2>1 DEF With
    <3> QED
      BY <3>1, RefundsWeigh DEF IInv, TablesTyped, completedCents
  <2>3. /\ new \in Request /\ new.step = "close" /\ new.refund = req[h].refund
        /\ new.sum = completedCents(h)
    BY <1>1, <2>2 DEF Request, Step
  <2>4. new.sum <= Total(Amount(refunds), With(refunds, {"completed"}) \cup {new.refund})
    BY <2>2, <2>3 DEF completedCents
  <2>5. Consistent(h, new)
    BY <1>2, <2>1, <2>3, <2>4 DEF Consistent, LockSteps
  <2>6. req' = [req EXCEPT ![h] = new]
    BY <1>1, <1>6 DEF CompleteTally
  <2> QED
    BY <1>6, <2>5, <2>6, ReadStep DEF CompleteTally
<1> QED
  BY <1>3, <1>4, <1>5, <1>6

(***************************************************************************)
(* The rules, as what one step may do.                                     *)
(***************************************************************************)
CapRule == Committed' > Committed => Committed' <= order'.total

ReturnRule ==
  /\ With(refunds, {"completed"})' # With(refunds, {"completed"})
  /\ order.payment # "refunded" /\ order'.payment = "refunded"
  => Cents(refunds', {"completed"}) >= order'.total

Rules == CapRule /\ ReturnRule

(***************************************************************************)
(* A step that leaves the refunds alone keeps the rules.                   *)
(***************************************************************************)
LEMMA IdleTable ==
  ASSUME IInv, UNCHANGED refunds
  PROVE  Rules
<1>1. Committed' = Committed /\ Committed \in Nat
  BY CentsNat DEF Committed, IInv, TablesTyped
<1>2. CapRule
  BY <1>1 DEF CapRule
<1>3. ReturnRule
  BY DEF ReturnRule, With
<1> QED
  BY <1>2, <1>3 DEF Rules

(***************************************************************************)
(* A request inserts what is left of the total at most: it owns the order  *)
(* row, so the total and the sum it compared still bound what is there.    *)
(***************************************************************************)
LEMMA InsertKeeps ==
  ASSUME IInv, NEW h \in Handlers, RequestInsert(h)
  PROVE  IInv' /\ Rules
<1> DEFINE x == [amount |-> Importe(h), status |-> "requested"]
           n == Cents(refunds, Live)
<1>1. /\ req[h] \in Request /\ req[h].step = "insert" /\ order \in Order
      /\ refunds \in Seq(Refund)
  BY DEF IInv, TablesTyped, RequestInsert
<1>2. /\ req[h].sum \in Nat /\ req[h].copy.total \in Nat /\ order.total \in Nat
      /\ req[h].amount \in Int \cup {Rest}
  BY <1>1, TotalsAssumption DEF Request, Order
<1>3. n \in Nat /\ n <= req[h].sum
  BY <1>1, CentsNat DEF IInv, SumIsBound, Committed, Live
<1>4. /\ req[h].copy = order
      /\ \A g \in Handlers : g # h => req[g].step \notin LockSteps
  BY <1>1 DEF IInv, CopyIsCurrent, OneLock, LockSteps
<1>5. Refundable(h) \in Nat /\ Importe(h) \in Int
  BY <1>2, RestAssumption DEF Refundable, Importe
<1>6. Importe(h) > 0 /\ Importe(h) <= Refundable(h)
  BY DEF RequestInsert, Accepted
<1>7. n + Importe(h) <= order.total
  BY <1>2, <1>3, <1>4, <1>5, <1>6 DEF Refundable
<1>8. x \in Refund /\ x.status = "requested" /\ x.amount = Importe(h)
  BY <1>5, <1>6 DEF Refund, RefundStatus
<1>9. refunds' = Append(refunds, x) /\ Done(h) /\ order' = order
  BY DEF RequestInsert
<1>10. /\ refunds' \in Seq(Refund)
       /\ Cents(refunds', Live) = n + Importe(h)
       /\ With(refunds', {"completed"}) = With(refunds, {"completed"})
       /\ With(refunds, {"requested"}) \subseteq With(refunds', {"requested"})
       /\ DOMAIN refunds \subseteq DOMAIN refunds'
       /\ \A i \in DOMAIN refunds : refunds'[i] = refunds[i]
  BY <1>1, <1>8, <1>9, AppendAdds
<1>11. ASSUME NEW g \in Handlers, g # h, req[g].step \in HandSteps
       PROVE  req[g].refund \in With(refunds', {"requested"})
  BY <1>10, <1>11 DEF IInv, InHandIsOpen
<1>12. ASSUME NEW g \in Handlers, g # h, req[g].step = "close"
       PROVE  completedCents(g) <=
                Total(Amount(refunds'), With(refunds', {"completed"}) \cup {req[g].refund})
  <2> DEFINE T == With(refunds, {"completed"}) \cup {req[g].refund}
  <2>1. T \in SUBSET DOMAIN refunds
    BY <1>12 DEF IInv, InHandIsOpen, HandSteps, With
  <2>2. \A i \in T : Amount(refunds)[i] = Amount(refunds')[i]
    BY <1>10, <2>1 DEF Amount
  <2>3. Total(Amount(refunds), T) = Total(Amount(refunds'), T)
    BY <2>2, TotalSame
  <2>4. Total(Amount(refunds), T) \in Nat
    BY <1>1, <2>1, RefundsWeigh
  <2>5. T = With(refunds', {"completed"}) \cup {req[g].refund}
    BY <1>10
  <2>6. completedCents(g) = Total(Amount(refunds), T)
    BY DEF completedCents
  <2> QED
    BY <2>3, <2>4, <2>5, <2>6
<1>13. IInv'
  BY <1>1, <1>4, <1>9, <1>10, <1>11, <1>12, WriteStep
<1>14. CapRule
  BY <1>7, <1>9, <1>10 DEF CapRule, Committed, Live
<1>15. ReturnRule
  BY <1>9 DEF ReturnRule
<1> QED
  BY <1>13, <1>14, <1>15 DEF Rules

(***************************************************************************)
(* A refund that is settled was open, so the sums of others stand.         *)
(***************************************************************************)
LEMMA SettleStep ==
  ASSUME IInv, NEW h \in Handlers, req[h].step \in HandSteps,
         NEW status \in {"completed", "rejected"}, Settle(h, status)
  PROVE  /\ refunds' \in Seq(Refund)
         /\ Cents(refunds', Live) <= Cents(refunds, Live)
         /\ \A g \in Handlers :
              g # h /\ req[g].step \in HandSteps =>
                req[g].refund \in With(refunds', {"requested"})
         /\ \A g \in Handlers :
              g # h /\ req[g].step = "close" =>
                completedCents(g) <=
                  Total(Amount(refunds'), With(refunds', {"completed"}) \cup {req[g].refund})
         /\ CapRule
         /\ status = "completed" =>
              Cents(refunds', {"completed"}) = completedCents(h)
         /\ status = "rejected" => ReturnRule
<1> DEFINE i == req[h].refund
<1>1. refunds \in Seq(Refund) /\ i \in With(refunds, {"requested"})
  BY DEF IInv, TablesTyped, InHandIsOpen
<1>2. refunds' = [refunds EXCEPT ![i].status = status]
  BY DEF Settle
<1>3. /\ refunds' \in Seq(Refund) /\ DOMAIN refunds' = DOMAIN refunds
      /\ Amount(refunds') = Amount(refunds)
      /\ Cents(refunds', Live) <= Cents(refunds, Live)
      /\ \A j \in DOMAIN refunds : j # i => refunds'[j] = refunds[j]
      /\ With(refunds', {"requested"}) = With(refunds, {"requested"}) \ {i}
      /\ status = "completed" =>
           With(refunds', {"completed"}) = With(refunds, {"completed"}) \cup {i}
      /\ status = "rejected" => With(refunds', {"completed"}) = With(refunds, {"completed"})
  <2>1. i \in DOMAIN refunds
    BY <1>1 DEF With
  <2>2. SettledAs(refunds, refunds', i, status)
    BY <1>1, <1>2, <2>1 DEF SettledAs
  <2>3. Unharmed(refunds, refunds', i, status)
    BY <1>1, <2>2, SettleKeeps
  <2> QED
    BY <2>3 DEF Unharmed
<1>4. ASSUME NEW g \in Handlers, g # h, req[g].step \in HandSteps
      PROVE  req[g].refund \in With(refunds', {"requested"})
  <2>1. req[g].refund # i
    BY <1>4 DEF IInv, OneHand
  <2> QED
    BY <1>3, <1>4, <2>1 DEF IInv, InHandIsOpen
<1>5. ASSUME NEW g \in Handlers, g # h, req[g].step = "close"
      PROVE  completedCents(g) <=
               Total(Amount(refunds'), With(refunds', {"completed"}) \cup {req[g].refund})
  <2> DEFINE T == With(refunds, {"completed"}) \cup {req[g].refund}
             U == With(refunds', {"completed"}) \cup {req[g].refund}
  <2>1. req[g].refund \in DOMAIN refunds
    BY <1>5 DEF IInv, InHandIsOpen, HandSteps, With
  <2>2. U \in SUBSET DOMAIN refunds /\ T \in SUBSET U
    BY <1>3, <2>1 DEF With
  <2>3. Total(Amount(refunds), T) <= Total(Amount(refunds), U)
    BY <1>1, <2>2, TotalGrows
  <2> QED
    BY <1>3, <2>3 DEF completedCents
<1>6. CapRule
  <2>1. Cents(refunds', Live) \in Nat /\ Cents(refunds, Live) \in Nat
    BY <1>1, <1>3, CentsNat
  <2> QED
    BY <1>3, <2>1 DEF CapRule, Committed, Live
<1>7. status = "completed" => Cents(refunds', {"completed"}) = completedCents(h)
  BY <1>3 DEF Cents, completedCents
<1>8. status = "rejected" => ReturnRule
  BY <1>3 DEF ReturnRule, With
<1> QED
  BY <1>3, <1>4, <1>5, <1>6, <1>7, <1>8

(***************************************************************************)
(* Completing a refund: the order it writes shows a total that has been    *)
(* returned, for what it summed up has not shrunk since.                   *)
(***************************************************************************)
LEMMA CloseKeeps ==
  ASSUME IInv, NEW h \in Handlers, CompleteClose(h)
  PROVE  IInv' /\ Rules
<1>1. /\ req[h] \in Request /\ req[h].step \in HandSteps /\ order \in Order
      /\ req[h].step = "close" /\ Settle(h, "completed") /\ Done(h)
  BY DEF IInv, TablesTyped, CompleteClose, HandSteps
<1>2. \A g \in Handlers : req[g].step \notin LockSteps
  BY DEF CompleteClose, Locked, LockSteps
<1>3. /\ order' \in Order
      /\ order' # order => order'.total = req[h].copy.total /\ req[h].sum >= order'.total
  BY <1>1 DEF CompleteClose, Request, Order, PaymentStatus
<1>4. /\ refunds' \in Seq(Refund)
      /\ \A g \in Handlers :
           g # h /\ req[g].step \in HandSteps =>
             req[g].refund \in With(refunds', {"requested"})
      /\ \A g \in Handlers :
           g # h /\ req[g].step = "close" =>
             completedCents(g) <=
               Total(Amount(refunds'), With(refunds', {"completed"}) \cup {req[g].refund})
      /\ CapRule
      /\ Cents(refunds', {"completed"}) = completedCents(h)
  BY <1>1, SettleStep
<1>5. IInv'
  BY <1>1, <1>2, <1>3, <1>4, WriteStep
<1>6. ReturnRule
  <2> SUFFICES ASSUME order.payment # "refunded", order'.payment = "refunded"
               PROVE  Cents(refunds', {"completed"}) >= order'.total
    BY DEF ReturnRule
  <2>1. req[h].sum >= order'.total
    BY <1>3
  <2>2. req[h].sum <= completedCents(h)
    BY <1>1 DEF IInv, TallyIsBound
  <2>3. Cents(refunds', {"completed"}) \in Nat
    BY <1>4, CentsNat
  <2>4. req[h].sum \in Nat /\ order'.total \in Nat
    BY <1>1, <1>3 DEF Request, Order
  <2> QED
    BY <1>4, <2>1, <2>2, <2>3, <2>4
<1> QED
  BY <1>4, <1>5, <1>6 DEF Rules

(***************************************************************************)
(* Rejecting a refund.                                                     *)
(***************************************************************************)
LEMMA RejectKeeps ==
  ASSUME IInv, NEW h \in Handlers, RejectSave(h)
  PROVE  IInv' /\ Rules
<1>1. /\ req[h].step \in HandSteps /\ order \in Order /\ order' = order
      /\ Settle(h, "rejected") /\ Done(h)
  BY DEF IInv, TablesTyped, RejectSave, HandSteps
<1>2. /\ refunds' \in Seq(Refund)
      /\ Cents(refunds', Live) <= Cents(refunds, Live)
      /\ \A g \in Handlers :
           g # h /\ req[g].step \in HandSteps =>
             req[g].refund \in With(refunds', {"requested"})
      /\ \A g \in Handlers :
           g # h /\ req[g].step = "close" =>
             completedCents(g) <=
               Total(Amount(refunds'), With(refunds', {"completed"}) \cup {req[g].refund})
      /\ CapRule /\ ReturnRule
  BY <1>1, SettleStep
<1>3. IInv'
  BY <1>1, <1>2, WriteStep
<1> QED
  BY <1>2, <1>3 DEF Rules

(***************************************************************************)
(* The steps that end without touching the refunds.                        *)
(***************************************************************************)
LEMMA OrderWritesKeep ==
  ASSUME IInv, NEW h \in Handlers, RequestRefused(h) \/ MarkSave(h)
  PROVE  IInv' /\ Rules
<1>1. /\ req[h] \in Request /\ order \in Order /\ refunds \in Seq(Refund)
      /\ refunds' = refunds /\ Done(h)
  BY DEF IInv, TablesTyped, RequestRefused, MarkSave
<1>2. order' \in Order
  BY <1>1 DEF RequestRefused, MarkSave, Request
<1>3. Cents(refunds, Live) \in Nat
  BY <1>1, CentsNat
<1>4. \/ order' = order /\ Cents(refunds', Live) <= Cents(refunds, Live)
      \/ \A g \in Handlers : g # h => req[g].step \notin LockSteps
  <2>1. CASE RequestRefused(h)
    BY <1>1, <1>3, <2>1 DEF RequestRefused
  <2>2. CASE MarkSave(h)
    BY <2>2 DEF MarkSave, Locked, LockSteps
  <2> QED
    BY <2>1, <2>2
<1>5. \A g \in Handlers :
        g # h /\ req[g].step \in HandSteps =>
          req[g].refund \in With(refunds', {"requested"})
  BY <1>1 DEF IInv, InHandIsOpen
<1>6. ASSUME NEW g \in Handlers, g # h, req[g].step = "close"
      PROVE  completedCents(g) <=
               Total(Amount(refunds'), With(refunds', {"completed"}) \cup {req[g].refund})
  <2> DEFINE T == With(refunds, {"completed"}) \cup {req[g].refund}
  <2>1. T \in SUBSET DOMAIN refunds
    BY <1>6 DEF IInv, InHandIsOpen, HandSteps, With
  <2>2. Total(Amount(refunds), T) \in Nat
    BY <1>1, <2>1, RefundsWeigh
  <2>3. completedCents(g) = Total(Amount(refunds), T)
    BY DEF completedCents
  <2> QED
    BY <1>1, <2>2, <2>3
<1>7. IInv'
  BY <1>1, <1>2, <1>4, <1>5, <1>6, WriteStep
<1> QED
  BY <1>1, <1>7, IdleTable

(***************************************************************************)
(* An edit of the lines finds no request at work.                          *)
(***************************************************************************)
LEMMA EditKeeps ==
  ASSUME IInv, NEW total \in Totals, EditTotal(total)
  PROVE  IInv' /\ Rules
<1>1. /\ order \in Order /\ total \in Nat /\ req' = req /\ refunds' = refunds
      /\ \A g \in Handlers : req[g].step \notin LockSteps
  BY TotalsAssumption DEF IInv, TablesTyped, EditTotal, Locked, LockSteps
<1>2. order' \in Order
  BY <1>1 DEF EditTotal, Order
<1>3. TablesTyped'
  BY <1>1, <1>2 DEF IInv, TablesTyped
<1>4. OneLock' /\ CopyIsCurrent' /\ SumIsBound'
  BY <1>1 DEF IInv, OneLock, CopyIsCurrent, SumIsBound, LockSteps
<1>5. InHandIsOpen' /\ OneHand' /\ TallyIsBound'
  BY <1>1 DEF IInv, InHandIsOpen, OneHand, TallyIsBound, completedCents
<1> QED
  BY <1>1, <1>3, <1>4, <1>5, IdleTable DEF IInv

-----------------------------------------------------------------------------
(* The theorems *)

(***************************************************************************)
(* An order without refunds satisfies the invariant.                       *)
(***************************************************************************)
LEMMA InitKeeps ==
  ASSUME Init
  PROVE  IInv
<1>1. order \in Order /\ refunds \in Seq(Refund)
  BY TotalsAssumption, EmptySeq DEF Init, Order, PaymentStatus
<1>2. NoRequest \in Request /\ NoRequest.step = "idle"
  BY DEF NoRequest, Request, Step, Order, PaymentStatus
<1>3. req \in [Handlers -> Request] /\ \A h \in Handlers : req[h].step = "idle"
  BY <1>2 DEF Init
<1> QED
  BY <1>1, <1>3 DEF IInv, TablesTyped, OneLock, CopyIsCurrent, SumIsBound, InHandIsOpen,
                    OneHand, TallyIsBound, LockSteps, HandSteps

(***************************************************************************)
(* Every step keeps the invariant and the rules.                           *)
(***************************************************************************)
LEMMA NextKeeps ==
  ASSUME IInv, ~ shared', [Next]_vars
  PROVE  IInv' /\ Rules
<1>1. ASSUME NEW h \in Handlers, Arrive(h)
      PROVE  IInv' /\ Rules
  <2>1. refunds' = refunds
    BY <1>1 DEF Arrive, RequestLock, CompleteFind, RejectFind, MarkFind
  <2> QED
    BY <1>1, <2>1, ArriveKeeps, IdleTable
<1>2. ASSUME NEW h \in Handlers, Proceed(h)
      PROVE  IInv' /\ Rules
  <2>1. CASE RequestCount(h) \/ CompleteLoad(h) \/ CompleteWrite(h) \/ CompleteTally(h)
    <3>1. refunds' = refunds
      BY <2>1 DEF RequestCount, CompleteLoad, CompleteWrite, CompleteTally
    <3> QED
      BY <2>1, <3>1, ReadsKeep, IdleTable
  <2>2. CASE RequestInsert(h)
    BY <2>2, InsertKeeps
  <2>3. CASE CompleteClose(h)
    BY <2>3, CloseKeeps
  <2>4. CASE RejectSave(h)
    BY <2>4, RejectKeeps
  <2>5. CASE RequestRefused(h) \/ MarkSave(h)
    BY <2>5, OrderWritesKeep
  <2> QED
    BY <1>2, <2>1, <2>2, <2>3, <2>4, <2>5 DEF Proceed
<1>3. ASSUME NEW total \in Totals, EditTotal(total)
      PROVE  IInv' /\ Rules
  BY <1>3, EditKeeps
<1>4. CASE UNCHANGED vars
  <2>1. order' = order /\ refunds' = refunds /\ req' = req
    BY <1>4 DEF vars
  <2>2. IInv'
    BY <2>1 DEF IInv, TablesTyped, OneLock, CopyIsCurrent, SumIsBound, Committed,
                InHandIsOpen, OneHand, TallyIsBound, completedCents
  <2> QED
    BY <2>1, <2>2, IdleTable
<1> QED
  BY <1>1, <1>2, <1>3, <1>4 DEF Next

(***************************************************************************)
(* What has been in two pairs of hands has been for ever.                  *)
(***************************************************************************)
LEMMA SharedStays ==
  ASSUME [Next]_vars, shared
  PROVE  shared'
BY DEF Next, vars, Arrive, Proceed, RequestLock, RequestCount, RequestInsert, RequestRefused,
       CompleteFind, CompleteLoad, CompleteWrite, CompleteTally, CompleteClose, RejectFind,
       RejectSave, MarkFind, MarkSave, EditTotal, TakesUp

AloneInv == shared \/ IInv

LEMMA AloneStep ==
  ASSUME AloneInv, [Next]_vars
  PROVE  AloneInv' /\ (~ shared' => Rules)
BY SharedStays, NextKeeps DEF AloneInv

(***************************************************************************)
(* Until two handlers have one refund in hand, they keep the type of their *)
(* tables and the invariant above.                                         *)
(***************************************************************************)
THEOREM RefundsInvariant == Spec => []AloneInv
<1>1. Init => AloneInv
  BY InitKeeps DEF AloneInv
<1>2. AloneInv /\ [Next]_vars => AloneInv'
  BY AloneStep
<1> QED
  BY <1>1, <1>2, PTL DEF Spec

(***************************************************************************)
(* Until two handlers have one refund in hand, never is more promised or   *)
(* returned than the total of the order: request holds its cap whatever    *)
(* edits, corrections and completions overlap it.                          *)
(***************************************************************************)
THEOREM CapHolds == Spec => WithinCap
<1>1. AloneInv /\ [Next]_vars =>
        [~ shared' /\ Committed' > Committed => Committed' <= order'.total]_vars
  BY AloneStep DEF Rules, CapRule
<1> QED
  BY <1>1, RefundsInvariant, PTL DEF Spec, WithinCap

(***************************************************************************)
(* Until then an order that complete turns refunded has got its total back.*)
(***************************************************************************)
THEOREM RefundedIsReturned == Spec => RefundedMeansReturned
<1>1. AloneInv /\ [Next]_vars =>
        [/\ ~ shared'
         /\ With(refunds, {"completed"})' # With(refunds, {"completed"})
         /\ order.payment # "refunded" /\ order'.payment = "refunded"
         => Cents(refunds', {"completed"}) >= order'.total]_vars
  BY AloneStep DEF Rules, ReturnRule
<1> QED
  BY <1>1, RefundsInvariant, PTL DEF Spec, RefundedMeansReturned

-----------------------------------------------------------------------------
(* Two handlers on one refund *)

HandIsRefund ==
  \A h \in Handlers : req[h].step \in HandSteps => req[h].refund \in DOMAIN refunds

(***************************************************************************)
(* What the lock of request keeps, also when completions and rejections of *)
(* one refund overlap: nobody adds to what is committed while it is held.  *)
(***************************************************************************)
LockInv == TablesTyped /\ OneLock /\ CopyIsCurrent /\ SumIsBound /\ HandIsRefund

(***************************************************************************)
(* Handler h goes on to new.  Who owns the order row finds the order as it *)
(* was, and no more committed than before.                                 *)
(***************************************************************************)
LEMMA LockStands ==
  ASSUME LockInv, NEW h \in Handlers, NEW new \in Request,
         req' = [req EXCEPT ![h] = new], order' \in Order,
         refunds' \in Seq(Refund), DOMAIN refunds \subseteq DOMAIN refunds',
         new.step \in LockSteps =>
           new.copy = order' /\ \A g \in Handlers : g # h => req[g].step \notin LockSteps,
         new.step = "insert" => Committed' <= new.sum,
         new.step \in HandSteps => new.refund \in DOMAIN refunds,
         \/ order' = order /\ Committed' <= Committed
         \/ \A g \in Handlers : g # h => req[g].step \notin LockSteps
  PROVE  LockInv'
<1>1. /\ req'[h] = new /\ \A g \in Handlers : g # h => req'[g] = req[g]
      /\ req' \in [Handlers -> Request]
  BY DEF LockInv, TablesTyped
<1>2. TablesTyped'
  BY <1>1 DEF TablesTyped
<1>3. OneLock'
  BY <1>1 DEF LockInv, OneLock
<1>4. CopyIsCurrent'
  BY <1>1 DEF LockInv, CopyIsCurrent
<1>5. SumIsBound'
  <2> SUFFICES ASSUME NEW g \in Handlers, req'[g].step = "insert"
               PROVE  Committed' <= req'[g].sum
    BY DEF SumIsBound
  <2>1. CASE g = h
    BY <1>1, <2>1
  <2>2. CASE g # h
    <3>1. req'[g] = req[g] /\ req[g].step = "insert" /\ req[g].step \in LockSteps
      BY <1>1, <2>2 DEF LockSteps
    <3>2. Committed' <= Committed /\ Committed <= req[g].sum
      BY <2>2, <3>1 DEF LockInv, SumIsBound
    <3>3. Committed' \in Nat /\ Committed \in Nat
      BY CentsNat DEF LockInv, TablesTyped, Committed
    <3>4. req[g].sum \in Nat
      BY DEF LockInv, TablesTyped, Request
    <3> QED
      BY <3>1, <3>2, <3>3, <3>4
  <2> QED
    BY <2>1, <2>2
<1>6. HandIsRefund'
  BY <1>1 DEF LockInv, HandIsRefund
<1> QED
  BY <1>2, <1>3, <1>4, <1>5, <1>6 DEF LockInv

FitRule == Len(refunds') > Len(refunds) => Committed' <= order'.total

(***************************************************************************)
(* A step that neither writes nor inserts.                                 *)
(***************************************************************************)
LEMMA SameTables ==
  ASSUME LockInv, UNCHANGED <<order, refunds>>
  PROVE  /\ Committed' = Committed /\ Committed' <= Committed /\ FitRule
         /\ order' \in Order /\ refunds' \in Seq(Refund)
         /\ DOMAIN refunds \subseteq DOMAIN refunds'
<1>1. Committed' = Committed /\ Committed \in Nat /\ Len(refunds) \in Nat
  BY CentsNat, LenProperties DEF LockInv, TablesTyped, Committed
<1> QED
  BY <1>1 DEF FitRule, LockInv, TablesTyped

(***************************************************************************)
(* A refund gets a status, whatever it had.                                *)
(***************************************************************************)
LEMMA SettleAny ==
  ASSUME LockInv, NEW h \in Handlers, req[h].step \in HandSteps,
         NEW status \in {"completed", "rejected"}, Settle(h, status)
  PROVE  /\ refunds' \in Seq(Refund)
         /\ DOMAIN refunds \subseteq DOMAIN refunds'
         /\ Len(refunds') = Len(refunds) /\ Len(refunds) \in Nat
         /\ status = "rejected" => Committed' <= Committed
<1> DEFINE i == req[h].refund
<1>1. /\ DOMAIN refunds = 1 .. Len(refunds) /\ Len(refunds) \in Nat
      /\ refunds \in Seq(Refund) /\ i \in DOMAIN refunds
      /\ \A j \in DOMAIN refunds : refunds[j] \in Refund
  BY LenProperties, ElementOfSeq DEF LockInv, TablesTyped, HandIsRefund
<1>2. /\ refunds' = [refunds EXCEPT ![i].status = status]
      /\ DOMAIN refunds' = DOMAIN refunds
      /\ \A j \in DOMAIN refunds : j # i => refunds'[j] = refunds[j]
      /\ refunds'[i] = [refunds[i] EXCEPT !.status = status]
  BY <1>1 DEF Settle
<1>3. refunds'[i] \in Refund /\ refunds'[i].amount = refunds[i].amount
      /\ refunds'[i].status = status
  BY <1>1, <1>2 DEF Refund, RefundStatus
<1>4. refunds' \in Seq(Refund)
  <2>1. \A j \in 1 .. Len(refunds) : refunds'[j] \in Refund
    BY <1>1, <1>2, <1>3
  <2>2. refunds' = [j \in 1 .. Len(refunds) |-> refunds'[j]]
    BY <1>1, <1>2
  <2> QED
    BY <1>1, <2>1, <2>2, IsASeq
<1>5. Len(refunds') = Len(refunds)
  BY <1>1, <1>2, <1>4, LenProperties
<1>6. ASSUME status = "rejected"
      PROVE  Committed' <= Committed
  <2>1. Amount(refunds') = Amount(refunds)
    BY <1>2, <1>3 DEF Amount
  <2>2. With(refunds', Live) \in SUBSET With(refunds, Live)
    BY <1>2, <1>3, <1>6 DEF With, Live
  <2>3. With(refunds, Live) \in SUBSET DOMAIN refunds
    BY DEF With
  <2>4. Total(Amount(refunds), With(refunds', Live)) <= Total(Amount(refunds), With(refunds, Live))
    BY <1>1, <2>2, <2>3, TotalGrows
  <2> QED
    BY <2>1, <2>4 DEF Committed, Cents, Live
<1> QED
  BY <1>1, <1>2, <1>4, <1>5, <1>6

(***************************************************************************)
(* Every step of a handler keeps what the lock keeps.                      *)
(***************************************************************************)
LEMMA LockArrive ==
  ASSUME LockInv, NEW h \in Handlers, Arrive(h)
  PROVE  LockInv' /\ FitRule
<1>1. req[h] \in Request /\ req \in [Handlers -> Request] /\ order \in Order
      /\ refunds \in Seq(Refund)
  BY DEF LockInv, TablesTyped
<1>2. UNCHANGED <<order, refunds>>
  BY DEF Arrive, RequestLock, CompleteFind, RejectFind, MarkFind
<1>3. /\ Committed' = Committed /\ Committed' <= Committed /\ FitRule
      /\ order' \in Order /\ refunds' \in Seq(Refund)
      /\ DOMAIN refunds \subseteq DOMAIN refunds'
  BY <1>2, SameTables
<1>4. ASSUME NEW a \in Amounts \cup {Rest}, RequestLock(h, a)
      PROVE  LockInv'
  <2> DEFINE new == [req[h] EXCEPT !.step = "count", !.amount = a, !.copy = order]
  <2>1. new \in Request /\ new.step = "count" /\ new.copy = order'
    BY <1>1, <1>2 DEF Request, Step
  <2>2. \A g \in Handlers : req[g].step \notin LockSteps
    BY <1>4 DEF RequestLock, Locked, LockSteps
  <2>3. req' = [req EXCEPT ![h] = new]
    BY <1>1, <1>4 DEF RequestLock
  <2>4. new.step \notin HandSteps /\ new.step # "insert"
    BY <2>1 DEF HandSteps
  <2> HIDE DEF new
  <2> QED
    BY <1>2, <1>3, <2>1, <2>2, <2>3, <2>4, LockStands
<1>5. ASSUME NEW i \in DOMAIN refunds, NEW step \in {"load", "reject"},
             req' = [req EXCEPT ![h].step = step, ![h].refund = i]
      PROVE  LockInv'
  <2> DEFINE new == [req[h] EXCEPT !.step = step, !.refund = i]
  <2>1. i \in Nat
    BY <1>1, LenProperties
  <2>2. new \in Request /\ new.step = step /\ new.refund = i
    BY <1>1, <2>1 DEF Request, Step
  <2>3. req' = [req EXCEPT ![h] = new]
    BY <1>1, <1>5
  <2>4. new.step \notin LockSteps /\ new.step # "insert"
    BY <2>2 DEF LockSteps
  <2> HIDE DEF new
  <2> QED
    BY <1>2, <1>3, <2>2, <2>3, <2>4, LockStands
<1>6. ASSUME NEW payment \in ByHand, MarkFind(h, payment)
      PROVE  LockInv'
  <2> DEFINE new == [req[h] EXCEPT !.step = "save",
                                   !.copy = [order EXCEPT !.payment = payment]]
  <2>1. [order EXCEPT !.payment = payment] \in Order
    BY <1>1, ByHandAssumption DEF Order
  <2>2. new \in Request /\ new.step = "save"
    BY <1>1, <2>1 DEF Request, Step
  <2>3. req' = [req EXCEPT ![h] = new]
    BY <1>1, <1>6 DEF MarkFind
  <2>4. new.step \notin LockSteps \cup HandSteps /\ new.step # "insert"
    BY <2>2 DEF LockSteps, HandSteps
  <2> HIDE DEF new
  <2> QED
    BY <1>2, <1>3, <2>2, <2>3, <2>4, LockStands
<1> QED
  BY <1>3, <1>4, <1>5, <1>6 DEF Arrive, CompleteFind, RejectFind

(***************************************************************************)
(* The reads of a handler at work: request counts what is committed under  *)
(* its lock; complete reads the order and sums what has been returned.     *)
(***************************************************************************)
LEMMA LockReads ==
  ASSUME LockInv, NEW h \in Handlers,
         \/ RequestCount(h) \/ CompleteLoad(h) \/ CompleteWrite(h) \/ CompleteTally(h)
  PROVE  LockInv' /\ FitRule
<1>1. req[h] \in Request /\ req \in [Handlers -> Request] /\ order \in Order
      /\ refunds \in Seq(Refund)
  BY DEF LockInv, TablesTyped
<1>2. UNCHANGED <<order, refunds>>
  BY DEF RequestCount, CompleteLoad, CompleteWrite, CompleteTally
<1>3. /\ Committed' = Committed /\ Committed' <= Committed /\ FitRule
      /\ order' \in Order /\ refunds' \in Seq(Refund)
      /\ DOMAIN refunds \subseteq DOMAIN refunds'
  BY <1>2, SameTables
<1>4. Committed \in Nat
  BY <1>1, CentsNat DEF Committed
<1>5. CASE RequestCount(h)
  <2> DEFINE new == [req[h] EXCEPT !.step = "insert", !.sum = Committed]
  <2>1. /\ new \in Request /\ new.step = "insert" /\ new.sum = Committed
        /\ new.copy = req[h].copy
    BY <1>1, <1>4 DEF Request, Step
  <2>2. /\ req[h].copy = order
        /\ \A g \in Handlers : g # h => req[g].step \notin LockSteps
    BY <1>5 DEF RequestCount, LockInv, CopyIsCurrent, OneLock, LockSteps
  <2>3. req' = [req EXCEPT ![h] = new]
    BY <1>1, <1>5 DEF RequestCount
  <2>4. new.step \notin HandSteps
    BY <2>1 DEF HandSteps
  <2>5. Committed' <= new.sum
    BY <1>3, <1>4, <2>1
  <2> HIDE DEF new
  <2> QED
    BY <1>2, <1>3, <2>1, <2>2, <2>3, <2>4, <2>5, LockStands
<1>6. ASSUME NEW new \in Request, req[h].step \in HandSteps, new.refund = req[h].refund,
             new.step \in HandSteps, req' = [req EXCEPT ![h] = new]
      PROVE  LockInv'
  <2>1. new.step \notin LockSteps /\ new.step # "insert"
    BY <1>6 DEF LockSteps, HandSteps
  <2>2. new.refund \in DOMAIN refunds
    BY <1>6 DEF LockInv, HandIsRefund
  <2> QED
    BY <1>2, <1>3, <1>6, <2>1, <2>2, LockStands
<1>7. CASE CompleteLoad(h)
  <2> DEFINE new == [req[h] EXCEPT !.step = "write", !.copy = order]
  <2>1. new \in Request /\ new.step = "write" /\ new.refund = req[h].refund
    BY <1>1 DEF Request, Step
  <2>2. req' = [req EXCEPT ![h] = new] /\ req[h].step = "load"
    BY <1>1, <1>7 DEF CompleteLoad
  <2> HIDE DEF new
  <2> QED
    BY <1>3, <1>6, <2>1, <2>2 DEF HandSteps
<1>8. CASE CompleteWrite(h)
  <2> DEFINE new == [req[h] EXCEPT !.step = "tally"]
  <2>1. new \in Request /\ new.step = "tally" /\ new.refund = req[h].refund
    BY <1>1 DEF Request, Step
  <2>2. req' = [req EXCEPT ![h] = new] /\ req[h].step = "write"
    BY <1>1, <1>8 DEF CompleteWrite
  <2> HIDE DEF new
  <2> QED
    BY <1>3, <1>6, <2>1, <2>2 DEF HandSteps
<1>9. CASE CompleteTally(h)
  <2> DEFINE new == [req[h] EXCEPT !.step = "close", !.sum = completedCents(h)]
  <2>1. req[h].step = "tally" /\ req[h].refund \in DOMAIN refunds
    BY <1>9 DEF CompleteTally, HandSteps, LockInv, HandIsRefund
  <2>2. completedCents(h) \in Nat
    <3>1. With(refunds, {"completed"}) \cup {req[h].refund} \in SUBSET DOMAIN refunds
      BY <2>1 DEF With
    <3> QED
      BY <1>1, <3>1, RefundsWeigh DEF completedCents
  <2>3. new \in Request /\ new.step = "close" /\ new.refund = req[h].refund
    BY <1>1, <2>2 DEF Request, Step
  <2>4. req' = [req EXCEPT ![h] = new]
    BY <1>1, <1>9 DEF CompleteTally
  <2> HIDE DEF new
  <2> QED
    BY <1>3, <1>6, <2>1, <2>3, <2>4 DEF HandSteps
<1> QED
  BY <1>3, <1>5, <1>7, <1>8, <1>9

(***************************************************************************)
(* The last step of a handler: what a request inserts fits; a completion   *)
(* and a payment status set by hand wait for the lock; a rejection can     *)
(* only lower what is committed.                                           *)
(***************************************************************************)
LEMMA LockEnds ==
  ASSUME LockInv, NEW h \in Handlers,
         \/ RequestInsert(h) \/ RequestRefused(h) \/ CompleteClose(h)
         \/ RejectSave(h) \/ MarkSave(h)
  PROVE  LockInv' /\ FitRule
<1>1. req[h] \in Request /\ req \in [Handlers -> Request] /\ order \in Order
      /\ refunds \in Seq(Refund)
  BY DEF LockInv, TablesTyped
<1>2. req' = [req EXCEPT ![h] = NoRequest]
  BY DEF RequestInsert, RequestRefused, CompleteClose, RejectSave, MarkSave, Done
<1>3. NoRequest \in Request /\ NoRequest.step = "idle"
  BY DEF NoRequest, Request, Step, Order, PaymentStatus
<1>4. NoRequest.step \notin LockSteps \cup HandSteps /\ NoRequest.step # "insert"
  BY <1>3 DEF LockSteps, HandSteps
<1>5. Committed \in Nat /\ DOMAIN refunds = 1 .. Len(refunds) /\ Len(refunds) \in Nat
  BY <1>1, CentsNat, LenProperties DEF Committed
<1>6. CASE RequestInsert(h)
  <2> DEFINE x == [amount |-> Importe(h), status |-> "requested"]
  <2>1. req[h].step = "insert" /\ req[h].step \in LockSteps
    BY <1>6 DEF RequestInsert, LockSteps
  <2>2. /\ req[h].sum \in Nat /\ req[h].copy.total \in Nat /\ order.total \in Nat
        /\ req[h].amount \in Int \cup {Rest}
    BY <1>1, TotalsAssumption DEF Request, Order
  <2>3. /\ Committed <= req[h].sum /\ req[h].copy = order
        /\ \A g \in Handlers : g # h => req[g].step \notin LockSteps
    BY <2>1 DEF LockInv, SumIsBound, CopyIsCurrent, OneLock
  <2>4. Refundable(h) \in Nat /\ Importe(h) \in Int
    BY <2>2, RestAssumption DEF Refundable, Importe
  <2>5. Importe(h) > 0 /\ Importe(h) <= Refundable(h)
    BY <1>6 DEF RequestInsert, Accepted
  <2>6. Committed + Importe(h) <= order.total
    BY <1>5, <2>2, <2>3, <2>4, <2>5 DEF Refundable
  <2>7. x \in Refund /\ x.status = "requested" /\ x.amount = Importe(h)
    BY <2>4, <2>5 DEF Refund, RefundStatus
  <2>8. refunds' = Append(refunds, x) /\ order' = order
    BY <1>6 DEF RequestInsert
  <2>9. /\ refunds' \in Seq(Refund) /\ DOMAIN refunds \subseteq DOMAIN refunds'
        /\ Cents(refunds', Live) = Cents(refunds, Live) + Importe(h)
    BY <1>1, <2>7, <2>8, AppendAdds
  <2>10. Committed' <= order'.total
    BY <2>6, <2>8, <2>9 DEF Committed, Live
  <2>11. LockInv'
    BY <1>1, <1>2, <1>3, <1>4, <2>3, <2>8, <2>9, LockStands
  <2> QED
    BY <2>10, <2>11 DEF FitRule
<1>7. CASE RequestRefused(h)
  <2>1. UNCHANGED <<order, refunds>>
    BY <1>7 DEF RequestRefused
  <2> QED
    BY <1>2, <1>3, <1>4, <2>1, SameTables, LockStands
<1>8. CASE CompleteClose(h)
  <2>1. req[h].step \in HandSteps /\ Settle(h, "completed")
    BY <1>8 DEF CompleteClose, HandSteps
  <2>2. \A g \in Handlers : req[g].step \notin LockSteps
    BY <1>8 DEF CompleteClose, Locked, LockSteps
  <2>3. order' \in Order
    BY <1>1, <1>8 DEF CompleteClose, Request, Order, PaymentStatus
  <2>4. /\ refunds' \in Seq(Refund) /\ DOMAIN refunds \subseteq DOMAIN refunds'
        /\ Len(refunds') = Len(refunds)
    BY <2>1, SettleAny
  <2>5. LockInv'
    BY <1>2, <1>3, <1>4, <2>2, <2>3, <2>4, LockStands
  <2> QED
    BY <1>5, <2>4, <2>5 DEF FitRule
<1>9. CASE RejectSave(h)
  <2>1. req[h].step \in HandSteps /\ Settle(h, "rejected") /\ order' = order
    BY <1>9 DEF RejectSave, HandSteps
  <2>2. /\ refunds' \in Seq(Refund) /\ DOMAIN refunds \subseteq DOMAIN refunds'
        /\ Len(refunds') = Len(refunds) /\ Committed' <= Committed
    BY <2>1, SettleAny
  <2>3. LockInv'
    BY <1>1, <1>2, <1>3, <1>4, <2>1, <2>2, LockStands
  <2> QED
    BY <1>5, <2>2, <2>3 DEF FitRule
<1>10. CASE MarkSave(h)
  <2>1. /\ refunds' = refunds /\ order' = req[h].copy
        /\ \A g \in Handlers : req[g].step \notin LockSteps
    BY <1>10 DEF MarkSave, Locked, LockSteps
  <2>2. order' \in Order
    BY <1>1, <2>1 DEF Request
  <2>3. LockInv'
    BY <1>1, <1>2, <1>3, <1>4, <2>1, <2>2, LockStands
  <2> QED
    BY <1>5, <2>1, <2>3 DEF FitRule
<1> QED
  BY <1>6, <1>7, <1>8, <1>9, <1>10

(***************************************************************************)
(* Every step keeps what the lock keeps.                                   *)
(***************************************************************************)
LEMMA LockNext ==
  ASSUME LockInv, [Next]_vars
  PROVE  LockInv' /\ FitRule
<1>1. ASSUME NEW h \in Handlers, Proceed(h)
      PROVE  LockInv' /\ FitRule
  <2>1. CASE RequestCount(h) \/ CompleteLoad(h) \/ CompleteWrite(h) \/ CompleteTally(h)
    BY <2>1, LockReads
  <2>2. CASE \/ RequestInsert(h) \/ RequestRefused(h) \/ CompleteClose(h)
             \/ RejectSave(h) \/ MarkSave(h)
    BY <2>2, LockEnds
  <2> QED
    BY <1>1, <2>1, <2>2 DEF Proceed
<1>2. ASSUME NEW total \in Totals, EditTotal(total)
      PROVE  LockInv' /\ FitRule
  <2>1. /\ order \in Order /\ total \in Nat /\ req' = req /\ refunds' = refunds
        /\ refunds \in Seq(Refund) /\ \A g \in Handlers : req[g].step \notin LockSteps
    BY <1>2, TotalsAssumption DEF LockInv, TablesTyped, EditTotal, Locked, LockSteps
  <2>2. order' \in Order
    BY <1>2, <2>1 DEF EditTotal, Order
  <2>3. TablesTyped' /\ OneLock' /\ CopyIsCurrent' /\ SumIsBound' /\ HandIsRefund'
    BY <2>1, <2>2 DEF LockInv, TablesTyped, OneLock, CopyIsCurrent, SumIsBound, HandIsRefund, LockSteps
  <2>4. Len(refunds) \in Nat
    BY <2>1, LenProperties
  <2> QED
    BY <2>1, <2>3, <2>4 DEF LockInv, FitRule
<1>3. CASE UNCHANGED vars
  <2>1. order' = order /\ refunds' = refunds /\ req' = req
    BY <1>3 DEF vars
  <2>2. LockInv'
    BY <2>1 DEF LockInv, TablesTyped, OneLock, CopyIsCurrent, SumIsBound, Committed, HandIsRefund
  <2> QED
    BY <2>1, <2>2, SameTables
<1> QED
  BY <1>1, <1>2, <1>3, LockArrive DEF Next

(***************************************************************************)
(* A request never promises more than is left of the total, for any number *)
(* of handlers, also when several complete or reject the same refund: the  *)
(* lock of the order row covers the read of the total, the sum and the     *)
(* insert, and whatever would raise the sum waits for it.                  *)
(***************************************************************************)
THEOREM RequestsAlwaysFit == Spec => RequestsFit
<1>1. Init => LockInv
  BY InitKeeps DEF IInv, LockInv, HandIsRefund, InHandIsOpen, With
<1>2. LockInv /\ [Next]_vars => LockInv'
  BY LockNext
<1>3. LockInv /\ [Next]_vars =>
        [Len(refunds') > Len(refunds) => Committed' <= order'.total]_vars
  BY LockNext DEF FitRule
<1> QED
  BY <1>1, <1>2, <1>3, PTL DEF Spec, RequestsFit
=============================================================================
