------------------------------- MODULE Refunds -------------------------------
(***************************************************************************)
(* The refunds of one order (src/src/refunds/refunds.service.ts) at the    *)
(* grain of their SQL statements, under PostgreSQL READ COMMITTED, with    *)
(* the other writers of what they depend on, the total and the payment     *)
(* status of the order.                                                    *)
(*                                                                         *)
(* request locks the order row and counts what is committed before it      *)
(* inserts.  complete and reject read the refund without a lock and save   *)
(* it later; complete also saves the order it read, whole.  Amounts are    *)
(* whole cents; reasons, destinations, events and mails are left out.      *)
(***************************************************************************)
EXTENDS Integers, Sequences, FiniteSets, Sums

CONSTANTS
  Handlers,    \* concurrent HTTP requests
  Totals,      \* totals the lines of the order may add up to
  Amounts,     \* amounts staff may ask for
  Rest,        \* "no amount given": all that is left
  ByHand,      \* payment statuses set other than by completing a refund
  MaxRefunds   \* bound: refunds of the order

ASSUME TotalsAssumption == Totals \subseteq Nat /\ Amounts \subseteq Int
ASSUME RestAssumption == Rest \notin Int
ASSUME MaxRefundsAssumption == MaxRefunds \in Nat

PaymentStatus == {"pending", "paid", "failed", "refunded"}

ASSUME ByHandAssumption == ByHand \subseteq PaymentStatus

VARIABLES
  order,     \* the committed order row: total and payment status
  refunds,   \* the committed refunds of the order, oldest first
  req,       \* what each handler is doing, and what it has read
  shared     \* history: two handlers have had one refund in hand

vars == <<order, refunds, req, shared>>

Order == [total : Nat, payment : PaymentStatus]

RefundStatus == {"requested", "completed", "rejected"}

Refund == [amount : Nat \ {0}, status : RefundStatus]

(***************************************************************************)
(* The next step of a handler.                                             *)
(*   count, insert         request: the order row is locked                *)
(*   load                  complete: the refund has been read              *)
(*   write                 complete: the order has been read too           *)
(*   tally, close          complete: the refund is saved, not committed    *)
(*   reject, save          reject, and a payment status set by hand        *)
(***************************************************************************)
Step ==
  {"idle", "count", "insert", "load", "write", "tally", "close", "reject", "save"}

(***************************************************************************)
(* refund  the refund worked on      amount  what a request asks for       *)
(* copy    the order as it was read  sum     the cents a query added up    *)
(***************************************************************************)
Request ==
  [step : Step, refund : Nat, amount : Amounts \cup {Rest}, copy : Order, sum : Nat]

TypeOK ==
  /\ order \in Order
  /\ refunds \in Seq(Refund)
  /\ req \in [Handlers -> Request]
  /\ shared \in BOOLEAN

Amount(r) == [i \in DOMAIN r |-> r[i].amount]

With(r, statuses) == {i \in DOMAIN r : r[i].status \in statuses}

(* The cents of the refunds of table r that have one of the statuses. *)
Cents(r, statuses) == Total(Amount(r), With(r, statuses))

(* summaryFor: what is returned and what is promised count alike. *)
Committed == Cents(refunds, {"requested", "completed"})

(* The order row is locked FOR UPDATE until the request ends. *)
Locked == \E h \in Handlers : req[h].step \in {"count", "insert"}

(* The row of refund i is locked by a completion that is not committed. *)
Busy(i) == \E h \in Handlers : req[h].step \in {"tally", "close"} /\ req[h].refund = i

(* Somebody is completing or rejecting refund i. *)
InHand(i) ==
  \E h \in Handlers :
    req[h].step \in {"load", "write", "tally", "close", "reject"} /\ req[h].refund = i

NoRequest ==
  [step |-> "idle", refund |-> 0, amount |-> Rest,
   copy |-> [total |-> 0, payment |-> "pending"], sum |-> 0]

Idle(h) == req[h].step = "idle"

Done(h) == req' = [req EXCEPT ![h] = NoRequest]

-----------------------------------------------------------------------------
(* request *)

(* Mutant: the order is read without a lock, as it once was. *)
RequestLock_NoLock(h, a) ==
  /\ Idle(h)
  /\ order.payment = "paid"
  /\ Len(refunds) < MaxRefunds
  /\ req' = [req EXCEPT ![h].step = "count", ![h].amount = a, ![h].copy = order]
  /\ UNCHANGED <<order, refunds, shared>>

(***************************************************************************)
(* The order is read FOR UPDATE; an order that is not paid is refused.     *)
(***************************************************************************)
RequestLock(h, a) ==
  /\ Idle(h)
  /\ ~ Locked
  /\ order.payment = "paid"
  /\ Len(refunds) < MaxRefunds
  /\ req' = [req EXCEPT ![h].step = "count", ![h].amount = a, ![h].copy = order]
  /\ UNCHANGED <<order, refunds, shared>>

RequestCount(h) ==
  /\ req[h].step = "count"
  /\ req' = [req EXCEPT ![h].step = "insert", ![h].sum = Committed]
  /\ UNCHANGED <<order, refunds, shared>>

Refundable(h) ==
  IF req[h].copy.total > req[h].sum THEN req[h].copy.total - req[h].sum ELSE 0

Importe(h) == IF req[h].amount = Rest THEN Refundable(h) ELSE req[h].amount

Accepted(h) == Importe(h) > 0 /\ Importe(h) <= Refundable(h)

(* The refund is inserted; the commit releases the order row. *)
RequestInsert(h) ==
  /\ req[h].step = "insert"
  /\ Accepted(h)
  /\ refunds' = Append(refunds, [amount |-> Importe(h), status |-> "requested"])
  /\ Done(h)
  /\ UNCHANGED <<order, shared>>

(* Mutant: the refusal leaves the transaction open. *)
RequestRefused_KeepsLock(h) ==
  /\ req[h].step = "insert"
  /\ ~ Accepted(h)
  /\ UNCHANGED vars

(* Nothing left, nothing asked for, or too much: rolled back. *)
RequestRefused(h) ==
  /\ req[h].step = "insert"
  /\ ~ Accepted(h)
  /\ Done(h)
  /\ UNCHANGED <<order, refunds, shared>>

-----------------------------------------------------------------------------
(* complete and reject *)

(* A refund that is still requested, read without a lock: another handler may *)
(* have it in hand.                                                          *)
TakesUp(h, i) ==
  /\ Idle(h)
  /\ refunds[i].status = "requested"
  /\ shared' = (shared \/ InHand(i))

CompleteFind(h, i) ==
  /\ TakesUp(h, i)
  /\ req' = [req EXCEPT ![h].step = "load", ![h].refund = i]
  /\ UNCHANGED <<order, refunds>>

CompleteLoad(h) ==
  /\ req[h].step = "load"
  /\ req' = [req EXCEPT ![h].step = "write", ![h].copy = order]
  /\ UNCHANGED <<order, refunds, shared>>

(* The transaction saves the refund as completed; only it can see that. *)
CompleteWrite(h) ==
  /\ req[h].step = "write"
  /\ ~ Busy(req[h].refund)
  /\ req' = [req EXCEPT ![h].step = "tally"]
  /\ UNCHANGED <<order, refunds, shared>>

(* Mutant: a promise counts as money that left. *)
completedCents_CountsRequested(h) == Committed

(* What the transaction of h sees as completed, its own refund included. *)
completedCents(h) ==
  Total(Amount(refunds), With(refunds, {"completed"}) \cup {req[h].refund})

CompleteTally(h) ==
  /\ req[h].step = "tally"
  /\ req' = [req EXCEPT ![h].step = "close", ![h].sum = completedCents(h)]
  /\ UNCHANGED <<order, refunds, shared>>

Settle(h, status) == refunds' = [refunds EXCEPT ![req[h].refund].status = status]

(***************************************************************************)
(* The order becomes refunded if all its total, as read, has been          *)
(* returned; it is saved whole.  The event that is recorded refers to the  *)
(* order row and so waits for its lock.                                    *)
(***************************************************************************)
CompleteClose(h) ==
  /\ req[h].step = "close"
  /\ ~ Locked
  /\ order' = IF req[h].sum >= req[h].copy.total /\ req[h].copy.payment # "refunded"
              THEN [req[h].copy EXCEPT !.payment = "refunded"]
              ELSE order
  /\ Settle(h, "completed")
  /\ Done(h)
  /\ UNCHANGED shared

RejectFind(h, i) ==
  /\ TakesUp(h, i)
  /\ req' = [req EXCEPT ![h].step = "reject", ![h].refund = i]
  /\ UNCHANGED <<order, refunds>>

RejectSave(h) ==
  /\ req[h].step = "reject"
  /\ ~ Busy(req[h].refund)
  /\ Settle(h, "rejected")
  /\ Done(h)
  /\ UNCHANGED <<order, shared>>

-----------------------------------------------------------------------------
(* The other writers of the order *)

(***************************************************************************)
(* A payment status set by staff (updatePaymentStatus, correct) or by the  *)
(* gateway (applyUpdate): the order is read, and saved whole later.        *)
(***************************************************************************)
MarkFind(h, payment) ==
  /\ Idle(h)
  /\ payment # order.payment
  /\ req' = [req EXCEPT ![h].step = "save",
                        ![h].copy = [order EXCEPT !.payment = payment]]
  /\ UNCHANGED <<order, refunds, shared>>

MarkSave(h) ==
  /\ req[h].step = "save"
  /\ ~ Locked
  /\ order' = req[h].copy
  /\ Done(h)
  /\ UNCHANGED <<refunds, shared>>

(* updateItems: the lines of the order add up to another total. *)
EditTotal(total) ==
  /\ ~ Locked
  /\ total # order.total
  /\ order' = [order EXCEPT !.total = total]
  /\ UNCHANGED <<refunds, req, shared>>

-----------------------------------------------------------------------------

Init ==
  /\ order \in [total : Totals, payment : {"paid"}]
  /\ refunds = <<>>
  /\ req = [h \in Handlers |-> NoRequest]
  /\ shared = FALSE

Arrive(h) ==
  \/ \E a \in Amounts \cup {Rest} : RequestLock(h, a)
  \/ \E i \in DOMAIN refunds : CompleteFind(h, i) \/ RejectFind(h, i)
  \/ \E payment \in ByHand : MarkFind(h, payment)

Proceed(h) ==
  \/ RequestCount(h) \/ RequestInsert(h) \/ RequestRefused(h)
  \/ CompleteLoad(h) \/ CompleteWrite(h) \/ CompleteTally(h) \/ CompleteClose(h)
  \/ RejectSave(h)
  \/ MarkSave(h)

Next ==
  \/ \E h \in Handlers : Arrive(h) \/ Proceed(h)
  \/ \E total \in Totals : EditTotal(total)

Spec == Init /\ [][Next]_vars

(***************************************************************************)
(* A handler that has begun goes on.  A lock it waits for is granted in    *)
(* the end, though others may take it in between.                          *)
(***************************************************************************)
Fairness == \A h \in Handlers : SF_vars(Proceed(h))

FairSpec == Spec /\ Fairness

-----------------------------------------------------------------------------
(* Properties *)

(***************************************************************************)
(* Rule 2 of the service: no step takes what is promised or returned       *)
(* beyond the total of the order, whoever edits the order meanwhile, as    *)
(* long as no refund has been in two pairs of hands.  Later edits may      *)
(* lower the total below it, which the code accepts.                       *)
(***************************************************************************)
WithinCap == [][~ shared' /\ Committed' > Committed => Committed' <= order'.total]_vars

(***************************************************************************)
(* The rule as the comment of the service has it, without the condition.   *)
(* It is false: a completion that read the refund before it was rejected   *)
(* commits after a new request has taken its place.                        *)
(***************************************************************************)
NeverMoreThanPaid == [][Committed' > Committed => Committed' <= order'.total]_vars

(***************************************************************************)
(* A new request fits into what is left of the total, whatever overlaps    *)
(* it: completions and rejections of one refund that undo each other,      *)
(* edits, payment statuses set by hand, other requests.                    *)
(***************************************************************************)
RequestsFit == [][Len(refunds') > Len(refunds) => Committed' <= order'.total]_vars

(***************************************************************************)
(* Rules 1 and 3: when completing a refund turns the order refunded, all   *)
(* of the total it then shows has left; promises do not count.  Again as   *)
(* long as no refund has been in two pairs of hands: a rejection may take  *)
(* back one that the completion of another has counted.                    *)
(***************************************************************************)
RefundedMeansReturned ==
  [][/\ ~ shared'
     /\ With(refunds, {"completed"})' # With(refunds, {"completed"})
     /\ order.payment # "refunded" /\ order'.payment = "refunded"
     => Cents(refunds', {"completed"}) >= order'.total]_vars

(***************************************************************************)
(* Every handler ends: a request that is refused gives back the order row  *)
(* that completions, corrections and the next request wait for.            *)
(***************************************************************************)
EveryHandlerEnds == \A h \in Handlers : ~ Idle(h) ~> Idle(h)

(***************************************************************************)
(* With nobody at work, an order whose total has all been returned shows   *)
(* it: two partial refunds that add up to the total turn it refunded too,  *)
(* though each is in one pair of hands.                                    *)
(***************************************************************************)
FullReturnShows ==
  /\ ~ shared
  /\ \A h \in Handlers : Idle(h)
  /\ Cents(refunds, {"completed"}) >= order.total
  => order.payment = "refunded"
=============================================================================
