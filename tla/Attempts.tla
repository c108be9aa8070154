------------------------------ MODULE Attempts -------------------------------
(***************************************************************************)
(* The payment attempts of one order: their numbers and idempotency keys,  *)
(* what the gateway remembers of a key, the reuse of a live attempt, polls *)
(* and webhooks, the proof a client sends, and the removal of an attempt   *)
(* by a super administrator.  Every handler reads a charge, works on its   *)
(* copy and saves it whole; save() inserts a row that is gone again, with  *)
(* its old date, unless its reference is taken.                            *)
(*                                                                         *)
(* A reference stands for its key: the gateways take the key as reference  *)
(* or answer a repeated key with the same charge.  The status and the      *)
(* stock of the order are in module Orders.                                *)
(***************************************************************************)
EXTENDS Integers, FiniteSets, FiniteSetsExt

CONSTANTS
  Methods,         \* codes of payment methods with a gateway
  ChargeRequests,  \* request slots: the handlers that can be in progress
  Outcomes,        \* bound: what the gateway may say of a charge it has made
  MaxAttempts,     \* bound: numbers of attempts
  MaxBorn,         \* bound: ids in use at one time
  Null

VARIABLES
  payment,         \* the payment status of the order row
  charges,         \* the payment_charges rows; ids grow with created_at
  gateway,         \* external: what the gateway has said of each key, so far
  handling,        \* the handlers in progress
  removed          \* history: the numbers of the attempts that were removed

vars == <<payment, charges, gateway, handling, removed>>

-----------------------------------------------------------------------------
(* Rows and requests *)

TERMINAL_CHARGE_STATUSES == {"succeeded", "failed", "expired"}

ChargeStatus == {"requires_action", "processing"} \cup TERMINAL_CHARGE_STATUSES

(* The key names the method and the number of the attempt. *)
Key == Methods \X (1 .. MaxAttempts)

(* `open`: the customer's action window has not passed. *)
PaymentCharge == [id : 1 .. MaxBorn, reference : Key, status : ChargeStatus, open : BOOLEAN]

Idle == [step |-> "idle"]

TypeOK ==
  /\ payment \in {"pending", "paid", "failed"}
  /\ charges \subseteq PaymentCharge
  /\ \A c, d \in charges : c.id = d.id \/ c.reference = d.reference => c = d
  /\ DOMAIN gateway = Key
  /\ \A k \in Key : gateway[k].said \subseteq ChargeStatus
  /\ removed \subseteq 1 .. MaxAttempts

(* A charge the customer can still act on. *)
isLive(c) == c.status \notin TERMINAL_CHARGE_STATUSES /\ c.open

Dead == {c.reference : c \in {d \in charges : ~isLive(d)}}

latestChargeFor == {c \in charges : \A d \in charges : d.id <= c.id}

(* The last id in use, in the table or in the memory of a handler. *)
Born ==
  Max({0} \cup {c.id : c \in charges} \cup
      {handling[r].charge.id :
         r \in {q \in ChargeRequests : handling[q].step \in
                 {"sync", "save", "proof", "delete", "ref"}}})

(* A handler goes on; it keeps the order and the charge it read. *)
Go(r, with) == handling' = [handling EXCEPT ![r] = with]

(* A request for an attempt with method m; `dead` are the attempts that     *)
(* were over when it came.                                                  *)
Asking(step, m, charge) ==
  [step |-> step, for |-> m, payment |-> payment, charge |-> charge, dead |-> Dead]

(* Any other request about a charge; nobody is handed anything. *)
About(step, charge) == [step |-> step, for |-> Null, charge |-> charge]

-----------------------------------------------------------------------------
(* save of a charge row *)

Saveable(c) ==
  (\E d \in charges : d.id = c.id) \/ ~\E d \in charges : d.reference = c.reference

Saved(c) == {d \in charges : d.id # c.id} \cup {c}

(* propagateToOrder: a paid order is never downgraded; only a success or a  *)
(* failure moves it.                                                        *)
propagateToOrder(status) ==
  IF payment = "paid" \/ status \notin {"succeeded", "failed"} THEN payment
  ELSE IF status = "succeeded" THEN "paid" ELSE "failed"

-----------------------------------------------------------------------------
(* createChargeForClient *)

(* A live attempt of the same method is looked at first. *)
createChargeForClient(r, m) ==
  /\ handling[r] = Idle
  /\ payment # "paid"
  /\ \/ \E c \in latestChargeFor : c.reference[1] = m /\ Go(r, Asking("sync", m, c))
     \/ /\ ~\E c \in latestChargeFor : c.reference[1] = m
        /\ Go(r, Asking("count", m, Null))
  /\ UNCHANGED <<payment, charges, gateway, removed>>

(* getChargeForClient: the poll of the order page. *)
getChargeForClient(r) ==
  /\ handling[r] = Idle
  /\ \E c \in latestChargeFor : Go(r, About("sync", c))
  /\ UNCHANGED <<payment, charges, gateway, removed>>

(* What follows a charge that was looked at: a client who asked is handed   *)
(* it while it is live, or a new attempt is made; other handlers end.       *)
AfterSync(r, c) ==
  IF handling[r].for = Null \/ isLive(c) THEN Go(r, Idle)
  ELSE Go(r, [handling[r] EXCEPT !.step = "count", !.charge = Null])

(* A charge that is over is not asked about again.  Otherwise the gateway   *)
(* says how it stands, or cannot be reached.                                *)
syncCharge(r) ==
  /\ handling[r].step = "sync"
  /\ LET c == handling[r].charge IN
     \/ c.status \in TERMINAL_CHARGE_STATUSES /\ AfterSync(r, c)
     \/ /\ c.status \notin TERMINAL_CHARGE_STATUSES
        /\ \/ Go(r, [handling[r] EXCEPT !.step = "save",
                                        !.charge.status = gateway[c.reference].status])
           \/ Go(r, Idle)
  /\ UNCHANGED <<payment, charges, gateway, removed>>

(* save(charge) and propagateToOrder, after a sync or a webhook. *)
SaveCharge(r) ==
  /\ handling[r].step = "save"
  /\ LET c == handling[r].charge IN
     IF Saveable(c)
     THEN /\ charges' = Saved(c)
          /\ payment' = propagateToOrder(c.status)
          /\ AfterSync(r, c)
     ELSE Go(r, Idle) /\ UNCHANGED <<payment, charges>>
  /\ UNCHANGED <<gateway, removed>>

-----------------------------------------------------------------------------
(* createChargeForOrder *)

(* Mutant: only attempts that may still be paid are counted. *)
attempt_OnlyLive(rows) == Cardinality({c \in rows : isLive(c)}) + 1

(* The number of the next attempt is a count of the rows. *)
attempt(rows) == Cardinality(rows) + 1

Count(r) ==
  /\ handling[r].step = "count"
  /\ attempt(charges) <= MaxAttempts
  /\ Go(r, [handling[r] EXCEPT !.step = "call", !.charge = <<handling[r].for, attempt(charges)>>])
  /\ UNCHANGED <<payment, charges, gateway, removed>>

(* The gateway makes the charge, or answers with the one it has; or the     *)
(* call fails, before or after the gateway has acted.                       *)
callGateway(r) ==
  /\ handling[r].step = "call"
  /\ LET k    == handling[r].charge
         made == [gateway EXCEPT ![k] = IF @.said # {} THEN @
                    ELSE [status |-> "requires_action", said |-> {"requires_action"}]]
     IN  \/ /\ gateway' = made
            /\ Go(r, [handling[r] EXCEPT !.step = "store",
                        !.charge = [reference |-> k, status |-> made[k].status]])
         \/ gateway' \in {gateway, made} /\ Go(r, Idle)
  /\ UNCHANGED <<payment, charges, removed>>

(* storeCharge: the insert, or the row that took the reference first. *)
storeCharge(r) ==
  /\ handling[r].step = "store"
  /\ LET c      == handling[r].charge
         stored == {d \in charges : d.reference = c.reference}
         new    == [id |-> Born + 1, reference |-> c.reference, status |-> c.status, open |-> TRUE]
     IN  \/ \E d \in stored : /\ Go(r, [handling[r] EXCEPT !.step = "ref", !.charge = d])
                              /\ UNCHANGED charges
         \/ /\ stored = {} /\ Born < MaxBorn
            /\ charges' = charges \cup {new}
            /\ Go(r, [handling[r] EXCEPT !.step = "ref", !.charge = new])
  /\ UNCHANGED <<payment, gateway, removed>>

(* paymentRef is set (left out) and the order as it was read is saved; the  *)
(* client is handed the charge.                                             *)
SaveReference(r) ==
  /\ handling[r].step = "ref"
  /\ payment' = handling[r].payment
  /\ Go(r, Idle)
  /\ UNCHANGED <<charges, gateway, removed>>

-----------------------------------------------------------------------------
(* Webhooks, proofs, removal *)

(* An event of any age; a reference nobody knows and a repetition of the    *)
(* outcome on record are answered and dropped.                              *)
handleWebhook(r, c, status) ==
  /\ handling[r] = Idle
  /\ status \in gateway[c.reference].said
  /\ ~(c.status \in TERMINAL_CHARGE_STATUSES /\ c.status = status)
  /\ Go(r, About("save", [c EXCEPT !.status = status]))
  /\ UNCHANGED <<payment, charges, gateway, removed>>

(* The proof is put on the latest charge, which is saved whole. *)
submitProof(r) ==
  /\ handling[r] = Idle
  /\ payment # "paid"
  /\ \E c \in latestChargeFor : Go(r, About("proof", c))
  /\ UNCHANGED <<payment, charges, gateway, removed>>

SaveProof(r) ==
  /\ handling[r].step = "proof"
  /\ charges' = IF Saveable(handling[r].charge) THEN Saved(handling[r].charge) ELSE charges
  /\ Go(r, Idle)
  /\ UNCHANGED <<payment, gateway, removed>>

(* removePaymentAttempt: any attempt that is not a success. *)
removePaymentAttempt(r, c) ==
  /\ handling[r] = Idle
  /\ c.status # "succeeded"
  /\ Go(r, [step |-> "delete", payment |-> payment, charge |-> c])
  /\ UNCHANGED <<payment, charges, gateway, removed>>

Delete(r) ==
  /\ handling[r].step = "delete"
  /\ charges' = {c \in charges : c.id # handling[r].charge.id}
  /\ removed' = removed \cup {handling[r].charge.reference[2]}
  /\ \/ Go(r, [step |-> "unref", payment |-> handling[r].payment])
     \/ Go(r, Idle)
  /\ UNCHANGED <<payment, gateway>>

(* It was the charge the order refers to: the order is saved without it. *)
ClearReference(r) ==
  /\ handling[r].step = "unref"
  /\ payment' = handling[r].payment
  /\ Go(r, Idle)
  /\ UNCHANGED <<charges, gateway, removed>>

-----------------------------------------------------------------------------
(* Time and the gateway *)

WindowPasses ==
  /\ \E c \in charges : c.open /\ charges' = (charges \ {c}) \cup {[c EXCEPT !.open = FALSE]}
  /\ UNCHANGED <<payment, gateway, handling, removed>>

(* An outcome is final at the gateway. *)
GatewayMoves(k, status) ==
  /\ gateway[k].said # {}
  /\ gateway[k].said \cap TERMINAL_CHARGE_STATUSES = {}
  /\ status \notin gateway[k].said
  /\ gateway' = [gateway EXCEPT ![k] = [status |-> status, said |-> @.said \cup {status}]]
  /\ UNCHANGED <<payment, charges, handling, removed>>

(* checkout has placed the order and starts its first attempt in the        *)
(* background, or the method needs none.                                    *)
Init ==
  /\ payment = "pending"
  /\ charges = {}
  /\ gateway = [k \in Key |-> [status |-> "none", said |-> {}]]
  /\ \E r \in ChargeRequests, m \in Methods :
       handling = [q \in ChargeRequests |-> IF q = r THEN Asking("count", m, Null) ELSE Idle]
  /\ removed = {}

Arrive(r) ==
  \/ \E m \in Methods : createChargeForClient(r, m)
  \/ getChargeForClient(r)
  \/ \E c \in charges, status \in ChargeStatus : handleWebhook(r, c, status)
  \/ submitProof(r)
  \/ \E c \in charges : removePaymentAttempt(r, c)

Proceed(r) ==
  \/ syncCharge(r)
  \/ SaveCharge(r)
  \/ Count(r)
  \/ callGateway(r)
  \/ storeCharge(r)
  \/ SaveReference(r)
  \/ SaveProof(r)
  \/ Delete(r)
  \/ ClearReference(r)

Next ==
  \/ \E r \in ChargeRequests : Arrive(r) \/ Proceed(r)
  \/ WindowPasses
  \/ \E k \in Key, status \in Outcomes : GatewayMoves(k, status)

Spec == Init /\ [][Next]_vars

-----------------------------------------------------------------------------
(* Properties *)

(***************************************************************************)
(* A client who asks for an attempt is not handed one that was over when   *)
(* the question came, though two creators may compute the same key, answers*)
(* of the gateway get lost and its events come late: the number in the key *)
(* makes a retry a new charge (createChargeForOrder).  The one exception   *)
(* is an older attempt that was removed: the count falls back to a number  *)
(* that is on record.                                                      *)
(***************************************************************************)
RetryIsFresh ==
  \A r \in ChargeRequests : handling[r].step = "ref" =>
    LET c == handling[r].charge
    IN  \/ c.reference \notin handling[r].dead
        \/ \E n \in removed : n <= c.reference[2]

(***************************************************************************)
(* "Un cobro con exito no se toca nunca desde aqui": an attempt on record  *)
(* as a success is never removed.                                          *)
(***************************************************************************)
SuccessIsKept ==
  [][\A c \in charges : c.status = "succeeded" => \E d \in charges' : d.id = c.id]_vars
=============================================================================
