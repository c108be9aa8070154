-------------------------------- MODULE Mail ---------------------------------
(***************************************************************************)
(* The shop's mail: one send at a time per caller, through the switch of   *)
(* the template, the quota, the provider and the email log; the notices an *)
(* order sends when it changes, the welcome of a customer, and the daily   *)
(* sweep that reminds whoever paid and has not collected.  The provider    *)
(* may accept a mail and not be heard, the log may refuse the row, the     *)
(* sweep may miss days, and the server may restart anywhere.               *)
(*                                                                         *)
(* The text of the mails is left out: a template is its key, a pair whose  *)
(* second part is the milestone of a reminder.                             *)
(***************************************************************************)
EXTENDS Integers, Sequences, FiniteSets, Bags, Functions

CONSTANTS
  OrderIds,
  PickupOrders,           \* those collected at the counter
  Addresses,              \* addresses of customers
  PICKUP_REMINDER_DAYS,   \* the milestones, in order
  PICKUP_CUSTODY_DAYS,
  DaysPerMonth,
  Quota,                  \* cupoMensual, cupoDiario, reservaMensual, reservaDiaria
  Prescindibles,          \* plantillasPrescindibles
  Apagadas,               \* plantillasApagadas
  Sweepers,               \* calls of the reminder endpoint that may overlap
  Slots,                  \* bound: other mails in flight at once
  MaxDay, MaxCopies       \* bounds: the clock, and copies accepted

VARIABLES
  today,
  configured,   \* RESEND_API_KEY and RESEND_FROM are there
  order,        \* what the sweep reads of an order
  log,          \* the rows of email_log that say SENT, nothing reads the others
  sweep,        \* the passes under way
  sending,      \* the mail each caller waits for
  copies,       \* history: mails the provider accepted
  unheard,      \* history: those of them no row says SENT about
  missed        \* history: reminders that left no row, by the pass that tried them

vars == <<today, configured, order, log, sweep, sending, copies, unheard, missed>>

-----------------------------------------------------------------------------
(* Types *)

Milestones == Range(PICKUP_REMINDER_DAYS)

pickup_reminder(m) == <<"pickup_reminder", m>>
welcome == <<"welcome", 0>>
Notices == {<<"payment_received", 0>>, <<"order_delivered", 0>>, <<"order_cancelled", 0>>}

(* A mail is its template and the order, or the address, it is about. *)
Email == (({pickup_reminder(m) : m \in Milestones} \cup Notices) \X OrderIds)
         \cup ({welcome} \X Addresses)

EmailLog == Email \X (0 .. MaxDay)

Order == [status : {"pending", "confirmed", "delivered", "cancelled"},
          payment : {"pending", "paid", "refunded"}, paidAt : -1 .. MaxDay,
          email : BOOLEAN]

Callers == Sweepers \cup Slots

NoPass == [pc |-> "idle", now |-> 0, milestone |-> 0, candidates |-> {}]
NoMail == [stage |-> "none", email |-> <<>>]

TypeOK ==
  /\ today \in 0 .. MaxDay /\ configured \in BOOLEAN
  /\ order \in [OrderIds -> Order]
  /\ IsABag(log) /\ BagToSet(log) \subseteq EmailLog
  /\ IsABag(copies) /\ BagToSet(copies) \subseteq Email
  /\ IsABag(unheard) /\ BagToSet(unheard) \subseteq Email
  /\ missed \subseteq Sweepers \X OrderIds \X Milestones
  /\ \A s \in Sweepers :
       /\ sweep[s].pc \in {"idle", "query", "loop", "done"}
       /\ sweep[s].milestone \in 0 .. Len(PICKUP_REMINDER_DAYS) + 1
       /\ sweep[s].candidates \subseteq OrderIds
  /\ \A c \in Callers : sending[c].stage \in {"none", "posting", "accepted"}

-----------------------------------------------------------------------------
(* MailService *)

Logged(email) == \E row \in BagToSet(log) : row[1] = email

contarEnviadosDesde(day) == BagCardinality(log) -
  BagCardinality([row \in {r \in BagToSet(log) : r[2] < day} |-> log[row]])

(* The templates that can wait stop before the limit, the others never.     *)
hayCupo(template) ==
  \/ template \notin Prescindibles
  \/ Quota.mensual <= 0 /\ Quota.diario <= 0
  \/ /\ Quota.mensual <= 0 \/ contarEnviadosDesde((today \div DaysPerMonth) * DaysPerMonth)
                              < Quota.mensual - Quota.reservaMensual
     /\ Quota.diario <= 0 \/ contarEnviadosDesde(today) < Quota.diario - Quota.reservaDiaria

apagada(template) == template \in Apagadas

(* A caller whose mail has ended: a pass notes a reminder that did not go,  *)
(* and `missed` also keeps the one that went and left no row.               *)
Returned(c, email, status) ==
  /\ sending' = [sending EXCEPT ![c] = NoMail]
  /\ missed' = IF c \in Sweepers /\ status # "SENT"
               THEN missed \cup {<<c, email[2], email[1][2]>>} ELSE missed

(* From the call of send to its request: a template switched off, a quota   *)
(* reached or no credentials end it as SKIPPED, and a count that fails      *)
(* lets it pass.                                                            *)
send(c, email) ==
  \/ /\ ~ apagada(email[1]) /\ configured
     /\ hayCupo(email[1]) \/ email[1] \in Prescindibles    \* the count may fail
     /\ sending' = [sending EXCEPT ![c] = [stage |-> "posting", email |-> email]]
     /\ UNCHANGED missed
  \/ /\ apagada(email[1]) \/ ~ hayCupo(email[1]) \/ ~ configured
     /\ Returned(c, email, "SKIPPED")

(* Resend takes the mail, external: from here on the client has a copy.     *)
Accept(c) ==
  /\ sending[c].stage = "posting"
  /\ BagCardinality(copies) < MaxCopies
  /\ sending' = [sending EXCEPT ![c].stage = "accepted"]
  /\ copies' = copies (+) SetToBag({sending[c].email})
  /\ UNCHANGED <<today, configured, order, log, sweep, unheard, missed>>

(* Resend refuses it, or cannot be reached.                                 *)
Reject(c) ==
  /\ sending[c].stage = "posting"
  /\ Returned(c, sending[c].email, "FAILED")
  /\ UNCHANGED <<today, configured, order, log, sweep, copies, unheard>>

(* The answer comes back: the row is saved, or its failure swallowed.       *)
record(c, saved) ==
  LET email == sending[c].email IN
  /\ sending[c].stage = "accepted"
  /\ Returned(c, email, IF saved THEN "SENT" ELSE "unsaved")
  /\ IF saved THEN log' = log (+) SetToBag({<<email, today>>}) /\ UNCHANGED unheard
              ELSE unheard' = unheard (+) SetToBag({email}) /\ UNCHANGED log
  /\ UNCHANGED <<today, configured, order, sweep, copies>>

(* SEND_TIMEOUT_MS passes first: a mail that did go out counts as FAILED.   *)
Timeout(c) ==
  /\ sending[c].stage = "accepted"
  /\ Returned(c, sending[c].email, "FAILED")
  /\ unheard' = unheard (+) SetToBag({sending[c].email})
  /\ UNCHANGED <<today, configured, order, log, sweep, copies>>

-----------------------------------------------------------------------------
(* OrderMailerService, ClientMailerService *)

recipient(o) == order[o].email

(* The mail of an order, to whoever bought it; nobody to write to is no     *)
(* mail and no row.                                                         *)
dispatch(c, o, template) ==
  IF recipient(o) THEN send(c, <<template, o>>)
  ELSE Returned(c, <<template, o>>, "null")

Notice(c, o, template) ==
  /\ sending[c].stage = "none"
  /\ dispatch(c, o, <<template, 0>>)
  /\ UNCHANGED <<today, configured, log, sweep, copies, unheard>>

(* The moments an order writes at: it is paid, collected, cancelled.        *)
paymentReceived(c, o) ==
  /\ order[o].payment = "pending" /\ order[o].status = "pending"
  /\ order' = [order EXCEPT ![o].status = "confirmed", ![o].payment = "paid", ![o].paidAt = today]
  /\ Notice(c, o, "payment_received")

delivered(c, o) ==
  /\ order[o].status = "confirmed"
  /\ order' = [order EXCEPT ![o].status = "delivered"]
  /\ Notice(c, o, "order_delivered")

cancelled(c, o) ==
  /\ order[o].status = "confirmed"
  /\ order' = [order EXCEPT ![o].status = "cancelled", ![o].payment = "refunded"]
  /\ Notice(c, o, "order_cancelled")

(* One welcome per address, looked up in the log.                           *)
Welcome(c, a) ==
  /\ sending[c].stage = "none"
  /\ ~ Logged(<<welcome, a>>)
  /\ send(c, <<welcome, a>>)
  /\ UNCHANGED <<today, configured, order, log, sweep, copies, unheard>>

-----------------------------------------------------------------------------
(* PickupRemindersService *)

(* Mutant: only the orders whose milestone is this very day. *)
Candidates_OnTheDay(now, m) ==
  {o \in PickupOrders :
     /\ order[o].payment = "paid"
     /\ order[o].status \notin {"delivered", "cancelled"}
     /\ order[o].paidAt = now - m
     /\ ~ Logged(<<pickup_reminder(m), o>>)}

(* Mutant: the log is not asked. *)
Candidates_NoLock(now, m) ==
  {o \in PickupOrders :
     /\ order[o].payment = "paid"
     /\ order[o].status \notin {"delivered", "cancelled"}
     /\ order[o].paidAt <= now - m /\ order[o].paidAt > now - PICKUP_CUSTODY_DAYS}

(* Paid, to be collected, past the milestone, within the custody, and with  *)
(* no row that says this reminder went.                                     *)
Candidates(now, m) ==
  {o \in PickupOrders :
     /\ order[o].payment = "paid"
     /\ order[o].status \notin {"delivered", "cancelled"}
     /\ order[o].paidAt <= now - m /\ order[o].paidAt > now - PICKUP_CUSTODY_DAYS
     /\ ~ Logged(<<pickup_reminder(m), o>>)}

(* The scheduled job calls the endpoint; without credentials it does nothing. *)
Sweep(s) ==
  /\ sweep[s].pc \in {"idle", "done"} /\ configured
  /\ sweep' = [sweep EXCEPT ![s] = [pc |-> "query", now |-> today, milestone |-> 1,
                                    candidates |-> {}]]
  /\ missed' = {t \in missed : t[1] # s}
  /\ UNCHANGED <<today, configured, order, log, sending, copies, unheard>>

Query(s) ==
  /\ sweep[s].pc = "query"
  /\ sweep' = [sweep EXCEPT
       ![s].pc = "loop",
       ![s].candidates = Candidates(sweep[s].now, PICKUP_REMINDER_DAYS[sweep[s].milestone])]
  /\ UNCHANGED <<today, configured, order, log, sending, copies, unheard, missed>>

(* The next of the candidates read by the query, whatever it is by now.     *)
Remind(s) ==
  /\ sweep[s].pc = "loop" /\ sending[s].stage = "none"
  /\ \E o \in sweep[s].candidates :
       /\ sweep' = [sweep EXCEPT ![s].candidates = @ \ {o}]
       /\ dispatch(s, o, pickup_reminder(PICKUP_REMINDER_DAYS[sweep[s].milestone]))
  /\ UNCHANGED <<today, configured, order, log, copies, unheard>>

NextMilestone(s) ==
  /\ sweep[s].pc = "loop" /\ sending[s].stage = "none" /\ sweep[s].candidates = {}
  /\ sweep' = [sweep EXCEPT
       ![s].milestone = @ + 1,
       ![s].pc = IF sweep[s].milestone = Len(PICKUP_REMINDER_DAYS) THEN "done" ELSE "query"]
  /\ UNCHANGED <<today, configured, order, log, sending, copies, unheard, missed>>

(* Paid and not collected, for the panel.                                   *)
pendingPickups ==
  {o \in PickupOrders : order[o].payment = "paid" /\ order[o].status # "delivered"
                        /\ order[o].paidAt >= 0}

-----------------------------------------------------------------------------
(* The world *)

Tick ==
  /\ today < MaxDay /\ today' = today + 1
  /\ UNCHANGED <<configured, order, log, sweep, sending, copies, unheard, missed>>

(* The mails accepted and not yet recorded, as a bag. *)
Lost ==
  LET waiting == {k \in Callers : sending[k].stage = "accepted"}
  IN  [e \in {sending[k].email : k \in waiting} |->
         Cardinality({k \in waiting : sending[k].email = e})]

(* The server is deployed again, with the credentials or without: what it   *)
(* was doing is gone, and so is the row of a mail already accepted.         *)
Restart(c) ==
  /\ configured' = c
  /\ sweep' = [s \in Sweepers |-> NoPass] /\ sending' = [k \in Callers |-> NoMail]
  /\ unheard' = unheard (+) Lost
  /\ UNCHANGED <<today, order, log, copies, missed>>

Init ==
  /\ today = 0 /\ configured = TRUE
  /\ \E has \in [OrderIds -> BOOLEAN] :
       order = [o \in OrderIds |-> [status |-> "pending", payment |-> "pending", paidAt |-> -1,
                                    email |-> has[o]]]
  /\ log = EmptyBag /\ copies = EmptyBag /\ unheard = EmptyBag /\ missed = {}
  /\ sweep = [s \in Sweepers |-> NoPass] /\ sending = [c \in Callers |-> NoMail]

Next ==
  \/ Tick
  \/ \E c \in BOOLEAN : Restart(c)
  \/ \E c \in Slots :
       \/ \E o \in OrderIds : paymentReceived(c, o) \/ delivered(c, o) \/ cancelled(c, o)
       \/ \E a \in Addresses : Welcome(c, a)
  \/ \E s \in Sweepers : Sweep(s) \/ Query(s) \/ Remind(s) \/ NextMilestone(s)
  \/ \E c \in Callers : Accept(c) \/ Reject(c) \/ Timeout(c)
                        \/ \E saved \in BOOLEAN : record(c, saved)

Spec == Init /\ [][Next]_vars

-----------------------------------------------------------------------------
(* Properties *)

CopiesOf(email, bag) == IF BagIn(email, bag) THEN bag[email] ELSE 0

(***************************************************************************)
(* MissedIsMadeUp: the clause of custody rests on the two reminders.  When *)
(* a pass ends, whatever passes before it did not run, stopped half way or *)
(* failed, every order still waiting at the counter that had reached a     *)
(* milestone has that reminder in the log, unless this very pass tried it  *)
(* and could not send it or could not save its row.                        *)
(***************************************************************************)
MissedIsMadeUp ==
  \A s \in Sweepers : sweep[s].pc = "done" =>
    \A o \in pendingPickups, m \in Milestones :
      (/\ order[o].status = "confirmed"
       /\ sweep[s].now - order[o].paidAt \in m .. PICKUP_CUSTODY_DAYS - 1)
      => \/ Logged(<<pickup_reminder(m), o>>)
         \/ <<s, o, m>> \in missed

(***************************************************************************)
(* RemindersBounded: the log is the lock of the reminders.  Across all the *)
(* days a client gets a reminder once, plus once for every copy the log    *)
(* missed (a timeout, a refused row, a restart) and once for every other   *)
(* pass that runs at the same time.                                        *)
(***************************************************************************)
RemindersBounded ==
  \A o \in OrderIds, m \in Milestones :
    CopiesOf(<<pickup_reminder(m), o>>, copies)
      <= Cardinality(Sweepers) + CopiesOf(<<pickup_reminder(m), o>>, unheard)
=============================================================================
