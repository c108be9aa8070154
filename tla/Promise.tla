------------------------------- MODULE Promise -------------------------------
(***************************************************************************)
(* The delivery promise of an order: working days of the shop, the         *)
(* deadline counted from the payment, and the seal (paidAt, promisedAt)    *)
(* that the gateway, a clerk and the super administrator's correction put  *)
(* on the order and take off.                                              *)
(*                                                                         *)
(* A date is the number of days since 1 January 2026, an instant the       *)
(* number of hours since that day began in UTC.                            *)
(***************************************************************************)
EXTENDS Integers, FiniteSets, FiniteSetsExt

CONSTANTS
  Instants,       \* the hours at which something happens
  PromiseDays     \* the terms of the delivery options, in working days

VARIABLES
  now,            \* the clock
  order           \* payment status, term, and the seal

vars == <<now, order>>

None == -1

-----------------------------------------------------------------------------
(* Calendar *)

LeapDay(y) == IF (y % 4 = 0 /\ y % 100 # 0) \/ y % 400 = 0 THEN 1 ELSE 0

DaysBefore == <<0, 31, 59, 90, 120, 151, 181, 212, 243, 273, 304, 334>>

(* The number of a civil date, from 2026 on. *)
DayNumber(y, m, d) ==
  365 * (y - 2026) + (y - 2025) \div 4 + DaysBefore[m] + (IF m > 2 THEN LeapDay(y) ELSE 0) + d - 1

YearOf(day) == Max({y \in 2026 .. 2030 : DayNumber(y, 1, 1) <= day})

(* 1 January 2026 was a Thursday; Sunday is 0. *)
getUTCDay(day) == (day + 4) % 7

FERIADOS_FIJOS ==
  {<<1, 1>>, <<1, 2>>, <<5, 1>>, <<7, 25>>, <<7, 26>>, <<7, 27>>,
   <<10, 10>>, <<12, 25>>, <<12, 31>>}

(* Meeus/Jones/Butcher. *)
domingoDePascua(y) ==
  LET a == y % 19
      b == y \div 100
      c == y % 100
      f == (b + 8) \div 25
      g == (b - f + 1) \div 3
      h == (19 * a + b - b \div 4 - g + 15) % 30
      l == (32 + 2 * (b % 4) + 2 * (c \div 4) - h - (c % 4)) % 7
      m == (a + 11 * h + 22 * l) \div 451
      n == h + l - 7 * m + 114
  IN  DayNumber(y, n \div 31, (n % 31) + 1)

feriadosCubanos(y) ==
  {DayNumber(y, md[1], md[2]) : md \in FERIADOS_FIJOS} \cup {domingoDePascua(y) - 2}

(* Mutant: the holidays are forgotten. *)
esHabil_OnlySundays(day) == getUTCDay(day) # 0

(* Monday to Saturday, without the holidays. *)
esHabil(day) == getUTCDay(day) # 0 /\ day \notin feriadosCubanos(YearOf(day))

(* The n-th Sunday of a month. *)
NthSunday(y, m, n) ==
  LET first == DayNumber(y, m, 1)
  IN  first + ((7 - getUTCDay(first)) % 7) + 7 * (n - 1)

(* Hours behind UTC in Havana: daylight saving from the second Sunday of    *)
(* March to the first of November, both changes at 05:00 UTC.               *)
desfaseDeCuba(hour) ==
  LET y == YearOf(hour \div 24)
  IN  IF /\ hour >= 24 * NthSunday(y, 3, 2) + 5
         /\ hour < 24 * NthSunday(y, 11, 1) + 5
      THEN 4 ELSE 5

(* The civil date in Cuba of an instant. *)
fechaEnCuba(hour) == (hour - desfaseDeCuba(hour)) \div 24

-----------------------------------------------------------------------------
(* The deadline *)

(* The calendar of the model ends on 31 December 2030.  The loop of the code *)
(* gives up after MaxTurns days, and an option promises at most MaxTerm.     *)
LastDay == 1825
MaxTurns == 400
MaxTerm == 60

(* The day reached from `day` after `left` more working days, as the loop goes. *)
Counted[day \in 0 .. LastDay] ==
  [left \in 0 .. MaxTerm |->
     IF left = 0 \/ day = LastDay THEN day
     ELSE Counted[day + 1][IF esHabil(day + 1) THEN left - 1 ELSE left]]

(* The hour at which the day after the last working day begins in Cuba: the *)
(* deadline is one second earlier.  The offset is taken at its UTC midnight. *)
finDelPlazo(from, days) ==
  IF days <= 0 THEN None
  ELSE LET midnight == 24 * (Counted[fechaEnCuba(from)][days] + 1)
       IN  midnight + desfaseDeCuba(midnight)

-----------------------------------------------------------------------------
(* The seal *)

PaymentStatus == {"pending", "paid", "failed", "refunded"}

(* Mutant: every payment dates the order again. *)
sellarCobro_Again(o, when) ==
  [o EXCEPT !.paidAt = when, !.promisedAt = finDelPlazo(when, o.promiseDays)]

sellarCobro(o, when) ==
  LET paid == [o EXCEPT !.paidAt = IF @ = None THEN when ELSE @]
  IN  [paid EXCEPT !.promisedAt =
         IF @ = None THEN finDelPlazo(paid.paidAt, paid.promiseDays) ELSE @]

deshacerCobro(o) == [o EXCEPT !.paidAt = None, !.promisedAt = None]

(* A promise exists, the order was delivered, and in time. *)
llegoATiempo(o, delivered) == o.promisedAt # None /\ delivered < o.promisedAt

-----------------------------------------------------------------------------
(* Actions *)

Tick == \E later \in Instants : later > now /\ now' = later /\ UNCHANGED order

(* propagateToOrder: the gateway says when it was paid; a paid order is     *)
(* never downgraded.                                                        *)
GatewayPays(when) ==
  /\ order.payment # "paid"
  /\ when <= now
  /\ order' = sellarCobro([order EXCEPT !.payment = "paid"], when)
  /\ UNCHANGED now

GatewayFails ==
  /\ order.payment # "paid"
  /\ order' = [order EXCEPT !.payment = "failed"]
  /\ UNCHANGED now

(* updatePaymentStatus: by PAYMENT_TRANSITIONS; paid seals the order. *)
updatePaymentStatus(to) ==
  /\ <<order.payment, to>> \in
       {<<"pending", "paid">>, <<"pending", "failed">>, <<"failed", "paid">>,
        <<"failed", "pending">>, <<"paid", "refunded">>}
  /\ LET o == [order EXCEPT !.payment = to]
     IN  order' = IF to = "paid" THEN sellarCobro(o, now) ELSE o
  /\ UNCHANGED now

(* correct: any payment status; leaving paid takes the seal off. *)
correct(to) ==
  /\ to # order.payment
  /\ LET o == [order EXCEPT !.payment = to]
     IN  order' = CASE to = "paid" -> sellarCobro(o, now)
                    [] to # "paid" /\ order.payment = "paid" -> deshacerCobro(o)
                    [] to # "paid" /\ order.payment # "paid" -> o
  /\ UNCHANGED now

(* complete of a refund turns a paid order refunded and keeps the seal. *)
RefundCompleted ==
  /\ order.payment = "paid"
  /\ order' = [order EXCEPT !.payment = "refunded"]
  /\ UNCHANGED now

Unpaid(days) == [payment |-> "pending", promiseDays |-> days, paidAt |-> None, promisedAt |-> None]

(* checkout, or crearParaCliente with the money in hand. *)
Init ==
  /\ now = Min(Instants)
  /\ \E days \in PromiseDays :
       order \in {Unpaid(days), sellarCobro([Unpaid(days) EXCEPT !.payment = "paid"], now)}

Next ==
  \/ Tick
  \/ \E when \in Instants : GatewayPays(when)
  \/ GatewayFails
  \/ \E to \in PaymentStatus : updatePaymentStatus(to) \/ correct(to)
  \/ RefundCompleted

Spec == Init /\ [][Next]_vars

-----------------------------------------------------------------------------
(* Properties *)

TypeOK ==
  /\ now \in Instants
  /\ order.payment \in PaymentStatus
  /\ order.promiseDays \in PromiseDays
  /\ order.paidAt \in Instants \cup {None}
  /\ order.promisedAt \in Int

(* The last hour of the n-th working day after the payment, by counting. *)
IsDeadline(hour, from, days) ==
  LET last == fechaEnCuba(hour - 1)
  IN  /\ fechaEnCuba(hour) = last + 1
      /\ esHabil(last)
      /\ Cardinality({day \in fechaEnCuba(from) + 1 .. last :
                        getUTCDay(day) # 0 /\ day \notin feriadosCubanos(YearOf(day))}) = days

(***************************************************************************)
(* The date promised to the client is the end, in Cuban time, of the       *)
(* promised number of working days after the payment, over Sundays,        *)
(* holidays, the turn of the year and the change of clocks; and it exists  *)
(* whenever the order is paid and its option has a term.                   *)
(***************************************************************************)
PromiseMatchesPayment ==
  /\ order.promisedAt # None =>
       order.paidAt # None /\ IsDeadline(order.promisedAt, order.paidAt, order.promiseDays)
  /\ order.payment = "paid" /\ order.promiseDays > 0 => order.promisedAt # None

(***************************************************************************)
(* Once given, the date of the payment and the promise stand: a repeated   *)
(* notice, a click, a refund and a correction back to paid find the order  *)
(* sealed.  Only a correction away from paid takes both off.               *)
(***************************************************************************)
PromiseStands ==
  [][order.paidAt # None =>
       \/ order'.paidAt = order.paidAt /\ order'.promisedAt = order.promisedAt
       \/ /\ order.payment = "paid" /\ order'.payment # "paid"
          /\ order'.paidAt = None /\ order'.promisedAt = None]_vars
=============================================================================
