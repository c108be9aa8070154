-------------------------------- MODULE Shop ---------------------------------
(***************************************************************************)
(* The parts of the shop that meet the orders only through data: the cart, *)
(* the attempts to pay, the delivery promise, the ways an order reaches    *)
(* its client, the catalogue and the home page, the texts, and the mail.   *)
(* Each part is an instance of its own module; they share nothing here, so *)
(* a step of the whole is a step of one.                                   *)
(***************************************************************************)
EXTENDS Integers, Sequences, FiniteSets

CONSTANTS
  CartProducts, CartOrders, CartRequests, MaxInCart, MaxRowIds,           \* Cart
  Methods, ChargeRequests, Outcomes, MaxAttempts, MaxBorn,                \* Attempts
  Instants, PromiseDays,                                                  \* Promise
  Provinces, ProvinceOf, Locations, Counters, PointIds, Options,          \* Delivery
  CoverageInputs, ZoneInputs, FEE, Thresholds, Subtotals,
  Cats, Products, Storages, Towns, Covering, Banners,                     \* Catalogue
  Featurable, MaxQuantity,
  Pages, NoticeIds, Texts, Windows, Requests, MaxVersions,                \* Content
  OrderIds, PickupOrders, Addresses, PICKUP_REMINDER_DAYS,                \* Mail
  PICKUP_CUSTODY_DAYS, DaysPerMonth, Quota, Prescindibles, Apagadas,
  Sweepers, Slots, MaxDay, MaxCopies,
  Null

ASSUME CartAssumption == MaxInCart \in Nat /\ MaxRowIds \in Nat

ASSUME AttemptsAssumption == MaxAttempts \in Nat /\ MaxBorn \in Nat

(* The shop opened in 2026, the first instant of the calendar. *)
ASSUME PromiseAssumption == Instants \subseteq Nat /\ Instants # {} /\ PromiseDays \subseteq Nat

(* A delivery has a price; the ids of rows are not null. *)
ASSUME DeliveryAssumption ==
  /\ Null \notin DOMAIN ProvinceOf /\ Null \notin Options /\ Null \notin Locations
  /\ PointIds \subseteq Nat /\ IsFiniteSet(PointIds) /\ Null \notin PointIds
  /\ FEE \in Nat \ {0} /\ Thresholds \subseteq Nat /\ Subtotals \subseteq Nat

ASSUME CatalogueAssumption ==
  /\ Null \notin Towns /\ Null \notin Cats /\ IsFiniteSet(Products)
  /\ Covering \in [Towns -> SUBSET Storages]

ASSUME ContentAssumption == MaxVersions \in Nat

ASSUME MailAssumption ==
  /\ IsFiniteSet(Sweepers) /\ IsFiniteSet(Slots) /\ Sweepers \cap Slots = {}
  /\ PickupOrders \subseteq OrderIds
  /\ PICKUP_REMINDER_DAYS \in Seq(Nat \ {0}) /\ PICKUP_REMINDER_DAYS # <<>>
  /\ PICKUP_CUSTODY_DAYS \in Nat
  /\ MaxDay \in Nat /\ MaxCopies \in Nat

VARIABLES
  cart, bought, pending, asked, source,
  payment, charges, gateway, handling, removed,
  now, order,
  storages, points, options, pickupEnabled, saving,
  categories, products, stock, open, banners, home,
  pages, versions, requests,
  today, configured, waiting, log, sweep, sending, copies, unheard, missed

-----------------------------------------------------------------------------
Ca == INSTANCE Cart WITH
  Products <- CartProducts, OrderIds <- CartOrders, MaxQuantity <- MaxInCart

At == INSTANCE Attempts

Pr == INSTANCE Promise

(* The calendar of the model reaches, and every term ends before the loop   *)
(* gives up.                                                                *)
ASSUME CalendarAssumption ==
  \A from \in Instants, days \in PromiseDays :
    /\ from >= 5 /\ days <= Pr!MaxTerm
    /\ Pr!fechaEnCuba(from) + Pr!MaxTurns <= Pr!LastDay
    /\ Cardinality({day \in Pr!fechaEnCuba(from) + 1 .. Pr!fechaEnCuba(from) + Pr!MaxTurns :
                      Pr!esHabil(day)}) >= days

De == INSTANCE Delivery WITH Addresses <- Counters

Cg == INSTANCE Catalogue WITH Municipalities <- Towns, inventory <- stock, storages <- open

Co == INSTANCE Content WITH Notices <- NoticeIds

Ma == INSTANCE Mail WITH order <- waiting

-----------------------------------------------------------------------------
cartVars == <<cart, bought, pending, asked, source>>
attemptVars == <<payment, charges, gateway, handling, removed>>
promiseVars == <<now, order>>
deliveryVars == <<storages, points, options, pickupEnabled, saving>>
catalogueVars == <<categories, products, stock, open, banners, home>>
contentVars == <<pages, versions, requests>>
mailVars == <<today, configured, waiting, log, sweep, sending, copies, unheard, missed>>

vars == <<cartVars, attemptVars, promiseVars, deliveryVars, catalogueVars, contentVars,
          mailVars>>

Init == Ca!Init /\ At!Init /\ Pr!Init /\ De!Init /\ Cg!Init /\ Co!Init /\ Ma!Init

CartStep ==
  /\ Ca!Next
  /\ UNCHANGED <<attemptVars, promiseVars, deliveryVars, catalogueVars, contentVars, mailVars>>

AttemptStep ==
  /\ At!Next
  /\ UNCHANGED <<cartVars, promiseVars, deliveryVars, catalogueVars, contentVars, mailVars>>

PromiseStep ==
  /\ Pr!Next
  /\ UNCHANGED <<cartVars, attemptVars, deliveryVars, catalogueVars, contentVars, mailVars>>

DeliveryStep ==
  /\ De!Next
  /\ UNCHANGED <<cartVars, attemptVars, promiseVars, catalogueVars, contentVars, mailVars>>

CatalogueStep ==
  /\ Cg!Next
  /\ UNCHANGED <<cartVars, attemptVars, promiseVars, deliveryVars, contentVars, mailVars>>

ContentStep ==
  /\ Co!Next
  /\ UNCHANGED <<cartVars, attemptVars, promiseVars, deliveryVars, catalogueVars, mailVars>>

MailStep ==
  /\ Ma!Next
  /\ UNCHANGED <<cartVars, attemptVars, promiseVars, deliveryVars, catalogueVars, contentVars>>

Next ==
  \/ CartStep \/ AttemptStep \/ PromiseStep \/ DeliveryStep \/ CatalogueStep \/ ContentStep
  \/ MailStep

Spec == Init /\ [][Next]_vars

-----------------------------------------------------------------------------
(* What each component promises, stated and explained in its module. *)

(* Cart: units of an order come back to the cart at most once. *)
NoExcess == Ca!NoExcess

(* Attempts: a retry is a new attempt. *)
RetryIsFresh == At!RetryIsFresh

(* Attempts: an attempt that was paid stays on record. *)
SuccessIsKept == At!SuccessIsKept

(* Promise: the seal of an order follows its payment. *)
PromiseMatchesPayment == Pr!PromiseMatchesPayment

(* Promise: a promise made stays. *)
PromiseStands == Pr!PromiseStands

(* Delivery: the panel names the places that can buy and cannot be served. *)
DeadEndsReported == De!DeadEndsReported

(* Delivery: an accepted choice can be served. *)
AcceptedIsServable == De!AcceptedIsServable

(* Catalogue: what the store shows has a page behind it. *)
ShownIsServed == Cg!ShownIsServed

(* Catalogue: a category hangs off a department. *)
NoGrandchildren == Cg!NoGrandchildren

(* Content: the versions of a text are a complete record. *)
RecordComplete == Co!RecordComplete

(* Content: the store shows the last version. *)
PublishedIsLatest == Co!PublishedIsLatest

(* Mail: a reminder that was missed is made up. *)
MissedIsMadeUp == Ma!MissedIsMadeUp

(* Mail: reminders are not repeated. *)
RemindersBounded == Ma!RemindersBounded
=============================================================================
