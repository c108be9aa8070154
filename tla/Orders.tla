------------------------------- MODULE Orders --------------------------------
(***************************************************************************)
(* The life of an order: checkout, payment attempts and what the gateways  *)
(* say of them, the expiry sweep, cancellation by the client, and the      *)
(* back-office operations of OrdersService, over the stock books.          *)
(*                                                                         *)
(* A handler reads the order row (orderRepository.findOne) and later       *)
(* writes it back whole (save overwrites every column that differs from    *)
(* what the handler has in memory), with the stock calls in the same       *)
(* transaction as the write.  Each handler is therefore a request that     *)
(* reads, and computes the row it will write, in one step and commits in   *)
(* another.  Between the two, other requests run: Requests is how many     *)
(* handlers can overlap.                                                   *)
(***************************************************************************)
EXTENDS Stock

CONSTANTS
  Requests,      \* request slots: the handlers that can be in progress
  Operations,    \* the handlers that take part
  Kinds,         \* kinds of payment method: gateway, manual, cash
  MaxAttempts,   \* bound: payment attempts per order
  MaxUnits,      \* bound: units the shop ever has
  MaxRows        \* bound: rows of the reservations table

ASSUME MaxAttemptsAssumption == MaxAttempts \in Nat \ {0}

VARIABLES
  stock,         \* the books
  orders,        \* the orders table
  items,         \* the order_items table: units per product
  charges,       \* the payment_charges table: attempts, oldest first
  due,           \* the payment window of the order has passed
  refund,        \* a refund was opened for a late payment without stock
  req            \* the handlers in progress

vars == <<stock, orders, items, charges, due, refund, req>>

-----------------------------------------------------------------------------
(* Types *)

OrderStatus ==
  {"pending", "confirmed", "processing", "shipped", "delivered", "cancelled"}

PaymentStatus == {"pending", "paid", "failed", "refunded"}

CancellationReason == {"none", "payment_not_received", "paid_out_of_stock"}

(* "none" is the status of an order not yet placed. *)
Row ==
  [status : OrderStatus \cup {"none"}, payment : PaymentStatus,
   reason : CancellationReason]

Unplaced == [status |-> "none", payment |-> "pending", reason |-> "none"]

Terminal == {"succeeded", "failed", "expired", "cancelled"}

ChargeStatus == {"pending", "requires_action", "processing"} \cup Terminal

(* attempt is the number in the idempotency key. *)
Charge == [kind : Kinds, attempt : 1 .. MaxAttempts, status : ChargeStatus]

NoCharge == [kind |-> "none", attempt |-> 0, status |-> "pending"]

Op ==
  {"charge", "chargeRef", "news", "settle", "late", "expiryDue", "expire", "cancel",
   "status", "reinstate", "payment", "correct", "items"}

Idle == [op |-> "idle"]

Request ==
  [op : Op, order : OrderIds, old : Row, new : Row,
   from : Items, to : Items, charge : Charge \cup {NoCharge}]

TypeOK ==
  /\ stock \in Books
  /\ orders \in [OrderIds -> Row]
  /\ items \in [OrderIds -> Items]
  /\ charges \in [OrderIds -> Seq(Charge)]
  /\ due \in [OrderIds -> BOOLEAN]
  /\ refund \in [OrderIds -> BOOLEAN]
  /\ req \in [Requests -> Request \cup {Idle}]

-----------------------------------------------------------------------------
(* The tables of orders.service.ts *)

stockPhase(status) ==
  CASE status = "pending"   -> "held"
    [] status = "cancelled" -> "released"
    [] OTHER                -> "committed"

(* The index of a status in FORWARD_CHAIN. *)
Rank == [pending |-> 0, confirmed |-> 1, processing |-> 2, shipped |-> 3, delivered |-> 4]

(***************************************************************************)
(* Targets of updateStatus: one step by TRANSITIONS, or any later status   *)
(* by a direct jump; cancelled from every status that is not terminal.     *)
(***************************************************************************)
Targets(status) ==
  IF status \in {"none", "delivered", "cancelled"} THEN {}
  ELSE {"cancelled"} \cup {t \in DOMAIN Rank : Rank[t] > Rank[status]}

PaymentTransitions(payment) ==
  CASE payment = "pending"  -> {"paid", "failed"}
    [] payment = "failed"   -> {"paid", "pending"}
    [] payment = "paid"     -> {"refunded"}
    [] payment = "refunded" -> {}

-----------------------------------------------------------------------------
(* State helpers *)

Placed == {o \in OrderIds : orders[o].status # "none"}

HasCharge(o) == charges[o] # <<>>

Latest(o) == charges[o][Len(charges[o])]

(* The idempotency key names the method and the attempt. *)
SameKey(c, d) == c.kind = d.kind /\ c.attempt = d.attempt

(* Mutant: orders whose payment was never initiated are forgotten. *)
isExpired_OnlyWithCharge(o) ==
  due[o] /\ HasCharge(o) /\ Latest(o).kind # "cash" /\ Latest(o).status # "processing"

(* isExpired: cash has no deadline, money in flight is never cancelled. *)
isExpired(o) ==
  /\ due[o]
  /\ HasCharge(o) => Latest(o).kind # "cash" /\ Latest(o).status # "processing"

(* Every storage may hold the order; a delivery order prefers none. *)
Reserves(s, o, lines) == Reserved(s, o, lines, Locations, NoLocation)

(* Handlers that may add reservation rows start while there is room. *)
Room == Len(stock.rsv) < MaxRows

Ask(op, o, new, lines, charge) ==
  [op |-> op, order |-> o, old |-> orders[o], new |-> new,
   from |-> items[o], to |-> lines, charge |-> charge]

(* A handler has read order o and decided to write `new`. *)
Begin(r, op, o, new, lines, charge) ==
  /\ op \in Operations
  /\ req[r] = Idle
  /\ o \in Placed
  /\ req' = [req EXCEPT ![r] = Ask(op, o, new, lines, charge)]

Done(r) == req' = [req EXCEPT ![r] = Idle]

(***************************************************************************)
(* save(order): the whole row, as the handler has it in memory.            *)
(***************************************************************************)
Save(r) == orders' = [orders EXCEPT ![req[r].order] = req[r].new]

-----------------------------------------------------------------------------
(* crearPedido: one transaction, shared by checkout and crearParaCliente *)

(***************************************************************************)
(* The order number o, its lines and its holds appear together or, when a  *)
(* line cannot be held, not at all.                                        *)
(***************************************************************************)
crearPedido(o, lines, payment) ==
  /\ orders[o] = Unplaced
  /\ \A n \in OrderIds : n < o => n \in Placed
  /\ Room
  /\ stock' \in Reserves(stock, o, lines)
  /\ orders' = [orders EXCEPT ![o].status = "pending", ![o].payment = payment]
  /\ items' = [items EXCEPT ![o] = lines]
  /\ due' = [due EXCEPT ![o] = FALSE]
  /\ UNCHANGED <<charges, refund, req>>

(* The storefront: what the cart holds, to be paid later. *)
checkout(o, lines) == crearPedido(o, lines, "pending")

(* The back office: the sale may be born paid, in the same transaction. *)
crearParaCliente(o, lines, collected) ==
  crearPedido(o, lines, IF collected THEN "paid" ELSE "pending")

(* The payment window of a pending order runs out. *)
WindowPasses(o) ==
  /\ orders[o].status = "pending" /\ ~ due[o]
  /\ due' = [due EXCEPT ![o] = TRUE]
  /\ UNCHANGED <<stock, orders, items, charges, refund, req>>

-----------------------------------------------------------------------------
(* createChargeForOrder: read, seconds at the gateway, store, save *)

StartCharge(r, o, kind) ==
  /\ orders[o].payment # "paid"
  /\ Len(charges[o]) < MaxAttempts
  /\ Begin(r, "charge", o, orders[o], items[o],
           [kind |-> kind, attempt |-> Len(charges[o]) + 1,
            status |-> IF kind = "gateway" THEN "requires_action" ELSE "pending"])
  /\ UNCHANGED <<stock, orders, items, charges, due, refund>>

(***************************************************************************)
(* storeCharge: two creators that computed the same key are answered with  *)
(* the same charge, and the second keeps what the first stored.            *)
(***************************************************************************)
StoreCharge(r) ==
  LET o == req[r].order
      c == req[r].charge
      stored == \E k \in DOMAIN charges[o] : SameKey(charges[o][k], c)
  IN  /\ req[r].op = "charge"
      /\ charges' = IF stored THEN charges
                              ELSE [charges EXCEPT ![o] = Append(@, c)]
      /\ due' = IF stored THEN due ELSE [due EXCEPT ![o] = FALSE]
      /\ req' = [req EXCEPT ![r].op = "chargeRef"]
      /\ UNCHANGED <<stock, orders, items, refund>>

(* callGateway throws: the attempt leaves nothing behind. *)
ChargeFails(r) ==
  /\ req[r].op = "charge"
  /\ Done(r)
  /\ UNCHANGED <<stock, orders, items, charges, due, refund>>

(* order.paymentRef = reference; save(order) *)
SaveReference(r) ==
  /\ req[r].op = "chargeRef"
  /\ Save(r)
  /\ Done(r)
  /\ UNCHANGED <<stock, items, charges, due, refund>>

-----------------------------------------------------------------------------
(* handleWebhook and syncCharge: read the charge, save it, propagate *)

(***************************************************************************)
(* The gateway says charge k is now st.  News may repeat, and may arrive   *)
(* in any order: only a repetition of the status on record is ignored.     *)
(***************************************************************************)
News(r, o, k, st) ==
  /\ Room
  /\ charges[o][k].kind = "gateway"
  /\ charges[o][k].status # st
  /\ Begin(r, "news", o, orders[o], items[o], [charges[o][k] EXCEPT !.status = st])
  /\ UNCHANGED <<stock, orders, items, charges, due, refund>>

(* Mutant: a later failure takes the payment back. *)
Settles_Downgrades(row, st) == st \in {"succeeded", "failed"}

(* Mutant: an order with a failed attempt is not looked at again. *)
Settles_OnlyPending(row, st) == row.payment = "pending" /\ st \in {"succeeded", "failed"}

(***************************************************************************)
(* propagateToOrder: a paid order is left alone; so is one whose charge    *)
(* expired or was cancelled.                                               *)
(***************************************************************************)
Settles(row, st) == row.payment # "paid" /\ st \in {"succeeded", "failed"}

(* The charge is saved and the order read; if it changes, it is saved next. *)
ApplyNews(r) ==
  LET o   == req[r].order
      c   == req[r].charge
      new == [orders[o] EXCEPT
                !.payment = IF c.status = "succeeded" THEN "paid" ELSE "failed"]
  IN  /\ req[r].op = "news"
      /\ charges' = [charges EXCEPT ![o] =
                       [k \in DOMAIN @ |-> IF SameKey(@[k], c) THEN c ELSE @[k]]]
      /\ req' = [req EXCEPT ![r] = IF Settles(orders[o], c.status)
                                   THEN Ask("settle", o, new, items[o], NoCharge)
                                   ELSE Idle]
      /\ UNCHANGED <<stock, orders, items, due, refund>>

(* Mutant: the late payment is looked for where it no longer is. *)
PaidLate_NotCancelled(row) == row.payment = "paid" /\ row.reason = "payment_not_received"
                                /\ row.status = "pending"

(* reinstateIfExpired looks only at orders the sweep cancelled. *)
PaidLate(row) ==
  /\ row.payment = "paid"
  /\ row.status = "cancelled"
  /\ row.reason = "payment_not_received"

SavePayment(r) ==
  LET new == req[r].new
  IN  /\ req[r].op = "settle"
      /\ Save(r)
      /\ req' = [req EXCEPT ![r] =
                   IF ~ PaidLate(new) THEN Idle
                   ELSE [@ EXCEPT !.op = "late", !.old = new,
                           !.from = items[req[r].order],
                           !.new = [new EXCEPT !.status = "pending", !.reason = "none"]]]
      /\ UNCHANGED <<stock, items, charges, due, refund>>

(* The stock is still there: the hold is taken again, the order carries on. *)
LateReinstated(r) ==
  /\ req[r].op = "late"
  /\ stock' \in Reserves(stock, req[r].order, req[r].from)
  /\ Save(r)
  /\ Done(r)
  /\ UNCHANGED <<items, charges, due, refund>>

(* The stock is gone: flagged, and the refund opens by itself. *)
LateOutOfStock(r) ==
  LET o == req[r].order
  IN  /\ req[r].op = "late"
      /\ Reserves(stock, o, req[r].from) = {}
      /\ orders' = [orders EXCEPT ![o] = [req[r].old EXCEPT !.reason = "paid_out_of_stock"]]
      /\ refund' = [refund EXCEPT ![o] = TRUE]
      /\ Done(r)
      /\ UNCHANGED <<stock, items, charges, due>>

-----------------------------------------------------------------------------
(* The expiry sweep *)

(* sweep: the scan picks unpaid pending orders whose window has passed. *)
Sweep(r, o) ==
  /\ orders[o].status = "pending"
  /\ orders[o].payment \in {"pending", "failed"}
  /\ isExpired(o)
  /\ Begin(r, "expiryDue", o, orders[o], items[o], NoCharge)
  /\ UNCHANGED <<stock, orders, items, charges, due, refund>>

(* expire: the transaction reads the order again and may let it be. *)
ExpireRead(r) ==
  LET o     == req[r].order
      fresh == orders[o]
      goes  == fresh.status = "pending" /\ fresh.payment # "paid"
      new   == [fresh EXCEPT !.status = "cancelled", !.reason = "payment_not_received"]
  IN  /\ req[r].op = "expiryDue"
      /\ req' = [req EXCEPT ![r] =
                   IF goes THEN Ask("expire", o, new, items[o], NoCharge) ELSE Idle]
      /\ UNCHANGED <<stock, orders, items, charges, due, refund>>

(***************************************************************************)
(* save(order) with its lines loaded: a line the handler did not read is   *)
(* reconciled away.                                                        *)
(***************************************************************************)
Reconciled(r) ==
  [items EXCEPT ![req[r].order] =
     [p \in Products |-> IF req[r].from[p] = 0 THEN 0 ELSE @[p]]]

(* Without a user, a restock throws and the transaction rolls back. *)
ExpireCommit(r) ==
  /\ req[r].op = "expire"
  /\ CanRelease(stock, req[r].order, FALSE)
  /\ stock' = releaseReservations(stock, req[r].order, "expired")
  /\ Save(r)
  /\ items' = Reconciled(r)
  /\ Done(r)
  /\ UNCHANGED <<charges, due, refund>>

-----------------------------------------------------------------------------
(* cancelByClient *)

StartCancel(r, o) ==
  /\ orders[o].status = "pending"
  /\ Begin(r, "cancel", o, [orders[o] EXCEPT !.status = "cancelled"], items[o], NoCharge)
  /\ UNCHANGED <<stock, orders, items, charges, due, refund>>

CancelByClient(r) ==
  /\ req[r].op = "cancel"
  /\ CanRelease(stock, req[r].order, FALSE)
  /\ stock' = releaseReservations(stock, req[r].order, "cancelled")
  /\ Save(r)
  /\ items' = Reconciled(r)
  /\ Done(r)
  /\ UNCHANGED <<charges, due, refund>>

(* The transaction of a client or of the sweep rolls back. *)
RollBack(r) ==
  /\ req[r].op \in {"cancel", "expire"}
  /\ ~ CanRelease(stock, req[r].order, FALSE)
  /\ Done(r)
  /\ UNCHANGED <<stock, orders, items, charges, due, refund>>

-----------------------------------------------------------------------------
(* Back office *)

StartStatus(r, o, target) ==
  /\ target \in Targets(orders[o].status)
  /\ Begin(r, "status", o, [orders[o] EXCEPT !.status = target], items[o], NoCharge)
  /\ UNCHANGED <<stock, orders, items, charges, due, refund>>

(* Mutant: stock is committed only by landing on confirmed. *)
StatusBooks_NoJump(o, from, to) ==
  CASE to = "cancelled" -> releaseReservations(stock, o, "cancelled")
    [] to = "confirmed" -> confirmReservations(stock, o)
    [] OTHER -> stock

(* A jump owes the side effects of the steps it skips. *)
StatusBooks(o, from, to) ==
  CASE to = "cancelled" -> releaseReservations(stock, o, "cancelled")
    [] from = "pending" /\ to # "cancelled" -> confirmReservations(stock, o)
    [] OTHER -> stock

UpdateStatus(r) ==
  /\ req[r].op = "status"
  /\ stock' = StatusBooks(req[r].order, req[r].old.status, req[r].new.status)
  /\ Save(r)
  /\ Done(r)
  /\ UNCHANGED <<items, charges, due, refund>>

StartReinstate(r, o) ==
  /\ orders[o].status = "cancelled"
  /\ orders[o].reason # "paid_out_of_stock"
  /\ Room
  /\ Begin(r, "reinstate", o,
           [orders[o] EXCEPT !.status = "pending", !.reason = "none"], items[o], NoCharge)
  /\ UNCHANGED <<stock, orders, items, charges, due, refund>>

(* The payment window starts again (reinstatedAt). *)
Reinstate(r) ==
  LET o == req[r].order
  IN  /\ req[r].op = "reinstate"
      /\ stock' \in Reserves(stock, o, items[o])
      /\ Save(r)
      /\ due' = [due EXCEPT ![o] = FALSE]
      /\ Done(r)
      /\ UNCHANGED <<items, charges, refund>>

StartPayment(r, o, payment) ==
  /\ payment \in PaymentTransitions(orders[o].payment)
  /\ Begin(r, "payment", o, [orders[o] EXCEPT !.payment = payment], items[o], NoCharge)
  /\ UNCHANGED <<stock, orders, items, charges, due, refund>>

UpdatePaymentStatus(r) ==
  /\ req[r].op = "payment"
  /\ Save(r)
  /\ Done(r)
  /\ UNCHANGED <<stock, items, charges, due, refund>>

StartCorrect(r, o, status, payment) ==
  LET row == orders[o]
      new == [status |-> status, payment |-> payment,
              reason |-> IF status # row.status /\ "cancelled" \in {status, row.status}
                         THEN "none" ELSE row.reason]
  IN  /\ status # row.status \/ payment # row.payment
      /\ Room
      /\ Begin(r, "correct", o, new, items[o], NoCharge)
      /\ UNCHANGED <<stock, orders, items, charges, due, refund>>

(* Mutant: only holds are let go; what was taken stays taken. *)
CorrectedBooks_NoReturn(o, old, new) ==
  CASE new.status = "cancelled" -> {Release(stock, RowsOf(stock, o, "reserved"), "cancelled")}
    [] new.status # "cancelled" /\ old.status = "cancelled" ->
         Reserves(stock, o, items[o])
    [] OTHER -> {stock}

(* Books after a correction; none when the stock it needs is not there. *)
CorrectedBooks(o, old, new) ==
  LET from  == stockPhase(old.status)
      to    == stockPhase(new.status)
      freed == IF from = "committed" \/ to = "released"
               THEN releaseReservations(stock, o, "cancelled") ELSE stock
      held  == IF from = "held" \/ to = "released"
               THEN {freed} ELSE Reserves(freed, o, items[o])
  IN  CASE from = to -> {stock}
        [] from # to /\ to = "committed" -> {confirmReservations(s, o) : s \in held}
        [] OTHER -> held

(* A correction back to an unpaid pending order restarts the window. *)
RestartsWindow(old, new) ==
  /\ new.status = "pending" /\ new.payment # "paid"
  /\ old.status # "pending" \/ old.payment = "paid"

Correct(r) ==
  LET o == req[r].order
  IN  /\ req[r].op = "correct"
      /\ stock' \in CorrectedBooks(o, req[r].old, req[r].new)
      /\ Save(r)
      /\ due' = [due EXCEPT ![o] = @ /\ ~ RestartsWindow(req[r].old, req[r].new)]
      /\ Done(r)
      /\ UNCHANGED <<items, charges, refund>>

StartItems(r, o, lines) ==
  /\ lines \notin {NoItems, items[o]}
  /\ Room
  /\ Begin(r, "items", o, orders[o], lines, NoCharge)
  /\ UNCHANGED <<stock, orders, items, charges, due, refund>>

Excess(a, b) == [p \in Products |-> Larger(0, a[p] - b[p])]

(* Mutant: a line that shrinks keeps its hold. *)
EditedBooks_KeepsDropped(o, phase, from, to) ==
  IF phase = "released" THEN {stock} ELSE Reserves(stock, o, Excess(to, from))

(* First what frees stock, then what asks for it. *)
EditedBooks(o, phase, from, to) ==
  LET rise  == Excess(to, from)
      freed == releaseProductUnits(stock, o, Excess(from, to))
      held  == Reserves(freed, o, rise)
      rose  == {p \in Products : rise[p] > 0}
  IN  CASE phase = "released"  -> {stock}
        [] phase = "held"      -> held
        [] phase = "committed" -> {confirmProductReservations(s, o, rose) : s \in held}

(***************************************************************************)
(* The lines after an edit.  It changes and removes the lines it has read; *)
(* one that another edit has inserted since stays, and the two add up.     *)
(***************************************************************************)
Rewritten(o, from, to) ==
  [p \in Products |-> IF from[p] > 0 THEN to[p] ELSE items[o][p] + to[p]]

(* Of the order row only the totals change.  MaxQuantity bounds a line. *)
UpdateItems(r) ==
  LET o == req[r].order
  IN  /\ req[r].op = "items"
      /\ stock' \in EditedBooks(o, stockPhase(req[r].old.status),
                                       req[r].from, req[r].to)
      /\ Rewritten(o, req[r].from, req[r].to) \in Items
      /\ items' = [items EXCEPT ![o] = Rewritten(o, req[r].from, req[r].to)]
      /\ Done(r)
      /\ UNCHANGED <<orders, charges, due, refund>>

(* A line that cannot be held: 409, nothing is written. *)
Refused(r) ==
  LET o == req[r].order
  IN  /\ CASE req[r].op = "reinstate" -> Reserves(stock, o, items[o]) = {}
           [] req[r].op = "correct" ->
                CorrectedBooks(o, req[r].old, req[r].new) = {}
           [] req[r].op = "items" ->
                EditedBooks(o, stockPhase(req[r].old.status),
                                   req[r].from, req[r].to) = {}
           [] OTHER -> FALSE
      /\ Done(r)
      /\ UNCHANGED <<stock, orders, items, charges, due, refund>>

-----------------------------------------------------------------------------
(* Warehouse: goods arrive and leave outside any order *)

OnShelves == Total(stock.quantity, Cells)

Sold == Total(Qty(stock), {i \in DOMAIN stock.rsv : stock.rsv[i].status = "confirmed"})

StockIn(l, lines) ==
  /\ OnShelves + Sold + Total(lines, Products) <= MaxUnits
  /\ stock' = addStock(stock, l, lines)
  /\ UNCHANGED <<orders, items, charges, due, refund, req>>

StockOut(l, lines) ==
  /\ CanRemove(stock, l, lines)
  /\ stock' = removeStock(stock, l, lines)
  /\ UNCHANGED <<orders, items, charges, due, refund, req>>

-----------------------------------------------------------------------------

Init ==
  /\ stock = EmptyBooks([c \in Cells |-> 0])
  /\ orders = [o \in OrderIds |-> Unplaced]
  /\ items = [o \in OrderIds |-> NoItems]
  /\ charges = [o \in OrderIds |-> <<>>]
  /\ due = [o \in OrderIds |-> FALSE]
  /\ refund = [o \in OrderIds |-> FALSE]
  /\ req = [r \in Requests |-> Idle]

Lines == Items \ {NoItems}

Shop ==
  \/ \E o \in OrderIds, lines \in Lines : checkout(o, lines)
  \/ \E o \in OrderIds, lines \in Lines, collected \in BOOLEAN :
       crearParaCliente(o, lines, collected)
  \/ \E o \in OrderIds : WindowPasses(o)
  \/ \E l \in Locations, lines \in Lines : StockIn(l, lines)
  \/ \E l \in Locations, lines \in Lines : StockOut(l, lines)

(* A request arrives. *)
Arrive(r) ==
  \E o \in OrderIds :
    \/ \E kind \in Kinds : StartCharge(r, o, kind)
    \/ \E k \in DOMAIN charges[o], st \in Terminal \cup {"processing"} : News(r, o, k, st)
    \/ Sweep(r, o)
    \/ StartCancel(r, o)
    \/ \E target \in OrderStatus : StartStatus(r, o, target)
    \/ StartReinstate(r, o)
    \/ \E payment \in PaymentStatus : StartPayment(r, o, payment)
    \/ \E status \in OrderStatus, payment \in PaymentStatus :
         StartCorrect(r, o, status, payment)
    \/ \E lines \in Lines : StartItems(r, o, lines)

(* A request in progress takes its next step. *)
Proceed(r) ==
  \/ StoreCharge(r)
  \/ ChargeFails(r)
  \/ SaveReference(r)
  \/ ApplyNews(r)
  \/ SavePayment(r)
  \/ LateReinstated(r)
  \/ LateOutOfStock(r)
  \/ ExpireRead(r)
  \/ ExpireCommit(r)
  \/ CancelByClient(r)
  \/ RollBack(r)
  \/ UpdateStatus(r)
  \/ Reinstate(r)
  \/ UpdatePaymentStatus(r)
  \/ Correct(r)
  \/ UpdateItems(r)
  \/ Refused(r)

Next == Shop \/ \E r \in Requests : Arrive(r) \/ Proceed(r)

Spec == Init /\ [][Next]_vars
(***************************************************************************)
(* Handlers finish, time passes, and the scheduled job that posts to       *)
(* /internal/orders/expire keeps coming back: an order that is due again   *)
(* and again is swept in the end, however busy the shop is.                *)
(***************************************************************************)
Fairness ==
  /\ \A r \in Requests : WF_vars(Proceed(r))
  /\ \A o \in OrderIds : WF_vars(WindowPasses(o))
  /\ \A o \in OrderIds : SF_vars(\E r \in Requests : Sweep(r, o))

FairSpec == Spec /\ Fairness

-----------------------------------------------------------------------------
(* Properties of the stock and the status of an order *)

Holds(o) == Units(stock, o, "reserved")

Taken(o) == Units(stock, o, "confirmed")

(***************************************************************************)
(* A pending order has exactly its lines on hold and nothing taken from    *)
(* the shelves: after checkout, an edit of its lines, a reinstatement, a   *)
(* late payment or a correction.                                           *)
(***************************************************************************)
PendingIsReserved ==
  \A o \in OrderIds :
    orders[o].status = "pending" => Holds(o) = items[o] /\ Taken(o) = NoItems

(***************************************************************************)
(* From confirmed to delivered, exactly the lines of the order have been   *)
(* taken from the shelves, once, and nothing is left on hold, whatever     *)
(* steps a direct jump or a correction skipped.                            *)
(***************************************************************************)
CommittedIsTaken ==
  \A o \in OrderIds :
    orders[o].status \in {"confirmed", "processing", "shipped", "delivered"}
      => Taken(o) = items[o] /\ Holds(o) = NoItems

(***************************************************************************)
(* A cancelled order keeps nothing: neither a hold nor goods, whoever      *)
(* cancelled it and from whatever status.                                  *)
(***************************************************************************)
CancelledKeepsNothing ==
  \A o \in OrderIds :
    orders[o].status = "cancelled" => Holds(o) = NoItems /\ Taken(o) = NoItems

(***************************************************************************)
(* An order never holds more than its lines: news of one payment delivered *)
(* twice, by the webhook and by the poll, reserves once.                   *)
(***************************************************************************)
HoldsAtMostItsLines ==
  \A o \in OrderIds, p \in Products : Holds(o)[p] + Taken(o)[p] <= items[o][p]

(***************************************************************************)
(* The books stay sound under the orders, however their handlers overlap:  *)
(* counters match rows, nothing is oversold, the ledger adds up.           *)
(***************************************************************************)
BooksSound == HoldsMatch(stock) /\ NeverOversold(stock) /\ LedgerMatches(stock)

(***************************************************************************)
(* Goods that left the shelves for an order come back only by a            *)
(* back-office operation: the cancellation of a client and the sweep,      *)
(* which may act on a status read before the order was confirmed, roll     *)
(* back instead.                                                           *)
(***************************************************************************)
RestockOnlyByStaff ==
  [][\A i \in DOMAIN stock.rsv :
       stock.rsv[i].status = "confirmed" /\ stock'.rsv[i] # stock.rsv[i]
         => \E r \in Requests : /\ req[r].op \in {"status", "correct", "items"}
                               /\ req[r].order = stock.rsv[i].order]_vars

OnShelf(p) == Total(stock.quantity, {c \in Cells : c[2] = p})

Sa == INSTANCE Sale WITH
  shelf <- [p \in Products |-> OnShelf(p)],
  status <- [o \in OrderIds |-> orders[o].status],
  lines <- items,
  Corrections <- "correct" \in Operations

(***************************************************************************)
(* One handler at a time, the orders and the books of all storages are a   *)
(* plain sale: every order changes in single steps, forwards unless it is  *)
(* reinstated or corrected, its goods leave the shelves exactly when it is *)
(* committed and come back exactly when it no longer is, and what pending  *)
(* orders wait for is there.                                               *)
(***************************************************************************)
SellsFromOneShelf == Sa!Spec

-----------------------------------------------------------------------------
(* Properties of the money *)

(***************************************************************************)
(* No news from a gateway, retry, sweep or cancellation takes a payment    *)
(* back: a paid order stops being paid only by a back-office decision.     *)
(***************************************************************************)
PaidStaysPaid ==
  [][\A o \in OrderIds :
       orders[o].payment = "paid" /\ orders'[o].payment # "paid"
         => \E r \in Requests : req[r].op \in {"payment", "correct"} /\ req[r].order = o]_vars

InProgress(o, ops) == \E r \in Requests : req[r].op \in ops /\ req[r].order = o

(***************************************************************************)
(* Money that came in is on record: an order with a succeeded charge is    *)
(* paid, or the handler that heard of it is still at work.                 *)
(***************************************************************************)
SucceededIsPaid ==
  \A o \in OrderIds :
    (\E k \in DOMAIN charges[o] : charges[o][k].status = "succeeded")
      => orders[o].payment \in {"paid", "refunded"} \/ InProgress(o, {"settle"})

(***************************************************************************)
(* A payment a gateway reports after the order expired is always resolved: *)
(* either the order is alive again with its stock on hold, or it is        *)
(* flagged as out of stock with its refund opened.  It is never left       *)
(* cancelled for "payment not received".                                   *)
(***************************************************************************)
LatePaymentResolved ==
  \A o \in OrderIds :
    /\ orders[o].payment = "paid" /\ orders[o].reason = "payment_not_received"
         => InProgress(o, {"late"})
    /\ orders[o].reason = "paid_out_of_stock"
         => refund[o] /\ orders[o].status = "cancelled" /\ orders[o].payment = "paid"

(***************************************************************************)
(* The sweep never cancels an order that is on record as paid: the         *)
(* transaction of expire reads the order again for that.                   *)
(***************************************************************************)
PaidNeverExpires ==
  [][\A o \in OrderIds :
       orders[o].status = "pending" /\ orders[o].payment = "paid"
         => orders'[o].reason # "payment_not_received"]_vars

(***************************************************************************)
(* An unpaid order does not keep its stock for ever: it is paid, or it     *)
(* leaves pending, unless its last attempt is cash or has money in flight  *)
(* (the two cases the sweep spares).                                       *)
(***************************************************************************)
Spared(o) ==
  HasCharge(o) /\ (Latest(o).kind = "cash" \/ Latest(o).status = "processing")

UnpaidIsReleased ==
  \A o \in OrderIds :
    orders[o].status = "pending" /\ orders[o].payment # "paid"
      ~> \/ orders[o].status # "pending"
         \/ orders[o].payment \in {"paid", "refunded"}
         \/ Spared(o)
=============================================================================
