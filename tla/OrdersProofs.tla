----------------------------- MODULE OrdersProofs -----------------------------
(***************************************************************************)
(* However many handlers overlap, and however stale the rows they write,   *)
(* the stock books stay sound: every call an order handler makes of        *)
(* InventoryService keeps them so, in whatever state it finds the order.   *)
(* The argument needs only that handlers ask for well-formed lines of      *)
(* known orders, so the inductive invariant is the type, Sound(stock), and *)
(* that a handler about to store or update a charge has one in hand.       *)
(*                                                                         *)
(* What ties an order to its stock and to its money holds of handlers that *)
(* run one after the other (Requests has one element): then what a handler *)
(* read is still on record when it writes.  SInv adds that to OInv, and    *)
(* that every order owes the books what its status says; MInv adds, for a  *)
(* back office that leaves payments alone, that the payment, the reason of *)
(* the cancellation, the charges and the refund agree.                     *)
(*                                                                         *)
(* From SInv also follows that the whole implements module Sale: each      *)
(* stock call moves goods only between the shelves and its own order       *)
(* (GoodsKept), so that what an order has out is what its status says.     *)
(***************************************************************************)
EXTENDS Orders, StockProofs

ChargeInHand(q) == q.op \in {"charge", "news"} => q.charge \in Charge

ReqTyped ==
  /\ req \in [Requests -> Request \cup {Idle}]
  /\ \A r \in Requests : ChargeInHand(req[r])

OInv == TypeOK /\ ReqTyped /\ Sound(stock)

(***************************************************************************)
(* A handler in progress is a typed request.                               *)
(***************************************************************************)
LEMMA InProgressTyped ==
  ASSUME TypeOK, NEW r \in Requests, req[r].op \in Op
  PROVE  req[r] \in Request
<1>1. Idle.op \notin Op
  BY DEF Idle, Op
<1> QED
  BY <1>1 DEF TypeOK

(***************************************************************************)
(* A handler goes on as a typed request, or ends.                          *)
(***************************************************************************)
LEMMA GoesOnTyped ==
  ASSUME ReqTyped, NEW r \in Requests, NEW q \in Request \cup {Idle}, ChargeInHand(q),
         req' = [req EXCEPT ![r] = q]
  PROVE  ReqTyped'
<1>1. req' \in [Requests -> Request \cup {Idle}]
  BY DEF ReqTyped
<1>2. \A x \in Requests : req'[x] = IF x = r THEN q ELSE req[x]
  BY DEF ReqTyped
<1> QED
  BY <1>1, <1>2 DEF ReqTyped, ChargeInHand

(***************************************************************************)
(* A handler ends.                                                         *)
(***************************************************************************)
LEMMA DoneTyped ==
  ASSUME ReqTyped, NEW r \in Requests, Done(r)
  PROVE  ReqTyped'
<1>1. ChargeInHand(Idle)
  BY DEF ChargeInHand, Idle
<1> QED
  BY <1>1, GoesOnTyped DEF Done

(***************************************************************************)
(* What a handler asks for is a typed request.                             *)
(***************************************************************************)
LEMMA AskTyped ==
  ASSUME TypeOK, NEW o \in OrderIds, NEW op \in Op, NEW new \in Row,
         NEW lines \in Items, NEW charge \in Charge \cup {NoCharge},
         op \in {"charge", "news"} => charge \in Charge
  PROVE  /\ Ask(op, o, new, lines, charge) \in Request
         /\ ChargeInHand(Ask(op, o, new, lines, charge))
BY DEF TypeOK, Ask, Request, ChargeInHand

(***************************************************************************)
(* A handler begins.                                                       *)
(***************************************************************************)
LEMMA BeginTyped ==
  ASSUME TypeOK, ReqTyped, NEW r \in Requests, NEW o \in OrderIds, NEW op \in Op,
         NEW new \in Row, NEW lines \in Items, NEW charge \in Charge \cup {NoCharge},
         op \in {"charge", "news"} => charge \in Charge,
         Begin(r, op, o, new, lines, charge)
  PROVE  ReqTyped'
<1> DEFINE q == Ask(op, o, new, lines, charge)
<1>1. q \in Request /\ ChargeInHand(q)
  BY AskTyped
<1>2. req' = [req EXCEPT ![r] = q]
  BY DEF Begin
<1> HIDE DEF q
<1> QED
  BY <1>1, <1>2, GoesOnTyped

(***************************************************************************)
(* save(order) writes an order row.                                        *)
(***************************************************************************)
LEMMA SaveTyped ==
  ASSUME TypeOK, NEW r \in Requests, req[r] \in Request, Save(r)
  PROVE  orders' \in [OrderIds -> Row]
BY DEF TypeOK, Save, Request

(***************************************************************************)
(* Only what changes has to be looked at.                                  *)
(***************************************************************************)
LEMMA OInvStep ==
  ASSUME OInv,
         orders' \in [OrderIds -> Row], items' \in [OrderIds -> Items],
         charges' \in [OrderIds -> Seq(Charge)], due' \in [OrderIds -> BOOLEAN],
         refund' \in [OrderIds -> BOOLEAN],
         ReqTyped', Sound(stock')
  PROVE  OInv'
BY DEF OInv, TypeOK, ReqTyped, Sound

(***************************************************************************)
(* The shop opens with sound, empty books.                                 *)
(***************************************************************************)
LEMMA OInit ==
  ASSUME Init
  PROVE  OInv
<1> DEFINE zero == [c \in Cells |-> 0]
<1>1. /\ stock.rsv = << >> /\ stock.quantity = zero
      /\ stock.reserved = zero /\ stock.ledger = zero
  BY DEF Init, EmptyBooks
<1>2. stock \in Books
  <2>1. << >> \in Seq(Reservation)
    BY EmptySeq
  <2> QED
    BY <2>1 DEF Init, EmptyBooks, Books
<1>3. HoldsMatch(stock)
  <2> SUFFICES ASSUME NEW c \in Cells PROVE stock.reserved[c] = HeldAt(stock, c)
    BY DEF HoldsMatch
  <2>1. RowsAt(stock, c, "reserved") = {}
    BY <1>1 DEF RowsAt
  <2>2. HeldAt(stock, c) = 0
    BY <2>1, TotalEmpty DEF HeldAt
  <2> QED
    BY <1>1, <2>2
<1>4. NeverOversold(stock) /\ LedgerMatches(stock)
  BY <1>1 DEF NeverOversold, LedgerMatches
<1>5. NoItems \in Items /\ Unplaced \in Row
  BY MaxQuantityAssumption
     DEF NoItems, Items, Unplaced, Row, OrderStatus, PaymentStatus, CancellationReason
<1>6. << >> \in Seq(Charge)
  BY EmptySeq
<1> QED
  BY <1>2, <1>3, <1>4, <1>5, <1>6 DEF OInv, Sound, TypeOK, ReqTyped, ChargeInHand, Idle, Init

-----------------------------------------------------------------------------
(* Sales, time and the warehouse *)

(***************************************************************************)
(* Checkout, back-office sales and manual stock operations keep the books  *)
(* sound.                                                                  *)
(***************************************************************************)
LEMMA ShopStep ==
  ASSUME OInv, Shop
  PROVE  OInv'
<1>1. TypeOK /\ ReqTyped /\ Sound(stock)
  BY DEF OInv
<1>2. \A lines \in Lines : lines \in Items
  BY DEF Lines
<1>3. ASSUME NEW o \in OrderIds, NEW lines \in Lines, NEW payment \in PaymentStatus,
             crearPedido(o, lines, payment)
      PROVE  OInv'
  <2>1. Sound(stock')
    BY <1>1, <1>3, ReservedSound DEF crearPedido, Reserves
  <2>2. orders' \in [OrderIds -> Row]
    <3>1. /\ orders \in [OrderIds -> Row]
          /\ orders' = [orders EXCEPT ![o].status = "pending", ![o].payment = payment]
      BY <1>1, <1>3 DEF crearPedido, TypeOK
    <3>2. PICK row : row = orders[o]
      OBVIOUS
    <3>3. [row EXCEPT !.status = "pending", !.payment = payment] \in Row
      BY <3>1, <3>2 DEF Row, OrderStatus
    <3>4. orders' = [orders EXCEPT ![o] = [row EXCEPT !.status = "pending", !.payment = payment]]
      BY <3>1, <3>2
    <3> QED
      BY <3>1, <3>3, <3>4
  <2>3. items' \in [OrderIds -> Items] /\ due' \in [OrderIds -> BOOLEAN]
    BY <1>1, <1>2, <1>3 DEF crearPedido, TypeOK
  <2>4. /\ charges' \in [OrderIds -> Seq(Charge)] /\ refund' \in [OrderIds -> BOOLEAN]
        /\ req' = req
    BY <1>1, <1>3 DEF crearPedido, TypeOK
  <2>5. ReqTyped'
    BY <1>1, <2>4 DEF ReqTyped
  <2> QED
    BY <2>1, <2>2, <2>3, <2>4, <2>5, OInvStep
<1>4. ASSUME NEW o \in OrderIds, WindowPasses(o)
      PROVE  OInv'
  BY <1>1, <1>4, OInvStep DEF WindowPasses, TypeOK, ReqTyped
<1>5. ASSUME NEW l \in Locations, NEW lines \in Lines, StockIn(l, lines)
      PROVE  OInv'
  <2>1. Sound(stock')
    BY <1>1, <1>2, <1>5, AddStockSound DEF StockIn
  <2> QED
    BY <1>1, <1>5, <2>1, OInvStep DEF StockIn, TypeOK, ReqTyped
<1>6. ASSUME NEW l \in Locations, NEW lines \in Lines, StockOut(l, lines)
      PROVE  OInv'
  <2>1. Sound(stock')
    BY <1>1, <1>2, <1>6, RemoveStockSound DEF StockOut
  <2> QED
    BY <1>1, <1>6, <2>1, OInvStep DEF StockOut, TypeOK, ReqTyped
<1>7. {"pending", "paid"} \subseteq PaymentStatus
  BY DEF PaymentStatus
<1> QED
  BY <1>3, <1>4, <1>5, <1>6, <1>7 DEF Shop, checkout, crearParaCliente

-----------------------------------------------------------------------------
(* A request arrives: it reads, and writes nothing *)

(***************************************************************************)
(* A handler that has only read leaves the books alone and knows what it   *)
(* will write.                                                             *)
(***************************************************************************)
LEMMA ArriveStep ==
  ASSUME OInv, NEW r \in Requests, Arrive(r)
  PROVE  OInv'
<1>1. TypeOK /\ ReqTyped /\ Sound(stock)
  BY DEF OInv
<1> DEFINE Reads == UNCHANGED <<stock, orders, items, charges, due, refund>>
<1>2. ASSUME ReqTyped', Reads
      PROVE  OInv'
  BY <1>1, <1>2, OInvStep DEF TypeOK
<1>3. PICK o \in OrderIds :
        \/ \E kind \in Kinds : StartCharge(r, o, kind)
        \/ \E k \in DOMAIN charges[o], st \in Terminal \cup {"processing"} : News(r, o, k, st)
        \/ Sweep(r, o)
        \/ StartCancel(r, o)
        \/ \E target \in OrderStatus : StartStatus(r, o, target)
        \/ StartReinstate(r, o)
        \/ \E payment \in PaymentStatus : StartPayment(r, o, payment)
        \/ \E status \in OrderStatus, payment \in PaymentStatus :
             StartCorrect(r, o, status, payment)
        \/ \E lines \in Lines : StartItems(r, o, lines)
  BY DEF Arrive
<1>4. /\ orders[o] \in Row /\ items[o] \in Items /\ charges[o] \in Seq(Charge)
      /\ NoCharge \in Charge \cup {NoCharge}
  BY <1>1 DEF TypeOK
<1>5. ASSUME NEW kind \in Kinds, StartCharge(r, o, kind) PROVE OInv'
  <2> DEFINE c == [kind |-> kind, attempt |-> Len(charges[o]) + 1,
                   status |-> IF kind = "gateway" THEN "requires_action" ELSE "pending"]
  <2>1. c \in Charge
    <3>1. Len(charges[o]) \in Nat
      BY <1>4, LenProperties
    <3>2. Len(charges[o]) + 1 \in 1 .. MaxAttempts
      BY <1>5, <3>1, MaxAttemptsAssumption DEF StartCharge
    <3> QED
      BY <3>2 DEF Charge, ChargeStatus
  <2>2. Begin(r, "charge", o, orders[o], items[o], c) /\ Reads
    BY <1>5 DEF StartCharge
  <2> HIDE DEF c
  <2> QED
    BY <1>1, <1>2, <1>4, <2>1, <2>2, BeginTyped DEF Op
<1>6. ASSUME NEW k \in DOMAIN charges[o], NEW st \in Terminal \cup {"processing"},
             News(r, o, k, st)
      PROVE  OInv'
  <2> DEFINE c == [charges[o][k] EXCEPT !.status = st]
  <2>1. charges[o][k] \in Charge
    BY <1>4, LenProperties, ElementOfSeq
  <2>2. c \in Charge
    BY <2>1 DEF Charge, ChargeStatus
  <2>3. Begin(r, "news", o, orders[o], items[o], c) /\ Reads
    BY <1>6 DEF News
  <2> HIDE DEF c
  <2> QED
    BY <1>1, <1>2, <1>4, <2>2, <2>3, BeginTyped DEF Op
<1>7. ASSUME Sweep(r, o) PROVE OInv'
  <2>1. Begin(r, "expiryDue", o, orders[o], items[o], NoCharge) /\ Reads
    BY <1>7 DEF Sweep
  <2> QED
    BY <1>1, <1>2, <1>4, <2>1, BeginTyped DEF Op
<1>8. ASSUME StartCancel(r, o) PROVE OInv'
  <2> DEFINE new == [orders[o] EXCEPT !.status = "cancelled"]
  <2>1. new \in Row
    BY <1>4 DEF Row, OrderStatus
  <2>2. Begin(r, "cancel", o, new, items[o], NoCharge) /\ Reads
    BY <1>8 DEF StartCancel
  <2> HIDE DEF new
  <2> QED
    BY <1>1, <1>2, <1>4, <2>1, <2>2, BeginTyped DEF Op
<1>9. ASSUME NEW target \in OrderStatus, StartStatus(r, o, target) PROVE OInv'
  <2> DEFINE new == [orders[o] EXCEPT !.status = target]
  <2>1. new \in Row
    BY <1>4 DEF Row
  <2>2. Begin(r, "status", o, new, items[o], NoCharge) /\ Reads
    BY <1>9 DEF StartStatus
  <2> HIDE DEF new
  <2> QED
    BY <1>1, <1>2, <1>4, <2>1, <2>2, BeginTyped DEF Op
<1>10. ASSUME StartReinstate(r, o) PROVE OInv'
  <2> DEFINE new == [orders[o] EXCEPT !.status = "pending", !.reason = "none"]
  <2>1. new \in Row
    BY <1>4 DEF Row, OrderStatus, CancellationReason
  <2>2. Begin(r, "reinstate", o, new, items[o], NoCharge) /\ Reads
    BY <1>10 DEF StartReinstate
  <2> HIDE DEF new
  <2> QED
    BY <1>1, <1>2, <1>4, <2>1, <2>2, BeginTyped DEF Op
<1>11. ASSUME NEW payment \in PaymentStatus, StartPayment(r, o, payment) PROVE OInv'
  <2> DEFINE new == [orders[o] EXCEPT !.payment = payment]
  <2>1. new \in Row
    BY <1>4 DEF Row
  <2>2. Begin(r, "payment", o, new, items[o], NoCharge) /\ Reads
    BY <1>11 DEF StartPayment
  <2> HIDE DEF new
  <2> QED
    BY <1>1, <1>2, <1>4, <2>1, <2>2, BeginTyped DEF Op
<1>12. ASSUME NEW status \in OrderStatus, NEW payment \in PaymentStatus,
              StartCorrect(r, o, status, payment)
       PROVE  OInv'
  <2> DEFINE new == [status |-> status, payment |-> payment,
                     reason |-> IF status # orders[o].status
                                     /\ "cancelled" \in {status, orders[o].status}
                                THEN "none" ELSE orders[o].reason]
  <2>1. new \in Row
    BY <1>4 DEF Row, CancellationReason
  <2>2. Begin(r, "correct", o, new, items[o], NoCharge) /\ Reads
    BY <1>12 DEF StartCorrect
  <2> HIDE DEF new
  <2> QED
    BY <1>1, <1>2, <1>4, <2>1, <2>2, BeginTyped DEF Op
<1>13. ASSUME NEW lines \in Lines, StartItems(r, o, lines) PROVE OInv'
  <2>1. Begin(r, "items", o, orders[o], lines, NoCharge) /\ Reads
    BY <1>13 DEF StartItems
  <2>2. lines \in Items
    BY DEF Lines
  <2> QED
    BY <1>1, <1>2, <1>4, <2>1, <2>2, BeginTyped DEF Op
<1> QED
  BY <1>3, <1>5, <1>6, <1>7, <1>8, <1>9, <1>10, <1>11, <1>12, <1>13

-----------------------------------------------------------------------------
(* A handler in progress takes its next step *)

(***************************************************************************)
(* A status change settles the holds with its stock effects.               *)
(***************************************************************************)
LEMMA StatusBooksSound ==
  ASSUME Sound(stock), NEW o, NEW from, NEW to
  PROVE  Sound(StatusBooks(o, from, to))
<1>1. Sound(releaseReservations(stock, o, "cancelled"))
  BY ReleaseReservationsSound DEF ReservationStatus
<1>2. Sound(confirmReservations(stock, o))
  BY ConfirmReservationsSound
<1> QED
  BY <1>1, <1>2 DEF StatusBooks

(***************************************************************************)
(* A correction frees, holds again and confirms, from any phase to any     *)
(* other.                                                                  *)
(***************************************************************************)
LEMMA CorrectedBooksSound ==
  ASSUME Sound(stock), NEW o \in OrderIds, NEW old, NEW new,
         NEW s \in CorrectedBooks(o, old, new)
  PROVE  Sound(s)
<1> DEFINE from  == stockPhase(old.status)
           to    == stockPhase(new.status)
           freed == IF from = "committed" \/ to = "released"
                    THEN releaseReservations(stock, o, "cancelled") ELSE stock
           held  == IF from = "held" \/ to = "released"
                    THEN {freed} ELSE Reserves(freed, o, items[o])
<1>1. Sound(freed)
  <2>1. Sound(releaseReservations(stock, o, "cancelled"))
    BY ReleaseReservationsSound DEF ReservationStatus
  <2> QED
    BY <2>1
<1>2. \A b \in held : Sound(b)
  <2> HIDE DEF freed
  <2>1. \A b \in Reserves(freed, o, items[o]) : Sound(b)
    BY <1>1, ReservedSound DEF Reserves
  <2> QED
    BY <1>1, <2>1
<1>3. \A b \in held : Sound(confirmReservations(b, o))
  <2> HIDE DEF held
  <2> QED
    BY <1>2, ConfirmReservationsSound
<1>4. s \in {stock} \cup held \cup {confirmReservations(b, o) : b \in held}
  <2>1. CorrectedBooks(o, old, new) =
          CASE from = to -> {stock}
            [] from # to /\ to = "committed" -> {confirmReservations(b, o) : b \in held}
            [] OTHER -> held
    BY DEF CorrectedBooks
  <2> HIDE DEF from, to, held
  <2> QED
    BY <2>1
<1> HIDE DEF held
<1> QED
  BY <1>2, <1>3, <1>4

(***************************************************************************)
(* An edit of the lines lets go what shrinks before it holds what grows.   *)
(***************************************************************************)
LEMMA EditedBooksSound ==
  ASSUME Sound(stock), NEW o \in OrderIds, NEW phase \in {"held", "committed", "released"},
         NEW from \in Items, NEW to \in Items, NEW s \in EditedBooks(o, phase, from, to)
  PROVE  Sound(s)
<1> DEFINE rise  == Excess(to, from)
           freed == releaseProductUnits(stock, o, Excess(from, to))
           held  == Reserves(freed, o, rise)
           rose  == {p \in Products : rise[p] > 0}
<1>1. Excess(from, to) \in [Products -> Nat]
  BY MaxQuantityAssumption DEF Excess, Items, Larger
<1>2. Sound(freed)
  BY <1>1, ReleaseUnitsSound
<1> HIDE DEF freed, rise
<1>3. \A b \in held : Sound(b)
  BY <1>2, ReservedSound DEF Reserves
<1> HIDE DEF held, rose
<1>4. \A b \in held : Sound(confirmProductReservations(b, o, rose))
  BY <1>3, ConfirmReservationsSound
<1>5. s \in {stock} \cup held \cup {confirmProductReservations(b, o, rose) : b \in held}
  BY DEF EditedBooks, held, rose, freed, rise
<1> QED
  BY <1>3, <1>4, <1>5

(***************************************************************************)
(* Lines the handler did not read are reconciled away; the others stay.    *)
(***************************************************************************)
LEMMA ReconciledTyped ==
  ASSUME TypeOK, NEW r \in Requests, req[r] \in Request
  PROVE  Reconciled(r) \in [OrderIds -> Items]
<1>1. req[r].order \in OrderIds /\ items \in [OrderIds -> Items]
  BY DEF Request, TypeOK
<1>2. [p \in Products |-> IF req[r].from[p] = 0 THEN 0 ELSE items[req[r].order][p]] \in Items
  BY <1>1, MaxQuantityAssumption DEF Items
<1> QED
  BY <1>1, <1>2 DEF Reconciled

(***************************************************************************)
(* A handler that talks to a gateway, or writes only the order, leaves the *)
(* books alone; each of the others makes its stock calls and saves.        *)
(***************************************************************************)
LEMMA ProceedStep ==
  ASSUME OInv, NEW r \in Requests, Proceed(r)
  PROVE  OInv'
<1> DEFINE o == req[r].order
<1>1. TypeOK /\ ReqTyped /\ Sound(stock)
  BY DEF OInv
<1>2. ASSUME req[r].op \in Op
      PROVE  /\ req[r] \in Request /\ o \in OrderIds /\ req[r].new \in Row
             /\ req[r].old \in Row /\ req[r].from \in Items /\ req[r].to \in Items
             /\ req[r].charge \in Charge \cup {NoCharge}
             /\ orders[o] \in Row /\ items[o] \in Items
  <2>1. req[r] \in Request
    BY <1>1, <1>2, InProgressTyped
  <2>2. /\ o \in OrderIds /\ req[r].new \in Row
        /\ req[r].old \in Row /\ req[r].from \in Items /\ req[r].to \in Items
        /\ req[r].charge \in Charge \cup {NoCharge}
    BY <2>1 DEF Request
  <2> QED
    BY <1>1, <2>1, <2>2 DEF TypeOK
<1>3. CASE RollBack(r) \/ Refused(r) \/ ChargeFails(r)
  <2>1. Done(r) /\ UNCHANGED <<stock, orders, items, charges, due, refund>>
    BY <1>3 DEF RollBack, Refused, ChargeFails
  <2> QED
    BY <1>1, <2>1, DoneTyped, OInvStep DEF TypeOK
<1>4. CASE SaveReference(r) \/ UpdatePaymentStatus(r)
  <2>1. /\ req[r].op \in Op /\ Save(r) /\ Done(r)
        /\ UNCHANGED <<stock, items, charges, due, refund>>
    BY <1>4 DEF SaveReference, UpdatePaymentStatus, Op
  <2> QED
    BY <1>1, <1>2, <2>1, DoneTyped, SaveTyped, OInvStep DEF TypeOK
<1>5. CASE UpdateStatus(r)
  <2>1. req[r].op \in Op
    BY <1>5 DEF UpdateStatus, Op
  <2>2. Sound(stock')
    BY <1>1, <1>5, StatusBooksSound DEF UpdateStatus
  <2> QED
    BY <1>1, <1>2, <1>5, <2>1, <2>2, DoneTyped, SaveTyped, OInvStep DEF TypeOK, UpdateStatus
<1>6. CASE Reinstate(r)
  <2>1. req[r].op \in Op
    BY <1>6 DEF Reinstate, Op
  <2>2. Sound(stock')
    BY <1>1, <1>2, <1>6, <2>1, ReservedSound DEF Reinstate, Reserves
  <2>3. due' \in [OrderIds -> BOOLEAN]
    BY <1>1, <1>6 DEF Reinstate, TypeOK
  <2> QED
    BY <1>1, <1>2, <1>6, <2>1, <2>2, <2>3, DoneTyped, SaveTyped, OInvStep
       DEF TypeOK, Reinstate
<1>7. CASE Correct(r)
  <2>1. req[r].op \in Op
    BY <1>7 DEF Correct, Op
  <2>2. Sound(stock')
    BY <1>1, <1>2, <1>7, <2>1, CorrectedBooksSound DEF Correct
  <2>3. due' \in [OrderIds -> BOOLEAN]
    BY <1>1, <1>7 DEF Correct, TypeOK
  <2> QED
    BY <1>1, <1>2, <1>7, <2>1, <2>2, <2>3, DoneTyped, SaveTyped, OInvStep
       DEF TypeOK, Correct
<1>8. CASE UpdateItems(r)
  <2>1. req[r].op \in Op
    BY <1>8 DEF UpdateItems, Op
  <2>2. stockPhase(req[r].old.status) \in {"held", "committed", "released"}
    BY DEF stockPhase
  <2>3. Sound(stock')
    BY <1>1, <1>2, <1>8, <2>1, <2>2, EditedBooksSound DEF UpdateItems
  <2>4. items' \in [OrderIds -> Items]
    BY <1>1, <1>2, <1>8, <2>1 DEF UpdateItems, TypeOK
  <2> QED
    BY <1>1, <1>8, <2>3, <2>4, DoneTyped, OInvStep DEF TypeOK, UpdateItems
<1>9. CASE ExpireCommit(r) \/ CancelByClient(r)
  <2>1. /\ req[r].op \in Op /\ Save(r) /\ Done(r) /\ items' = Reconciled(r)
        /\ UNCHANGED <<charges, due, refund>>
        /\ \E final \in {"expired", "cancelled"} :
             stock' = releaseReservations(stock, o, final)
    BY <1>9 DEF ExpireCommit, CancelByClient, Op
  <2>2. Sound(stock')
    BY <1>1, <2>1, ReleaseReservationsSound DEF ReservationStatus
  <2> QED
    BY <1>1, <1>2, <2>1, <2>2, DoneTyped, SaveTyped, ReconciledTyped, OInvStep DEF TypeOK
<1>10. CASE ExpireRead(r)
  <2> DEFINE new == [orders[o] EXCEPT !.status = "cancelled",
                                      !.reason = "payment_not_received"]
  <2>1. req[r].op \in Op
    BY <1>10 DEF ExpireRead, Op
  <2>2. new \in Row
    BY <1>2, <2>1 DEF Row, OrderStatus, CancellationReason
  <2>3. /\ Ask("expire", o, new, items[o], NoCharge) \in Request
        /\ ChargeInHand(Ask("expire", o, new, items[o], NoCharge))
    <3> HIDE DEF new
    <3> QED
      BY <1>1, <1>2, <2>1, <2>2, AskTyped DEF Op
  <2>4. ReqTyped'
    <3> DEFINE a == Ask("expire", o, new, items[o], NoCharge)
    <3>1. \/ req' = [req EXCEPT ![r] = a]
          \/ req' = [req EXCEPT ![r] = Idle]
      BY <1>10 DEF ExpireRead
    <3>2. a \in Request /\ ChargeInHand(a) /\ ChargeInHand(Idle)
      BY <2>3 DEF ChargeInHand, Idle
    <3> HIDE DEF a
    <3> QED
      BY <1>1, <3>1, <3>2, GoesOnTyped
  <2> QED
    BY <1>1, <1>10, <2>4, OInvStep DEF ExpireRead, TypeOK
<1>11. CASE StoreCharge(r)
  <2>1. req[r].op = "charge" /\ req[r].op \in Op
    BY <1>11 DEF StoreCharge, Op
  <2>2. ReqTyped'
    <3> DEFINE q == [req[r] EXCEPT !.op = "chargeRef"]
    <3>1. q \in Request /\ ChargeInHand(q)
      BY <1>2, <2>1 DEF Request, Op, ChargeInHand
    <3>2. req' = [req EXCEPT ![r] = q]
      BY <1>1, <1>11 DEF StoreCharge, ReqTyped
    <3> HIDE DEF q
    <3> QED
      BY <1>1, <3>1, <3>2, GoesOnTyped
  <2>3. due' \in [OrderIds -> BOOLEAN]
    BY <1>1, <1>11 DEF StoreCharge, TypeOK
  <2>4. charges' \in [OrderIds -> Seq(Charge)]
    <3>1. req[r].charge \in Charge
      BY <1>1, <2>1 DEF ReqTyped, ChargeInHand
    <3>2. charges[o] \in Seq(Charge)
      BY <1>1, <1>2, <2>1 DEF TypeOK
    <3>3. Append(charges[o], req[r].charge) \in Seq(Charge)
      BY <3>1, <3>2
    <3> QED
      BY <1>1, <1>11, <3>3 DEF StoreCharge, TypeOK
  <2> QED
    BY <1>1, <1>11, <2>2, <2>3, <2>4, OInvStep DEF StoreCharge, TypeOK
<1>12. CASE ApplyNews(r)
  <2> DEFINE c == req[r].charge
             new == [orders[o] EXCEPT
                       !.payment = IF c.status = "succeeded" THEN "paid" ELSE "failed"]
  <2>1. req[r].op = "news" /\ req[r].op \in Op
    BY <1>12 DEF ApplyNews, Op
  <2>2. new \in Row
    BY <1>2, <2>1 DEF Row, PaymentStatus
  <2>3. /\ Ask("settle", o, new, items[o], NoCharge) \in Request
        /\ ChargeInHand(Ask("settle", o, new, items[o], NoCharge))
    <3> HIDE DEF new
    <3> QED
      BY <1>1, <1>2, <2>1, <2>2, AskTyped DEF Op
  <2>4. ReqTyped'
    <3> DEFINE a == Ask("settle", o, new, items[o], NoCharge)
    <3>1. \/ req' = [req EXCEPT ![r] = a]
          \/ req' = [req EXCEPT ![r] = Idle]
      BY <1>12 DEF ApplyNews
    <3>2. a \in Request /\ ChargeInHand(a) /\ ChargeInHand(Idle)
      BY <2>3 DEF ChargeInHand, Idle
    <3> HIDE DEF a
    <3> QED
      BY <1>1, <3>1, <3>2, GoesOnTyped
  <2>5. charges' \in [OrderIds -> Seq(Charge)]
    <3> DEFINE q == [k \in DOMAIN charges[o] |->
                       IF SameKey(charges[o][k], c) THEN c ELSE charges[o][k]]
    <3>1. c \in Charge
      BY <1>1, <2>1 DEF ReqTyped, ChargeInHand
    <3>2. charges[o] \in Seq(Charge)
      BY <1>1, <1>2, <2>1 DEF TypeOK
    <3>3. /\ Len(charges[o]) \in Nat /\ DOMAIN charges[o] = 1 .. Len(charges[o])
          /\ \A k \in DOMAIN charges[o] : charges[o][k] \in Charge
      BY <3>2, LenProperties, ElementOfSeq
    <3>4. q \in Seq(Charge)
      BY <3>1, <3>3, SeqDef
    <3>5. charges' = [charges EXCEPT ![o] = q]
      BY <1>12 DEF ApplyNews
    <3> HIDE DEF q
    <3> QED
      BY <1>1, <3>4, <3>5 DEF TypeOK
  <2> QED
    BY <1>1, <1>12, <2>4, <2>5, OInvStep DEF ApplyNews, TypeOK
<1>13. CASE SavePayment(r)
  <2> DEFINE new == req[r].new
             late == [req[r] EXCEPT !.op = "late", !.old = new, !.from = items[o],
                        !.new = [new EXCEPT !.status = "pending", !.reason = "none"]]
  <2>1. req[r].op \in Op
    BY <1>13 DEF SavePayment, Op
  <2>2. [new EXCEPT !.status = "pending", !.reason = "none"] \in Row
    BY <1>2, <2>1 DEF Row, OrderStatus, CancellationReason
  <2>3. late \in Request
    BY <1>2, <2>1, <2>2 DEF Request, Op
  <2>4. ReqTyped'
    <3>1. \/ req' = [req EXCEPT ![r] = late]
          \/ req' = [req EXCEPT ![r] = Idle]
      BY <1>13 DEF SavePayment
    <3>2. late \in Request /\ ChargeInHand(late) /\ ChargeInHand(Idle)
      BY <1>2, <2>1, <2>3 DEF ChargeInHand, Idle, Request
    <3> HIDE DEF late
    <3> QED
      BY <1>1, <3>1, <3>2, GoesOnTyped
  <2> QED
    BY <1>1, <1>2, <1>13, <2>1, <2>4, SaveTyped, OInvStep DEF SavePayment, TypeOK
<1>14. CASE LateReinstated(r)
  <2>1. req[r].op \in Op
    BY <1>14 DEF LateReinstated, Op
  <2>2. Sound(stock')
    BY <1>1, <1>2, <1>14, <2>1, ReservedSound DEF LateReinstated, Reserves
  <2> QED
    BY <1>1, <1>2, <1>14, <2>1, <2>2, DoneTyped, SaveTyped, OInvStep
       DEF TypeOK, LateReinstated
<1>15. CASE LateOutOfStock(r)
  <2>1. req[r].op \in Op
    BY <1>15 DEF LateOutOfStock, Op
  <2>2. [req[r].old EXCEPT !.reason = "paid_out_of_stock"] \in Row
    BY <1>2, <2>1 DEF Row, CancellationReason
  <2>3. orders' \in [OrderIds -> Row] /\ refund' \in [OrderIds -> BOOLEAN]
    BY <1>1, <1>15, <2>2 DEF LateOutOfStock, TypeOK
  <2> QED
    BY <1>1, <1>15, <2>3, DoneTyped, OInvStep DEF LateOutOfStock, TypeOK
<1> QED
  BY <1>3, <1>4, <1>5, <1>6, <1>7, <1>8, <1>9, <1>10, <1>11, <1>12, <1>13, <1>14, <1>15
     DEF Proceed

-----------------------------------------------------------------------------

(***************************************************************************)
(* The type and the soundness of the books are preserved by every step of  *)
(* every handler.                                                          *)
(***************************************************************************)
THEOREM OrdersKeepBooks == Spec => []OInv
<1>1. Init => OInv
  BY OInit
<1>2. OInv /\ [Next]_vars => OInv'
  <2> SUFFICES ASSUME OInv, [Next]_vars PROVE OInv'
    OBVIOUS
  <2>1. CASE Shop
    BY <2>1, ShopStep
  <2>2. ASSUME NEW r \in Requests, Arrive(r) PROVE OInv'
    BY <2>2, ArriveStep
  <2>3. ASSUME NEW r \in Requests, Proceed(r) PROVE OInv'
    BY <2>3, ProceedStep
  <2>4. CASE UNCHANGED vars
    BY <2>4 DEF vars, OInv, TypeOK, ReqTyped
  <2> QED
    BY <2>1, <2>2, <2>3, <2>4 DEF Next
<1> QED
  BY <1>1, <1>2, PTL DEF Spec

(***************************************************************************)
(* Type correctness of the orders, their lines, attempts and handlers.     *)
(***************************************************************************)
THEOREM OrdersTyped == Spec => []TypeOK
<1>1. OInv => TypeOK
  BY DEF OInv
<1> QED
  BY <1>1, OrdersKeepBooks, PTL

(***************************************************************************)
(* For any number of overlapping handlers, orders, products and storages:  *)
(* counters match rows, nothing is oversold, the ledger adds up.           *)
(***************************************************************************)
THEOREM BooksSoundAlways == Spec => []BooksSound
<1>1. OInv => BooksSound
  BY DEF OInv, Sound, BooksSound
<1> QED
  BY <1>1, OrdersKeepBooks, PTL

-----------------------------------------------------------------------------
(* Who may bring goods back *)

(***************************************************************************)
(* The books a correction chooses from touch only rows of its order.       *)
(***************************************************************************)
LEMMA CorrectedBooksRows ==
  ASSUME Sound(stock), NEW o \in OrderIds, items[o] \in Items, NEW old, NEW new,
         NEW s \in CorrectedBooks(o, old, new)
  PROVE  OnlyRowsOf(stock, s, o)
<1> DEFINE from  == stockPhase(old.status)
           to    == stockPhase(new.status)
           freed == IF from = "committed" \/ to = "released"
                    THEN releaseReservations(stock, o, "cancelled") ELSE stock
           held  == IF from = "held" \/ to = "released"
                    THEN {freed} ELSE Reserves(freed, o, items[o])
<1>1. OnlyRowsOf(stock, stock, o)
  BY DEF OnlyRowsOf
<1>2. Sound(freed) /\ OnlyRowsOf(stock, freed, o)
  <2>1. Sound(releaseReservations(stock, o, "cancelled"))
    BY ReleaseReservationsSound DEF ReservationStatus
  <2>2. OnlyRowsOf(stock, releaseReservations(stock, o, "cancelled"), o)
    BY CallsTouchOneOrder
  <2> QED
    BY <1>1, <2>1, <2>2
<1>3. \A b \in held : Sound(b) /\ OnlyRowsOf(stock, b, o)
  <2> HIDE DEF freed
  <2>1. \A b \in Reserves(freed, o, items[o]) : Sound(b) /\ OnlyRowsOf(freed, b, o)
    BY <1>2, ReservedSound, CallsTouchOneOrder DEF Reserves
  <2>2. \A b \in Reserves(freed, o, items[o]) : OnlyRowsOf(stock, b, o)
    BY <1>2, <2>1, OnlyRowsChain
  <2> QED
    BY <1>2, <2>1, <2>2
<1>4. \A b \in held : OnlyRowsOf(stock, confirmReservations(b, o), o)
  <2> HIDE DEF held
  <2>1. \A b \in held : OnlyRowsOf(b, confirmReservations(b, o), o)
    BY <1>3, CallsTouchOneOrder
  <2> QED
    BY <1>3, <2>1, OnlyRowsChain
<1>5. s \in {stock} \cup held \cup {confirmReservations(b, o) : b \in held}
  <2>1. CorrectedBooks(o, old, new) =
          CASE from = to -> {stock}
            [] from # to /\ to = "committed" -> {confirmReservations(b, o) : b \in held}
            [] OTHER -> held
    BY DEF CorrectedBooks
  <2> HIDE DEF from, to, held
  <2> QED
    BY <2>1
<1> HIDE DEF held
<1> QED
  BY <1>1, <1>3, <1>4, <1>5

(***************************************************************************)
(* So do those an edit of the lines chooses from.                          *)
(***************************************************************************)
LEMMA EditedBooksRows ==
  ASSUME Sound(stock), NEW o \in OrderIds, NEW phase \in {"held", "committed", "released"},
         NEW from \in Items, NEW to \in Items, NEW s \in EditedBooks(o, phase, from, to)
  PROVE  OnlyRowsOf(stock, s, o)
<1> DEFINE rise  == Excess(to, from)
           freed == releaseProductUnits(stock, o, Excess(from, to))
           held  == Reserves(freed, o, rise)
           rose  == {p \in Products : rise[p] > 0}
<1>1. /\ Excess(from, to) \in [Products -> Nat] /\ rise \in Items
      /\ rose \in SUBSET Products
  BY MaxQuantityAssumption DEF Excess, Items, Larger
<1>2. Sound(freed) /\ OnlyRowsOf(stock, freed, o) /\ OnlyRowsOf(stock, stock, o)
  BY <1>1, ReleaseUnitsSound, CallsTouchOneOrder DEF OnlyRowsOf
<1> HIDE DEF freed, rise
<1>3. \A b \in held : Sound(b) /\ OnlyRowsOf(freed, b, o)
  BY <1>1, <1>2, ReservedSound, CallsTouchOneOrder DEF Reserves
<1> HIDE DEF held, rose
<1>4. \A b \in held : OnlyRowsOf(stock, b, o)
  BY <1>2, <1>3, OnlyRowsChain
<1>5. \A b \in held : OnlyRowsOf(stock, confirmProductReservations(b, o, rose), o)
  <2>1. \A b \in held : OnlyRowsOf(b, confirmProductReservations(b, o, rose), o)
    BY <1>1, <1>3, CallsTouchOneOrder
  <2> QED
    BY <1>4, <2>1, OnlyRowsChain
<1>6. s \in {stock} \cup held \cup {confirmProductReservations(b, o, rose) : b \in held}
  BY DEF EditedBooks, held, rose, freed, rise
<1> QED
  BY <1>2, <1>4, <1>5, <1>6

(***************************************************************************)
(* What the next step may not do to goods already taken.                   *)
(***************************************************************************)
TakenStays ==
  \A i \in DOMAIN stock.rsv :
    stock.rsv[i].status = "confirmed" /\ stock'.rsv[i] # stock.rsv[i]
      => \E r \in Requests : /\ req[r].op \in {"status", "correct", "items"}
                            /\ req[r].order = stock.rsv[i].order

(***************************************************************************)
(* Any step of any handler: a sale, a late payment or a reinstatement only *)
(* adds rows; the sweep and the client close an order that has taken       *)
(* nothing or roll back; the other three act on their own order.           *)
(***************************************************************************)
LEMMA RestockStep ==
  ASSUME OInv, [Next]_vars
  PROVE  TakenStays
<1>1. TypeOK /\ ReqTyped /\ Sound(stock) /\ stock \in Books
  BY DEF OInv, Sound
<1>2. ASSUME stock'.rsv = stock.rsv PROVE TakenStays
  BY <1>2 DEF TakenStays
<1>3. ASSUME NEW o \in OrderIds, NEW lines \in Items, stock' \in Reserves(stock, o, lines)
      PROVE  TakenStays
  <2>1. \A i \in DOMAIN stock.rsv : stock'.rsv[i] = stock.rsv[i]
    BY <1>1, <1>3, ReservedRows DEF Reserves
  <2> QED
    BY <2>1 DEF TakenStays
<1>4. ASSUME NEW r \in Requests, req[r].op \in {"status", "correct", "items"},
             OnlyRowsOf(stock, stock', req[r].order)
      PROVE  TakenStays
  BY <1>4 DEF TakenStays, OnlyRowsOf
<1>5. CASE Shop
  <2>1. ASSUME NEW o \in OrderIds, NEW lines \in Lines, NEW payment,
               crearPedido(o, lines, payment)
        PROVE  TakenStays
    BY <1>3, <2>1 DEF crearPedido, Lines
  <2>2. ASSUME NEW o \in OrderIds, WindowPasses(o) PROVE TakenStays
    BY <1>2, <2>2 DEF WindowPasses
  <2>3. ASSUME NEW l, NEW lines, StockIn(l, lines) \/ StockOut(l, lines) PROVE TakenStays
    BY <1>1, <1>2, <2>3 DEF StockIn, StockOut, addStock, removeStock, Books
  <2> QED
    BY <1>5, <2>1, <2>2, <2>3 DEF Shop, checkout, crearParaCliente
<1>6. ASSUME NEW r \in Requests, Arrive(r) PROVE TakenStays
  BY <1>2, <1>6 DEF Arrive, StartCharge, News, Sweep, StartCancel, StartStatus, StartReinstate,
                    StartPayment, StartCorrect, StartItems
<1>7. ASSUME NEW r \in Requests, Proceed(r) PROVE TakenStays
  <2> DEFINE o == req[r].order
  <2>1. ASSUME req[r].op \in Op
        PROVE  /\ o \in OrderIds /\ req[r].from \in Items /\ req[r].to \in Items
               /\ items[o] \in Items
    <3>1. req[r] \in Request
      BY <1>1, <2>1, InProgressTyped
    <3> QED
      BY <1>1, <3>1 DEF Request, TypeOK
  <2>2. CASE StoreCharge(r) \/ ChargeFails(r) \/ SaveReference(r) \/ ApplyNews(r)
               \/ SavePayment(r) \/ LateOutOfStock(r) \/ ExpireRead(r) \/ RollBack(r)
               \/ UpdatePaymentStatus(r) \/ Refused(r)
    BY <1>2, <2>2 DEF StoreCharge, ChargeFails, SaveReference, ApplyNews, SavePayment,
                      LateOutOfStock, ExpireRead, RollBack, UpdatePaymentStatus, Refused
  <2>3. CASE LateReinstated(r)
    BY <1>3, <2>1, <2>3 DEF LateReinstated, Op
  <2>4. CASE Reinstate(r)
    BY <1>3, <2>1, <2>4 DEF Reinstate, Op
  <2>5. CASE ExpireCommit(r) \/ CancelByClient(r)
    <3>1. /\ req[r].op \in Op /\ RowsOf(stock, o, "confirmed") = {}
          /\ \E final \in {"expired", "cancelled"} :
               stock' = releaseReservations(stock, o, final)
      BY <2>5 DEF ExpireCommit, CancelByClient, CanRelease, Op
    <3>2. \A i \in DOMAIN stock.rsv : stock'.rsv[i] # stock.rsv[i] => i \in Live(stock, o)
      BY <1>1, <3>1, LinesReleased
    <3>3. \A i \in Live(stock, o) : stock.rsv[i].status # "confirmed"
      BY <3>1 DEF Live, RowsOf
    <3> QED
      BY <3>2, <3>3 DEF TakenStays
  <2>6. CASE UpdateStatus(r)
    <3>1. req[r].op = "status" /\ req[r].op \in Op /\ o \in OrderIds
      BY <2>1, <2>6 DEF UpdateStatus, Op
    <3>2. OnlyRowsOf(stock, stock', o)
      <4>1. /\ OnlyRowsOf(stock, stock, o)
            /\ OnlyRowsOf(stock, releaseReservations(stock, o, "cancelled"), o)
            /\ OnlyRowsOf(stock, confirmReservations(stock, o), o)
        BY <1>1, <3>1, CallsTouchOneOrder DEF OnlyRowsOf
      <4>2. \/ stock' = stock
            \/ stock' = releaseReservations(stock, o, "cancelled")
            \/ stock' = confirmReservations(stock, o)
        BY <2>6 DEF UpdateStatus, StatusBooks
      <4> QED
        BY <4>1, <4>2
    <3> QED
      BY <1>4, <3>1, <3>2
  <2>7. CASE Correct(r)
    <3>1. req[r].op = "correct" /\ req[r].op \in Op
      BY <2>7 DEF Correct, Op
    <3>2. OnlyRowsOf(stock, stock', o)
      BY <1>1, <2>1, <2>7, <3>1, CorrectedBooksRows DEF Correct
    <3> QED
      BY <1>4, <3>1, <3>2
  <2>8. CASE UpdateItems(r)
    <3>1. req[r].op = "items" /\ req[r].op \in Op
      BY <2>8 DEF UpdateItems, Op
    <3>2. stockPhase(req[r].old.status) \in {"held", "committed", "released"}
      BY DEF stockPhase
    <3>3. OnlyRowsOf(stock, stock', o)
      BY <1>1, <2>1, <2>8, <3>1, <3>2, EditedBooksRows DEF UpdateItems
    <3> QED
      BY <1>4, <3>1, <3>3
  <2> QED
    BY <1>7, <2>2, <2>3, <2>4, <2>5, <2>6, <2>7, <2>8 DEF Proceed
<1>8. CASE UNCHANGED vars
  BY <1>2, <1>8 DEF vars
<1> QED
  BY <1>5, <1>6, <1>7, <1>8 DEF Next

(***************************************************************************)
(* However many handlers overlap, goods that left the shelves for an order *)
(* come back only by a back-office operation on that order: never by the   *)
(* sweep or a client that acts on a status read too early.                 *)
(***************************************************************************)
THEOREM OnlyStaffRestocks == Spec => RestockOnlyByStaff
<1>1. OInv /\ [Next]_vars => TakenStays
  BY RestockStep
<1>2. OInv /\ [Next]_vars => [TakenStays]_vars
  BY <1>1
<1> QED
  BY <1>2, OrdersKeepBooks, PTL DEF Spec, RestockOnlyByStaff, TakenStays

-----------------------------------------------------------------------------
(* One handler at a time: the stock of an order follows its status *)

(***************************************************************************)
(* The units an order in a status owes to the books in the state st.       *)
(***************************************************************************)
Owed(status, lines, st) ==
  IF \/ status = "pending" /\ st = "reserved"
     \/ status \in {"confirmed", "processing", "shipped", "delivered"} /\ st = "confirmed"
  THEN lines ELSE NoItems

LiveStatus == {"reserved", "confirmed"}

(***************************************************************************)
(* Every order has on hold, and has taken, exactly what its status says.   *)
(***************************************************************************)
Owing ==
  \A o \in OrderIds, st \in LiveStatus :
    Units(stock, o, st) = Owed(orders[o].status, items[o], st)

(***************************************************************************)
(* What a handler decided to write, given what it read.                    *)
(***************************************************************************)
Decided(q) ==
  /\ q.op \in {"charge", "chargeRef", "news", "expiryDue", "items"} => q.new = q.old
  /\ q.op = "settle" => /\ q.old.payment # "paid"
                        /\ q.new.status = q.old.status /\ q.new.reason = q.old.reason
  /\ q.op = "late" => /\ q.old.status = "cancelled" /\ q.new.status = "pending"
                      /\ q.new.payment = q.old.payment
  /\ q.op \in {"expire", "cancel"} => /\ q.old.status = "pending" /\ q.new.status = "cancelled"
                                      /\ q.new.payment = q.old.payment
  /\ q.op = "status" => /\ q.new.status \in Targets(q.old.status)
                        /\ q.new.payment = q.old.payment
  /\ q.op = "reinstate" => /\ q.old.status = "cancelled" /\ q.new.status = "pending"
                           /\ q.new.payment = q.old.payment
  /\ q.op = "payment" => q.new.status = q.old.status
  /\ q.op = "correct" => q.new.status # "none" /\ "correct" \in Operations
  /\ q.op = "items" => q.to # NoItems

(***************************************************************************)
(* The handler in progress still has what is on record in hand.            *)
(***************************************************************************)
FreshRequest(q) ==
  q.op \in Op => /\ q.order \in Placed
                 /\ q.old = orders[q.order] /\ q.from = items[q.order]
                 /\ Decided(q)

Fresh == \A r \in Requests : FreshRequest(req[r])

SInv == OInv /\ Fresh /\ Owing

(***************************************************************************)
(* What a handler just asked for is fresh.                                 *)
(***************************************************************************)
LEMMA AskFresh ==
  ASSUME NEW o \in OrderIds, o \in Placed, NEW op, NEW new, NEW lines, NEW charge,
         NEW q, q = Ask(op, o, new, lines, charge), Decided(q),
         orders' = orders, items' = items
  PROVE  FreshRequest(q)'
BY DEF FreshRequest, Ask, Placed, Decided

(***************************************************************************)
(* With one slot, the handler that ends or goes on is the only one.        *)
(***************************************************************************)
LEMMA OnlyHandler ==
  ASSUME NEW h, Requests = {h}, ReqTyped, NEW q, req' = [req EXCEPT ![h] = q],
         FreshRequest(q)'
  PROVE  Fresh'
<1>1. \A r \in Requests : r = h
  OBVIOUS
<1>2. req'[h] = q
  BY DEF ReqTyped
<1> QED
  BY <1>1, <1>2 DEF Fresh, FreshRequest, Decided, Placed

(***************************************************************************)
(* No handler is in progress once the only one has ended.                  *)
(***************************************************************************)
LEMMA DoneFresh ==
  ASSUME NEW h, Requests = {h}, ReqTyped, Done(h)
  PROVE  Fresh'
<1>1. FreshRequest(Idle)'
  BY DEF FreshRequest, Idle, Op
<1> QED
  BY <1>1, OnlyHandler DEF Done

(***************************************************************************)
(* A handler begins.                                                       *)
(***************************************************************************)
LEMMA BeginFresh ==
  ASSUME NEW h, Requests = {h}, ReqTyped, NEW o \in OrderIds, NEW op, NEW new,
         NEW lines, NEW charge, Begin(h, op, o, new, lines, charge),
         Decided(Ask(op, o, new, lines, charge)), orders' = orders, items' = items
  PROVE  Fresh'
<1>1. PICK q : q = Ask(op, o, new, lines, charge)
  OBVIOUS
<1>2. o \in Placed /\ req' = [req EXCEPT ![h] = q] /\ Decided(q)
  BY <1>1 DEF Begin
<1>3. FreshRequest(q)'
  BY <1>1, <1>2, AskFresh
<1> QED
  BY <1>2, <1>3, OnlyHandler

(***************************************************************************)
(* A request that arrives decides on what is on record.                    *)
(***************************************************************************)
LEMMA ArriveFresh ==
  ASSUME NEW h, Requests = {h}, SInv, Arrive(h)
  PROVE  SInv'
<1>1. TypeOK /\ ReqTyped /\ Sound(stock) /\ OInv
  BY DEF SInv, OInv
<1>2. h \in Requests
  OBVIOUS
<1>3. OInv'
  BY <1>1, <1>2, ArriveStep
<1>4. stock' = stock /\ orders' = orders /\ items' = items
  BY DEF Arrive, StartCharge, News, Sweep, StartCancel, StartStatus, StartReinstate,
         StartPayment, StartCorrect, StartItems
<1>5. Owing'
  BY <1>4 DEF SInv, Owing
<1>6. PICK o \in OrderIds :
        \/ \E kind \in Kinds : StartCharge(h, o, kind)
        \/ \E k \in DOMAIN charges[o], st \in Terminal \cup {"processing"} : News(h, o, k, st)
        \/ Sweep(h, o)
        \/ StartCancel(h, o)
        \/ \E target \in OrderStatus : StartStatus(h, o, target)
        \/ StartReinstate(h, o)
        \/ \E payment \in PaymentStatus : StartPayment(h, o, payment)
        \/ \E status \in OrderStatus, payment \in PaymentStatus :
             StartCorrect(h, o, status, payment)
        \/ \E lines \in Lines : StartItems(h, o, lines)
  BY DEF Arrive
<1>7. \E op, new, lines, charge :
        Begin(h, op, o, new, lines, charge) /\ Decided(Ask(op, o, new, lines, charge))
  <2>1. orders[o] \in Row
    BY <1>1 DEF TypeOK
  <2>2. CASE \/ \E kind \in Kinds : StartCharge(h, o, kind)
             \/ \E k \in DOMAIN charges[o], st \in Terminal \cup {"processing"} :
                  News(h, o, k, st)
             \/ Sweep(h, o)
    <3>1. \E op \in {"charge", "news", "expiryDue"} : \E lines, charge :
            Begin(h, op, o, orders[o], lines, charge)
      BY <2>2 DEF StartCharge, News, Sweep
    <3>2. \A op \in {"charge", "news", "expiryDue"} : \A lines, charge :
            Decided(Ask(op, o, orders[o], lines, charge))
      BY DEF Decided, Ask
    <3> QED
      BY <3>1, <3>2
  <2>3. CASE StartCancel(h, o)
    <3> DEFINE new == [orders[o] EXCEPT !.status = "cancelled"]
    <3>1. /\ Begin(h, "cancel", o, new, items[o], NoCharge)
          /\ Decided(Ask("cancel", o, new, items[o], NoCharge))
      BY <2>1, <2>3 DEF StartCancel, Decided, Ask, Row
    <3> QED
      BY <3>1
  <2>4. ASSUME NEW target \in OrderStatus, StartStatus(h, o, target)
        PROVE  \E op, new, lines, charge : /\ Begin(h, op, o, new, lines, charge)
                                           /\ Decided(Ask(op, o, new, lines, charge))
    <3> DEFINE new == [orders[o] EXCEPT !.status = target]
    <3>1. /\ Begin(h, "status", o, new, items[o], NoCharge)
          /\ Decided(Ask("status", o, new, items[o], NoCharge))
      BY <2>1, <2>4 DEF StartStatus, Decided, Ask, Row
    <3> QED
      BY <3>1
  <2>5. CASE StartReinstate(h, o)
    <3> DEFINE new == [orders[o] EXCEPT !.status = "pending", !.reason = "none"]
    <3>1. /\ Begin(h, "reinstate", o, new, items[o], NoCharge)
          /\ Decided(Ask("reinstate", o, new, items[o], NoCharge))
      BY <2>1, <2>5 DEF StartReinstate, Decided, Ask, Row
    <3> QED
      BY <3>1
  <2>6. ASSUME NEW payment \in PaymentStatus, StartPayment(h, o, payment)
        PROVE  \E op, new, lines, charge : /\ Begin(h, op, o, new, lines, charge)
                                           /\ Decided(Ask(op, o, new, lines, charge))
    <3> DEFINE new == [orders[o] EXCEPT !.payment = payment]
    <3>1. /\ Begin(h, "payment", o, new, items[o], NoCharge)
          /\ Decided(Ask("payment", o, new, items[o], NoCharge))
      BY <2>1, <2>6 DEF StartPayment, Decided, Ask, Row
    <3> QED
      BY <3>1
  <2>7. ASSUME NEW status \in OrderStatus, NEW payment \in PaymentStatus,
               StartCorrect(h, o, status, payment)
        PROVE  \E op, new, lines, charge : /\ Begin(h, op, o, new, lines, charge)
                                           /\ Decided(Ask(op, o, new, lines, charge))
    <3> DEFINE new == [status |-> status, payment |-> payment,
                       reason |-> IF status # orders[o].status
                                       /\ "cancelled" \in {status, orders[o].status}
                                  THEN "none" ELSE orders[o].reason]
    <3>1. Begin(h, "correct", o, new, items[o], NoCharge)
      BY <2>7 DEF StartCorrect
    <3>2. new.status # "none" /\ "correct" \in Operations
      BY <3>1 DEF OrderStatus, Begin
    <3>3. Decided(Ask("correct", o, new, items[o], NoCharge))
      BY <3>2 DEF Decided, Ask
    <3> HIDE DEF new
    <3> QED
      BY <3>1, <3>3
  <2>8. ASSUME NEW lines \in Lines, StartItems(h, o, lines)
        PROVE  /\ Begin(h, "items", o, orders[o], lines, NoCharge)
               /\ Decided(Ask("items", o, orders[o], lines, NoCharge))
    BY <2>8 DEF StartItems, Decided, Ask
  <2> QED
    BY <1>6, <2>2, <2>3, <2>4, <2>5, <2>6, <2>7, <2>8
<1>8. Fresh'
  BY <1>1, <1>4, <1>7, BeginFresh
<1> QED
  BY <1>3, <1>5, <1>8 DEF SInv

-----------------------------------------------------------------------------
(* What the stock calls of a handler do to the units of the orders *)

(***************************************************************************)
(* The other orders keep their units.                                      *)
(***************************************************************************)
OthersKeep(s, t, o) ==
  \A x \in OrderIds, st \in LiveStatus : x # o => Units(t, x, st) = Units(s, x, st)

(***************************************************************************)
(* A hold adds the lines to what the order has reserved.                   *)
(***************************************************************************)
LEMMA HoldEffect ==
  ASSUME NEW s, Sound(s), NEW o \in OrderIds, NEW lines \in Items,
         NEW t \in Reserves(s, o, lines)
  PROVE  /\ Sound(t) /\ OthersKeep(s, t, o)
         /\ Units(t, o, "confirmed") = Units(s, o, "confirmed")
         /\ \A p \in Products :
              Units(t, o, "reserved")[p] = Units(s, o, "reserved")[p] + lines[p]
         /\ Units(s, o, "reserved") = NoItems => Units(t, o, "reserved") = lines
<1>1. t \in Reserved(s, o, lines, Locations, NoLocation)
  BY DEF Reserves
<1>2. Sound(t)
  BY <1>1, ReservedSound
<1>3. s \in Books /\ t \in Books
  BY <1>2 DEF Sound
<1>4. ASSUME NEW x \in OrderIds, NEW p \in Products
      PROVE  /\ Units(t, x, "confirmed")[p] = Units(s, x, "confirmed")[p]
             /\ Units(t, x, "reserved")[p]
                  = Units(s, x, "reserved")[p] + (IF x = o THEN lines[p] ELSE 0)
  BY <1>1, ReservedUnits
<1>5. \A x \in OrderIds, st \in LiveStatus :
        Units(s, x, st) \in [Products -> Nat] /\ Units(t, x, st) \in [Products -> Nat]
  <2>1. \A x \in OrderIds, st \in LiveStatus, p \in Products :
          Units(s, x, st)[p] \in Nat /\ Units(t, x, st)[p] \in Nat
    BY <1>3, UnitsTyped DEF LiveStatus
  <2> QED
    BY <2>1 DEF Units
<1>6. \A x \in OrderIds : Units(t, x, "confirmed") = Units(s, x, "confirmed")
  BY <1>4, <1>5 DEF LiveStatus
<1>7. \A x \in OrderIds : x # o => Units(t, x, "reserved") = Units(s, x, "reserved")
  <2> TAKE x \in OrderIds
  <2> HAVE x # o
  <2>1. \A p \in Products : Units(t, x, "reserved")[p] = Units(s, x, "reserved")[p]
    BY <1>4, <1>5 DEF LiveStatus
  <2> QED
    BY <1>5, <2>1 DEF LiveStatus
<1>8. \A p \in Products : Units(t, o, "reserved")[p] = Units(s, o, "reserved")[p] + lines[p]
  BY <1>4
<1>9. Units(s, o, "reserved") = NoItems => Units(t, o, "reserved") = lines
  <2> HAVE Units(s, o, "reserved") = NoItems
  <2>1. lines \in [Products -> Nat]
    BY MaxQuantityAssumption DEF Items
  <2>2. \A p \in Products : Units(t, o, "reserved")[p] = lines[p]
    BY <1>8, <2>1 DEF NoItems
  <2> QED
    BY <1>5, <2>1, <2>2 DEF LiveStatus
<1> QED
  BY <1>2, <1>6, <1>7, <1>8, <1>9 DEF OthersKeep, LiveStatus

(***************************************************************************)
(* Confirming an order that has taken nothing takes what it held.          *)
(***************************************************************************)
LEMMA ConfirmEffect ==
  ASSUME NEW s, Sound(s), NEW o \in OrderIds
  PROVE  /\ OthersKeep(s, confirmReservations(s, o), o)
         /\ Units(confirmReservations(s, o), o, "reserved") = NoItems
         /\ Units(s, o, "confirmed") = NoItems
              => Units(confirmReservations(s, o), o, "confirmed") = Units(s, o, "reserved")
<1> DEFINE t == confirmReservations(s, o)
<1>1. s \in Books /\ t \in Books
  BY ConfirmReservationsSound DEF Sound
<1>2. t = confirmProductReservations(s, o, Products)
  BY <1>1, ConfirmAll
<1>3. \A x \in OrderIds, st \in LiveStatus :
        Units(s, x, st) \in [Products -> Nat] /\ Units(t, x, st) \in [Products -> Nat]
  <2> HIDE DEF t
  <2>1. \A x \in OrderIds, st \in LiveStatus, p \in Products :
          Units(s, x, st)[p] \in Nat /\ Units(t, x, st)[p] \in Nat
    BY <1>1, UnitsTyped DEF LiveStatus
  <2> QED
    BY <2>1 DEF Units
<1>4. ASSUME NEW x \in OrderIds, NEW p \in Products
      PROVE  IF x = o
             THEN /\ Units(t, x, "reserved")[p] = 0
                  /\ Units(t, x, "confirmed")[p]
                       = Units(s, x, "confirmed")[p] + Units(s, x, "reserved")[p]
             ELSE /\ Units(t, x, "reserved")[p] = Units(s, x, "reserved")[p]
                  /\ Units(t, x, "confirmed")[p] = Units(s, x, "confirmed")[p]
  <2> HIDE DEF t
  <2> QED
    BY <1>1, <1>2, ConfirmUnits
<1> HIDE DEF t
<1>5. \A x \in OrderIds, st \in LiveStatus : x # o => Units(t, x, st) = Units(s, x, st)
  BY <1>3, <1>4 DEF LiveStatus
<1>6. Units(t, o, "reserved") = NoItems
  BY <1>3, <1>4 DEF LiveStatus, NoItems
<1>7. Units(s, o, "confirmed") = NoItems => Units(t, o, "confirmed") = Units(s, o, "reserved")
  <2> HAVE Units(s, o, "confirmed") = NoItems
  <2>1. \A p \in Products : /\ Units(t, o, "confirmed")[p] = 0 + Units(s, o, "reserved")[p]
                            /\ Units(s, o, "reserved")[p] \in Nat
    BY <1>3, <1>4 DEF NoItems, LiveStatus
  <2>2. \A p \in Products : Units(t, o, "confirmed")[p] = Units(s, o, "reserved")[p]
    BY <2>1
  <2> QED
    BY <1>3, <2>2 DEF LiveStatus
<1> QED
  BY <1>5, <1>6, <1>7 DEF OthersKeep, t

(***************************************************************************)
(* An order let go has nothing.                                            *)
(***************************************************************************)
LEMMA ReleaseEffect ==
  ASSUME NEW s, Sound(s), NEW o \in OrderIds, NEW final \in {"cancelled", "expired"}
  PROVE  /\ Sound(releaseReservations(s, o, final))
         /\ OthersKeep(s, releaseReservations(s, o, final), o)
         /\ \A st \in LiveStatus : Units(releaseReservations(s, o, final), o, st) = NoItems
<1>1. s \in Books
  BY DEF Sound
<1>2. Sound(releaseReservations(s, o, final))
  BY ReleaseReservationsSound DEF ReservationStatus
<1> QED
  BY <1>1, <1>2, ReleaseUnits DEF OthersKeep, LiveStatus

(***************************************************************************)
(* Calls for one order leave the others alone.                             *)
(***************************************************************************)
LEMMA OthersChain ==
  ASSUME NEW s, NEW t, NEW u, NEW o, OthersKeep(s, t, o), OthersKeep(t, u, o)
  PROVE  OthersKeep(s, u, o)
BY DEF OthersKeep

(***************************************************************************)
(* What the units of one order must be after a step that changed it alone. *)
(***************************************************************************)
LEMMA OwingStep ==
  ASSUME Owing, NEW o \in OrderIds, OthersKeep(stock, stock', o),
         \A x \in OrderIds : x # o => orders'[x].status = orders[x].status
                                     /\ items'[x] = items[x],
         \A st \in LiveStatus : Units(stock', o, st) = Owed(orders'[o].status, items'[o], st)
  PROVE  Owing'
BY DEF Owing, OthersKeep

(***************************************************************************)
(* A correction leaves the order with what its new status owes.            *)
(***************************************************************************)
LEMMA CorrectedUnits ==
  ASSUME Sound(stock), NEW o \in OrderIds, items[o] \in Items, NEW old, NEW new,
         old.status \in OrderStatus, new.status \in OrderStatus,
         \A st \in LiveStatus : Units(stock, o, st) = Owed(old.status, items[o], st),
         NEW s \in CorrectedBooks(o, old, new)
  PROVE  /\ OthersKeep(stock, s, o)
         /\ \A st \in LiveStatus : Units(s, o, st) = Owed(new.status, items[o], st)
<1> DEFINE from  == stockPhase(old.status)
           to    == stockPhase(new.status)
           freed == IF from = "committed" \/ to = "released"
                    THEN releaseReservations(stock, o, "cancelled") ELSE stock
           held  == IF from = "held" \/ to = "released"
                    THEN {freed} ELSE Reserves(freed, o, items[o])
<1>1. CorrectedBooks(o, old, new) =
        CASE from = to -> {stock}
          [] from # to /\ to = "committed" -> {confirmReservations(b, o) : b \in held}
          [] OTHER -> held
  BY DEF CorrectedBooks
<1>2. OthersKeep(stock, stock, o)
  BY DEF OthersKeep
<1>3. \A status \in OrderStatus, st \in LiveStatus :
        Owed(status, items[o], st)
          = IF \/ stockPhase(status) = "held" /\ st = "reserved"
               \/ stockPhase(status) = "committed" /\ st = "confirmed"
            THEN items[o] ELSE NoItems
  BY DEF Owed, stockPhase, OrderStatus, LiveStatus
<1>4. from \in {"held", "released", "committed"} /\ to \in {"held", "released", "committed"}
  BY DEF stockPhase
<1>5. \A st \in LiveStatus :
        Units(stock, o, st) = IF \/ from = "held" /\ st = "reserved"
                                 \/ from = "committed" /\ st = "confirmed"
                              THEN items[o] ELSE NoItems
  BY <1>3
<1>6. SUFFICES /\ OthersKeep(stock, s, o)
               /\ \A st \in LiveStatus :
                    Units(s, o, st) = IF \/ to = "held" /\ st = "reserved"
                                         \/ to = "committed" /\ st = "confirmed"
                                      THEN items[o] ELSE NoItems
  BY <1>3
<1>7. CASE from = to
  <2>1. s = stock
    <3> HIDE DEF from, to, held
    <3> QED
      BY <1>1, <1>7
  <2> QED
    BY <1>2, <1>5, <1>7, <2>1
<1>8. CASE from # to
  <2>1. /\ Sound(freed) /\ OthersKeep(stock, freed, o)
        /\ from = "committed" \/ to = "released"
             => \A st \in LiveStatus : Units(freed, o, st) = NoItems
        /\ ~ (from = "committed" \/ to = "released") => freed = stock
    BY <1>2, ReleaseEffect
  <2> HIDE DEF freed
  <2>2. \A b \in held :
          /\ Sound(b) /\ OthersKeep(stock, b, o) /\ Units(b, o, "confirmed") = NoItems
          /\ to # "released" => Units(b, o, "reserved") = items[o]
          /\ to = "released" => Units(b, o, "reserved") = NoItems
    <3>1. CASE to = "released"
      <4>1. held = {freed}
        BY <3>1
      <4> HIDE DEF from, to, held
      <4> QED
        BY <2>1, <3>1, <4>1 DEF LiveStatus
    <3>2. CASE from = "held" /\ to # "released"
      <4>1. held = {freed} /\ freed = stock
        BY <2>1, <3>2
      <4> HIDE DEF from, to, held
      <4> QED
        BY <1>2, <1>5, <3>2, <4>1 DEF LiveStatus
    <3>3. CASE from # "held" /\ to # "released"
      <4>1. held = Reserves(freed, o, items[o])
        BY <3>3
      <4>2. \A st \in LiveStatus : Units(freed, o, st) = NoItems
        <5>1. from \in {"released", "committed"}
          BY <1>4, <3>3
        <5> HIDE DEF from, to, held
        <5> QED
          BY <1>5, <2>1, <3>3, <5>1
      <4> HIDE DEF from, to, held
      <4>3. ASSUME NEW b \in held
            PROVE  /\ Sound(b) /\ OthersKeep(freed, b, o)
                   /\ Units(b, o, "confirmed") = NoItems /\ Units(b, o, "reserved") = items[o]
        BY <2>1, <4>1, <4>2, HoldEffect DEF LiveStatus
      <4>4. \A b \in held : OthersKeep(stock, b, o)
        BY <2>1, <4>3, OthersChain
      <4> QED
        BY <3>3, <4>3, <4>4
    <3> QED
      BY <3>1, <3>2, <3>3
  <2> HIDE DEF held
  <2>3. CASE to = "committed"
    <3>1. PICK b \in held : s = confirmReservations(b, o)
      <4> HIDE DEF from, to
      <4> QED
        BY <1>1, <1>8, <2>3
    <3>2. /\ OthersKeep(b, s, o) /\ Units(s, o, "reserved") = NoItems
          /\ Units(s, o, "confirmed") = items[o]
      BY <2>2, <2>3, <3>1, ConfirmEffect
    <3>3. OthersKeep(stock, s, o)
      BY <2>2, <3>2, OthersChain
    <3> HIDE DEF to
    <3> QED
      BY <2>3, <3>2, <3>3 DEF LiveStatus
  <2>4. CASE to # "committed"
    <3>1. s \in held
      <4> HIDE DEF from, to
      <4> QED
        BY <1>1, <1>8, <2>4
    <3>2. to \in {"held", "released"}
      BY <1>4, <2>4
    <3> HIDE DEF to
    <3> QED
      BY <2>2, <2>4, <3>1, <3>2 DEF LiveStatus
  <2> QED
    BY <2>3, <2>4
<1> QED
  BY <1>7, <1>8

(***************************************************************************)
(* Letting go of what shrinks, from an order whose units are all in the    *)
(* state st, takes exactly that from each line.                            *)
(***************************************************************************)
LEMMA LetGoEffect ==
  ASSUME NEW s, Sound(s), NEW o \in OrderIds, NEW drop \in [Products -> Nat],
         NEW lines \in Items, \A p \in Products : drop[p] <= lines[p],
         NEW st \in LiveStatus,
         \A u \in LiveStatus : Units(s, o, u) = IF u = st THEN lines ELSE NoItems
  PROVE  LET t == releaseProductUnits(s, o, drop)
         IN  /\ Sound(t) /\ OthersKeep(s, t, o)
             /\ \A p \in Products : Units(t, o, st)[p] = lines[p] - drop[p]
             /\ \A u \in LiveStatus : u # st => Units(t, o, u) = NoItems
<1> DEFINE t == releaseProductUnits(s, o, drop)
<1>1. Sound(t) /\ s \in Books /\ t \in Books
  BY ReleaseUnitsSound DEF Sound
<1> HIDE DEF t
<1>2. lines \in [Products -> Nat]
  BY MaxQuantityAssumption DEF Items
<1>3. \A x \in OrderIds, u \in LiveStatus :
        Units(s, x, u) \in [Products -> Nat] /\ Units(t, x, u) \in [Products -> Nat]
  <2>1. \A x \in OrderIds, u \in LiveStatus, p \in Products :
          Units(s, x, u)[p] \in Nat /\ Units(t, x, u)[p] \in Nat
    BY <1>1, UnitsTyped DEF LiveStatus
  <2> QED
    BY <2>1 DEF Units
<1>4. ASSUME NEW x \in OrderIds, NEW p \in Products, NEW u \in LiveStatus
      PROVE  Units(t, x, u)[p]
               = Units(s, x, u)[p]
                   - (IF x = o THEN Total(Take(s, o, drop), LineRows(s, o, p, u)) ELSE 0)
  BY LetGoUnits DEF LiveStatus, t
<1>5. \A x \in OrderIds, u \in LiveStatus : x # o => Units(t, x, u) = Units(s, x, u)
  <2> TAKE x \in OrderIds, u \in LiveStatus
  <2> HAVE x # o
  <2>1. \A p \in Products : Units(t, x, u)[p] = Units(s, x, u)[p]
    BY <1>3, <1>4
  <2> QED
    BY <1>3, <2>1
<1>6. ASSUME NEW u \in LiveStatus, u # st, NEW p \in Products
      PROVE  LineRows(s, o, p, u) = {}
  <2>1. Total(Qty(s), LineRows(s, o, p, u)) = 0
    BY <1>6 DEF Units, NoItems
  <2>2. LineRows(s, o, p, u) \in SUBSET DOMAIN s.rsv
    BY DEF LineRows, RowsOf
  <2>3. Weighs(Qty(s), LineRows(s, o, p, u))
    BY <1>1, <2>2, RowsWeigh
  <2>4. \A i \in LineRows(s, o, p, u) : Qty(s)[i] > 0
    BY <1>1, <2>2, TableTyped DEF Qty, Reservation
  <2> QED
    BY <2>1, <2>3, <2>4, TotalZero
<1>7. \A p \in Products : Units(t, o, st)[p] = lines[p] - drop[p]
  <2> TAKE p \in Products
  <2>1. \A i \in Live(s, o) : s.rsv[i].cell[2] = p => s.rsv[i].status = st
    <3>1. \A u \in LiveStatus : u # st => LineRows(s, o, p, u) = {}
      BY <1>6
    <3> QED
      BY <3>1 DEF Live, LineRows, RowsOf, LiveStatus
  <2>2. drop[p] <= Units(s, o, st)[p]
    OBVIOUS
  <2>3. Total(Take(s, o, drop), LineRows(s, o, p, st)) = drop[p]
    BY <1>1, <2>1, <2>2, TakeLine DEF LiveStatus
  <2> QED
    BY <1>4, <2>3
<1>8. \A u \in LiveStatus : u # st => Units(t, o, u) = NoItems
  <2> TAKE u \in LiveStatus
  <2> HAVE u # st
  <2>1. \A p \in Products : Units(t, o, u)[p] = 0
    <3> TAKE p \in Products
    <3>1. Total(Take(s, o, drop), LineRows(s, o, p, u)) = 0
      BY <1>6, TotalEmpty
    <3>2. Units(s, o, u)[p] = 0
      BY DEF NoItems
    <3> QED
      BY <1>4, <3>1, <3>2
  <2> QED
    BY <1>3, <2>1 DEF NoItems
<1> QED
  BY <1>1, <1>5, <1>7, <1>8 DEF OthersKeep, t

(***************************************************************************)
(* An edit of the lines leaves the order with its new lines, in the state  *)
(* its phase asks for.                                                     *)
(***************************************************************************)
LEMMA EditedUnits ==
  ASSUME Sound(stock), NEW o \in OrderIds, NEW from \in Items, NEW to \in Items,
         NEW st \in LiveStatus,
         \A u \in LiveStatus : Units(stock, o, u) = IF u = st THEN from ELSE NoItems,
         NEW s \in EditedBooks(o, IF st = "reserved" THEN "held" ELSE "committed", from, to)
  PROVE  /\ OthersKeep(stock, s, o)
         /\ \A u \in LiveStatus : Units(s, o, u) = IF u = st THEN to ELSE NoItems
<1> DEFINE rise  == Excess(to, from)
           drop  == Excess(from, to)
           freed == releaseProductUnits(stock, o, drop)
           held  == Reserves(freed, o, rise)
           rose  == {p \in Products : rise[p] > 0}
<1>1. from \in [Products -> Nat] /\ to \in [Products -> Nat]
  BY MaxQuantityAssumption DEF Items
<1>2. /\ drop \in [Products -> Nat] /\ rise \in Items /\ rise \in [Products -> Nat]
      /\ rose \in SUBSET Products
      /\ \A p \in Products : /\ drop[p] <= from[p]
                             /\ from[p] - drop[p] + rise[p] = to[p]
                             /\ from[p] - drop[p] \in Nat
  BY <1>1, MaxQuantityAssumption DEF Excess, Items, Larger
<1>3. s \in IF st = "reserved" THEN held
                               ELSE {confirmProductReservations(b, o, rose) : b \in held}
  BY DEF EditedBooks
<1> HIDE DEF rise, drop
<1>4. /\ Sound(freed) /\ OthersKeep(stock, freed, o)
      /\ \A p \in Products : Units(freed, o, st)[p] = from[p] - drop[p]
      /\ \A u \in LiveStatus : u # st => Units(freed, o, u) = NoItems
  BY <1>2, LetGoEffect
<1> HIDE DEF freed
<1>5. ASSUME NEW b \in held
      PROVE  /\ Sound(b) /\ OthersKeep(stock, b, o)
             /\ Units(b, o, "confirmed") = Units(freed, o, "confirmed")
             /\ \A p \in Products :
                  Units(b, o, "reserved")[p] = Units(freed, o, "reserved")[p] + rise[p]
             /\ Units(freed, o, "reserved") = NoItems => Units(b, o, "reserved") = rise
  <2>1. /\ Sound(b) /\ OthersKeep(freed, b, o)
        /\ Units(b, o, "confirmed") = Units(freed, o, "confirmed")
        /\ \A p \in Products :
             Units(b, o, "reserved")[p] = Units(freed, o, "reserved")[p] + rise[p]
        /\ Units(freed, o, "reserved") = NoItems => Units(b, o, "reserved") = rise
    BY <1>2, <1>4, HoldEffect
  <2> QED
    BY <1>4, <2>1, OthersChain
<1>6. CASE st = "reserved"
  <2>1. s \in held
    BY <1>3, <1>6
  <2> HIDE DEF held
  <2>2. \A p \in Products : Units(s, o, "reserved")[p] = to[p]
    BY <1>2, <1>4, <1>5, <1>6, <2>1
  <2>3. Units(s, o, "confirmed") = NoItems
    BY <1>4, <1>5, <1>6, <2>1 DEF LiveStatus
  <2>4. Units(s, o, "reserved") = to
    BY <1>1, <2>2 DEF Units
  <2> QED
    BY <1>5, <1>6, <2>1, <2>3, <2>4 DEF LiveStatus
<1>7. CASE st = "confirmed"
  <2>1. PICK b \in held : s = confirmProductReservations(b, o, rose)
    BY <1>3, <1>7
  <2> HIDE DEF held
  <2>2. /\ Sound(b) /\ b \in Books /\ OthersKeep(stock, b, o)
        /\ \A p \in Products : Units(b, o, "confirmed")[p] = from[p] - drop[p]
        /\ Units(b, o, "reserved") = rise
    BY <1>4, <1>5, <1>7 DEF LiveStatus, Sound
  <2>3. s \in Books
    BY <2>1, <2>2, ConfirmReservationsSound DEF Sound
  <2> HIDE DEF rose
  <2>4. ASSUME NEW x \in OrderIds, NEW p \in Products
        PROVE  IF x = o /\ p \in rose
               THEN /\ Units(s, x, "reserved")[p] = 0
                    /\ Units(s, x, "confirmed")[p]
                         = Units(b, x, "confirmed")[p] + Units(b, x, "reserved")[p]
               ELSE /\ Units(s, x, "reserved")[p] = Units(b, x, "reserved")[p]
                    /\ Units(s, x, "confirmed")[p] = Units(b, x, "confirmed")[p]
    BY <1>2, <2>1, <2>2, ConfirmUnits
  <2>5. \A p \in Products : p \notin rose => rise[p] = 0
    BY <1>2 DEF rose
  <2>6. \A p \in Products : Units(s, o, "reserved")[p] = 0
    BY <2>2, <2>4, <2>5
  <2>7. \A p \in Products : Units(s, o, "confirmed")[p] = to[p]
    <3> TAKE p \in Products
    <3>1. CASE p \in rose
      BY <1>2, <2>2, <2>4, <3>1
    <3>2. CASE p \notin rose
      <4>1. Units(s, o, "confirmed")[p] = from[p] - drop[p]
        BY <2>2, <2>4, <3>2
      <4>2. rise[p] = 0
        BY <2>5, <3>2
      <4> QED
        BY <1>2, <4>1, <4>2
    <3> QED
      BY <3>1, <3>2
  <2>8. Units(s, o, "reserved") = NoItems /\ Units(s, o, "confirmed") = to
    BY <1>1, <2>6, <2>7 DEF Units, NoItems
  <2>9. OthersKeep(b, s, o)
    BY <2>4 DEF OthersKeep, LiveStatus, Units
  <2>10. OthersKeep(stock, s, o)
    BY <2>2, <2>9, OthersChain
  <2> QED
    BY <1>7, <2>8, <2>10 DEF LiveStatus
<1> QED
  BY <1>6, <1>7 DEF LiveStatus

-----------------------------------------------------------------------------
(* Every step of the only handler keeps the stock in step with the status *)

(***************************************************************************)
(* A sale, time and the warehouse leave the handler in progress fresh: the *)
(* only order they touch was not placed yet.                               *)
(***************************************************************************)
LEMMA ShopFresh ==
  ASSUME SInv, Shop
  PROVE  SInv'
<1>1. TypeOK /\ ReqTyped /\ Sound(stock) /\ OInv /\ Fresh /\ Owing /\ stock \in Books
  BY DEF SInv, OInv, Sound
<1>2. OInv'
  BY <1>1, ShopStep
<1>3. ASSUME NEW o \in OrderIds, NEW lines \in Lines, NEW payment,
             crearPedido(o, lines, payment)
      PROVE  Fresh' /\ Owing'
  <2>1. /\ orders[o].status = "none" /\ lines \in Items
        /\ stock' \in Reserves(stock, o, lines)
    BY <1>3 DEF crearPedido, Unplaced, Lines
  <2>2. /\ \A x \in OrderIds : x # o => orders'[x] = orders[x] /\ items'[x] = items[x]
        /\ orders'[o].status = "pending" /\ items'[o] = lines /\ req' = req
    BY <1>1, <1>3 DEF crearPedido, TypeOK, Row
  <2>3. \A st \in LiveStatus : Units(stock, o, st) = NoItems
    BY <1>1, <2>1 DEF Owing, Owed
  <2>4. /\ OthersKeep(stock, stock', o) /\ Units(stock', o, "confirmed") = NoItems
        /\ Units(stock', o, "reserved") = lines
    BY <1>1, <2>1, <2>3, HoldEffect DEF LiveStatus
  <2>5. Owing'
    <3>1. \A st \in LiveStatus :
            Units(stock', o, st) = Owed(orders'[o].status, items'[o], st)
      BY <2>2, <2>4 DEF Owed, LiveStatus
    <3> QED
      BY <1>1, <2>2, <2>4, <3>1, OwingStep
  <2>6. Fresh'
    <3> SUFFICES ASSUME NEW r \in Requests, req[r].op \in Op PROVE FreshRequest(req[r])'
      BY <2>2 DEF Fresh, FreshRequest
    <3>1. /\ req[r].order \in OrderIds /\ req[r].order # o
          /\ orders[req[r].order].status # "none"
          /\ req[r].old = orders[req[r].order] /\ req[r].from = items[req[r].order]
          /\ Decided(req[r])
      BY <1>1, <2>1 DEF Fresh, FreshRequest, Placed
    <3> QED
      BY <2>2, <3>1 DEF FreshRequest, Placed, Decided
  <2> QED
    BY <2>5, <2>6
<1>4. ASSUME orders' = orders, items' = items, req' = req, stock'.rsv = stock.rsv
      PROVE  Fresh' /\ Owing'
  <2>1. \A o \in OrderIds, st \in LiveStatus : Units(stock', o, st) = Units(stock, o, st)
    BY <1>4, UnitsSameTable
  <2> QED
    BY <1>1, <1>4, <2>1 DEF Fresh, FreshRequest, Decided, Placed, Owing
<1>5. ASSUME NEW o \in OrderIds, WindowPasses(o) PROVE Fresh' /\ Owing'
  BY <1>4, <1>5 DEF WindowPasses
<1>6. ASSUME NEW l, NEW lines, StockIn(l, lines) \/ StockOut(l, lines) PROVE Fresh' /\ Owing'
  BY <1>1, <1>4, <1>6 DEF StockIn, StockOut, addStock, removeStock, Books
<1> QED
  BY <1>2, <1>3, <1>5, <1>6 DEF Shop, checkout, crearParaCliente, SInv

(***************************************************************************)
(* What the only handler has in hand.                                      *)
(***************************************************************************)
LEMMA InHand ==
  ASSUME NEW h \in Requests, SInv, req[h].op \in Op
  PROVE  /\ req[h].order \in OrderIds /\ orders[req[h].order].status \in OrderStatus
         /\ items[req[h].order] \in Items
         /\ req[h].old = orders[req[h].order] /\ req[h].from = items[req[h].order]
         /\ req[h].to \in Items /\ req[h].new \in Row /\ req[h].old \in Row
         /\ Decided(req[h])
<1> DEFINE q == req[h]
           o == req[h].order
<1>1. TypeOK /\ ReqTyped /\ Fresh
  BY DEF SInv, OInv
<1>2. q \in Request
  BY <1>1, InProgressTyped
<1>3. o \in OrderIds /\ q.to \in Items /\ q.new \in Row /\ q.old \in Row
  BY <1>2 DEF Request
<1>4. FreshRequest(q)
  BY <1>1 DEF Fresh
<1>5. q.old = orders[o] /\ q.from = items[o] /\ Decided(q) /\ orders[o].status # "none"
  BY <1>4 DEF FreshRequest, Placed
<1>6. orders[o].status \in OrderStatus /\ items[o] \in Items
  BY <1>1, <1>3, <1>5 DEF TypeOK, Row
<1> QED
  BY <1>3, <1>5, <1>6

(***************************************************************************)
(* An edit of the lines on record writes the lines it was given.           *)
(***************************************************************************)
LEMMA RewrittenSerial ==
  ASSUME NEW o \in OrderIds, NEW from, from = items[o], from \in Items, NEW to \in Items
  PROVE  Rewritten(o, from, to) = to
<1>1. \A p \in Products : from[p] \in Nat /\ to[p] \in Nat
  BY MaxQuantityAssumption DEF Items
<1>2. \A p \in Products :
        (IF from[p] > 0 THEN to[p] ELSE items[o][p] + to[p]) = to[p]
  BY <1>1
<1>3. to = [p \in Products |-> to[p]]
  BY DEF Items
<1> QED
  BY <1>2, <1>3 DEF Rewritten

(***************************************************************************)
(* The next step of the only handler: what it saves is what it read, but   *)
(* for what it decided, and its stock calls settle the difference.         *)
(***************************************************************************)
LEMMA ProceedFresh ==
  ASSUME NEW h, Requests = {h}, SInv, Proceed(h)
  PROVE  SInv'
<1> DEFINE q == req[h]
           o == req[h].order
<1>1. /\ TypeOK /\ ReqTyped /\ Sound(stock) /\ OInv /\ Fresh /\ Owing /\ stock \in Books
      /\ h \in Requests
  BY DEF SInv, OInv, Sound
<1>2. OInv'
  BY <1>1, ProceedStep
<1>3. ASSUME q.op \in Op
      PROVE  /\ o \in OrderIds /\ orders[o].status \in OrderStatus /\ items[o] \in Items
             /\ q.old = orders[o] /\ q.from = items[o] /\ q.to \in Items
             /\ q.new \in Row /\ q.old \in Row /\ Decided(q)
             /\ \A st \in LiveStatus : Units(stock, o, st) = Owed(q.old.status, items[o], st)
  <2>1. /\ o \in OrderIds /\ orders[o].status \in OrderStatus /\ items[o] \in Items
        /\ q.old = orders[o] /\ q.from = items[o] /\ q.to \in Items
        /\ q.new \in Row /\ q.old \in Row /\ Decided(q)
    BY <1>1, <1>3, InHand
  <2>2. \A st \in LiveStatus : Units(stock, o, st) = Owed(q.old.status, items[o], st)
    BY <1>1, <2>1 DEF Owing
  <2> QED
    BY <2>1, <2>2
<1>4. ASSUME q.op \in Op, Save(h), OthersKeep(stock, stock', o),
             \A x \in OrderIds : x # o => items'[x] = items[x],
             \A st \in LiveStatus : Units(stock', o, st) = Owed(q.new.status, items'[o], st)
      PROVE  Owing'
  <2>1. /\ \A x \in OrderIds : x # o => orders'[x] = orders[x]
        /\ orders'[o] = q.new
    BY <1>1, <1>3, <1>4 DEF Save, TypeOK
  <2>2. o \in OrderIds
    BY <1>3, <1>4
  <2> HIDE DEF o, q
  <2> QED
    BY <1>1, <1>4, <2>1, <2>2, OwingStep
<1>5. ASSUME stock' = stock, items' = items, orders' = orders PROVE Owing'
  BY <1>1, <1>5 DEF Owing
<1>6. OthersKeep(stock, stock, o)
  BY DEF OthersKeep
<1>7. ASSUME Done(h), Owing' PROVE SInv'
  BY <1>1, <1>2, <1>7, DoneFresh DEF SInv
<1>8. CASE RollBack(h) \/ Refused(h) \/ ChargeFails(h)
  BY <1>5, <1>7, <1>8 DEF RollBack, Refused, ChargeFails
<1>9. CASE SaveReference(h) \/ UpdatePaymentStatus(h)
  <2>1. /\ q.op \in Op /\ q.op \in {"chargeRef", "payment"} /\ Save(h) /\ Done(h)
        /\ UNCHANGED <<stock, items>>
    BY <1>9 DEF SaveReference, UpdatePaymentStatus, Op
  <2>2. q.new.status = q.old.status
    BY <1>3, <2>1 DEF Decided
  <2> QED
    BY <1>3, <1>4, <1>6, <1>7, <2>1, <2>2
<1>10. CASE StoreCharge(h)
  <2>1. q.op = "charge" /\ q.op \in Op /\ UNCHANGED <<stock, orders, items>>
    BY <1>10 DEF StoreCharge, Op
  <2>2. PICK n : n = [q EXCEPT !.op = "chargeRef"]
    OBVIOUS
  <2>3. req' = [req EXCEPT ![h] = n]
    BY <1>1, <1>10, <2>2 DEF StoreCharge, ReqTyped
  <2>4. q \in Request
    BY <1>1, <2>1, InProgressTyped
  <2>5. /\ n.op = "chargeRef" /\ n.order = o /\ n.old = q.old /\ n.new = q.new
        /\ n.from = q.from
    BY <2>2, <2>4 DEF Request
  <2>6. FreshRequest(n)'
    <3>1. FreshRequest(q) /\ q.new = q.old
      BY <1>1, <1>3, <2>1 DEF Fresh, Decided
    <3>2. Decided(n)
      BY <2>5, <3>1 DEF Decided
    <3> QED
      BY <2>1, <2>5, <3>1, <3>2 DEF FreshRequest, Placed, Decided
  <2>7. Fresh'
    BY <1>1, <2>3, <2>6, OnlyHandler
  <2> QED
    BY <1>2, <1>5, <2>1, <2>7 DEF SInv
<1>11. CASE ApplyNews(h)
  <2>1. q.op = "news" /\ q.op \in Op /\ UNCHANGED <<stock, orders, items>>
    BY <1>11 DEF ApplyNews, Op
  <2>2. PICK new : new = [orders[o] EXCEPT !.payment = IF q.charge.status = "succeeded"
                                                       THEN "paid" ELSE "failed"]
    OBVIOUS
  <2>3. PICK n : n = Ask("settle", o, new, items[o], NoCharge)
    OBVIOUS
  <2>4. \/ req' = [req EXCEPT ![h] = n] /\ Settles(orders[o], q.charge.status)
        \/ Done(h)
    BY <1>11, <2>2, <2>3 DEF ApplyNews, Done
  <2>5. CASE req' = [req EXCEPT ![h] = n] /\ Settles(orders[o], q.charge.status)
    <3>1. o \in Placed /\ o \in OrderIds /\ orders[o] \in Row
      BY <1>1, <1>3, <2>1 DEF Fresh, FreshRequest, TypeOK
    <3>2. orders[o].payment # "paid" /\ new.status = orders[o].status
          /\ new.reason = orders[o].reason
      BY <2>2, <2>5, <3>1 DEF Settles, Row
    <3>3. Decided(n)
      BY <2>3, <3>2 DEF Decided, Ask
    <3>4. FreshRequest(n)'
      BY <2>1, <2>3, <3>1, <3>3, AskFresh
    <3>5. Fresh'
      BY <1>1, <2>5, <3>4, OnlyHandler
    <3> QED
      BY <1>2, <1>5, <2>1, <3>5 DEF SInv
  <2>6. CASE Done(h)
    BY <1>5, <1>7, <2>1, <2>6
  <2> QED
    BY <2>4, <2>5, <2>6
<1>12. CASE SavePayment(h)
  <2>1. q.op = "settle" /\ q.op \in Op /\ Save(h) /\ UNCHANGED <<stock, items>>
    BY <1>12 DEF SavePayment, Op
  <2>2. q.new.status = q.old.status
    BY <1>3, <2>1 DEF Decided
  <2>3. Owing'
    BY <1>3, <1>4, <1>6, <2>1, <2>2
  <2>4. PICK n : n = [q EXCEPT !.op = "late", !.old = q.new, !.from = items[o],
                       !.new = [q.new EXCEPT !.status = "pending", !.reason = "none"]]
    OBVIOUS
  <2>5. \/ req' = [req EXCEPT ![h] = n] /\ PaidLate(q.new)
        \/ Done(h)
    BY <1>1, <1>12, <2>4 DEF SavePayment, Done, ReqTyped
  <2>6. CASE req' = [req EXCEPT ![h] = n] /\ PaidLate(q.new)
    <3>1. q \in Request /\ q.new \in Row /\ o \in OrderIds
      BY <1>1, <1>3, <2>1, InProgressTyped
    <3>2. /\ n.op = "late" /\ n.order = o /\ n.old = q.new /\ n.from = items[o]
          /\ n.new = [q.new EXCEPT !.status = "pending", !.reason = "none"]
      BY <2>4, <3>1 DEF Request
    <3>3. /\ n.new.status = "pending" /\ n.new.payment = q.new.payment
          /\ n.old.status = "cancelled"
      BY <2>6, <3>1, <3>2 DEF PaidLate, Row
    <3>4. Decided(n)
      BY <3>2, <3>3 DEF Decided
    <3>5. orders'[o] = q.new /\ items'[o] = items[o]
      BY <1>1, <2>1, <3>1 DEF Save, TypeOK
    <3>6. FreshRequest(n)'
      BY <3>1, <3>2, <3>3, <3>4, <3>5 DEF FreshRequest, Placed, Decided
    <3>7. Fresh'
      BY <1>1, <2>6, <3>6, OnlyHandler
    <3> QED
      BY <1>2, <2>3, <3>7 DEF SInv
  <2>7. CASE Done(h)
    BY <1>7, <2>3, <2>7
  <2> QED
    BY <2>5, <2>6, <2>7
<1>13. CASE LateReinstated(h) \/ Reinstate(h)
  <2>1. /\ q.op \in {"late", "reinstate"} /\ q.op \in Op
        /\ stock' \in Reserves(stock, o, items[o]) /\ Save(h) /\ Done(h) /\ items' = items
    BY <1>3, <1>13 DEF LateReinstated, Reinstate, Op
  <2>2. q.old.status = "cancelled" /\ q.new.status = "pending"
    BY <1>3, <2>1 DEF Decided
  <2>3. \A st \in LiveStatus : Units(stock, o, st) = NoItems
    BY <1>3, <2>1, <2>2 DEF Owed
  <2>4. /\ OthersKeep(stock, stock', o) /\ Units(stock', o, "confirmed") = NoItems
        /\ Units(stock', o, "reserved") = items[o]
    BY <1>1, <1>3, <2>1, <2>3, HoldEffect DEF LiveStatus
  <2>5. \A st \in LiveStatus : Units(stock', o, st) = Owed(q.new.status, items'[o], st)
    BY <2>1, <2>2, <2>4 DEF Owed, LiveStatus
  <2> QED
    BY <1>4, <1>7, <2>1, <2>4, <2>5
<1>14. CASE LateOutOfStock(h)
  <2>1. /\ q.op = "late" /\ q.op \in Op /\ Done(h) /\ UNCHANGED <<stock, items>>
        /\ orders' = [orders EXCEPT ![o] = [q.old EXCEPT !.reason = "paid_out_of_stock"]]
    BY <1>14 DEF LateOutOfStock, Op
  <2>2. \A x \in OrderIds : orders'[x].status = orders[x].status
    BY <1>1, <1>3, <2>1 DEF TypeOK, Row
  <2>3. Owing'
    BY <1>1, <2>1, <2>2 DEF Owing
  <2> QED
    BY <1>7, <2>1, <2>3
<1>15. CASE ExpireRead(h)
  <2>1. q.op = "expiryDue" /\ q.op \in Op /\ UNCHANGED <<stock, orders, items>>
    BY <1>15 DEF ExpireRead, Op
  <2>2. PICK new : new = [orders[o] EXCEPT !.status = "cancelled",
                                           !.reason = "payment_not_received"]
    OBVIOUS
  <2>3. PICK n : n = Ask("expire", o, new, items[o], NoCharge)
    OBVIOUS
  <2>4. \/ req' = [req EXCEPT ![h] = n] /\ orders[o].status = "pending"
        \/ Done(h)
    BY <1>15, <2>2, <2>3 DEF ExpireRead, Done
  <2>5. CASE req' = [req EXCEPT ![h] = n] /\ orders[o].status = "pending"
    <3>1. o \in Placed /\ o \in OrderIds /\ orders[o] \in Row
      BY <1>1, <1>3, <2>1 DEF Fresh, FreshRequest, TypeOK
    <3>2. new.status = "cancelled" /\ new.payment = orders[o].payment
      BY <2>2, <3>1 DEF Row
    <3>3. Decided(n)
      BY <2>3, <2>5, <3>2 DEF Decided, Ask
    <3>4. FreshRequest(n)'
      BY <2>1, <2>3, <3>1, <3>3, AskFresh
    <3>5. Fresh'
      BY <1>1, <2>5, <3>4, OnlyHandler
    <3> QED
      BY <1>2, <1>5, <2>1, <3>5 DEF SInv
  <2>6. CASE Done(h)
    BY <1>5, <1>7, <2>1, <2>6
  <2> QED
    BY <2>4, <2>5, <2>6
<1>16. CASE ExpireCommit(h) \/ CancelByClient(h)
  <2>1. /\ q.op \in {"expire", "cancel"} /\ q.op \in Op /\ Save(h) /\ Done(h)
        /\ items' = Reconciled(h)
        /\ \E final \in {"cancelled", "expired"} : stock' = releaseReservations(stock, o, final)
    BY <1>16 DEF ExpireCommit, CancelByClient, Op
  <2>2. q.new.status = "cancelled"
    BY <1>3, <2>1 DEF Decided
  <2>3. OthersKeep(stock, stock', o) /\ \A st \in LiveStatus : Units(stock', o, st) = NoItems
    BY <1>1, <1>3, <2>1, ReleaseEffect
  <2>4. \A x \in OrderIds : x # o => items'[x] = items[x]
    BY <1>1, <2>1 DEF Reconciled, TypeOK
  <2>5. \A st \in LiveStatus : Units(stock', o, st) = Owed(q.new.status, items'[o], st)
    BY <2>2, <2>3 DEF Owed
  <2> QED
    BY <1>4, <1>7, <2>1, <2>3, <2>4, <2>5
<1>17. CASE UpdateStatus(h)
  <2>1. /\ q.op = "status" /\ q.op \in Op /\ Save(h) /\ Done(h) /\ items' = items
        /\ stock' = StatusBooks(o, q.old.status, q.new.status)
    BY <1>17 DEF UpdateStatus, Op
  <2>2. q.new.status \in Targets(q.old.status) /\ q.old.status \in OrderStatus
    BY <1>3, <2>1 DEF Decided
  <2>3. CASE q.new.status = "cancelled"
    <3>1. stock' = releaseReservations(stock, o, "cancelled")
      BY <2>1, <2>3 DEF StatusBooks
    <3>2. OthersKeep(stock, stock', o) /\ \A st \in LiveStatus : Units(stock', o, st) = NoItems
      BY <1>1, <1>3, <2>1, <3>1, ReleaseEffect
    <3>3. \A st \in LiveStatus : Units(stock', o, st) = Owed(q.new.status, items'[o], st)
      BY <2>3, <3>2 DEF Owed
    <3> QED
      BY <1>4, <1>7, <2>1, <3>2, <3>3
  <2>4. CASE q.new.status # "cancelled"
    <3>1. /\ q.old.status \in {"pending", "confirmed", "processing", "shipped"}
          /\ q.new.status \in {"confirmed", "processing", "shipped", "delivered"}
      BY <2>2, <2>4 DEF Targets, Rank, OrderStatus
    <3>2. CASE q.old.status = "pending"
      <4>1. stock' = confirmReservations(stock, o)
        BY <2>1, <2>4, <3>2 DEF StatusBooks
      <4>2. Units(stock, o, "confirmed") = NoItems /\ Units(stock, o, "reserved") = items[o]
        BY <1>3, <2>1, <3>2 DEF Owed, LiveStatus
      <4>3. /\ OthersKeep(stock, stock', o) /\ Units(stock', o, "reserved") = NoItems
            /\ Units(stock', o, "confirmed") = items[o]
        BY <1>1, <1>3, <2>1, <4>1, <4>2, ConfirmEffect
      <4>4. \A st \in LiveStatus : Units(stock', o, st) = Owed(q.new.status, items'[o], st)
        BY <2>1, <3>1, <4>3 DEF Owed, LiveStatus
      <4> QED
        BY <1>4, <1>7, <2>1, <4>3, <4>4
    <3>3. CASE q.old.status # "pending"
      <4>1. stock' = stock
        BY <2>1, <2>4, <3>3 DEF StatusBooks
      <4>2. \A st \in LiveStatus : Units(stock', o, st) = Owed(q.new.status, items'[o], st)
        BY <1>3, <2>1, <3>1, <3>3, <4>1 DEF Owed, LiveStatus
      <4> QED
        BY <1>4, <1>6, <1>7, <2>1, <4>1, <4>2
    <3> QED
      BY <3>2, <3>3
  <2> QED
    BY <2>3, <2>4
<1>18. CASE Correct(h)
  <2>1. /\ q.op = "correct" /\ q.op \in Op /\ Save(h) /\ Done(h) /\ items' = items
        /\ stock' \in CorrectedBooks(o, q.old, q.new)
    BY <1>18 DEF Correct, Op
  <2>2. q.new.status \in OrderStatus /\ q.old.status \in OrderStatus
    BY <1>3, <2>1 DEF Decided, Row
  <2>3. /\ OthersKeep(stock, stock', o)
        /\ \A st \in LiveStatus : Units(stock', o, st) = Owed(q.new.status, items[o], st)
    BY <1>1, <1>3, <2>1, <2>2, CorrectedUnits
  <2> QED
    BY <1>4, <1>7, <2>1, <2>3
<1>19. CASE UpdateItems(h)
  <2>1. /\ q.op = "items" /\ q.op \in Op /\ Done(h) /\ orders' = orders
        /\ items' = [items EXCEPT ![o] = q.to]
        /\ stock' \in EditedBooks(o, stockPhase(q.old.status), items[o], q.to)
    <3>1. /\ q.op = "items" /\ q.op \in Op /\ Done(h) /\ orders' = orders
          /\ items' = [items EXCEPT ![o] = Rewritten(o, q.from, q.to)]
          /\ stock' \in EditedBooks(o, stockPhase(q.old.status), q.from, q.to)
      BY <1>19 DEF UpdateItems, Op
    <3>2. q.from = items[o] /\ items[o] \in Items /\ q.to \in Items
      BY <1>3, <3>1
    <3>3. Rewritten(o, q.from, q.to) = q.to
      BY <1>3, <3>1, <3>2, RewrittenSerial
    <3> QED
      BY <3>1, <3>2, <3>3
  <2>2. \A x \in OrderIds : items'[x] = IF x = o THEN q.to ELSE items[x]
    BY <1>1, <2>1 DEF TypeOK
  <2>3. /\ OthersKeep(stock, stock', o)
        /\ \A st \in LiveStatus : Units(stock', o, st) = Owed(q.old.status, q.to, st)
    <3>1. CASE q.old.status = "cancelled"
      <4>1. stock' = stock
        BY <2>1, <3>1 DEF stockPhase, EditedBooks
      <4> QED
        BY <1>3, <1>6, <2>1, <3>1, <4>1 DEF Owed
    <3>2. CASE q.old.status = "pending"
      <4>1. stock' \in EditedBooks(o, "held", items[o], q.to)
        BY <2>1, <3>2 DEF stockPhase
      <4>2. \A u \in LiveStatus :
              Units(stock, o, u) = IF u = "reserved" THEN items[o] ELSE NoItems
        BY <1>3, <2>1, <3>2 DEF Owed, LiveStatus
      <4>3. /\ OthersKeep(stock, stock', o)
            /\ \A u \in LiveStatus :
                 Units(stock', o, u) = IF u = "reserved" THEN q.to ELSE NoItems
        BY <1>1, <1>3, <2>1, <4>1, <4>2, EditedUnits DEF LiveStatus
      <4> QED
        BY <3>2, <4>3 DEF Owed, LiveStatus
    <3>3. CASE q.old.status \in {"confirmed", "processing", "shipped", "delivered"}
      <4>1. stock' \in EditedBooks(o, "committed", items[o], q.to)
        BY <2>1, <3>3 DEF stockPhase
      <4>2. \A u \in LiveStatus :
              Units(stock, o, u) = IF u = "confirmed" THEN items[o] ELSE NoItems
        BY <1>3, <2>1, <3>3 DEF Owed, LiveStatus
      <4>3. /\ OthersKeep(stock, stock', o)
            /\ \A u \in LiveStatus :
                 Units(stock', o, u) = IF u = "confirmed" THEN q.to ELSE NoItems
        BY <1>1, <1>3, <2>1, <4>1, <4>2, EditedUnits DEF LiveStatus
      <4> QED
        BY <3>3, <4>3 DEF Owed, LiveStatus
    <3> QED
      BY <1>3, <2>1, <3>1, <3>2, <3>3 DEF OrderStatus
  <2>4. Owing'
    <3>1. o \in OrderIds /\ q.old = orders[o]
      BY <1>3, <2>1
    <3>2. \A st \in LiveStatus : Units(stock', o, st) = Owed(orders'[o].status, items'[o], st)
      BY <2>1, <2>2, <2>3, <3>1
    <3> HIDE DEF o
    <3> QED
      BY <1>1, <2>1, <2>2, <2>3, <3>1, <3>2, OwingStep
  <2> QED
    BY <1>7, <2>1, <2>4
<1> QED
  BY <1>8, <1>9, <1>10, <1>11, <1>12, <1>13, <1>14, <1>15, <1>16, <1>17, <1>18, <1>19
     DEF Proceed

(***************************************************************************)
(* Nothing is held or taken before the first order.                        *)
(***************************************************************************)
LEMMA SInit ==
  ASSUME Init
  PROVE  SInv
<1>1. stock.rsv = << >>
  BY DEF Init, EmptyBooks
<1>2. Owing
  <2> SUFFICES ASSUME NEW o \in OrderIds, NEW st \in LiveStatus
               PROVE  Units(stock, o, st) = NoItems
    BY DEF Owing, Owed, Init, Unplaced
  <2>1. \A p \in Products : LineRows(stock, o, p, st) = {}
    BY <1>1 DEF RowsOf, LineRows
  <2> QED
    BY <2>1, TotalEmpty DEF Units, NoItems
<1>3. Fresh
  BY DEF Fresh, FreshRequest, Init, Idle, Op
<1> QED
  BY <1>2, <1>3, OInit DEF SInv

(***************************************************************************)
(* With one handler at a time, every order owes the books what its status  *)
(* says: the inductive invariant of the five theorems that follow.         *)
(***************************************************************************)
THEOREM OrdersServeStock ==
  ASSUME NEW h, Requests = {h}
  PROVE  Spec => []SInv
<1>1. Init => SInv
  BY SInit
<1>2. SInv /\ [Next]_vars => SInv'
  <2> SUFFICES ASSUME SInv, [Next]_vars PROVE SInv'
    OBVIOUS
  <2>1. CASE Shop
    BY <2>1, ShopFresh
  <2>2. CASE Arrive(h)
    BY <2>2, ArriveFresh
  <2>3. CASE Proceed(h)
    BY <2>3, ProceedFresh
  <2>4. CASE UNCHANGED vars
    <3>1. OInv'
      BY <2>4 DEF SInv, vars, OInv, TypeOK, ReqTyped
    <3> QED
      BY <2>4, <3>1 DEF SInv, vars, Fresh, FreshRequest, Decided, Placed, Owing
  <2> QED
    BY <2>1, <2>2, <2>3, <2>4 DEF Next
<1> QED
  BY <1>1, <1>2, PTL DEF Spec

(***************************************************************************)
(* A pending order has exactly its lines on hold, after any sequence of    *)
(* sales, edits, corrections, expiries and late payments.                  *)
(***************************************************************************)
THEOREM PendingReserved ==
  ASSUME NEW h, Requests = {h}
  PROVE  Spec => []PendingIsReserved
<1>1. SInv => PendingIsReserved
  BY DEF SInv, Owing, Owed, LiveStatus, PendingIsReserved, Holds, Taken
<1> QED
  BY <1>1, OrdersServeStock, PTL

(***************************************************************************)
(* From confirmed to delivered, exactly the lines were taken, once.        *)
(***************************************************************************)
THEOREM CommittedTaken ==
  ASSUME NEW h, Requests = {h}
  PROVE  Spec => []CommittedIsTaken
<1>1. SInv => CommittedIsTaken
  BY DEF SInv, Owing, Owed, LiveStatus, CommittedIsTaken, Holds, Taken
<1> QED
  BY <1>1, OrdersServeStock, PTL

(***************************************************************************)
(* A cancelled order keeps neither a hold nor goods.                       *)
(***************************************************************************)
THEOREM CancelledKeeps ==
  ASSUME NEW h, Requests = {h}
  PROVE  Spec => []CancelledKeepsNothing
<1>1. SInv => CancelledKeepsNothing
  BY DEF SInv, Owing, Owed, LiveStatus, CancelledKeepsNothing, Holds, Taken
<1> QED
  BY <1>1, OrdersServeStock, PTL

(***************************************************************************)
(* No order holds more than its lines: what two overlapping deliveries of  *)
(* one payment can break, deliveries one after the other never do.         *)
(***************************************************************************)
THEOREM SerialHoldsAtMostItsLines ==
  ASSUME NEW h, Requests = {h}
  PROVE  Spec => []HoldsAtMostItsLines
<1>1. SInv => HoldsAtMostItsLines
  <2> SUFFICES ASSUME SInv, NEW o \in OrderIds, NEW p \in Products
               PROVE  Holds(o)[p] + Taken(o)[p] <= items[o][p]
    BY DEF HoldsAtMostItsLines
  <2>1. /\ Holds(o) = Owed(orders[o].status, items[o], "reserved")
        /\ Taken(o) = Owed(orders[o].status, items[o], "confirmed")
    BY DEF SInv, Owing, LiveStatus, Holds, Taken
  <2>2. items[o] \in Items /\ items[o][p] \in Nat /\ NoItems[p] = 0
    BY DEF SInv, OInv, TypeOK, Items, NoItems
  <2>3. \/ Holds(o) = NoItems
        \/ Holds(o) = items[o] /\ Taken(o) = NoItems
    BY <2>1 DEF Owed
  <2>4. Taken(o) \in {NoItems, items[o]}
    BY <2>1 DEF Owed
  <2> QED
    BY <2>2, <2>3, <2>4
<1> QED
  BY <1>1, OrdersServeStock, PTL

-----------------------------------------------------------------------------
(* One handler at a time: the money *)

PaidKept ==
  \A o \in OrderIds :
    orders[o].payment = "paid" /\ orders'[o].payment # "paid"
      => \E r \in Requests : req[r].op \in {"payment", "correct"} /\ req[r].order = o

(***************************************************************************)
(* What a handler of any other kind writes over a paid order is paid: it   *)
(* read the payment that is on record.                                     *)
(***************************************************************************)
LEMMA PaidKeptStep ==
  ASSUME NEW h, Requests = {h}, SInv, [Next]_vars
  PROVE  PaidKept
<1> SUFFICES ASSUME NEW o \in OrderIds, orders[o].payment = "paid", orders'[o].payment # "paid"
             PROVE  req[h].op \in {"payment", "correct"} /\ req[h].order = o
  BY DEF PaidKept
<1>1. TypeOK /\ ReqTyped /\ Fresh
  BY DEF SInv, OInv
<1>2. orders' # orders
  OBVIOUS
<1>3. ~ UNCHANGED vars
  BY <1>2 DEF vars
<1>4. ~ Arrive(h)
  BY <1>2 DEF Arrive, StartCharge, News, Sweep, StartCancel, StartStatus, StartReinstate,
              StartPayment, StartCorrect, StartItems
<1>5. ~ Shop
  <2>1. ASSUME NEW x \in OrderIds, NEW lines, NEW payment, crearPedido(x, lines, payment)
        PROVE  FALSE
    <3>1. orders[x].payment = "pending"
      BY <2>1 DEF crearPedido, Unplaced
    <3>2. x # o
      BY <3>1
    <3>3. orders'[o] = orders[o]
      BY <1>1, <2>1, <3>2 DEF crearPedido, TypeOK
    <3> QED
      BY <3>3
  <2> QED
    BY <1>2, <2>1 DEF Shop, checkout, crearParaCliente, WindowPasses, StockIn, StockOut
<1>6. Proceed(h)
  BY <1>3, <1>4, <1>5 DEF Next
<1>7. CASE Save(h) /\ req[h].op \in Op
  <2>1. req[h] \in Request /\ FreshRequest(req[h])
    BY <1>1, <1>7, InProgressTyped DEF Fresh
  <2>2. req[h].order = o /\ orders'[o] = req[h].new
    BY <1>1, <1>7, <2>1 DEF Save, TypeOK, Request
  <2>3. Decided(req[h]) /\ req[h].old.payment = "paid" /\ req[h].new.payment # "paid"
    BY <1>7, <2>1, <2>2 DEF FreshRequest
  <2>4. \/ req[h].op \in {"payment", "correct"}
        \/ req[h].new.payment = req[h].old.payment
        \/ req[h].old.payment # "paid"
    BY <1>7, <2>3 DEF Decided, Op
  <2> QED
    BY <2>2, <2>3, <2>4
<1>8. CASE LateOutOfStock(h)
  <2>1. req[h].op \in Op
    BY <1>8 DEF LateOutOfStock, Op
  <2>2. req[h] \in Request /\ FreshRequest(req[h])
    BY <1>1, <2>1, InProgressTyped DEF Fresh
  <2>3. req[h].old \in Row /\ req[h].old = orders[req[h].order] /\ req[h].order \in OrderIds
    BY <2>1, <2>2 DEF FreshRequest, Request
  <2>4. orders'[o].payment = orders[o].payment
    BY <1>1, <1>8, <2>3 DEF LateOutOfStock, TypeOK, Row
  <2> QED
    BY <2>4
<1>9. (Save(h) /\ req[h].op \in Op) \/ LateOutOfStock(h)
  BY <1>2, <1>6
     DEF Proceed, StoreCharge, ChargeFails, SaveReference, ApplyNews, SavePayment,
         LateReinstated, ExpireRead, ExpireCommit, CancelByClient, RollBack, UpdateStatus,
         Reinstate, UpdatePaymentStatus, Correct, UpdateItems, Refused, Op
<1> QED
  BY <1>7, <1>8, <1>9

(***************************************************************************)
(* With one handler at a time, a paid order stops being paid only by a     *)
(* back-office decision.                                                   *)
(***************************************************************************)
THEOREM PaidStays ==
  ASSUME NEW h, Requests = {h}
  PROVE  Spec => PaidStaysPaid
<1>1. SInv /\ [Next]_vars => [PaidKept]_vars
  BY PaidKeptStep
<1> QED
  BY <1>1, OrdersServeStock, PTL DEF Spec, PaidStaysPaid, PaidKept

-----------------------------------------------------------------------------
(* One handler at a time, and no decision of the back office on payments *)

Received(o) == \E k \in DOMAIN charges[o] : charges[o][k].status = "succeeded"

(***************************************************************************)
(* The payment, the reason of the cancellation, the charges and the refund *)
(* of an order agree, given the handler in progress.                       *)
(***************************************************************************)
Agree(row, q, o, received, opened) ==
  /\ row.payment # "refunded"
  /\ row.reason # "none" => row.status = "cancelled"
  /\ row.payment = "paid" /\ row.reason = "payment_not_received"
       => q.op = "late" /\ q.order = o
  /\ row.reason = "paid_out_of_stock" => opened /\ row.payment = "paid"
  /\ received => \/ row.payment = "paid"
                 \/ q.op = "settle" /\ q.order = o /\ q.new.payment = "paid"

(***************************************************************************)
(* What the handlers mean to write of the payment and of the reason.       *)
(***************************************************************************)
Meant(q) ==
  /\ q.op \notin {"payment", "correct"}
  /\ q.op = "charge" => q.charge.status # "succeeded"
  /\ q.op = "settle" => q.new.payment \in {"paid", "failed"}
  /\ q.op = "late" => q.old.payment = "paid" /\ q.new.reason = "none"
  /\ q.op = "expire" => q.old.payment # "paid" /\ q.new.reason = "payment_not_received"
  /\ q.op \in {"cancel", "status"} => q.new.reason = q.old.reason
  /\ q.op = "reinstate" => q.new.reason = "none"

MInv ==
  /\ SInv
  /\ \A r \in Requests :
       /\ Meant(req[r])
       /\ \A o \in OrderIds : Agree(orders[o], req[r], o, Received(o), refund[o])

(***************************************************************************)
(* A step that touches one order, and the handler that works on it.        *)
(***************************************************************************)
LEMMA MoneyStep ==
  ASSUME NEW h, Requests = {h}, MInv, SInv', NEW o \in OrderIds, NEW n, n = req'[h],
         \A x \in OrderIds :
           x # o => /\ orders'[x] = orders[x] /\ charges'[x] = charges[x]
                    /\ refund'[x] = refund[x],
         n = req[h] \/ req[h].op \notin {"late", "settle"} \/ req[h].order = o,
         Meant(n),
         Agree(orders'[o], n, o, Received(o)', refund'[o])
  PROVE  MInv'
<1>1. \A r \in Requests : r = h
  OBVIOUS
<1>2. ASSUME NEW x \in OrderIds PROVE Agree(orders'[x], n, x, Received(x)', refund'[x])
  <2>1. CASE x = o
    BY <2>1
  <2>2. CASE x # o
    <3>1. Agree(orders[x], req[h], x, Received(x), refund[x])
      BY <1>1 DEF MInv
    <3>2. orders'[x] = orders[x] /\ (Received(x)' <=> Received(x)) /\ refund'[x] = refund[x]
      BY <2>2 DEF Received
    <3>3. Agree(orders[x], n, x, Received(x), refund[x])
      BY <2>2, <3>1 DEF Agree
    <3> QED
      BY <3>2, <3>3 DEF Agree
  <2> QED
    BY <2>1, <2>2
<1>3. Meant(req'[h]) /\ \A x \in OrderIds : Agree(orders'[x], req'[h], x, Received(x)', refund'[x])
  BY <1>2
<1> QED
  BY <1>1, <1>3 DEF MInv, Meant, Agree

(***************************************************************************)
(* An order that was not placed has no money on record.                    *)
(***************************************************************************)
LEMMA MoneyShop ==
  ASSUME NEW h, Requests = {h}, MInv, Shop
  PROVE  MInv'
<1>1. /\ TypeOK /\ Fresh /\ SInv /\ SInv' /\ h \in Requests
      /\ Meant(req[h])
      /\ \A x \in OrderIds : Agree(orders[x], req[h], x, Received(x), refund[x])
  BY ShopFresh DEF MInv, SInv, OInv
<1>2. ASSUME NEW o \in OrderIds, NEW lines, NEW payment \in {"pending", "paid"},
             crearPedido(o, lines, payment)
      PROVE  MInv'
  <2>1. orders[o] = Unplaced /\ charges' = charges /\ refund' = refund /\ req' = req
    BY <1>2 DEF crearPedido
  <2>2. ~ Received(o) /\ ~ Received(o)'
    <3>1. Agree(orders[o], req[h], o, Received(o), refund[o])
      BY <1>1
    <3>2. ~ (req[h].op = "settle" /\ req[h].order = o)
      BY <1>1, <2>1 DEF Fresh, FreshRequest, Placed, Op, Unplaced
    <3>3. ~ Received(o)
      BY <2>1, <3>1, <3>2 DEF Agree, Unplaced
    <3> QED
      BY <2>1, <3>3 DEF Received
  <2>3. /\ orders'[o].status = "pending" /\ orders'[o].payment = payment
        /\ orders'[o].reason = orders[o].reason
        /\ \A x \in OrderIds : x # o => orders'[x] = orders[x]
    BY <1>1, <1>2 DEF crearPedido, TypeOK, Row
  <2>4. PICK n : n = req[h]
    OBVIOUS
  <2>5. Agree(orders'[o], n, o, Received(o)', refund'[o])
    BY <2>1, <2>2, <2>3 DEF Agree, Unplaced
  <2>6. n = req'[h] /\ Meant(n)
    BY <1>1, <2>1, <2>4
  <2> QED
    BY <1>1, <2>1, <2>3, <2>4, <2>5, <2>6, MoneyStep
<1>3. ASSUME UNCHANGED <<orders, charges, refund, req>> PROVE MInv'
  BY <1>1, <1>3 DEF MInv, Meant, Agree, Received
<1> QED
  BY <1>2, <1>3 DEF Shop, checkout, crearParaCliente, WindowPasses, StockIn, StockOut

(***************************************************************************)
(* A request that arrives means what its handler means to write.           *)
(***************************************************************************)
LEMMA MoneyArrive ==
  ASSUME NEW h, Requests = {h}, Operations \cap {"payment", "correct"} = {}, MInv, Arrive(h)
  PROVE  MInv'
<1>1. /\ TypeOK /\ ReqTyped /\ SInv /\ h \in Requests
      /\ Meant(req[h])
      /\ \A x \in OrderIds : Agree(orders[x], req[h], x, Received(x), refund[x])
  BY DEF MInv, SInv, OInv
<1>2. SInv'
  BY <1>1, ArriveFresh
<1>3. UNCHANGED <<orders, charges, refund>>
  BY DEF Arrive, StartCharge, News, Sweep, StartCancel, StartStatus, StartReinstate,
         StartPayment, StartCorrect, StartItems
<1>4. PICK o \in OrderIds :
        \/ \E kind \in Kinds : StartCharge(h, o, kind)
        \/ \E k \in DOMAIN charges[o], st \in Terminal \cup {"processing"} : News(h, o, k, st)
        \/ Sweep(h, o)
        \/ StartCancel(h, o)
        \/ \E target \in OrderStatus : StartStatus(h, o, target)
        \/ StartReinstate(h, o)
        \/ \E payment \in PaymentStatus : StartPayment(h, o, payment)
        \/ \E status \in OrderStatus, payment \in PaymentStatus :
             StartCorrect(h, o, status, payment)
        \/ \E lines \in Lines : StartItems(h, o, lines)
  BY DEF Arrive
<1>5. orders[o] \in Row
  BY <1>1 DEF TypeOK
<1>6. ASSUME NEW op, NEW new, NEW lines, NEW charge, Begin(h, op, o, new, lines, charge),
             Meant(Ask(op, o, new, lines, charge))
      PROVE  MInv'
  <2>1. PICK n : n = Ask(op, o, new, lines, charge)
    OBVIOUS
  <2>2. n = req'[h] /\ req[h] = Idle
    BY <1>1, <1>6, <2>1 DEF Begin, ReqTyped
  <2>3. req[h].op \notin {"late", "settle"}
    BY <2>2 DEF Idle
  <2>4. Agree(orders[o], req[h], o, Received(o), refund[o])
    BY <1>1
  <2>5. Agree(orders'[o], n, o, Received(o)', refund'[o])
    BY <1>3, <2>3, <2>4 DEF Agree, Received
  <2> QED
    BY <1>1, <1>2, <1>3, <1>6, <2>1, <2>2, <2>3, <2>5, MoneyStep
<1>7. ASSUME NEW kind \in Kinds, StartCharge(h, o, kind) PROVE MInv'
  <2> DEFINE c == [kind |-> kind, attempt |-> Len(charges[o]) + 1,
                   status |-> IF kind = "gateway" THEN "requires_action" ELSE "pending"]
  <2>1. Begin(h, "charge", o, orders[o], items[o], c)
    BY <1>7 DEF StartCharge
  <2>2. c.status # "succeeded"
    OBVIOUS
  <2>3. Meant(Ask("charge", o, orders[o], items[o], c))
    BY <2>2 DEF Meant, Ask
  <2> HIDE DEF c
  <2> QED
    BY <1>6, <2>1, <2>3
<1>8. CASE \/ \E k \in DOMAIN charges[o], st \in Terminal \cup {"processing"} : News(h, o, k, st)
           \/ Sweep(h, o)
           \/ \E lines \in Lines : StartItems(h, o, lines)
  <2>1. \E op \in {"news", "expiryDue", "items"} : \E lines, charge :
          Begin(h, op, o, orders[o], lines, charge)
    BY <1>8 DEF News, Sweep, StartItems
  <2>2. \A op \in {"news", "expiryDue", "items"} : \A lines, charge :
          Meant(Ask(op, o, orders[o], lines, charge))
    BY DEF Meant, Ask
  <2> QED
    BY <1>6, <2>1, <2>2
<1>9. CASE StartCancel(h, o)
  <2> DEFINE new == [orders[o] EXCEPT !.status = "cancelled"]
  <2>1. Begin(h, "cancel", o, new, items[o], NoCharge)
    BY <1>9 DEF StartCancel
  <2>2. Meant(Ask("cancel", o, new, items[o], NoCharge))
    BY <1>5 DEF Meant, Ask, Row
  <2> HIDE DEF new
  <2> QED
    BY <1>6, <2>1, <2>2
<1>10. ASSUME NEW target \in OrderStatus, StartStatus(h, o, target) PROVE MInv'
  <2> DEFINE new == [orders[o] EXCEPT !.status = target]
  <2>1. Begin(h, "status", o, new, items[o], NoCharge)
    BY <1>10 DEF StartStatus
  <2>2. Meant(Ask("status", o, new, items[o], NoCharge))
    BY <1>5 DEF Meant, Ask, Row
  <2> HIDE DEF new
  <2> QED
    BY <1>6, <2>1, <2>2
<1>11. CASE StartReinstate(h, o)
  <2> DEFINE new == [orders[o] EXCEPT !.status = "pending", !.reason = "none"]
  <2>1. Begin(h, "reinstate", o, new, items[o], NoCharge)
    BY <1>11 DEF StartReinstate
  <2>2. Meant(Ask("reinstate", o, new, items[o], NoCharge))
    BY <1>5 DEF Meant, Ask, Row
  <2> HIDE DEF new
  <2> QED
    BY <1>6, <2>1, <2>2
<1>12. /\ \A payment \in PaymentStatus : ~ StartPayment(h, o, payment)
       /\ \A status \in OrderStatus, payment \in PaymentStatus :
            ~ StartCorrect(h, o, status, payment)
  BY DEF StartPayment, StartCorrect, Begin
<1> QED
  BY <1>4, <1>7, <1>8, <1>9, <1>10, <1>11, <1>12

(***************************************************************************)
(* The next step of the only handler keeps the books of the money.         *)
(***************************************************************************)
LEMMA MoneyProceed ==
  ASSUME NEW h, Requests = {h}, MInv, Proceed(h)
  PROVE  MInv'
<1>1. /\ TypeOK /\ ReqTyped /\ Fresh /\ SInv /\ h \in Requests /\ Meant(req[h])
      /\ \A x \in OrderIds : Agree(orders[x], req[h], x, Received(x), refund[x])
  BY DEF MInv, SInv, OInv
<1>2. SInv'
  BY <1>1, ProceedFresh
<1>3. req[h].op \in Op
  BY DEF Proceed, StoreCharge, ChargeFails, SaveReference, ApplyNews, SavePayment,
         LateReinstated, LateOutOfStock, ExpireRead, ExpireCommit, CancelByClient, RollBack,
         UpdateStatus, Reinstate, UpdatePaymentStatus, Correct, UpdateItems, Refused, Op
<1>4. PICK q \in Request : q = req[h]
  BY <1>1, <1>3, InProgressTyped
<1>5. PICK o \in OrderIds : o = q.order
  BY DEF Request
<1>6. /\ orders[o] \in Row /\ q.new \in Row /\ q.old = orders[o] /\ Decided(q) /\ Meant(q)
      /\ charges[o] \in Seq(Charge) /\ Agree(orders[o], q, o, Received(o), refund[o])
  <2>1. FreshRequest(q)
    BY <1>1, <1>4 DEF Fresh
  <2> QED
    BY <1>1, <1>3, <1>4, <1>5, <2>1 DEF FreshRequest, Request, TypeOK
<1>7. ASSUME NEW n, n = req'[h], Meant(n),
             \A x \in OrderIds :
               x # o => /\ orders'[x] = orders[x] /\ charges'[x] = charges[x]
                        /\ refund'[x] = refund[x],
             Agree(orders'[o], n, o, Received(o)', refund'[o])
      PROVE  MInv'
  BY <1>2, <1>4, <1>5, <1>7, MoneyStep
<1>8. ASSUME Done(h),
             \A x \in OrderIds :
               x # o => /\ orders'[x] = orders[x] /\ charges'[x] = charges[x]
                        /\ refund'[x] = refund[x],
             Agree(orders'[o], Idle, o, Received(o)', refund'[o])
      PROVE  MInv'
  <2>1. Idle = req'[h]
    BY <1>1, <1>8 DEF Done, ReqTyped
  <2>2. Meant(Idle)
    BY DEF Meant, Idle
  <2> QED
    BY <1>7, <1>8, <2>1, <2>2
<1>9. ASSUME UNCHANGED charges PROVE Received(o)' <=> Received(o)
  BY <1>9 DEF Received
<1>10. ASSUME Save(h)
       PROVE  orders'[o] = q.new /\ \A x \in OrderIds : x # o => orders'[x] = orders[x]
  BY <1>1, <1>4, <1>5, <1>10 DEF Save, TypeOK
<1>11. CASE RollBack(h) \/ Refused(h) \/ ChargeFails(h) \/ UpdateItems(h)
  <2>1. Done(h) /\ UNCHANGED <<orders, charges, refund>> /\ q.op \notin {"late", "settle"}
    BY <1>4, <1>11 DEF RollBack, Refused, ChargeFails, UpdateItems
  <2>2. Agree(orders'[o], Idle, o, Received(o)', refund'[o])
    BY <1>6, <1>9, <2>1 DEF Agree
  <2> QED
    BY <1>8, <2>1, <2>2
<1>12. CASE UpdatePaymentStatus(h) \/ Correct(h)
  BY <1>4, <1>6, <1>12 DEF UpdatePaymentStatus, Correct, Meant
<1>13. CASE \/ SaveReference(h) \/ ExpireCommit(h) \/ CancelByClient(h) \/ UpdateStatus(h)
            \/ Reinstate(h) \/ LateReinstated(h)
  <2>1. /\ Done(h) /\ Save(h) /\ UNCHANGED <<charges, refund>>
        /\ q.op \in {"chargeRef", "expire", "cancel", "status", "reinstate", "late"}
    BY <1>4, <1>13 DEF SaveReference, ExpireCommit, CancelByClient, UpdateStatus, Reinstate,
                       LateReinstated
  <2>2. q.new.payment = q.old.payment
    BY <1>6, <2>1 DEF Decided
  <2>3. q.op \in {"cancel", "status"} => q.old.reason = "none"
    BY <1>6 DEF Decided, Agree, Targets
  <2>4. /\ q.new.reason # "none" => q.new.status = "cancelled"
        /\ q.new.reason = "payment_not_received" /\ q.new.payment = "paid" => FALSE
        /\ q.new.reason = "paid_out_of_stock" => refund[o] /\ q.new.payment = "paid"
    BY <1>6, <2>1, <2>2, <2>3 DEF Decided, Meant, Agree
  <2>5. Agree(q.new, Idle, o, Received(o), refund[o])
    BY <1>6, <2>1, <2>2, <2>4 DEF Agree
  <2>6. Agree(orders'[o], Idle, o, Received(o)', refund'[o])
    BY <1>9, <1>10, <2>1, <2>5 DEF Agree
  <2> QED
    BY <1>8, <1>10, <2>1, <2>6
<1>14. CASE StoreCharge(h)
  <2>1. UNCHANGED <<orders, refund>> /\ q.op = "charge" /\ q.charge.status # "succeeded"
    BY <1>4, <1>6, <1>14 DEF StoreCharge, Meant
  <2>2. PICK n : n = [q EXCEPT !.op = "chargeRef"]
    OBVIOUS
  <2>3. n = req'[h] /\ n.op = "chargeRef"
    BY <1>1, <1>4, <1>14, <2>2 DEF StoreCharge, ReqTyped, Request
  <2>4. charges' = charges \/ charges' = [charges EXCEPT ![o] = Append(charges[o], q.charge)]
    BY <1>4, <1>5, <1>14 DEF StoreCharge
  <2>5. \A x \in OrderIds : x # o => charges'[x] = charges[x]
    BY <1>1, <2>4 DEF TypeOK
  <2>6. Received(o)' => Received(o)
    <3>1. CASE charges' = charges
      BY <1>9, <3>1
    <3>2. CASE charges' = [charges EXCEPT ![o] = Append(charges[o], q.charge)]
      <4>1. charges'[o] = Append(charges[o], q.charge)
        BY <1>1, <3>2 DEF TypeOK
      <4>2. ASSUME NEW k \in DOMAIN charges'[o], charges'[o][k].status = "succeeded"
            PROVE  Received(o)
        <5>1. \/ k \in DOMAIN charges[o] /\ charges'[o][k] = charges[o][k]
              \/ charges'[o][k] = q.charge
          BY <1>6, <4>1
        <5> QED
          BY <2>1, <4>2, <5>1 DEF Received
      <4> QED
        BY <4>2 DEF Received
    <3> QED
      BY <2>4, <3>1, <3>2
  <2>7. Agree(orders'[o], n, o, Received(o)', refund'[o])
    BY <1>6, <2>1, <2>6 DEF Agree
  <2>8. Meant(n)
    BY <2>3 DEF Meant
  <2> QED
    BY <1>7, <2>1, <2>3, <2>5, <2>7, <2>8
<1>15. CASE ApplyNews(h)
  <2>1. UNCHANGED <<orders, refund>> /\ q.op = "news"
    BY <1>4, <1>15 DEF ApplyNews
  <2>2. charges' = [charges EXCEPT ![o] =
                      [k \in DOMAIN charges[o] |->
                         IF SameKey(charges[o][k], q.charge) THEN q.charge ELSE charges[o][k]]]
    BY <1>4, <1>5, <1>15 DEF ApplyNews
  <2>3. /\ \A x \in OrderIds : x # o => charges'[x] = charges[x]
        /\ DOMAIN charges'[o] = DOMAIN charges[o]
        /\ \A k \in DOMAIN charges[o] : charges'[o][k] \in {charges[o][k], q.charge}
    BY <1>1, <2>2 DEF TypeOK
  <2>4. Received(o)' => Received(o) \/ q.charge.status = "succeeded"
    BY <2>3 DEF Received
  <2>5. Received(o) => orders[o].payment = "paid"
    BY <1>6, <2>1 DEF Agree
  <2>6. PICK new : new = [orders[o] EXCEPT !.payment = IF q.charge.status = "succeeded"
                                                       THEN "paid" ELSE "failed"]
    OBVIOUS
  <2>7. new.payment = IF q.charge.status = "succeeded" THEN "paid" ELSE "failed"
    BY <1>6, <2>6 DEF Row
  <2>8. PICK n : n = IF Settles(orders[o], q.charge.status)
                     THEN Ask("settle", o, new, items[o], NoCharge) ELSE Idle
    OBVIOUS
  <2>9. n = req'[h]
    BY <1>1, <1>4, <1>5, <1>15, <2>6, <2>8 DEF ApplyNews, ReqTyped
  <2>10. CASE Settles(orders[o], q.charge.status)
    <3>1. n.op = "settle" /\ n.order = o /\ n.new = new
      BY <2>8, <2>10 DEF Ask
    <3>2. Meant(n)
      BY <2>7, <3>1 DEF Meant
    <3>3. Received(o)' => new.payment = "paid"
      BY <2>4, <2>5, <2>7, <2>10 DEF Settles
    <3>4. Agree(orders'[o], n, o, Received(o)', refund'[o])
      BY <1>6, <2>1, <3>1, <3>3 DEF Agree
    <3> QED
      BY <1>7, <2>1, <2>3, <2>9, <3>2, <3>4
  <2>11. CASE ~ Settles(orders[o], q.charge.status)
    <3>1. n = Idle
      BY <2>8, <2>11
    <3>2. Meant(n)
      BY <3>1 DEF Meant, Idle
    <3>3. Received(o)' => orders[o].payment = "paid"
      BY <2>4, <2>5, <2>11 DEF Settles
    <3>4. Agree(orders'[o], n, o, Received(o)', refund'[o])
      BY <1>6, <2>1, <3>3 DEF Agree
    <3> QED
      BY <1>7, <2>1, <2>3, <2>9, <3>2, <3>4
  <2> QED
    BY <2>10, <2>11
<1>16. CASE SavePayment(h)
  <2>1. UNCHANGED <<charges, refund>> /\ q.op = "settle" /\ Save(h)
    BY <1>4, <1>16 DEF SavePayment
  <2>2. /\ q.new.payment \in {"paid", "failed"} /\ q.old.payment # "paid"
        /\ q.new.status = q.old.status /\ q.new.reason = q.old.reason
    BY <1>6, <2>1 DEF Decided, Meant
  <2>3. /\ q.new.reason # "none" => q.new.status = "cancelled"
        /\ q.new.reason # "paid_out_of_stock"
        /\ Received(o) => q.new.payment = "paid"
    BY <1>6, <2>2 DEF Agree
  <2>4. PICK late : late = [q EXCEPT !.op = "late", !.old = q.new, !.from = items[o],
                              !.new = [q.new EXCEPT !.status = "pending", !.reason = "none"]]
    OBVIOUS
  <2>5. PICK n : n = IF ~ PaidLate(q.new) THEN Idle ELSE late
    OBVIOUS
  <2>6. n = req'[h]
    BY <1>1, <1>4, <1>5, <1>16, <2>4, <2>5 DEF SavePayment, ReqTyped
  <2>7. /\ late.op = "late" /\ late.order = o /\ late.old = q.new
        /\ late.new.reason = "none"
    BY <1>4, <1>5, <1>6, <2>4 DEF Request, Row
  <2>8. CASE PaidLate(q.new)
    <3>1. n = late
      BY <2>5, <2>8
    <3>2. Meant(n)
      BY <2>7, <2>8, <3>1 DEF Meant, PaidLate
    <3>3. Agree(q.new, n, o, Received(o), refund[o])
      BY <2>2, <2>3, <2>7, <3>1 DEF Agree
    <3>4. Agree(orders'[o], n, o, Received(o)', refund'[o])
      BY <1>9, <1>10, <2>1, <3>3 DEF Agree
    <3> QED
      BY <1>7, <1>10, <2>1, <2>6, <3>2, <3>4
  <2>9. CASE ~ PaidLate(q.new)
    <3>1. n = Idle
      BY <2>5, <2>9
    <3>2. Meant(n)
      BY <3>1 DEF Meant, Idle
    <3>3. Agree(q.new, n, o, Received(o), refund[o])
      BY <2>2, <2>3, <2>9 DEF Agree, PaidLate
    <3>4. Agree(orders'[o], n, o, Received(o)', refund'[o])
      BY <1>9, <1>10, <2>1, <3>3 DEF Agree
    <3> QED
      BY <1>7, <1>10, <2>1, <2>6, <3>2, <3>4
  <2> QED
    BY <2>8, <2>9
<1>17. CASE LateOutOfStock(h)
  <2>1. /\ q.op = "late" /\ Done(h) /\ UNCHANGED charges
        /\ orders' = [orders EXCEPT ![o] = [q.old EXCEPT !.reason = "paid_out_of_stock"]]
        /\ refund' = [refund EXCEPT ![o] = TRUE]
    BY <1>4, <1>5, <1>17 DEF LateOutOfStock
  <2>2. q.old.status = "cancelled" /\ q.old.payment = "paid" /\ q.old \in Row
    BY <1>6, <2>1 DEF Decided, Meant
  <2>3. /\ orders'[o].reason = "paid_out_of_stock" /\ orders'[o].payment = "paid"
        /\ orders'[o].status = "cancelled" /\ refund'[o] = TRUE
    BY <1>1, <2>1, <2>2 DEF TypeOK, Row
  <2>4. \A x \in OrderIds : x # o => orders'[x] = orders[x] /\ refund'[x] = refund[x]
    BY <1>1, <2>1 DEF TypeOK
  <2>5. Agree(orders'[o], Idle, o, Received(o)', refund'[o])
    BY <2>3 DEF Agree
  <2> QED
    BY <1>8, <2>1, <2>4, <2>5
<1>18. CASE ExpireRead(h)
  <2>1. UNCHANGED <<orders, charges, refund>> /\ q.op = "expiryDue"
    BY <1>4, <1>18 DEF ExpireRead
  <2>2. PICK new : new = [orders[o] EXCEPT !.status = "cancelled",
                                           !.reason = "payment_not_received"]
    OBVIOUS
  <2>3. PICK n : n = IF orders[o].status = "pending" /\ orders[o].payment # "paid"
                     THEN Ask("expire", o, new, items[o], NoCharge) ELSE Idle
    OBVIOUS
  <2>4. n = req'[h]
    BY <1>1, <1>4, <1>5, <1>18, <2>2, <2>3 DEF ExpireRead, ReqTyped
  <2>5. Meant(n)
    BY <1>6, <2>2, <2>3 DEF Meant, Ask, Idle, Row
  <2>6. Agree(orders'[o], n, o, Received(o)', refund'[o])
    BY <1>6, <1>9, <2>1 DEF Agree
  <2> QED
    BY <1>7, <2>1, <2>4, <2>5, <2>6
<1> QED
  BY <1>11, <1>12, <1>13, <1>14, <1>15, <1>16, <1>17, <1>18 DEF Proceed

(***************************************************************************)
(* With one handler at a time and the back office keeping its hands off    *)
(* the payments, the money on record, the row and the refund agree.        *)
(***************************************************************************)
THEOREM MoneyAgrees ==
  ASSUME NEW h, Requests = {h}, Operations \cap {"payment", "correct"} = {}
  PROVE  Spec => []MInv
<1>1. Init => MInv
  <2> SUFFICES ASSUME Init PROVE MInv
    OBVIOUS
  <2>1. Meant(Idle)
    BY DEF Meant, Idle
  <2>2. ASSUME NEW o \in OrderIds PROVE Agree(orders[o], Idle, o, Received(o), refund[o])
    <3>1. orders[o] = Unplaced /\ DOMAIN charges[o] = {}
      BY DEF Init
    <3> QED
      BY <3>1 DEF Agree, Received, Unplaced
  <2>3. \A r \in Requests : req[r] = Idle
    BY DEF Init
  <2> QED
    BY <2>1, <2>2, <2>3, SInit DEF MInv
<1>2. MInv /\ [Next]_vars => MInv'
  <2> SUFFICES ASSUME MInv, [Next]_vars PROVE MInv'
    OBVIOUS
  <2>1. CASE Shop
    BY <2>1, MoneyShop
  <2>2. CASE Arrive(h)
    BY <2>2, MoneyArrive
  <2>3. CASE Proceed(h)
    BY <2>3, MoneyProceed
  <2>4. CASE UNCHANGED vars
    <3>1. SInv'
      BY <2>4 DEF MInv, SInv, OInv, TypeOK, ReqTyped, vars, Fresh, FreshRequest, Decided,
                  Placed, Owing
    <3> QED
      BY <2>4, <3>1 DEF MInv, vars, Meant, Agree, Received
  <2> QED
    BY <2>1, <2>2, <2>3, <2>4 DEF Next
<1> QED
  BY <1>1, <1>2, PTL DEF Spec

(***************************************************************************)
(* Money that came in is on record: an order with a succeeded charge is    *)
(* paid, or the handler that heard of it is still at work.                 *)
(***************************************************************************)
THEOREM SucceededPaid ==
  ASSUME NEW h, Requests = {h}, Operations \cap {"payment", "correct"} = {}
  PROVE  Spec => []SucceededIsPaid
<1>1. MInv => SucceededIsPaid
  BY DEF MInv, Agree, Received, SucceededIsPaid, InProgress
<1> QED
  BY <1>1, MoneyAgrees, PTL

(***************************************************************************)
(* A payment that arrives after the expiry is resolved: the order is alive *)
(* again, or flagged with its refund opened.                               *)
(***************************************************************************)
THEOREM LateResolved ==
  ASSUME NEW h, Requests = {h}, Operations \cap {"payment", "correct"} = {}
  PROVE  Spec => []LatePaymentResolved
<1>1. MInv => LatePaymentResolved
  BY DEF MInv, Agree, LatePaymentResolved, InProgress
<1> QED
  BY <1>1, MoneyAgrees, PTL

-----------------------------------------------------------------------------
(* One handler at a time: the orders and the books are a plain sale *)

(***************************************************************************)
(* The sale adds up as this module does.                                   *)
(***************************************************************************)
LEMMA SaleTotal ==
  ASSUME NEW W, NEW S
  PROVE  Sa!Total(W, S) = Total(W, S)
<1>1. Sa!UnitsOf(W, S) = UnitsOf(W, S)
  BY Zenon DEF UnitsOf, Sa!UnitsOf
<1>2. \A T : IsFiniteSet(T) <=> Sa!IsFiniteSet(T)
  BY Zenon DEF IsFiniteSet, Sa!IsFiniteSet
<1>3. \A T : Sa!Cardinality(T) = Cardinality(T)
  BY <1>2, Zenon DEF Cardinality, Sa!Cardinality
<1> QED
  BY <1>1, <1>3, Zenon DEF Total, Sa!Total

(***************************************************************************)
(* What the pending orders wait for is on the shelves.                     *)
(***************************************************************************)
LEMMA WaitingFits ==
  ASSUME NEW s, Sound(s), NEW st, NEW ls \in [OrderIds -> Items],
         \A o \in OrderIds :
           Units(s, o, "reserved") = IF st[o] = "pending" THEN ls[o] ELSE NoItems,
         NEW p \in Products, NEW P, P = {o \in OrderIds : st[o] = "pending"}
  PROVE  Sa!Total([o \in P |-> ls[o][p]], P) <= Shelf(s, p)
<1> DEFINE V == [o \in P |-> ls[o][p]]
<1>1. P \in SUBSET OrderIds
  OBVIOUS
<1>2. \A o \in P : V[o] = Units(s, o, "reserved")[p]
  OBVIOUS
<1>3. \A o \in OrderIds \ P : Units(s, o, "reserved")[p] = 0
  BY DEF NoItems
<1> HIDE DEF V
<1>4. Total(V, P) <= Shelf(s, p)
  BY <1>1, <1>2, <1>3, HeldIsOnShelves
<1> QED
  BY <1>4, SaleTotal DEF V

(***************************************************************************)
(* A hold keeps the goods where they are.                                  *)
(***************************************************************************)
LEMMA HoldKeepsGoods ==
  ASSUME NEW s, Sound(s), NEW o \in OrderIds, NEW lines \in Items,
         NEW t \in Reserves(s, o, lines)
  PROVE  Sound(t) /\ GoodsKept(s, t, o)
<1>1. Sound(t) /\ Units(t, o, "confirmed") = Units(s, o, "confirmed")
  BY HoldEffect
<1>2. t.quantity = s.quantity
  BY HoldMovesNothing DEF Reserves, Sound
<1> QED
  BY <1>1, <1>2 DEF GoodsKept, Shelf

(***************************************************************************)
(* A correction moves goods between the shelves and its order only.        *)
(***************************************************************************)
LEMMA CorrectedKeepsGoods ==
  ASSUME Sound(stock), NEW o \in OrderIds, items[o] \in Items, NEW old, NEW new,
         NEW s \in CorrectedBooks(o, old, new)
  PROVE  GoodsKept(stock, s, o)
<1> DEFINE from  == stockPhase(old.status)
           to    == stockPhase(new.status)
           freed == IF from = "committed" \/ to = "released"
                    THEN releaseReservations(stock, o, "cancelled") ELSE stock
           held  == IF from = "held" \/ to = "released"
                    THEN {freed} ELSE Reserves(freed, o, items[o])
<1>1. CorrectedBooks(o, old, new) =
        CASE from = to -> {stock}
          [] from # to /\ to = "committed" -> {confirmReservations(b, o) : b \in held}
          [] OTHER -> held
  BY DEF CorrectedBooks
<1>2. GoodsKept(stock, stock, o)
  BY DEF GoodsKept
<1>3. Sound(freed) /\ GoodsKept(stock, freed, o)
  BY <1>2, ReleaseEffect, ReleaseKeepsGoods
<1> HIDE DEF from, to, freed
<1>4. ASSUME NEW b \in held PROVE Sound(b) /\ GoodsKept(stock, b, o)
  <2>1. CASE b = freed
    BY <1>3, <2>1
  <2>2. CASE b \in Reserves(freed, o, items[o])
    <3>1. Sound(b) /\ GoodsKept(freed, b, o)
      BY <1>3, <2>2, HoldKeepsGoods
    <3> QED
      BY <1>3, <3>1, GoodsChain
  <2> QED
    BY <1>4, <2>1, <2>2
<1> HIDE DEF held
<1>5. ASSUME NEW b \in held PROVE GoodsKept(stock, confirmReservations(b, o), o)
  <2>1. GoodsKept(b, confirmReservations(b, o), o)
    <3>1. confirmReservations(b, o) = confirmProductReservations(b, o, Products)
      BY <1>4, <1>5, ConfirmAll DEF Sound
    <3> QED
      BY <1>4, <1>5, <3>1, ConfirmKeepsGoods
  <2> QED
    BY <1>4, <1>5, <2>1, GoodsChain
<1> QED
  BY <1>1, <1>2, <1>4, <1>5

(***************************************************************************)
(* So does an edit of its lines.                                           *)
(***************************************************************************)
LEMMA EditedKeepsGoods ==
  ASSUME Sound(stock), NEW o \in OrderIds, NEW from \in Items, NEW to \in Items, NEW phase,
         phase \in {"held", "released", "committed"}, NEW s \in EditedBooks(o, phase, from, to)
  PROVE  GoodsKept(stock, s, o)
<1> DEFINE rise  == Excess(to, from)
           drop  == Excess(from, to)
           freed == releaseProductUnits(stock, o, drop)
           held  == Reserves(freed, o, rise)
           rose  == {p \in Products : rise[p] > 0}
<1>1. drop \in [Products -> Nat] /\ rise \in Items /\ rose \in SUBSET Products
  BY MaxQuantityAssumption DEF Excess, Items, Larger
<1>2. \/ s = stock
      \/ s \in held
      \/ \E b \in held : s = confirmProductReservations(b, o, rose)
  BY DEF EditedBooks
<1> HIDE DEF rise, drop, rose
<1>3. Sound(freed) /\ GoodsKept(stock, freed, o)
  BY <1>1, ReleaseUnitsSound, LetGoKeepsGoods
<1> HIDE DEF freed
<1>4. ASSUME NEW b \in held PROVE Sound(b) /\ GoodsKept(stock, b, o)
  <2>1. Sound(b) /\ GoodsKept(freed, b, o)
    BY <1>1, <1>3, HoldKeepsGoods
  <2> QED
    BY <1>3, <2>1, GoodsChain
<1> HIDE DEF held
<1>5. ASSUME NEW b \in held PROVE GoodsKept(stock, confirmProductReservations(b, o, rose), o)
  <2>1. GoodsKept(b, confirmProductReservations(b, o, rose), o)
    BY <1>1, <1>4, <1>5, ConfirmKeepsGoods
  <2> QED
    BY <1>4, <1>5, <2>1, GoodsChain
<1>6. GoodsKept(stock, stock, o)
  BY DEF GoodsKept
<1> QED
  BY <1>2, <1>4, <1>5, <1>6

(***************************************************************************)
(* What the sale sees with an order, as the books have it.                 *)
(***************************************************************************)
LEMMA SaleGoods ==
  ASSUME NEW s, Sound(s), NEW o \in OrderIds, NEW p \in Products, NEW lines \in Items,
         NEW status \in OrderStatus \cup {"none"},
         Units(s, o, "confirmed") = Owed(status, lines, "confirmed")
  PROVE  /\ Shelf(s, p) \in Nat
         /\ Units(s, o, "confirmed")[p] = Sa!Out(status, lines, p)
         /\ Units(s, o, "confirmed")[p] \in Nat
<1>1. lines \in [Products -> Nat]
  BY MaxQuantityAssumption DEF Items
<1>2. Shelf(s, p) \in Nat
  BY ShelfTyped
<1>3. Units(s, o, "confirmed")[p] = Sa!Out(status, lines, p)
  BY <1>1 DEF Owed, Sa!Out, OrderStatus, NoItems
<1>4. Sa!Out(status, lines, p) \in Nat
  BY <1>1 DEF Sa!Out
<1> QED
  BY <1>2, <1>3, <1>4

(***************************************************************************)
(* What pending orders wait for is there, after any step.                  *)
(***************************************************************************)
LEMMA SaleFits ==
  ASSUME SInv'
  PROVE  Sa!Fits'
<1> SUFFICES ASSUME NEW p \in Products
             PROVE  Sa!Total([o \in Sa!Pending' |-> items'[o][p]], Sa!Pending') <= Shelf(stock', p)
  BY DEF Sa!Fits, OnShelf, Shelf, Column
<1> DEFINE st == [o \in OrderIds |-> orders'[o].status]
<1>1. Sound(stock') /\ items' \in [OrderIds -> Items]
  BY DEF SInv, OInv, TypeOK
<1>2. ASSUME NEW o \in OrderIds
      PROVE  Units(stock', o, "reserved") = IF st[o] = "pending" THEN items'[o] ELSE NoItems
  <2>1. Units(stock', o, "reserved") = Owed(orders'[o].status, items'[o], "reserved")
    BY DEF SInv, Owing, LiveStatus
  <2> QED
    BY <2>1 DEF Owed
<1>3. Sa!Pending' = {o \in OrderIds : st[o] = "pending"}
  BY DEF Sa!Pending
<1> HIDE DEF st
<1> QED
  BY <1>1, <1>2, <1>3, WaitingFits

(***************************************************************************)
(* A step that changes one order and keeps its goods is a step of a sale.  *)
(***************************************************************************)
LEMMA SaleMoves ==
  ASSUME SInv, SInv', NEW o \in OrderIds, GoodsKept(stock, stock', o), NEW st, NEW ls,
         orders'[o].status = st, items' = [items EXCEPT ![o] = ls],
         \A x \in OrderIds : x # o => orders'[x].status = orders[x].status
  PROVE  Sa!Moves(o, st, ls)
<1>1. /\ orders \in [OrderIds -> Row] /\ orders' \in [OrderIds -> Row]
      /\ items \in [OrderIds -> Items]
  BY DEF SInv, OInv, TypeOK
<1>2. items'[o] = ls
  BY <1>1
<1>3. ASSUME NEW p \in Products
      PROVE  OnShelf(p)' = OnShelf(p) + Sa!Out(orders[o].status, items[o], p) - Sa!Out(st, ls, p)
  <2>1. /\ OnShelf(p) = Shelf(stock, p) /\ Shelf(stock, p) \in Nat
        /\ Units(stock, o, "confirmed")[p] = Sa!Out(orders[o].status, items[o], p)
        /\ Units(stock, o, "confirmed")[p] \in Nat
    <3>1. /\ Sound(stock) /\ items[o] \in Items
          /\ orders[o].status \in OrderStatus \cup {"none"}
          /\ Units(stock, o, "confirmed") = Owed(orders[o].status, items[o], "confirmed")
      BY DEF SInv, OInv, TypeOK, Row, Owing, LiveStatus
    <3>2. OnShelf(p) = Shelf(stock, p)
      BY DEF OnShelf, Shelf, Column
    <3> QED
      BY <3>1, <3>2, SaleGoods
  <2>2. /\ OnShelf(p)' = Shelf(stock', p) /\ Shelf(stock', p) \in Nat
        /\ Units(stock', o, "confirmed")[p] = Sa!Out(orders'[o].status, items'[o], p)
        /\ Units(stock', o, "confirmed")[p] \in Nat
    <3>1. /\ Sound(stock') /\ items'[o] \in Items
          /\ orders'[o].status \in OrderStatus \cup {"none"}
          /\ Units(stock', o, "confirmed") = Owed(orders'[o].status, items'[o], "confirmed")
      BY DEF SInv, OInv, TypeOK, Row, Owing, LiveStatus
    <3>2. OnShelf(p)' = Shelf(stock', p)
      BY DEF OnShelf, Shelf, Column
    <3> QED
      BY <3>1, <3>2, SaleGoods
  <2>3. Shelf(stock', p) + Units(stock', o, "confirmed")[p]
          = Shelf(stock, p) + Units(stock, o, "confirmed")[p]
    BY DEF GoodsKept
  <2>4. Sa!Out(orders'[o].status, items'[o], p) = Sa!Out(st, ls, p)
    BY <1>2
  <2> HIDE DEF OnShelf
  <2> QED
    BY <2>1, <2>2, <2>3, <2>4
<1>4. Sa!Fits'
  BY SaleFits
<1>5. [x \in OrderIds |-> orders'[x].status]
        = [[x \in OrderIds |-> orders[x].status] EXCEPT ![o] = st]
  OBVIOUS
<1> QED
  BY <1>3, <1>4, <1>5 DEF Sa!Moves

(***************************************************************************)
(* Lines put in one storage are as many goods of each product.             *)
(***************************************************************************)
LEMMA GoodsAt ==
  ASSUME NEW l \in Locations, NEW p \in Products, NEW lines \in Items
  PROVE  Weighs(At(l, lines), Column(p)) /\ Total(At(l, lines), Column(p)) = lines[p]
<1>1. IsFiniteSet(Column(p))
  BY FiniteAssumption, FS_Product, FS_Subset DEF Cells, Column
<1>2. At(l, lines) \in [Cells -> Nat] /\ lines[p] \in Nat
  BY MaxQuantityAssumption DEF At, Items, Cells
<1>3. {<<l, p>>} \in SUBSET Column(p) /\ At(l, lines)[<<l, p>>] = lines[p]
  BY DEF Column, Cells, At
<1>4. \A c \in Column(p) \ {<<l, p>>} : At(l, lines)[c] = 0
  BY DEF Column, Cells, At
<1>5. PICK W : W = At(l, lines)
  OBVIOUS
<1>6. Total(W, Column(p)) = Total(W, {<<l, p>>})
  BY <1>3, <1>4, <1>5, TotalZeros
<1>7. Total(W, {<<l, p>>}) = lines[p]
  BY <1>2, <1>3, <1>5, TotalSingle
<1>8. Weighs(W, Column(p))
  BY <1>1, <1>2, <1>5 DEF Weighs, Column
<1> QED
  BY <1>5, <1>6, <1>7, <1>8

(***************************************************************************)
(* The shop opens with empty shelves and no order.                         *)
(***************************************************************************)
LEMMA SaleInit ==
  ASSUME Init
  PROVE  Sa!Init
<1>1. ASSUME NEW p \in Products PROVE OnShelf(p) = 0
  <2>1. stock.quantity = [c \in Cells |-> 0]
    BY DEF Init, EmptyBooks
  <2>2. \A c \in Column(p) \ {} : stock.quantity[c] = 0
    BY <2>1 DEF Column
  <2>3. {} \in SUBSET Column(p)
    OBVIOUS
  <2>4. Total(stock.quantity, Column(p)) = Total(stock.quantity, {})
    BY <2>2, <2>3, TotalZeros
  <2> QED
    BY <2>4, TotalEmpty DEF OnShelf, Column
<1>2. [o \in OrderIds |-> orders[o].status] = [o \in OrderIds |-> "none"]
  BY DEF Init, Unplaced
<1> QED
  BY <1>1, <1>2 DEF Sa!Init, Init, NoItems

(***************************************************************************)
(* A sale is placed, goods arrive and leave.                               *)
(***************************************************************************)
LEMMA SaleShop ==
  ASSUME SInv, SInv', Shop
  PROVE  Sa!Next \/ UNCHANGED Sa!vars
<1>1. TypeOK /\ Sound(stock) /\ Owing
  BY DEF SInv, OInv
<1>2. Sa!Some = Lines
  BY DEF Sa!Some, Lines, Items, NoItems
<1>3. ASSUME NEW o \in OrderIds, NEW lines \in Lines, NEW payment,
             crearPedido(o, lines, payment)
      PROVE  Sa!Place(o, lines)
  <2>1. /\ orders[o].status = "none" /\ lines \in Items
        /\ stock' \in Reserves(stock, o, lines)
        /\ items' = [items EXCEPT ![o] = lines]
    BY <1>3 DEF crearPedido, Unplaced, Lines
  <2>2. /\ \A x \in OrderIds : x # o => orders'[x].status = orders[x].status
        /\ orders'[o].status = "pending"
    BY <1>1, <1>3 DEF crearPedido, TypeOK, Row
  <2>3. GoodsKept(stock, stock', o)
    BY <1>1, <2>1, HoldKeepsGoods
  <2>4. Sa!Moves(o, "pending", lines)
    BY <2>1, <2>2, <2>3, SaleMoves
  <2> QED
    BY <2>1, <2>4 DEF Sa!Place
<1>4. ASSUME NEW l \in Locations, NEW lines \in Lines, StockIn(l, lines)
      PROVE  Sa!Arrives(lines)
  <2>1. /\ orders' = orders /\ items' = items /\ lines \in Items
        /\ stock'.quantity = Plus(stock.quantity, At(l, lines))
    BY <1>1, <1>4 DEF StockIn, addStock, Lines, Sound, Books
  <2>2. ASSUME NEW p \in Products PROVE OnShelf(p)' = OnShelf(p) + lines[p]
    <3>1. Weighs(stock.quantity, Column(p)) /\ stock.quantity \in [Cells -> Nat]
      BY <1>1, ShelfTyped
    <3>2. Weighs(At(l, lines), Column(p)) /\ Total(At(l, lines), Column(p)) = lines[p]
      BY <2>1, GoodsAt
    <3>3. \A c \in Column(p) : stock'.quantity[c] = stock.quantity[c] + At(l, lines)[c]
      BY <2>1 DEF Plus, Column
    <3>4. Total(stock'.quantity, Column(p)) = Total(stock.quantity, Column(p)) + lines[p]
      BY <3>1, <3>2, <3>3, TotalPlus
    <3> QED
      BY <3>4 DEF OnShelf, Column
  <2> HIDE DEF OnShelf
  <2> QED
    BY <2>1, <2>2 DEF Sa!Arrives
<1>5. ASSUME NEW l \in Locations, NEW lines \in Lines, StockOut(l, lines)
      PROVE  Sa!Leaves(lines)
  <2>1. /\ orders' = orders /\ items' = items /\ lines \in Items
        /\ stock'.quantity = Minus(stock.quantity, At(l, lines))
    BY <1>1, <1>5 DEF StockOut, removeStock, Lines, Sound, Books
  <2>2. ASSUME NEW p \in Products PROVE OnShelf(p)' = OnShelf(p) - lines[p]
    <3>1. Shelf(stock, p) \in Nat /\ stock.quantity \in [Cells -> Nat]
      BY <1>1, ShelfTyped
    <3>2. Weighs(At(l, lines), Column(p)) /\ Total(At(l, lines), Column(p)) = lines[p]
      BY <2>1, GoodsAt
    <3>3. Sound(stock')
      BY DEF SInv, OInv
    <3>4. /\ Weighs(stock'.quantity, Column(p)) /\ Shelf(stock', p) \in Nat
          /\ stock'.quantity \in [Cells -> Nat]
      BY <3>3, ShelfTyped
    <3>5. At(l, lines) \in [Cells -> Nat]
      BY <2>1, MaxQuantityAssumption DEF At, Items, Cells
    <3>6. \A c \in Column(p) : stock.quantity[c] = stock'.quantity[c] + At(l, lines)[c]
      BY <2>1, <3>1, <3>4, <3>5 DEF Minus, Column
    <3>7. Total(stock.quantity, Column(p)) = Total(stock'.quantity, Column(p)) + lines[p]
      BY <3>2, <3>4, <3>6, TotalPlus
    <3>8. lines[p] \in Nat
      BY <2>1, MaxQuantityAssumption DEF Items
    <3>9. Shelf(stock', p) = Shelf(stock, p) - lines[p]
      BY <3>1, <3>4, <3>7, <3>8 DEF Shelf
    <3> QED
      BY <3>9 DEF OnShelf, Column, Shelf
  <2>3. Sa!Fits'
    BY SaleFits
  <2> HIDE DEF OnShelf
  <2> QED
    BY <2>1, <2>2, <2>3 DEF Sa!Leaves
<1>6. ASSUME NEW o \in OrderIds, WindowPasses(o) PROVE UNCHANGED Sa!vars
  BY <1>6 DEF WindowPasses, Sa!vars, OnShelf
<1> QED
  BY <1>2, <1>3, <1>4, <1>5, <1>6 DEF Shop, checkout, crearParaCliente, Sa!Next

(***************************************************************************)
(* A handler that saves its row and keeps the goods moves its order.       *)
(***************************************************************************)
LEMMA SaleSave ==
  ASSUME NEW h \in Requests, SInv, SInv', req[h].op \in Op, Save(h), items' = items,
         NEW o, o = req[h].order, NEW st, st = req[h].new.status, NEW ls, ls = items[o],
         GoodsKept(stock, stock', o)
  PROVE  Sa!Moves(o, st, ls)
<1>1. o \in OrderIds
  BY InHand
<1>2. orders \in [OrderIds -> Row] /\ items \in [OrderIds -> Items]
  BY DEF SInv, OInv, TypeOK
<1>3. /\ \A x \in OrderIds : x # o => orders'[x].status = orders[x].status
      /\ orders'[o].status = st
  BY <1>1, <1>2 DEF Save
<1>4. items' = [items EXCEPT ![o] = ls]
  BY <1>1, <1>2
<1> QED
  BY <1>1, <1>3, <1>4, SaleMoves

(***************************************************************************)
(* A step that moves no goods and changes no status is none of the sale's. *)
(***************************************************************************)
LEMMA SaleIdles ==
  ASSUME SInv, stock' = stock, items' = items,
         \A x \in OrderIds : orders'[x].status = orders[x].status
  PROVE  UNCHANGED Sa!vars
BY DEF Sa!vars, OnShelf

(***************************************************************************)
(* The steps of the sale that change an order.                             *)
(***************************************************************************)
LEMMA SaleSteps ==
  ASSUME NEW o \in OrderIds
  PROVE  /\ Sa!Cancel(o) \/ Sa!Reinstate(o) => Sa!Next
         /\ \A st \in DOMAIN Sa!Stages : Sa!Serve(o, st) => Sa!Next
         /\ \A st \in DOMAIN Sa!Stages \cup {"cancelled"} : Sa!Correct(o, st) => Sa!Next
         /\ \A ls \in Sa!Some : Sa!Edit(o, ls) => Sa!Next
BY DEF Sa!Next

(***************************************************************************)
(* Every step of the only handler is a step of the sale, or none.          *)
(***************************************************************************)
LEMMA SaleProceed ==
  ASSUME NEW h, Requests = {h}, SInv, SInv', Proceed(h)
  PROVE  Sa!Next \/ UNCHANGED Sa!vars
<1> DEFINE q == req[h]
<1> PICK o, st, ls : o = req[h].order /\ st = req[h].new.status /\ ls = items[o]
  OBVIOUS
<1>1. TypeOK /\ Sound(stock) /\ stock \in Books /\ h \in Requests
  BY DEF SInv, OInv, Sound
<1>2. ASSUME q.op \in Op
      PROVE  /\ o \in OrderIds /\ orders[o].status \in OrderStatus /\ items[o] \in Items
             /\ q.old = orders[o] /\ q.from = items[o] /\ q.to \in Items
             /\ q.new \in Row /\ q.old \in Row /\ Decided(q)
  BY <1>1, <1>2, InHand
<1>3. GoodsKept(stock, stock, o)
  BY DEF GoodsKept
<1>4. CASE \/ RollBack(h) \/ Refused(h) \/ ChargeFails(h) \/ StoreCharge(h)
           \/ ApplyNews(h) \/ ExpireRead(h)
  <2>1. stock' = stock /\ items' = items /\ orders' = orders
    BY <1>4 DEF RollBack, Refused, ChargeFails, StoreCharge, ApplyNews, ExpireRead
  <2> QED
    BY <2>1, SaleIdles
<1>5. CASE SaveReference(h) \/ UpdatePaymentStatus(h) \/ SavePayment(h)
  <2>1. /\ q.op \in Op /\ q.op \in {"chargeRef", "payment", "settle"} /\ Save(h)
        /\ stock' = stock /\ items' = items
    BY <1>5 DEF SaveReference, UpdatePaymentStatus, SavePayment, Op
  <2>2. q.new.status = orders[o].status
    BY <1>2, <2>1 DEF Decided
  <2>3. \A x \in OrderIds : orders'[x].status = orders[x].status
    BY <1>1, <2>1, <2>2 DEF Save, TypeOK
  <2> QED
    BY <2>1, <2>3, SaleIdles
<1>6. CASE LateOutOfStock(h)
  <2>1. /\ q.op = "late" /\ q.op \in Op /\ stock' = stock /\ items' = items
        /\ orders' = [orders EXCEPT ![o] = [q.old EXCEPT !.reason = "paid_out_of_stock"]]
    BY <1>6 DEF LateOutOfStock, Op
  <2>2. \A x \in OrderIds : orders'[x].status = orders[x].status
    BY <1>1, <1>2, <2>1 DEF TypeOK, Row
  <2> QED
    BY <2>1, <2>2, SaleIdles
<1>7. CASE LateReinstated(h) \/ Reinstate(h)
  <2>1. /\ q.op \in {"late", "reinstate"} /\ q.op \in Op
        /\ stock' \in Reserves(stock, o, items[o]) /\ Save(h) /\ items' = items
    BY <1>2, <1>7 DEF LateReinstated, Reinstate, Op
  <2>2. orders[o].status = "cancelled" /\ q.new.status = "pending"
    BY <1>2, <2>1 DEF Decided
  <2>3. GoodsKept(stock, stock', o)
    BY <1>1, <1>2, <2>1, HoldKeepsGoods
  <2>4. st = "pending" /\ Sa!Moves(o, st, ls)
    BY <1>1, <2>1, <2>2, <2>3, SaleSave
  <2>5. /\ o \in OrderIds /\ orders[o].status = "cancelled"
        /\ [x \in OrderIds |-> orders[x].status][o] = "cancelled"
    BY <1>2, <2>1, <2>2
  <2>6. Sa!Reinstate(o)
    BY <2>4, <2>5 DEF Sa!Moves, Sa!Reinstate
  <2> QED
    BY <2>5, <2>6, SaleSteps, Zenon
<1>8. CASE ExpireCommit(h) \/ CancelByClient(h)
  <2>1. /\ q.op \in {"expire", "cancel"} /\ q.op \in Op /\ Save(h) /\ items' = Reconciled(h)
        /\ \E final \in {"cancelled", "expired"} : stock' = releaseReservations(stock, o, final)
    BY <1>8 DEF ExpireCommit, CancelByClient, Op
  <2>2. orders[o].status = "pending" /\ q.new.status = "cancelled"
    BY <1>2, <2>1 DEF Decided
  <2>3. items' = items
    <3>1. \A p \in Products : items[o][p] = IF q.from[p] = 0 THEN 0 ELSE items[o][p]
      BY <1>2, <2>1
    <3>2. items[o] = [p \in Products |-> IF q.from[p] = 0 THEN 0 ELSE items[o][p]]
      BY <1>2, <2>1, <3>1 DEF Items
    <3> QED
      BY <1>1, <2>1, <3>2 DEF Reconciled, TypeOK
  <2>4. GoodsKept(stock, stock', o)
    BY <1>1, <1>2, <2>1, ReleaseKeepsGoods
  <2>5. st = "cancelled" /\ Sa!Moves(o, st, ls)
    BY <1>1, <2>1, <2>2, <2>3, <2>4, SaleSave
  <2>6. o \in OrderIds /\ Sa!Cancel(o)
    BY <1>2, <2>1, <2>2, <2>5 DEF Sa!Moves, Sa!Cancel, Sa!Stages
  <2> QED
    BY <2>6, SaleSteps, Zenon
<1>9. CASE UpdateStatus(h)
  <2>1. /\ q.op = "status" /\ q.op \in Op /\ Save(h) /\ items' = items
        /\ stock' = StatusBooks(o, q.old.status, q.new.status)
    BY <1>9 DEF UpdateStatus, Op
  <2>2. q.new.status \in Targets(orders[o].status) /\ orders[o].status \in OrderStatus
    BY <1>2, <2>1 DEF Decided
  <2>3. GoodsKept(stock, stock', o)
    <3>1. \/ stock' = releaseReservations(stock, o, "cancelled")
          \/ stock' = confirmReservations(stock, o)
          \/ stock' = stock
      BY <2>1 DEF StatusBooks
    <3>2. confirmReservations(stock, o) = confirmProductReservations(stock, o, Products)
      BY <1>1, ConfirmAll
    <3>3. GoodsKept(stock, confirmReservations(stock, o), o)
      BY <1>1, <1>2, <2>1, <3>2, ConfirmKeepsGoods
    <3>4. GoodsKept(stock, releaseReservations(stock, o, "cancelled"), o)
      BY <1>1, <1>2, <2>1, ReleaseKeepsGoods
    <3> QED
      BY <1>3, <3>1, <3>3, <3>4
  <2>4. Sa!Moves(o, st, ls)
    BY <1>1, <2>1, <2>3, SaleSave
  <2>5. o \in OrderIds
    BY <1>2, <2>1
  <2>6. CASE st = "cancelled"
    <3>1. Sa!Cancel(o)
      BY <2>2, <2>4, <2>5, <2>6 DEF Sa!Moves, Sa!Cancel, Sa!Stages, Targets, OrderStatus
    <3> QED
      BY <2>5, <3>1, SaleSteps, Zenon
  <2>7. CASE st # "cancelled"
    <3>1. /\ st \in DOMAIN Sa!Stages /\ orders[o].status \in DOMAIN Sa!Stages
          /\ Sa!Stages[st] > Sa!Stages[orders[o].status]
      BY <2>2, <2>7 DEF Sa!Stages, Targets, OrderStatus, Rank
    <3>2. Sa!Serve(o, st)
      BY <2>4, <2>5, <3>1 DEF Sa!Moves, Sa!Serve
    <3> QED
      BY <2>5, <3>1, <3>2, SaleSteps, Zenon
  <2> QED
    BY <2>6, <2>7
<1>10. CASE Correct(h)
  <2>1. /\ q.op = "correct" /\ q.op \in Op /\ Save(h) /\ items' = items
        /\ stock' \in CorrectedBooks(o, q.old, q.new)
    BY <1>10 DEF Correct, Op
  <2>2. /\ q.new.status \in OrderStatus /\ orders[o].status \in OrderStatus
        /\ "correct" \in Operations /\ o \in OrderIds
    BY <1>2, <2>1 DEF Decided, Row
  <2>3. GoodsKept(stock, stock', o)
    BY <1>1, <1>2, <2>1, CorrectedKeepsGoods
  <2>4. Sa!Moves(o, st, ls)
    BY <1>1, <2>1, <2>3, SaleSave
  <2>5. Sa!Correct(o, st) /\ st \in DOMAIN Sa!Stages \cup {"cancelled"}
    BY <2>2, <2>4 DEF Sa!Moves, Sa!Correct, Sa!Stages, OrderStatus
  <2> QED
    BY <2>2, <2>5, SaleSteps, Zenon
<1>11. CASE UpdateItems(h)
  <2>1. /\ q.op = "items" /\ q.op \in Op /\ orders' = orders
        /\ items' = [items EXCEPT ![o] = q.to]
        /\ stock' \in EditedBooks(o, stockPhase(q.old.status), items[o], q.to)
    <3>1. /\ q.op = "items" /\ q.op \in Op /\ orders' = orders
          /\ items' = [items EXCEPT ![o] = Rewritten(o, q.from, q.to)]
          /\ stock' \in EditedBooks(o, stockPhase(q.old.status), q.from, q.to)
      BY <1>11 DEF UpdateItems, Op
    <3>2. q.from = items[o] /\ items[o] \in Items /\ q.to \in Items
      BY <1>2, <3>1
    <3>3. Rewritten(o, q.from, q.to) = q.to
      BY <1>2, <3>1, <3>2, RewrittenSerial
    <3> QED
      BY <3>1, <3>2, <3>3
  <2>2. /\ o \in OrderIds /\ q.to \in Items \ {NoItems} /\ items[o] \in Items
        /\ orders[o].status \in OrderStatus
    BY <1>2, <2>1 DEF Decided
  <2>3. stockPhase(q.old.status) \in {"held", "released", "committed"}
    BY DEF stockPhase
  <2>4. GoodsKept(stock, stock', o)
    BY <1>1, <2>1, <2>2, <2>3, EditedKeepsGoods
  <2>5. PICK to, same : to = q.to /\ same = orders[o].status
    OBVIOUS
  <2>6. Sa!Moves(o, same, to)
    BY <2>1, <2>2, <2>4, <2>5, SaleMoves
  <2>7. Sa!Edit(o, to) /\ to \in Sa!Some
    BY <2>2, <2>5, <2>6 DEF Sa!Edit, Sa!Moves, Sa!Some, Items, NoItems, OrderStatus
  <2> QED
    BY <2>2, <2>7, SaleSteps, Zenon
<1> QED
  BY <1>4, <1>5, <1>6, <1>7, <1>8, <1>9, <1>10, <1>11 DEF Proceed

(***************************************************************************)
(* With one handler at a time, the orders and the books implement the      *)
(* plain sale: no interleaving of sales, edits, jumps of status,           *)
(* corrections, expiries and late payments with deliveries to the          *)
(* warehouse loses goods, takes them twice or leaves a pending order       *)
(* without them.                                                           *)
(***************************************************************************)
THEOREM OrdersAreASale ==
  ASSUME NEW h, Requests = {h}
  PROVE  Spec => SellsFromOneShelf
<1>1. Init => Sa!Init
  BY SaleInit
<1>2. SInv /\ SInv' /\ [Next]_vars => [Sa!Next]_(Sa!vars)
  <2> SUFFICES ASSUME SInv, SInv', [Next]_vars PROVE Sa!Next \/ UNCHANGED Sa!vars
    OBVIOUS
  <2>1. CASE Shop
    BY <2>1, SaleShop
  <2>2. CASE Arrive(h)
    <3>1. stock' = stock /\ orders' = orders /\ items' = items
      BY <2>2 DEF Arrive, StartCharge, News, Sweep, StartCancel, StartStatus, StartReinstate,
                  StartPayment, StartCorrect, StartItems
    <3> QED
      BY <3>1, SaleIdles
  <2>3. CASE Proceed(h)
    BY <2>3, SaleProceed
  <2>4. CASE UNCHANGED vars
    BY <2>4, SaleIdles DEF vars
  <2> QED
    BY <2>1, <2>2, <2>3, <2>4 DEF Next
<1>3. Spec => []SInv
  BY OrdersServeStock
<1> QED
  BY <1>1, <1>2, <1>3, PTL DEF Spec, SellsFromOneShelf, Sa!Spec
=============================================================================
