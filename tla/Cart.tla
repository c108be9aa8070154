-------------------------------- MODULE Cart ---------------------------------
(***************************************************************************)
(* The cart of one client and the orders made of it.  A line leaves the    *)
(* cart when checkout turns the cart into an order, comes back when the    *)
(* order is cancelled or expires, and leaves again when a late payment     *)
(* revives the order.                                                      *)
(*                                                                         *)
(* Every handler reads the rows it needs and writes later: addItem saves   *)
(* the sum it computed, devolverAlCarrito the maximum, quitarDelCarrito    *)
(* the difference.  A request is what a handler will write; it begins with *)
(* the reads and ends with one transaction.  save() updates a row by id    *)
(* and inserts it when the id is gone; the unique index on client and      *)
(* product refuses a second row, and the whole transaction with it.        *)
(***************************************************************************)
EXTENDS Naturals, FiniteSets, FiniteSetsExt

CONSTANTS
  Products,
  OrderIds,
  CartRequests,   \* request slots: the handlers that can be in progress
  MaxQuantity,    \* bound: units of a product the shop ever shows
  MaxRowIds       \* bound: cart row ids in use at one time

VARIABLES
  cart,      \* the cart_items rows of the client, by product
  bought,    \* the orders of the client: status and lines
  pending,   \* the handlers in progress
  asked,     \* per product, units the client put in the present line by hand
  source     \* per product, the orders whose units came back into the present line

vars == <<cart, bought, pending, asked, source>>

-----------------------------------------------------------------------------
(* Types *)

RowIds == 1 .. MaxRowIds

NoLine == [id |-> 0, quantity |-> 0]

CartItem == [id : RowIds, quantity : 1 .. MaxQuantity]

Lines == [Products -> 0 .. MaxQuantity]

NoLines == [p \in Products |-> 0]

(* An order returned to the cart was cancelled by the client or expired. *)
Purchase == [status : {"none", "pending", "cancelled", "expired"}, lines : Lines]

(* What a handler will write: rows to save, rows to remove, the cart to     *)
(* empty, the order to move; and what the client asked for by it.           *)
Write ==
  [op : {"add", "update", "remove", "checkout", "return", "revive"},
   save : [Products -> CartItem \cup {NoLine}], drop : [Products -> RowIds \cup {0}],
   order : OrderIds, to : {"none", "pending", "cancelled", "expired"}, lines : Lines,
   product : Products, quantity : 0 .. MaxQuantity]

Idle == [op |-> "idle"]

TypeOK ==
  /\ cart \in [Products -> CartItem \cup {NoLine}]
  /\ bought \in [OrderIds -> Purchase]
  /\ pending \in [CartRequests -> Write \cup {Idle}]
  /\ asked \in Lines
  /\ source \in [Products -> SUBSET OrderIds]

-----------------------------------------------------------------------------
(* Rows *)

NothingSaved == [p \in Products |-> NoLine]

NothingDropped == [p \in Products |-> 0]

(* A new id for a row of p: in no row and in the memory of no handler. *)
FreshId(p) ==
  Min(RowIds \ ({cart[p].id} \cup
                 {pending[r].save[p].id : r \in {s \in CartRequests : pending[s] # Idle}}))

(* The row of product p with another quantity, or a new one. *)
RowWith(p, quantity) ==
  IF cart[p] = NoLine THEN [id |-> FreshId(p), quantity |-> quantity]
  ELSE [cart[p] EXCEPT !.quantity = quantity]

(* The unique index lets save() through. *)
Saveable(w) ==
  \A p \in Products :
    w.save[p] # NoLine => cart[p] = NoLine \/ cart[p].id = w.save[p].id

Written(w) ==
  [p \in Products |->
     CASE w.op = "checkout" -> NoLine
       [] w.op # "checkout" /\ w.save[p] # NoLine -> w.save[p]
       [] w.op # "checkout" /\ w.save[p] = NoLine ->
            IF cart[p].id = w.drop[p] THEN NoLine ELSE cart[p]]

-----------------------------------------------------------------------------
(* What the handlers compute from the rows they read *)

(* Mutant: the quantities are added up. *)
devolverAlCarrito_Sums(lines) ==
  [p \in Products |->
     IF lines[p] > 0 THEN RowWith(p, cart[p].quantity + lines[p]) ELSE NoLine]

(* devolverAlCarrito: the larger quantity stays. *)
devolverAlCarrito(lines) ==
  [p \in Products |->
     IF lines[p] > cart[p].quantity THEN RowWith(p, lines[p]) ELSE NoLine]

(* quitarDelCarrito: the rest stays, a line without rest is removed. *)
quitarDelCarrito(lines) ==
  [save |-> [p \in Products |->
               IF lines[p] > 0 /\ cart[p].quantity > lines[p]
               THEN RowWith(p, cart[p].quantity - lines[p]) ELSE NoLine],
   drop |-> [p \in Products |->
               IF lines[p] > 0 /\ cart[p].quantity <= lines[p] THEN cart[p].id ELSE 0]]

(* getCart: the lines as checkout reads them. *)
getCart == [p \in Products |-> cart[p].quantity]

-----------------------------------------------------------------------------
(* Handlers: the reads *)

Plain(op, p, quantity, o) ==
  [op |-> op, save |-> NothingSaved, drop |-> NothingDropped, order |-> o, to |-> "none",
   lines |-> NoLines, product |-> p, quantity |-> quantity]

Begin(r, w) ==
  /\ pending' = [pending EXCEPT ![r] = w]
  /\ UNCHANGED <<cart, bought, asked, source>>

(* Any order: the field is not used by a write that touches none. *)
SomeOrder == CHOOSE o \in OrderIds : TRUE

SomeProduct == CHOOSE p \in Products : TRUE

(***************************************************************************)
(* addItem: the product is active, the stock it finds covers the new       *)
(* quantity (the stock is whatever it is, up to the bound).                *)
(***************************************************************************)
AddItem(r, p, quantity) ==
  /\ pending[r] = Idle
  /\ cart[p].quantity + quantity <= MaxQuantity
  /\ Begin(r, [Plain("add", p, quantity, SomeOrder) EXCEPT
                 !.save[p] = RowWith(p, cart[p].quantity + quantity)])

(* updateItem: the line must exist; its quantity is set. *)
UpdateItem(r, p, quantity) ==
  /\ pending[r] = Idle
  /\ cart[p] # NoLine
  /\ Begin(r, [Plain("update", p, quantity, SomeOrder) EXCEPT
                 !.save[p] = RowWith(p, quantity)])

(* removeItem: the line must exist; it is removed by id. *)
RemoveItem(r, p) ==
  /\ pending[r] = Idle
  /\ cart[p] # NoLine
  /\ Begin(r, [Plain("remove", p, 0, SomeOrder) EXCEPT !.drop[p] = cart[p].id])

(* clear: one statement. *)
Clear(r) ==
  /\ pending[r] = Idle
  /\ cart' = NothingSaved
  /\ asked' = NoLines
  /\ source' = [p \in Products |-> {}]
  /\ UNCHANGED <<bought, pending>>

(* checkout: reads the cart, which must not be empty; the order it will     *)
(* create has these lines.                                                  *)
Checkout(r, o) ==
  /\ pending[r] = Idle
  /\ bought[o].status = "none"
  /\ \A s \in CartRequests : pending[s] # Idle => pending[s].order # o \/ pending[s].op # "checkout"
  /\ getCart # NoLines
  /\ Begin(r, [Plain("checkout", SomeProduct, 0, o) EXCEPT !.to = "pending", !.lines = getCart])

(* cancelByClient and the expiry sweep: a pending order, its lines back. *)
Return(r, o, status) ==
  /\ pending[r] = Idle
  /\ bought[o].status = "pending"
  /\ Begin(r, [Plain("return", SomeProduct, 0, o) EXCEPT
                 !.to = status, !.lines = bought[o].lines,
                 !.save = devolverAlCarrito(bought[o].lines)])

(* reinstateIfExpired: paid after it expired, and the stock is there. *)
Revive(r, o) ==
  /\ pending[r] = Idle
  /\ bought[o].status = "expired"
  /\ LET out == quitarDelCarrito(bought[o].lines)
     IN  Begin(r, [Plain("revive", SomeProduct, 0, o) EXCEPT
                     !.to = "pending", !.lines = bought[o].lines,
                     !.save = out.save, !.drop = out.drop])

-----------------------------------------------------------------------------
(* Handlers: the transaction *)

(* What the client put in by hand, after a write. *)
AskedAfter(w) ==
  CASE w.op = "add" -> [asked EXCEPT ![w.product] = Min({MaxQuantity, @ + w.quantity})]
    [] w.op \in {"update", "remove"} -> [asked EXCEPT ![w.product] = w.quantity]
    [] w.op = "checkout" -> NoLines
    [] OTHER -> asked

(* The orders whose units are in each line, after a write. *)
SourceAfter(w) ==
  CASE w.op = "checkout" -> [p \in Products |-> {}]
    [] w.op \in {"update", "remove"} -> [source EXCEPT ![w.product] = {}]
    [] w.op = "return" ->
         [p \in Products |-> IF w.lines[p] > 0 THEN source[p] \cup {w.order} ELSE source[p]]
    [] w.op = "revive" -> [p \in Products |-> source[p] \ {w.order}]
    [] w.op = "add" -> source

Commit(r) ==
  /\ pending[r] # Idle
  /\ Saveable(pending[r])
  /\ cart' = Written(pending[r])
  /\ bought' = IF pending[r].op \in {"checkout", "return", "revive"}
               THEN [bought EXCEPT ![pending[r].order] =
                       [status |-> pending[r].to, lines |-> pending[r].lines]]
               ELSE bought
  /\ asked' = AskedAfter(pending[r])
  /\ source' = SourceAfter(pending[r])
  /\ pending' = [pending EXCEPT ![r] = Idle]

(* The index refuses a row, or the stock is gone under the lock of reserve: *)
(* the transaction rolls back and the cart stays as it was.                 *)
Abort(r) ==
  /\ pending[r] # Idle
  /\ \/ ~ Saveable(pending[r])
     \/ pending[r].op \in {"checkout", "revive"}
  /\ pending' = [pending EXCEPT ![r] = Idle]
  /\ UNCHANGED <<cart, bought, asked, source>>

-----------------------------------------------------------------------------
Init ==
  /\ cart = NothingSaved
  /\ bought = [o \in OrderIds |-> [status |-> "none", lines |-> NoLines]]
  /\ pending = [r \in CartRequests |-> Idle]
  /\ asked = NoLines
  /\ source = [p \in Products |-> {}]

Next ==
  \E r \in CartRequests :
       \/ Clear(r)
       \/ \E p \in Products, quantity \in 1 .. MaxQuantity :
            AddItem(r, p, quantity) \/ UpdateItem(r, p, quantity)
       \/ \E p \in Products : RemoveItem(r, p)
       \/ \E o \in OrderIds :
            \/ Checkout(r, o)
            \/ Revive(r, o)
            \/ \E status \in {"cancelled", "expired"} : Return(r, o, status)
       \/ Commit(r)
       \/ Abort(r)

Spec == Init /\ [][Next]_vars

-----------------------------------------------------------------------------
(* Properties *)

(***************************************************************************)
(* A line never holds more than the client asked for: what was put in by   *)
(* hand plus the largest of the orders that came back into it.  However    *)
(* often orders expire, are cancelled, revived and ordered again, nothing  *)
(* is added up twice and nothing already ordered lingers                   *)
(* (devolver-al-carrito.ts keeps the larger quantity, not the sum).        *)
(***************************************************************************)
NoExcess ==
  \A p \in Products :
    cart[p].quantity <= asked[p] + Max({bought[o].lines[p] : o \in source[p]} \cup {0})
=============================================================================
