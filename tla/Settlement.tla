----------------------------- MODULE Settlement ------------------------------
(***************************************************************************)
(* Inside one stock transaction.  confirmReservations and                  *)
(* releaseReservations at the grain of their SQL statements, under         *)
(* PostgreSQL READ COMMITTED: the reservations of the order are read       *)
(* without a lock, then each inventory row is read FOR UPDATE, changed and *)
(* saved; row locks are kept, and nobody else sees a write, until commit.  *)
(* A reservation is marked by its id while the lock of its inventory row   *)
(* is held, so its own row lock never waits.                               *)
(*                                                                         *)
(* The other modules treat a stock call as one atomic step on the books.   *)
(* Here that is checked: see AtomicTransactions.                           *)
(***************************************************************************)
EXTENDS Stock

CONSTANTS
  Txs,         \* concurrent transactions
  NoTx,        \* "nobody", as the owner of a lock
  StartBooks,  \* the books the transactions start from
  Jobs         \* which jobs the transactions may be given

Effects == {"confirm", "cancel", "expire"}

(***************************************************************************)
(* byUser: the call names the user who answers for a restock.  Staff       *)
(* confirm; staff and customers cancel; the sweep expires.                 *)
(***************************************************************************)
Job ==
  {j \in [order : OrderIds, effect : Effects, byUser : BOOLEAN] :
     /\ j.effect = "confirm" => j.byUser
     /\ j.effect = "expire" => ~ j.byUser}

ASSUME JobsAssumption == Jobs \subseteq [Txs -> Job] /\ NoTx \notin Txs

VARIABLES
  stock,   \* the committed books
  job,     \* what each transaction is to do
  tx,      \* the transactions
  lock     \* the owner of each inventory row

vars == <<stock, job, tx, lock>>

Stage ==
  {"ledger", "find", "settle", "findTaken", "restock", "commit", "done", "aborted"}

(***************************************************************************)
(* todo    the reservation rows still to be worked off, in query order     *)
(* moves   the rows the movement ledger will record                        *)
(* settled, returned   the rows this transaction has marked                *)
(* quantity, reserved  its own values of the inventory rows it has locked  *)
(***************************************************************************)
Tx ==
  [stage : Stage, todo : Seq(Nat), moves : SUBSET Nat,
   settled : SUBSET Nat, returned : SUBSET Nat,
   quantity : [Cells -> Int], reserved : [Cells -> Int]]

TypeOK ==
  /\ stock \in Books
  /\ job \in Jobs
  /\ tx \in [Txs -> Tx]
  /\ lock \in [Cells -> Txs \cup {NoTx}]

Zero == [c \in Cells |-> 0]

Fresh(effect) ==
  [stage |-> IF effect = "confirm" THEN "ledger" ELSE "find",
   todo |-> <<>>, moves |-> {}, settled |-> {}, returned |-> {},
   quantity |-> Zero, reserved |-> Zero]

Init ==
  /\ stock = StartBooks
  /\ job \in Jobs
  /\ tx = [t \in Txs |-> Fresh(job[t].effect)]
  /\ lock = [c \in Cells |-> NoTx]

FinalStatus(effect) ==
  CASE effect = "confirm" -> "confirmed"
    [] effect = "cancel"  -> "cancelled"
    [] effect = "expire"  -> "expired"

(* The value of an inventory row for t, which owns its lock. *)
QuantityFor(t, c) == IF lock[c] = t THEN tx[t].quantity[c] ELSE stock.quantity[c]

ReservedFor(t, c) == IF lock[c] = t THEN tx[t].reserved[c] ELSE stock.reserved[c]

NextCell(t) == stock.rsv[Head(tx[t].todo)].cell

Goto(t, stage) == tx' = [tx EXCEPT ![t].stage = stage]

-----------------------------------------------------------------------------

(* Mutant: what will be recorded is read too late, when nothing is held. *)
FindMoves_TooLate(t) ==
  /\ tx[t].stage = "ledger"
  /\ Goto(t, "find")
  /\ UNCHANGED <<stock, job, lock>>

(* confirmReservations reads what it will record before it settles. *)
FindMoves(t) ==
  /\ tx[t].stage = "ledger"
  /\ tx' = [tx EXCEPT ![t].moves = RowsOf(stock, job[t].order, "reserved"),
                      ![t].stage = "find"]
  /\ UNCHANGED <<stock, job, lock>>

(* settleReservations: find the reserved rows, no lock, no ORDER BY. *)
FindReserved(t) ==
  /\ tx[t].stage = "find"
  /\ \E q \in Listings(RowsOf(stock, job[t].order, "reserved")) :
       tx' = [tx EXCEPT ![t].todo = q, ![t].stage = "settle"]
  /\ UNCHANGED <<stock, job, lock>>

(* Mutant: the inventory row is read without its lock. *)
MayTake_NoLock(t, c) == TRUE

(* FOR UPDATE waits for whoever owns the row. *)
MayTake(t, c) == lock[c] \in {t, NoTx}

(* findOne FOR UPDATE, apply, save, mark the reservation. *)
SettleRow(t) ==
  LET i == Head(tx[t].todo)
      c == NextCell(t)
      n == stock.rsv[i].quantity
      sold == IF job[t].effect = "confirm" THEN n ELSE 0
  IN  /\ tx[t].stage = "settle" /\ tx[t].todo # <<>>
      /\ MayTake(t, c)
      /\ lock' = [lock EXCEPT ![c] = t]
      /\ tx' = [tx EXCEPT ![t].quantity[c] = QuantityFor(t, c) - sold,
                          ![t].reserved[c] = ReservedFor(t, c) - n,
                          ![t].settled = @ \cup {i},
                          ![t].todo = Tail(@)]
      /\ UNCHANGED <<stock, job>>

Settled(t) ==
  /\ tx[t].stage = "settle" /\ tx[t].todo = <<>>
  /\ Goto(t, IF job[t].effect = "confirm" THEN "commit" ELSE "findTaken")
  /\ UNCHANGED <<stock, job, lock>>

(* releaseReservations: what was already confirmed goes back as well. *)
FindTaken(t) ==
  LET taken == RowsOf(stock, job[t].order, "confirmed") \ tx[t].settled
  IN  /\ tx[t].stage = "findTaken"
      /\ \E q \in Listings(taken) :
           tx' = [tx EXCEPT ![t].todo = q, ![t].moves = taken, ![t].stage = "restock"]
      /\ UNCHANGED <<stock, job, lock>>

RestockRow(t) ==
  LET i == Head(tx[t].todo)
      c == NextCell(t)
  IN  /\ tx[t].stage = "restock" /\ tx[t].todo # <<>>
      /\ MayTake(t, c)
      /\ lock' = [lock EXCEPT ![c] = t]
      /\ tx' = [tx EXCEPT ![t].quantity[c] = QuantityFor(t, c) + stock.rsv[i].quantity,
                          ![t].reserved[c] = ReservedFor(t, c),
                          ![t].returned = @ \cup {i},
                          ![t].todo = Tail(@)]
      /\ UNCHANGED <<stock, job>>

(* Mutant: the connection of the transaction is never given back. *)
Unlocked_Keeps(t) == lock

Unlocked(t) == [c \in Cells |-> IF lock[c] = t THEN NoTx ELSE lock[c]]

Abort(t) ==
  /\ Goto(t, "aborted")
  /\ lock' = Unlocked(t)
  /\ UNCHANGED <<stock, job>>

(* A restock without a user throws; otherwise the movements are recorded. *)
Restocked(t) ==
  /\ tx[t].stage = "restock" /\ tx[t].todo = <<>>
  /\ IF tx[t].moves # {} /\ ~ job[t].byUser
     THEN Abort(t)
     ELSE Goto(t, "commit") /\ UNCHANGED <<stock, job, lock>>

Commit(t) ==
  LET mine   == {c \in Cells : lock[c] = t}
      marked == tx[t].settled \cup tx[t].returned
      moved  == PerCell(stock, Qty(stock), tx[t].moves)
  IN  /\ tx[t].stage = "commit"
      /\ stock' =
           [quantity |-> [c \in Cells |-> IF c \in mine THEN tx[t].quantity[c]
                                                        ELSE stock.quantity[c]],
            reserved |-> [c \in Cells |-> IF c \in mine THEN tx[t].reserved[c]
                                                        ELSE stock.reserved[c]],
            rsv      |-> WithStatus(stock.rsv, marked, FinalStatus(job[t].effect)),
            ledger   |-> IF job[t].effect = "confirm"
                         THEN Minus(stock.ledger, moved) ELSE Plus(stock.ledger, moved)]
      /\ lock' = Unlocked(t)
      /\ Goto(t, "done")
      /\ UNCHANGED job

(* t waits for a row that u owns. *)
Waits(t, u) ==
  /\ t # u
  /\ tx[t].stage \in {"settle", "restock"} /\ tx[t].todo # <<>>
  /\ lock[NextCell(t)] = u

(* t is on a cycle of transactions that wait for each other. *)
Deadlocked(t) ==
  \E S \in SUBSET Txs :
    /\ t \in S
    /\ \A u \in S : \E v, w \in S : Waits(u, v) /\ Waits(w, u)

(* PostgreSQL breaks a deadlock by aborting one of the transactions. *)
DeadlockAbort(t) == Deadlocked(t) /\ Abort(t)

Step(t) ==
  \/ FindMoves(t) \/ FindReserved(t) \/ SettleRow(t) \/ Settled(t)
  \/ FindTaken(t) \/ RestockRow(t) \/ Restocked(t) \/ Commit(t)
  \/ DeadlockAbort(t)

Next == \E t \in Txs : Step(t)

(* The database and the event loop serve every transaction that can run. *)
Spec == Init /\ [][Next]_vars /\ \A t \in Txs : WF_vars(Step(t))

-----------------------------------------------------------------------------
(* Properties *)

(***************************************************************************)
(* Stock is settled exactly once: after every commit the counters of the   *)
(* inventory rows are what the reservation rows still hold, and never      *)
(* negative.                                                               *)
(***************************************************************************)
SettledOnce == HoldsMatch(stock) /\ NeverOversold(stock)

Calls == INSTANCE Inventory
  WITH pickup <- [o \in OrderIds |-> NoLocation], Counters <- {},
       Marks <- {"cancelled", "expired"}, MaxUnits <- 0, MaxRows <- Len(StartBooks.rsv)

(***************************************************************************)
(* The statement-level transactions implement the atomic calls of module   *)
(* Inventory: every commit changes the books as one call of                *)
(* confirmReservations or releaseReservations on the books it finds, even  *)
(* if another transaction committed after its first read.                  *)
(***************************************************************************)
AtomicTransactions == [][Calls!ByOrders]_stock

(***************************************************************************)
(* Nobody waits for ever: whatever order the rows come in, every           *)
(* transaction commits or is rolled back.                                  *)
(***************************************************************************)
EveryoneEnds == \A t \in Txs : <>(tx[t].stage \in {"done", "aborted"})
=============================================================================
