------------------------------ MODULE Addresses ------------------------------
(***************************************************************************)
(* The address book of one client.  ClientAddressesService issues its      *)
(* statements one by one, outside any transaction, so a handler is a       *)
(* request that goes from statement to statement and others run between.   *)
(* What an address says is left out; what matters is which one is default. *)
(***************************************************************************)
EXTENDS Naturals, FiniteSets, FiniteSetsExt

CONSTANTS
  BookRequests,     \* request slots: the handlers that can be in progress
  MAX_ADDRESSES_PER_CLIENT,
  MaxCreated        \* bound: addresses the client ever creates

VARIABLES
  book,      \* the client_addresses rows, in the order of their creation
  at         \* the handlers in progress: the next statement and what it carries

vars == <<book, at>>

-----------------------------------------------------------------------------
(* Types: ids are given in the order of createdAt *)

Ids == 1 .. MaxCreated

ClientAddress == [state : {"none", "live", "deleted"}, isDefault : BOOLEAN]

Done == [step |-> "idle", id |-> 0, isDefault |-> FALSE]

Handler ==
  [step : {"idle", "clear", "insert", "save", "softDelete", "survivor", "promote"},
   id : Ids \cup {0}, isDefault : BOOLEAN]

TypeOK == book \in [Ids -> ClientAddress] /\ at \in [BookRequests -> Handler]

Live == {i \in Ids : book[i].state = "live"}

Unused == {i \in Ids : book[i].state = "none"}

Defaults == {i \in Live : book[i].isDefault}

Go(r, step, id, isDefault) ==
  at' = [at EXCEPT ![r] = [step |-> step, id |-> id, isDefault |-> isDefault]]

-----------------------------------------------------------------------------
(* The reads *)

(* Mutant: the first address is the default only when asked for. *)
FirstIsDefault_OnRequest(wanted) == wanted

(* The first address is the default one whether or not it was asked for. *)
FirstIsDefault(wanted) == Live = {} \/ wanted

(* create: counts the addresses; a default one clears the others first. *)
Create(r, wanted) ==
  /\ at[r] = Done
  /\ Unused # {}
  /\ Cardinality(Live) < MAX_ADDRESSES_PER_CLIENT
  /\ IF FirstIsDefault(wanted) /\ Live # {} THEN Go(r, "clear", 0, TRUE)
     ELSE Go(r, "insert", 0, FirstIsDefault(wanted))
  /\ UNCHANGED book

(* update: reads the row, and will save what it read of isDefault. *)
Update(r, i) ==
  /\ at[r] = Done
  /\ i \in Live
  /\ Go(r, "save", i, book[i].isDefault)
  /\ UNCHANGED book

(* setDefault: nothing to do when it is the default already. *)
SetDefault(r, i) ==
  /\ at[r] = Done
  /\ i \in Live /\ ~ book[i].isDefault
  /\ Go(r, "clear", i, TRUE)
  /\ UNCHANGED book

(* remove: reads the row. *)
Remove(r, i) ==
  /\ at[r] = Done
  /\ i \in Live
  /\ Go(r, "softDelete", i, book[i].isDefault)
  /\ UNCHANGED book

-----------------------------------------------------------------------------
(* The statements that write *)

(* clearDefault: every row of the client, the deleted ones too. *)
ClearDefault(r) ==
  /\ at[r].step = "clear"
  /\ book' = [i \in Ids |-> [book[i] EXCEPT !.isDefault = FALSE]]
  /\ Go(r, IF at[r].id = 0 THEN "insert" ELSE "save", at[r].id, TRUE)

Insert(r) ==
  /\ at[r].step = "insert"
  /\ Unused # {}
  /\ book' = [book EXCEPT ![Min(Unused)] = [state |-> "live", isDefault |-> at[r].isDefault]]
  /\ Go(r, "idle", 0, FALSE)

(* save updates the row by id, deleted or not. *)
Save(r) ==
  /\ at[r].step = "save"
  /\ book' = [book EXCEPT ![at[r].id].isDefault = at[r].isDefault]
  /\ Go(r, "idle", 0, FALSE)

(* softDelete keeps the columns; without the default there is no more to do. *)
SoftDelete(r) ==
  /\ at[r].step = "softDelete"
  /\ book' = [book EXCEPT ![at[r].id].state = "deleted"]
  /\ IF at[r].isDefault THEN Go(r, "survivor", 0, FALSE) ELSE Go(r, "idle", 0, FALSE)

(* The newest survivor takes over, if there is one. *)
FindSurvivor(r) ==
  /\ at[r].step = "survivor"
  /\ IF Live = {} THEN Go(r, "idle", 0, FALSE) ELSE Go(r, "promote", Max(Live), TRUE)
  /\ UNCHANGED book

Promote(r) ==
  /\ at[r].step = "promote"
  /\ book' = [book EXCEPT ![at[r].id].isDefault = TRUE]
  /\ Go(r, "idle", 0, FALSE)

-----------------------------------------------------------------------------
Init ==
  /\ book = [i \in Ids |-> [state |-> "none", isDefault |-> FALSE]]
  /\ at = [r \in BookRequests |-> Done]

Next ==
  \E r \in BookRequests :
    \/ \E wanted \in BOOLEAN : Create(r, wanted)
    \/ \E i \in Ids : Update(r, i) \/ SetDefault(r, i) \/ Remove(r, i)
    \/ ClearDefault(r) \/ Insert(r) \/ Save(r)
    \/ SoftDelete(r) \/ FindSurvivor(r) \/ Promote(r)

Spec == Init /\ [][Next]_vars

-----------------------------------------------------------------------------
(* Properties *)

Quiet == \A r \in BookRequests : at[r] = Done

(***************************************************************************)
(* Once the handlers are done, a client with addresses has exactly one     *)
(* default among them: create, setDefault and remove with its survivor     *)
(* keep it so together, whatever was removed and created before.           *)
(***************************************************************************)
OneDefault == Quiet /\ Live # {} => Cardinality(Defaults) = 1
=============================================================================
