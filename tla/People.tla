------------------------------- MODULE People --------------------------------
(***************************************************************************)
(* The people of the system: who may reach what in the back office, how    *)
(* its members and the shop's customers follow the two Clerk instances,    *)
(* and the customers' address books.  Each part is an instance of its own  *)
(* module; they share nothing, so a step of the whole is a step of one.    *)
(***************************************************************************)
EXTENDS Integers, Sequences, FiniteSets

CONSTANTS
  Members, Assigned, TierOf, BaseKeys, CustomRoles, Edits, Requests,   \* Access
  Staffers, Root, RootAccount, AdminAccounts, StafferOf, MaxInvitations,  \* Staff
  Customers, StoreAccounts, CustomerOf, Invitees,                      \* Clients
  BookRequests, MAX_ADDRESSES_PER_CLIENT, MaxCreated,                  \* Addresses
  Null

(* The managed roles: nobody's key is a stage of the start-up. *)
ASSUME AccessAssumption ==
  /\ Assigned \subseteq Members
  /\ BaseKeys \subseteq {"GROCER", "KARDIST", "WEB_MANAGER"}

(* The enum of the users table. *)
ASSUME TiersAssumption == TierOf \in [Members -> {"SUPER_ADMIN", "ADMIN", "STAFF"}]

(* The installation is seeded with one of finitely many members, and an     *)
(* account has one address.                                                 *)
ASSUME StaffAssumption ==
  /\ IsFiniteSet(Staffers) /\ Root \in Staffers
  /\ RootAccount \in AdminAccounts
  /\ StafferOf \in [AdminAccounts -> Staffers]
  /\ MaxInvitations \in Nat

ASSUME ClientsAssumption ==
  /\ CustomerOf \in [StoreAccounts -> Customers]
  /\ Invitees \subseteq Customers
  /\ Null \notin StoreAccounts

ASSUME AddressesAssumption ==
  MAX_ADDRESSES_PER_CLIENT \in Nat /\ MaxCreated \in Nat

VARIABLES
  permissions, roles, grants, userRoles, process, edit,
  users, invitations, adminClerk, adminSent, accepting, request, opened, chosen, abandoned,
  clients, storeClerk, storeSent, provisioning, member, invited, mirrored, unlocked,
  book, at

-----------------------------------------------------------------------------
Ac == INSTANCE Access

St == INSTANCE Staff WITH
  People <- Staffers, Accounts <- AdminAccounts, PersonOf <- StafferOf,
  clerk <- adminClerk, sent <- adminSent

Cl == INSTANCE Clients WITH
  People <- Customers, Accounts <- StoreAccounts, PersonOf <- CustomerOf, Members <- Invitees,
  clerk <- storeClerk, sent <- storeSent

Ad == INSTANCE Addresses

-----------------------------------------------------------------------------
accessVars == <<permissions, roles, grants, userRoles, process, edit>>
staffVars == <<users, invitations, adminClerk, adminSent, accepting, request, opened,
               chosen, abandoned>>
clientVars == <<clients, storeClerk, storeSent, provisioning, member, invited, mirrored,
                unlocked>>
addressVars == <<book, at>>

vars == <<accessVars, staffVars, clientVars, addressVars>>

Init == Ac!Init /\ St!Init /\ Cl!Init /\ Ad!Init

AccessStep == Ac!Next /\ UNCHANGED <<staffVars, clientVars, addressVars>>
StaffStep == St!Next /\ UNCHANGED <<accessVars, clientVars, addressVars>>
ClientStep == Cl!Next /\ UNCHANGED <<accessVars, staffVars, addressVars>>
AddressStep == Ad!Next /\ UNCHANGED <<accessVars, staffVars, clientVars>>

Next == AccessStep \/ StaffStep \/ ClientStep \/ AddressStep

Spec == Init /\ [][Next]_vars

-----------------------------------------------------------------------------
(* What each component promises, stated and explained in its module. *)

(* The type invariants of the components. *)
TypesOK == Ac!TypeOK /\ St!TypeOK /\ Cl!TypeOK /\ Ad!TypeOK

(* Access: what an administrator grants can be worked with. *)
ReadsComeAlong == Ac!ReadsComeAlong

(* Staff: nobody is in whom no administrator let in. *)
ChosenByAnAdmin == St!ChosenByAnAdmin

(* Staff: the installation keeps a super admin. *)
SuperAdminRemains == St!SuperAdminRemains

(* Clients: a member's customer waits for the member's approval. *)
MirrorStaysGated == Cl!MirrorStaysGated

(* Clients: a lost webhook does not keep anybody out. *)
EventuallyRegistered == Cl!EventuallyRegistered

(* Addresses: exactly one default. *)
OneDefault == Ad!OneDefault
=============================================================================
