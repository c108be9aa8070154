------------------------------- MODULE Clients -------------------------------
(***************************************************************************)
(* The customers of the shop: the clients rows, the store's Clerk that     *)
(* says who exists, its events (late, lost, repeated, out of order), the   *)
(* recovery at the first authenticated request, and the gated customer     *)
(* provisioned for every invited member of staff.  A person stands for an  *)
(* email address; profile data is left out.                                *)
(***************************************************************************)
EXTENDS Naturals, FiniteSets

CONSTANTS
  People,      \* email addresses
  Accounts,    \* ids the store's Clerk may give
  PersonOf,    \* the address of each account
  Members,     \* people invited to the back office
  Null

VARIABLES
  clients,       \* the clients rows, one per address, deleted ones included
  clerk,         \* the accounts of the store's Clerk
  sent,          \* the events it has sent: each may arrive any number of times, or never
  provisioning,  \* accounts provisionPending created and has no row for yet
  member,        \* where each invited member stands in the back office
  invited,       \* addresses with a pending invitation to the shop
  mirrored,      \* history: accounts provisionPending created
  unlocked       \* history: people an administrator, or a failure, let in

vars == <<clients, clerk, sent, provisioning, member, invited, mirrored, unlocked>>

-----------------------------------------------------------------------------
(* Types *)

Client == [state : {"none", "live", "deleted"}, clerkId : Accounts \cup {Null},
           isActive : BOOLEAN, adminInvitePending : BOOLEAN]

NoClient == [state |-> "none", clerkId |-> Null, isActive |-> FALSE,
             adminInvitePending |-> FALSE]

Event == {"user.created", "user.updated", "user.deleted"} \X Accounts

TypeOK ==
  /\ clients \in [People -> Client]
  /\ clerk \in [Accounts -> {"none", "live", "gone"}]
  /\ sent \subseteq Event
  /\ provisioning \subseteq Accounts /\ mirrored \subseteq Accounts
  /\ member \in [Members -> {"none", "awaiting", "approved", "rejected"}]
  /\ invited \subseteq People /\ unlocked \subseteq People

Registered(p) == \E a \in Accounts : PersonOf[a] = p /\ clerk[a] = "live"

HasRow(a) == clients[PersonOf[a]].clerkId = a

-----------------------------------------------------------------------------
(* ClientsService *)

(* guardDuplicateEmail: the rows that are deleted count. *)
guardDuplicateEmail(p) == clients[p].state = "none"

(***************************************************************************)
(* A live row of the account is refreshed; without one a row is created,   *)
(* active, unless the address has a row already: then it is a conflict.    *)
(***************************************************************************)
createOrUpdateFromClerk(a) ==
  LET p == PersonOf[a] IN
    /\ ~ (HasRow(a) /\ clients[p].state = "live")
    /\ guardDuplicateEmail(p)
    /\ clients' = [clients EXCEPT ![p] =
         [state |-> "live", clerkId |-> a, isActive |-> TRUE, adminInvitePending |-> FALSE]]

(* create, from the panel, for an account that has no row. *)
Create(a) ==
  /\ clerk[a] = "live"
  /\ guardDuplicateEmail(PersonOf[a])
  /\ clients' = [clients EXCEPT ![PersonOf[a]] =
       [state |-> "live", clerkId |-> a, isActive |-> TRUE, adminInvitePending |-> FALSE]]
  /\ unlocked' = unlocked \cup {PersonOf[a]}
  /\ UNCHANGED <<clerk, sent, provisioning, member, invited, mirrored>>

Update(p, isActive) ==
  /\ clients[p].state = "live" /\ clients[p].isActive # isActive
  /\ clients' = [clients EXCEPT ![p].isActive = isActive]
  /\ unlocked' = IF isActive THEN unlocked \cup {p} ELSE unlocked
  /\ UNCHANGED <<clerk, sent, provisioning, member, invited, mirrored>>

Remove(p) ==
  /\ clients[p].state = "live"
  /\ clients' = [clients EXCEPT ![p].state = "deleted"]
  /\ UNCHANGED <<clerk, sent, provisioning, member, invited, mirrored, unlocked>>

-----------------------------------------------------------------------------
(* The events of the store's Clerk, each delivered as often as it pleases *)

UserCreatedOrUpdated(a) ==
  /\ {<<"user.created", a>>, <<"user.updated", a>>} \cap sent # {}
  /\ createOrUpdateFromClerk(a)
  /\ UNCHANGED <<clerk, sent, provisioning, member, invited, mirrored, unlocked>>

UserDeleted(a) ==
  /\ <<"user.deleted", a>> \in sent
  /\ HasRow(a) /\ clients[PersonOf[a]].state = "live"
  /\ clients' = [clients EXCEPT ![PersonOf[a]].state = "deleted"]
  /\ UNCHANGED <<clerk, sent, provisioning, member, invited, mirrored, unlocked>>

-----------------------------------------------------------------------------
(* Authentication *)

(* Mutant: only somebody whose event was sent is taken for a client. *)
recuperarDesdeClerk_Told(a) == <<"user.updated", a>> \in sent /\ createOrUpdateFromClerk(a)

(* The store's Clerk is asked whether the person is a client. *)
recuperarDesdeClerk(a) == clerk[a] = "live" /\ createOrUpdateFromClerk(a)

(* authenticateByBearerToken of somebody without a row, deleted or not. *)
Login(a) ==
  /\ clerk[a] = "live"
  /\ ~ HasRow(a)
  /\ recuperarDesdeClerk(a)
  /\ UNCHANGED <<clerk, sent, provisioning, member, invited, mirrored, unlocked>>

(* Whether a request with the account's token is let in. *)
LetIn(a) == HasRow(a) /\ clients[PersonOf[a]].state = "live" /\ clients[PersonOf[a]].isActive

-----------------------------------------------------------------------------
(* ClientInvitationsService: the truth is Clerk's *)

Invite(p) ==
  /\ clients[p].state # "live" /\ ~ Registered(p)
  /\ invited' = invited \cup {p}
  /\ UNCHANGED <<clients, clerk, sent, provisioning, member, mirrored, unlocked>>

Revocar(p) ==
  /\ p \in invited
  /\ invited' = invited \ {p}
  /\ UNCHANGED <<clients, clerk, sent, provisioning, member, mirrored, unlocked>>

-----------------------------------------------------------------------------
(* CustomerProvisioningService *)

(* provisionPending: a real customer of that address is left untouched ... *)
CreateUser(a) ==
  LET p == PersonOf[a] IN
    /\ p \in Members /\ member[p] = "awaiting"
    /\ clerk[a] = "none" /\ ~ Registered(p)
    /\ clerk' = [clerk EXCEPT ![a] = "live"]
    /\ sent' = sent \cup {<<"user.created", a>>}
    /\ provisioning' = provisioning \cup {a}
    /\ mirrored' = mirrored \cup {a}
    /\ UNCHANGED <<clients, member, invited, unlocked>>

(* Mutant: a row the webhook wrote meanwhile is taken for a real customer's. *)
SaveMirror_Untouched(a) ==
  /\ a \in provisioning
  /\ clients' = [clients EXCEPT ![PersonOf[a]] = IF HasRow(a) THEN @ ELSE
       [state |-> "live", clerkId |-> a, isActive |-> FALSE, adminInvitePending |-> TRUE]]
  /\ provisioning' = provisioning \ {a}
  /\ UNCHANGED <<clerk, sent, member, invited, mirrored, unlocked>>

(* ... and the row of the address, deleted or written meanwhile, is the gated *)
(* one.  A row inserted between the search and the save makes the save fail   *)
(* on the unique address: that is MirrorFails.                                *)
SaveMirror(a) ==
  /\ a \in provisioning
  /\ clients' = [clients EXCEPT ![PersonOf[a]] =
       [state |-> "live", clerkId |-> a, isActive |-> FALSE, adminInvitePending |-> TRUE]]
  /\ provisioning' = provisioning \ {a}
  /\ UNCHANGED <<clerk, sent, member, invited, mirrored, unlocked>>

(* The save fails: the account is there, and nobody gates it. *)
MirrorFails(a) ==
  /\ a \in provisioning
  /\ provisioning' = provisioning \ {a}
  /\ unlocked' = unlocked \cup {PersonOf[a]}
  /\ UNCHANGED <<clients, clerk, sent, member, invited, mirrored>>

(* The gated customer we provisioned for the address, if there is one. *)
findPendingByEmail(p) == clients[p].state = "live" /\ clients[p].adminInvitePending

(* The member is approved (UsersService.update): activateForEmail. *)
ActivateForEmail(p) ==
  /\ member[p] = "awaiting"
  /\ member' = [member EXCEPT ![p] = "approved"]
  /\ clients' = IF findPendingByEmail(p)
                THEN [clients EXCEPT ![p].isActive = TRUE, ![p].adminInvitePending = FALSE]
                ELSE clients
  /\ UNCHANGED <<clerk, sent, provisioning, invited, mirrored, unlocked>>

(* The member is turned down (UsersService.remove): Clerk may fail to delete. *)
RevokeForEmail(p, deleted) ==
  /\ member[p] = "awaiting"
  /\ member' = [member EXCEPT ![p] = "rejected"]
  /\ IF ~ findPendingByEmail(p) THEN UNCHANGED <<clients, clerk, sent>>
     ELSE LET a == clients[p].clerkId IN
          /\ clients' = [clients EXCEPT ![p].state = "deleted"]
          /\ IF deleted /\ clerk[a] = "live"
             THEN /\ clerk' = [clerk EXCEPT ![a] = "gone"]
                  /\ sent' = sent \cup {<<"user.deleted", a>>}
             ELSE UNCHANGED <<clerk, sent>>
  /\ UNCHANGED <<provisioning, invited, mirrored, unlocked>>

-----------------------------------------------------------------------------
(* People, at the store's Clerk (external) and invited to the back office *)

SignUp(a) ==
  /\ clerk[a] = "none" /\ ~ Registered(PersonOf[a])
  /\ clerk' = [clerk EXCEPT ![a] = "live"]
  /\ sent' = sent \cup {<<"user.created", a>>}
  /\ invited' = invited \ {PersonOf[a]}
  /\ UNCHANGED <<clients, provisioning, member, mirrored, unlocked>>

EditProfile(a) ==
  /\ clerk[a] = "live"
  /\ sent' = sent \cup {<<"user.updated", a>>}
  /\ UNCHANGED <<clients, clerk, provisioning, member, invited, mirrored, unlocked>>

DeleteAccount(a) ==
  /\ clerk[a] = "live"
  /\ clerk' = [clerk EXCEPT ![a] = "gone"]
  /\ sent' = sent \cup {<<"user.deleted", a>>}
  /\ UNCHANGED <<clients, provisioning, member, invited, mirrored, unlocked>>

Join(p) ==
  /\ member[p] \in {"none", "rejected"}
  /\ member' = [member EXCEPT ![p] = "awaiting"]
  /\ UNCHANGED <<clients, clerk, sent, provisioning, invited, mirrored, unlocked>>

-----------------------------------------------------------------------------
Init ==
  /\ clients = [p \in People |-> NoClient]
  /\ clerk = [a \in Accounts |-> "none"]
  /\ sent = {} /\ provisioning = {} /\ invited = {} /\ mirrored = {} /\ unlocked = {}
  /\ member = [p \in Members |-> "none"]

Next ==
  \/ \E a \in Accounts :
       \/ Create(a) \/ UserCreatedOrUpdated(a) \/ UserDeleted(a) \/ Login(a)
       \/ CreateUser(a) \/ SaveMirror(a) \/ MirrorFails(a)
       \/ SignUp(a) \/ EditProfile(a) \/ DeleteAccount(a)
  \/ \E p \in People :
       \/ Remove(p) \/ Invite(p) \/ Revocar(p)
       \/ \E isActive \in BOOLEAN : Update(p, isActive)
  \/ \E p \in Members :
       \/ Join(p) \/ ActivateForEmail(p)
       \/ \E deleted \in BOOLEAN : RevokeForEmail(p, deleted)

(* People with an account keep using the shop; nothing is assumed of the webhooks. *)
Fairness == \A a \in Accounts : WF_vars(Login(a))

Spec == Init /\ [][Next]_vars /\ Fairness

-----------------------------------------------------------------------------
(* Properties *)

(***************************************************************************)
(* A customer provisioned for a member of staff is not let into the shop   *)
(* before the member is approved, unless an administrator let the person   *)
(* in or the provisioning failed half-way: not through a webhook or a      *)
(* login that comes before, between or after its two writes.  In between   *)
(* the two the row of the webhook is open for a moment.                    *)
(***************************************************************************)
MirrorStaysGated ==
  \A a \in mirrored : LetIn(a) =>
    \/ a \in provisioning
    \/ member[PersonOf[a]] = "approved"
    \/ PersonOf[a] \in unlocked

(***************************************************************************)
(* Nobody stays out because a webhook was lost: an account of the store    *)
(* whose address has no row gets one, if only its person keeps coming.     *)
(***************************************************************************)
EventuallyRegistered ==
  \A a \in Accounts :
    clerk[a] = "live" ~> clients[PersonOf[a]].state # "none" \/ clerk[a] = "gone"
=============================================================================
