-------------------------------- MODULE Staff --------------------------------
(***************************************************************************)
(* The members of the back office: their rows, their invitations and what  *)
(* Clerk tells about their accounts.  Clerk's events may be delivered late,*)
(* out of order and more than once.  A person stands for an email address; *)
(* names, passwords and managed roles (module Access) are left out.  An    *)
(* update reads the row, counts the super admins and saves what it read; a *)
(* removal writes three times, an invitation asks Clerk before it saves.   *)
(* The webhooks run between the statements.                                *)
(***************************************************************************)
EXTENDS Naturals, FiniteSets, FiniteSetsExt

CONSTANTS
  People,           \* email addresses
  Root, RootAccount,  \* the super admin the installation is seeded with
  Accounts,         \* ids Clerk may give
  PersonOf,         \* the address of each account
  MaxInvitations,   \* bound: invitations ever created
  Null

VARIABLES
  users,         \* the users rows
  invitations,   \* the invitations rows
  clerk,         \* Clerk's accounts
  sent,          \* the events Clerk has sent: each may arrive again at any time
  accepting,     \* webhooks between their upsert and markAccepted
  request,       \* the update or removal in progress
  opened,        \* history: people an administrator opened the door to
  chosen,        \* history: the admin tiers an administrator chose, for whom
  abandoned      \* history: an event of Clerk took an active super admin away

vars == <<users, invitations, clerk, sent, accepting, request, opened, chosen, abandoned>>

-----------------------------------------------------------------------------
(* Types *)

Role == {"SUPER_ADMIN", "ADMIN", "STAFF"}

User == [state : {"none", "live", "deleted"}, clerkId : Accounts \cup {Null}, role : Role,
         isActive : BOOLEAN, approved : BOOLEAN]

NoUser == [state |-> "none", clerkId |-> Null, role |-> "STAFF",
           isActive |-> FALSE, approved |-> FALSE]

(* sending: Clerk has been asked, and there is no row yet. *)
Invitation == [email : People, role : Role,
               status : {"none", "sending", "pending", "accepted", "revoked"}]

Ids == 1 .. MaxInvitations

Event == {"user.created", "user.updated", "user.deleted"} \X Accounts

NoRequest == [step |-> "idle", who |-> Null, row |-> NoUser]

TypeOK ==
  /\ users \in [People -> User]
  /\ invitations \in [Ids -> Invitation]
  /\ clerk \in [Accounts -> {"none", "live", "gone"}]
  /\ sent \subseteq Event
  /\ accepting \subseteq Ids
  /\ request.step \in {"idle", "save", "remove", "delete", "revoke"} /\ request.row \in User
  /\ opened \subseteq People
  /\ chosen \subseteq People \X Role
  /\ abandoned \in BOOLEAN

Live == {p \in People : users[p].state = "live"}

ActiveSuperAdmins == {p \in Live : users[p].role = "SUPER_ADMIN" /\ users[p].isActive}

(* UsersController: administrators only, and AuthGuard: active ones. *)
Actors == {p \in Live : users[p].isActive /\ users[p].role # "STAFF"}

PendingOf(p) == {i \in Ids : invitations[i].email = p /\ invitations[i].status = "pending"}

Registered(p) == \E a \in Accounts : PersonOf[a] = p /\ clerk[a] = "live"

Open(p, on) == opened' = IF on THEN opened \cup {p} ELSE opened \ {p}

Chose(p, role) == IF role = "STAFF" THEN chosen ELSE chosen \cup {<<p, role>>}

-----------------------------------------------------------------------------
(* UsersService, on behalf of an administrator *)

(* Only a super admin hands out the role of super admin ... *)
assertPuedeAsignarRol(actor, role) ==
  role = "SUPER_ADMIN" => users[actor].role = "SUPER_ADMIN"

(* ... or touches the account of one. *)
assertPuedeGestionar(actor, p) ==
  users[p].role = "SUPER_ADMIN" => users[actor].role = "SUPER_ADMIN"

assertNotLastSuperAdmin == Cardinality(ActiveSuperAdmins) > 1

(* create: neither the address nor the account may have a row, deleted ones included. *)
Create(actor, p, role, isActive) ==
  /\ actor \in Actors
  /\ assertPuedeAsignarRol(actor, role)
  /\ users[p].state = "none"
  /\ users' = [users EXCEPT ![p] = [NoUser EXCEPT !.state = "live", !.role = role,
                                                  !.isActive = isActive]]
  /\ Open(p, isActive)
  /\ chosen' = Chose(p, role)
  /\ UNCHANGED <<invitations, clerk, sent, accepting, request, abandoned>>

(* update: reads, checks, counts; the row with the changes is saved later. *)
Update(actor, p, role, isActive) ==
  /\ request = NoRequest
  /\ actor \in Actors /\ p \in Live
  /\ assertPuedeGestionar(actor, p) /\ assertPuedeAsignarRol(actor, role)
  /\ actor = p => role = users[p].role /\ isActive
  /\ users[p].role = "SUPER_ADMIN" /\ (role # "SUPER_ADMIN" \/ ~ isActive)
       => assertNotLastSuperAdmin
  /\ request' = [step |-> "save", who |-> p,
                 row |-> [users[p] EXCEPT !.role = role, !.isActive = isActive,
                                          !.approved = @ \/ isActive]]
  /\ chosen' = Chose(p, role)
  /\ UNCHANGED <<users, invitations, clerk, sent, accepting, opened, abandoned>>

(* save writes every column back as it was read, with the changes. *)
SaveUpdate ==
  /\ request.step = "save"
  /\ users' = [users EXCEPT ![request.who] = request.row]
  /\ Open(request.who, request.row.isActive)
  /\ request' = NoRequest
  /\ UNCHANGED <<invitations, clerk, sent, accepting, chosen, abandoned>>

(* remove: the checks ... *)
Remove(actor, p) ==
  /\ request = NoRequest
  /\ actor \in Actors /\ p \in Live /\ actor # p
  /\ assertPuedeGestionar(actor, p)
  /\ users[p].role = "SUPER_ADMIN" => assertNotLastSuperAdmin
  /\ request' = [NoRequest EXCEPT !.step = "remove", !.who = p]
  /\ UNCHANGED <<users, invitations, clerk, sent, accepting, opened, chosen, abandoned>>

(* ... then the row is shut ... *)
Deactivate ==
  /\ request.step = "remove"
  /\ users' = [users EXCEPT ![request.who].isActive = FALSE]
  /\ Open(request.who, FALSE)
  /\ request' = [request EXCEPT !.step = "delete"]
  /\ UNCHANGED <<invitations, clerk, sent, accepting, chosen, abandoned>>

(* ... and deleted ... *)
SoftDelete ==
  /\ request.step = "delete"
  /\ users' = [users EXCEPT ![request.who].state = "deleted"]
  /\ request' = [request EXCEPT !.step = "revoke"]
  /\ UNCHANGED <<invitations, clerk, sent, accepting, opened, chosen, abandoned>>

(* ... and the invitations still pending for the address are withdrawn. *)
revokePendingForEmail ==
  /\ request.step = "revoke"
  /\ invitations' = [i \in Ids |-> IF i \in PendingOf(request.who)
                        THEN [invitations[i] EXCEPT !.status = "revoked"]
                        ELSE invitations[i]]
  /\ request' = NoRequest
  /\ UNCHANGED <<users, clerk, sent, accepting, opened, chosen, abandoned>>

(* The service restarts between two statements of an update or a removal. *)
RequestDies ==
  /\ request # NoRequest
  /\ request' = NoRequest
  /\ UNCHANGED <<users, invitations, clerk, sent, accepting, opened, chosen, abandoned>>

(* restore: a super admin's; the account comes back open. *)
Restore(actor, p) ==
  /\ request = NoRequest
  /\ actor \in Actors /\ users[actor].role = "SUPER_ADMIN"
  /\ users[p].state = "deleted"
  /\ users' = [users EXCEPT ![p].state = "live", ![p].isActive = TRUE]
  /\ Open(p, TRUE)
  /\ UNCHANGED <<invitations, clerk, sent, accepting, request, chosen, abandoned>>

-----------------------------------------------------------------------------
(* InvitationsService *)

(* Clerk (external) refuses an address that has an account. *)
sendClerkInvitation(p) == ~ Registered(p)

(* The checks, then Clerk; another invitation of the address may overlap. *)
createAndSendInvitation(actor, p, role) ==
  /\ actor \in Actors
  /\ assertPuedeAsignarRol(actor, role)
  /\ ~ (p \in Live /\ users[p].isActive)
  /\ PendingOf(p) = {}
  /\ sendClerkInvitation(p)
  /\ LET unused == {i \in Ids : invitations[i].status = "none"} IN
       /\ unused # {}
       /\ invitations' = [invitations EXCEPT ![Min(unused)] =
            [email |-> p, role |-> role, status |-> "sending"]]
  /\ chosen' = Chose(p, role)
  /\ UNCHANGED <<users, clerk, sent, accepting, request, opened, abandoned>>

(* Clerk has answered; a row that is never saved stays "sending". *)
SaveInvitation(i) ==
  /\ invitations[i].status = "sending"
  /\ invitations' = [invitations EXCEPT ![i].status = "pending"]
  /\ UNCHANGED <<users, clerk, sent, accepting, request, opened, chosen, abandoned>>

revoke(actor, i) ==
  /\ actor \in Actors
  /\ invitations[i].status = "pending"
  /\ invitations' = [invitations EXCEPT ![i].status = "revoked"]
  /\ UNCHANGED <<users, clerk, sent, accepting, request, opened, chosen, abandoned>>

(* resend: of a pending or a revoked one, whatever else is pending for the address. *)
resend(actor, i) ==
  /\ actor \in Actors
  /\ invitations[i].status \in {"pending", "revoked"}
  /\ sendClerkInvitation(invitations[i].email)
  /\ invitations' = [invitations EXCEPT ![i].status = "pending"]
  /\ UNCHANGED <<users, clerk, sent, accepting, request, opened, chosen, abandoned>>

-----------------------------------------------------------------------------
(* The webhooks *)

(* Mutant: an account Clerk brings is usable at once. *)
createOrUpdateFromClerk_Open(a, role) ==
  LET p == PersonOf[a] IN
    IF users[p].clerkId = a THEN [users EXCEPT ![p].role = role]
    ELSE [users EXCEPT ![p] = [NoUser EXCEPT !.state = "live", !.clerkId = a, !.role = role,
                                             !.isActive = TRUE]]

(***************************************************************************)
(* The row with the account's id, deleted or not, takes the role; without  *)
(* one a disabled row is created.  The activation never changes.           *)
(***************************************************************************)
createOrUpdateFromClerk(a, role) ==
  LET p == PersonOf[a] IN
    IF users[p].clerkId = a THEN [users EXCEPT ![p].role = role]
    ELSE [users EXCEPT ![p] = [NoUser EXCEPT !.state = "live", !.clerkId = a, !.role = role]]

(* guardDuplicateEmail: a row of the address with another account is a conflict. *)
NoConflict(a) == users[PersonOf[a]].clerkId = a \/ users[PersonOf[a]].state = "none"

(* createAdminUserFromInvitation: without a pending invitation nothing is created. *)
UserCreated(a) ==
  /\ <<"user.created", a>> \in sent
  /\ NoConflict(a)
  /\ \E i \in PendingOf(PersonOf[a]) :
       /\ users' = createOrUpdateFromClerk(a, invitations[i].role)
       /\ accepting' = accepting \cup {i}
       /\ abandoned' = (abandoned \/ (PersonOf[a] \in ActiveSuperAdmins
                                       /\ invitations[i].role # "SUPER_ADMIN"))
  /\ UNCHANGED <<invitations, clerk, sent, request, opened, chosen>>

(* markAccepted saves the invitation it read, revoked since or not. *)
MarkAccepted(i) ==
  /\ i \in accepting
  /\ invitations' = [invitations EXCEPT ![i].status = "accepted"]
  /\ accepting' = accepting \ {i}
  /\ UNCHANGED <<users, clerk, sent, request, opened, chosen, abandoned>>

(* The handler dies first: Clerk will deliver the event again. *)
HandlerDies(i) ==
  /\ i \in accepting
  /\ accepting' = accepting \ {i}
  /\ UNCHANGED <<users, invitations, clerk, sent, request, opened, chosen, abandoned>>

(* Mutant: the row takes the tier of a new account again. *)
UserUpdated_Tier(a) ==
  /\ <<"user.updated", a>> \in sent
  /\ NoConflict(a)
  /\ users' = createOrUpdateFromClerk(a, "STAFF")
  /\ UNCHANGED <<invitations, clerk, sent, accepting, request, opened, chosen, abandoned>>

(* updateAdminUser: the profile only; but a row that is not there yet is created. *)
UserUpdated(a) ==
  /\ <<"user.updated", a>> \in sent
  /\ users[PersonOf[a]].state = "none"
  /\ users' = createOrUpdateFromClerk(a, "STAFF")
  /\ UNCHANGED <<invitations, clerk, sent, accepting, request, opened, chosen, abandoned>>

(* deactivateByClerkId: nobody asks whether it was the last super admin. *)
UserDeleted(a) ==
  /\ <<"user.deleted", a>> \in sent
  /\ LET p == PersonOf[a] IN
       /\ p \in Live /\ users[p].clerkId = a /\ users[p].isActive
       /\ users' = [users EXCEPT ![p].isActive = FALSE]
       /\ abandoned' = (abandoned \/ p \in ActiveSuperAdmins)
  /\ UNCHANGED <<invitations, clerk, sent, accepting, request, opened, chosen>>

-----------------------------------------------------------------------------
(* Clerk (external): accounts come, change and go, and it tells us *)

SignUp(a) ==
  /\ clerk[a] = "none" /\ ~ Registered(PersonOf[a])
  /\ clerk' = [clerk EXCEPT ![a] = "live"]
  /\ sent' = sent \cup {<<"user.created", a>>}
  /\ UNCHANGED <<users, invitations, accepting, request, opened, chosen, abandoned>>

EditProfile(a) ==
  /\ clerk[a] = "live"
  /\ sent' = sent \cup {<<"user.updated", a>>}
  /\ UNCHANGED <<users, invitations, clerk, accepting, request, opened, chosen, abandoned>>

DeleteAccount(a) ==
  /\ clerk[a] = "live"
  /\ clerk' = [clerk EXCEPT ![a] = "gone"]
  /\ sent' = sent \cup {<<"user.deleted", a>>}
  /\ UNCHANGED <<users, invitations, accepting, request, opened, chosen, abandoned>>

-----------------------------------------------------------------------------
Init ==
  /\ users = [p \in People |-> IF p # Root THEN NoUser
                ELSE [NoUser EXCEPT !.state = "live", !.clerkId = RootAccount,
                                    !.role = "SUPER_ADMIN", !.isActive = TRUE, !.approved = TRUE]]
  /\ invitations = [i \in Ids |-> [email |-> Root, role |-> "STAFF", status |-> "none"]]
  /\ clerk = [a \in Accounts |-> IF a = RootAccount THEN "live" ELSE "none"]
  /\ sent = {} /\ accepting = {} /\ request = NoRequest
  /\ opened = {Root} /\ chosen = {<<Root, "SUPER_ADMIN">>}
  /\ abandoned = FALSE

Next ==
  \/ \E actor, p \in People, role \in Role, flag \in BOOLEAN :
       \/ Create(actor, p, role, flag)
       \/ Update(actor, p, role, flag)
  \/ \E actor, p \in People, role \in Role : createAndSendInvitation(actor, p, role)
  \/ \E actor, p \in People : Remove(actor, p) \/ Restore(actor, p)
  \/ SaveUpdate \/ Deactivate \/ SoftDelete \/ revokePendingForEmail \/ RequestDies
  \/ \E actor \in People, i \in Ids : revoke(actor, i) \/ resend(actor, i)
  \/ \E i \in Ids : SaveInvitation(i) \/ MarkAccepted(i) \/ HandlerDies(i)
  \/ \E a \in Accounts :
       \/ UserCreated(a) \/ UserUpdated(a) \/ UserDeleted(a)
       \/ SignUp(a) \/ EditProfile(a) \/ DeleteAccount(a)

Spec == Init /\ [][Next]_vars

-----------------------------------------------------------------------------
(* Properties *)

(***************************************************************************)
(* Whatever Clerk delivers, in any order and as often as it likes, nobody  *)
(* is active whom an administrator did not let in (and has not shut out    *)
(* since), and nobody but a plain member of staff has a tier that no       *)
(* administrator chose for that address.                                   *)
(***************************************************************************)
ChosenByAnAdmin ==
  \A p \in People : users[p].state # "none" =>
    /\ users[p].isActive => p \in opened
    /\ users[p].role = "STAFF" \/ <<p, users[p].role>> \in chosen

(***************************************************************************)
(* Unless Clerk takes an active super admin away (its account deleted, or  *)
(* an old invitation's role brought back by a redelivery), there is always *)
(* one left, and no way to make the first through the API: not by requests *)
(* handled one at a time, whatever is delivered between the read and the   *)
(* save of one, nor by a profile event.                                    *)
(***************************************************************************)
SuperAdminRemains == abandoned \/ ActiveSuperAdmins # {}
=============================================================================
