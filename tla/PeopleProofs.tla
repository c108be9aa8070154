---------------------------- MODULE PeopleProofs -----------------------------
(***************************************************************************)
(* What the components of People promise, for any set of people, accounts, *)
(* roles and requests.                                                     *)
(***************************************************************************)
EXTENDS People, FiniteSetTheorems, WellFoundedInduction, TLAPS

-----------------------------------------------------------------------------
(* Staff *)

(* A tier that an administrator chose for the address, or none to speak of. *)
ChosenFor(p, role) == role = "STAFF" \/ <<p, role>> \in chosen

StaffRequest == [step : {"idle", "save", "remove", "delete", "revoke"},
                 who : Staffers \cup {Null}, row : St!User]

StaffTypes ==
  /\ users \in [Staffers -> St!User]
  /\ invitations \in [St!Ids -> St!Invitation]
  /\ adminClerk \in [AdminAccounts -> {"none", "live", "gone"}]
  /\ adminSent \subseteq St!Event
  /\ accepting \subseteq St!Ids
  /\ request \in StaffRequest
  /\ request.step # "idle" => request.who \in Staffers
  /\ opened \subseteq Staffers
  /\ chosen \subseteq Staffers \X St!Role
  /\ abandoned \in BOOLEAN

(* Whoever is active was let in; every tier on its way to a row was chosen, *)
(* whether a row has it, an invitation of any status or a save to come.     *)
StaffChosen ==
  /\ \A p \in Staffers : /\ users[p].isActive => p \in opened
                         /\ ChosenFor(p, users[p].role)
  /\ \A i \in St!Ids : ChosenFor(invitations[i].email, invitations[i].role)
  /\ request.step = "save" => ChosenFor(request.who, request.row.role)

(* A super admin other than the one a request is about to demote or remove. *)
StaffKept ==
  \/ abandoned
  \/ /\ St!ActiveSuperAdmins # {}
     /\ request.step = "save" =>
          /\ request.row.state = "live"
          /\ \/ request.row.role = "SUPER_ADMIN" /\ request.row.isActive
             \/ St!ActiveSuperAdmins \ {request.who} # {}
     /\ request.step \in {"remove", "delete"} => St!ActiveSuperAdmins \ {request.who} # {}

StaffInv == StaffTypes /\ StaffChosen /\ StaffKept

(***************************************************************************)
(* The row of a new member, and of nobody, is a typed row.                 *)
(***************************************************************************)
LEMMA StaffRowTyped ==
  /\ St!NoUser \in St!User
  /\ \A role \in St!Role, isActive \in BOOLEAN :
       [St!NoUser EXCEPT !.state = "live", !.role = role, !.isActive = isActive] \in St!User
  /\ \A role \in St!Role, a \in AdminAccounts :
       [St!NoUser EXCEPT !.state = "live", !.clerkId = a, !.role = role] \in St!User
  /\ \A u \in St!User, role \in St!Role, isActive \in BOOLEAN :
       [u EXCEPT !.role = role, !.isActive = isActive, !.approved = @ \/ isActive] \in St!User
  /\ \A u \in St!User, state \in {"live", "deleted"}, isActive \in BOOLEAN :
       [u EXCEPT !.state = state, !.isActive = isActive] \in St!User
  /\ \A u \in St!User, role \in St!Role : [u EXCEPT !.role = role] \in St!User
  /\ \A u \in St!User, isActive \in BOOLEAN : [u EXCEPT !.isActive = isActive] \in St!User
<1>1. St!NoUser \in St!User
  BY DEF St!NoUser, St!User, St!Role
<1>2. \A role \in St!Role, isActive \in BOOLEAN :
        [St!NoUser EXCEPT !.state = "live", !.role = role, !.isActive = isActive] \in St!User
  BY <1>1 DEF St!User
<1>3. \A role \in St!Role, a \in AdminAccounts :
        [St!NoUser EXCEPT !.state = "live", !.clerkId = a, !.role = role] \in St!User
  BY <1>1 DEF St!User
<1>4. \A u \in St!User, role \in St!Role, isActive \in BOOLEAN :
        [u EXCEPT !.role = role, !.isActive = isActive, !.approved = @ \/ isActive] \in St!User
  BY DEF St!User
<1>5. \A u \in St!User, state \in {"live", "deleted"}, isActive \in BOOLEAN :
        [u EXCEPT !.state = state, !.isActive = isActive] \in St!User
  BY DEF St!User
<1>6. \A u \in St!User, role \in St!Role : [u EXCEPT !.role = role] \in St!User
  BY DEF St!User
<1>7. \A u \in St!User, isActive \in BOOLEAN : [u EXCEPT !.isActive = isActive] \in St!User
  BY DEF St!User
<1> QED
  BY <1>1, <1>2, <1>3, <1>4, <1>5, <1>6, <1>7

(***************************************************************************)
(* A request that goes on to another step is a typed request.              *)
(***************************************************************************)
LEMMA StaffRequestGoesOn ==
  ASSUME NEW q \in StaffRequest,
         NEW step \in {"idle", "save", "remove", "delete", "revoke"}
  PROVE  /\ [q EXCEPT !.step = step] \in StaffRequest
         /\ [q EXCEPT !.step = step].step = step
         /\ [q EXCEPT !.step = step].who = q.who
BY DEF StaffRequest

(***************************************************************************)
(* A fresh installation: one super admin, let in and chosen.               *)
(***************************************************************************)
LEMMA StaffInitInv ==
  ASSUME St!Init
  PROVE  StaffInv
<1> DEFINE root == [St!NoUser EXCEPT !.state = "live", !.clerkId = RootAccount,
                      !.role = "SUPER_ADMIN", !.isActive = TRUE, !.approved = TRUE]
           none == [email |-> Root, role |-> "STAFF", status |-> "none"]
<1>1. /\ root \in St!User /\ St!NoUser \in St!User /\ none \in St!Invitation
      /\ St!NoRequest \in StaffRequest
  BY StaffAssumption
  DEF St!NoUser, St!User, St!Role, St!Invitation, St!NoRequest, StaffRequest
<1>2. /\ users = [p \in Staffers |-> IF p # Root THEN St!NoUser ELSE root]
      /\ invitations = [i \in St!Ids |-> none]
      /\ adminClerk = [a \in AdminAccounts |-> IF a = RootAccount THEN "live" ELSE "none"]
      /\ adminSent = {} /\ accepting = {} /\ request = St!NoRequest
      /\ opened = {Root} /\ chosen = {<<Root, "SUPER_ADMIN">>} /\ abandoned = FALSE
  BY DEF St!Init
<1>3. StaffTypes
  <2>1. users \in [Staffers -> St!User] /\ invitations \in [St!Ids -> St!Invitation]
    BY <1>1, <1>2
  <2>2. adminClerk \in [AdminAccounts -> {"none", "live", "gone"}]
    BY <1>2
  <2>3. request.step = "idle"
    BY <1>2 DEF St!NoRequest
  <2>4. opened \subseteq Staffers /\ chosen \subseteq Staffers \X St!Role
    BY <1>2, StaffAssumption DEF St!Role
  <2> QED
    BY <1>1, <1>2, <2>1, <2>2, <2>3, <2>4 DEF StaffTypes
<1>4. StaffChosen
  BY StaffAssumption DEF St!Init, StaffChosen, ChosenFor, St!NoUser, St!NoRequest, St!Ids
<1>5. StaffKept
  <2>1. Root \in St!ActiveSuperAdmins
    BY StaffAssumption DEF St!Init, St!ActiveSuperAdmins, St!Live, St!NoUser
  <2> QED
    BY <2>1 DEF StaffKept, St!Init, St!NoRequest
<1> QED
  BY <1>3, <1>4, <1>5 DEF StaffInv

(***************************************************************************)
(* What a webhook writes is a typed table.                                 *)
(***************************************************************************)
LEMMA StaffWebhookTyped ==
  ASSUME StaffTypes, NEW a \in AdminAccounts, NEW role \in St!Role
  PROVE  St!createOrUpdateFromClerk(a, role) \in [Staffers -> St!User]
BY StaffAssumption, StaffRowTyped DEF StaffTypes, St!createOrUpdateFromClerk

(***************************************************************************)
(* Every operation keeps the tables typed.                                 *)
(***************************************************************************)
LEMMA StaffTypesStep ==
  ASSUME StaffTypes, St!Next
  PROVE  StaffTypes'
<1> USE StaffAssumption
<1>a. \A p \in Staffers, on \in BOOLEAN : St!Open(p, on) => opened' \subseteq Staffers
  BY DEF St!Open, StaffTypes
<1>b. \A p \in Staffers, role \in St!Role : St!Chose(p, role) \subseteq Staffers \X St!Role
  BY DEF St!Chose, StaffTypes
<1>c. St!NoRequest \in StaffRequest /\ St!NoRequest.step = "idle"
  BY StaffRowTyped DEF St!NoRequest, StaffRequest
<1>1. ASSUME NEW actor \in Staffers, NEW p \in Staffers, NEW role \in St!Role,
             NEW flag \in BOOLEAN, St!Create(actor, p, role, flag)
      PROVE  StaffTypes'
  BY <1>1, <1>a, <1>b, StaffRowTyped DEF St!Create, StaffTypes
<1>2. ASSUME NEW actor \in Staffers, NEW p \in Staffers, NEW role \in St!Role,
             NEW flag \in BOOLEAN, St!Update(actor, p, role, flag)
      PROVE  StaffTypes'
  <2>1. request' \in StaffRequest /\ request'.who \in Staffers
    BY <1>2, StaffRowTyped DEF St!Update, StaffTypes, StaffRequest
  <2> QED
    BY <1>2, <1>b, <2>1 DEF St!Update, StaffTypes
<1>3. ASSUME NEW actor \in Staffers, NEW p \in Staffers, NEW role \in St!Role,
             St!createAndSendInvitation(actor, p, role)
      PROVE  StaffTypes'
  <2>1. [email |-> p, role |-> role, status |-> "sending"] \in St!Invitation
    BY DEF St!Invitation
  <2>2. invitations' \in [St!Ids -> St!Invitation]
    BY <1>3, <2>1 DEF St!createAndSendInvitation, StaffTypes
  <2> QED
    BY <1>3, <1>b, <2>2 DEF St!createAndSendInvitation, StaffTypes
<1>4. ASSUME NEW actor \in Staffers, NEW p \in Staffers, St!Remove(actor, p)
      PROVE  StaffTypes'
  <2>1. request' \in StaffRequest /\ request'.who \in Staffers
    BY <1>4, StaffRowTyped DEF St!Remove, StaffRequest, St!NoRequest
  <2> QED
    BY <1>4, <2>1 DEF St!Remove, StaffTypes
<1>5. ASSUME NEW actor \in Staffers, NEW p \in Staffers, St!Restore(actor, p)
      PROVE  StaffTypes'
  BY <1>5, <1>a, StaffRowTyped DEF St!Restore, StaffTypes
<1>6. CASE St!SaveUpdate
  <2>1. request.who \in Staffers /\ request.row \in St!User
    BY <1>6 DEF St!SaveUpdate, StaffTypes, StaffRequest
  <2>2. opened' \subseteq Staffers
    BY <1>6, <2>1 DEF St!SaveUpdate, StaffTypes, St!Open
  <2> QED
    BY <1>6, <1>c, <2>1, <2>2 DEF St!SaveUpdate, StaffTypes
<1>7. CASE St!Deactivate \/ St!SoftDelete \/ St!revokePendingForEmail \/ St!RequestDies
  <2>1. \/ request' = St!NoRequest
        \/ /\ request.step # "idle"
           /\ \E step \in {"delete", "revoke"} : request' = [request EXCEPT !.step = step]
    BY <1>7 DEF St!Deactivate, St!SoftDelete, St!revokePendingForEmail, St!RequestDies
  <2>2. /\ request' \in StaffRequest
        /\ request'.step # "idle" => request'.who \in Staffers
    <3>1. CASE request' = St!NoRequest
      BY <1>c, <3>1
    <3>2. ASSUME NEW step \in {"delete", "revoke"}, request.step # "idle",
                 request' = [request EXCEPT !.step = step]
          PROVE  request' \in StaffRequest /\ request'.who \in Staffers
      <4>1. request \in StaffRequest /\ request.who \in Staffers
        BY <3>2 DEF StaffTypes
      <4>2. request' \in StaffRequest /\ request'.who = request.who
        BY <3>2, <4>1 DEF StaffRequest
      <4> QED
        BY <4>1, <4>2
    <3> QED
      BY <2>1, <3>1, <3>2
  <2>3. CASE St!Deactivate \/ St!SoftDelete
    <3>1. \A u \in St!User : /\ [u EXCEPT !.state = "deleted"] \in St!User
                             /\ [u EXCEPT !.isActive = FALSE] \in St!User
      BY DEF St!User
    <3>2. users' \in [Staffers -> St!User]
      <4>1. users \in [Staffers -> St!User]
        BY DEF StaffTypes
      <4>2. CASE St!Deactivate
        BY <3>1, <4>1, <4>2 DEF St!Deactivate
      <4>3. CASE St!SoftDelete
        BY <3>1, <4>1, <4>3 DEF St!SoftDelete
      <4> QED
        BY <2>3, <4>2, <4>3
    <3>3. opened' \subseteq Staffers
      BY <2>3 DEF St!Deactivate, St!SoftDelete, St!Open, StaffTypes
    <3> QED
      BY <2>2, <2>3, <3>2, <3>3 DEF St!Deactivate, St!SoftDelete, StaffTypes
  <2>4. CASE St!revokePendingForEmail
    <3>1. \A v \in St!Invitation : [v EXCEPT !.status = "revoked"] \in St!Invitation
      BY DEF St!Invitation
    <3>2. invitations' \in [St!Ids -> St!Invitation]
      BY <2>4, <3>1 DEF St!revokePendingForEmail, StaffTypes
    <3> QED
      BY <2>2, <2>4, <3>2 DEF St!revokePendingForEmail, StaffTypes
  <2>5. CASE St!RequestDies
    BY <2>2, <2>5 DEF St!RequestDies, StaffTypes
  <2> QED
    BY <1>7, <2>3, <2>4, <2>5
<1>8. ASSUME NEW actor \in Staffers, NEW i \in St!Ids,
             \/ St!revoke(actor, i) \/ St!resend(actor, i)
             \/ St!SaveInvitation(i) \/ St!MarkAccepted(i) \/ St!HandlerDies(i)
      PROVE  StaffTypes'
  <2>1. \A v \in St!Invitation, status \in {"pending", "accepted", "revoked"} :
          [v EXCEPT !.status = status] \in St!Invitation
    BY DEF St!Invitation
  <2>2. \/ UNCHANGED invitations
        \/ \E status \in {"pending", "accepted", "revoked"} :
             invitations' = [invitations EXCEPT ![i].status = status]
    BY <1>8 DEF St!revoke, St!resend, St!SaveInvitation, St!MarkAccepted, St!HandlerDies
  <2>3. invitations' \in [St!Ids -> St!Invitation]
    <3>1. ASSUME NEW status \in {"pending", "accepted", "revoked"},
                 invitations' = [invitations EXCEPT ![i].status = status]
          PROVE  invitations' \in [St!Ids -> St!Invitation]
      <4>1. invitations \in [St!Ids -> St!Invitation]
        BY DEF StaffTypes
      <4>2. [invitations[i] EXCEPT !.status = status] \in St!Invitation
        BY <2>1, <4>1
      <4> QED
        BY <3>1, <4>1, <4>2
    <3> QED
      BY <2>2, <3>1 DEF StaffTypes
  <2> QED
    BY <1>8, <2>3 DEF St!revoke, St!resend, St!SaveInvitation, St!MarkAccepted, St!HandlerDies, StaffTypes
<1>9. ASSUME NEW a \in AdminAccounts, St!UserCreated(a)
      PROVE  StaffTypes'
  <2>1. PICK i \in St!PendingOf(StafferOf[a]) :
          /\ users' = St!createOrUpdateFromClerk(a, invitations[i].role)
          /\ accepting' = accepting \cup {i}
          /\ abandoned' = (abandoned \/ (StafferOf[a] \in St!ActiveSuperAdmins
                                          /\ invitations[i].role # "SUPER_ADMIN"))
    BY <1>9 DEF St!UserCreated
  <2>2. i \in St!Ids /\ invitations[i].role \in St!Role
    BY DEF St!PendingOf, StaffTypes, St!Invitation
  <2>3. users' \in [Staffers -> St!User]
    BY <2>1, <2>2, StaffWebhookTyped
  <2>4. abandoned' \in BOOLEAN /\ accepting' \subseteq St!Ids
    BY <2>1, <2>2 DEF StaffTypes
  <2> QED
    BY <1>9, <2>3, <2>4 DEF St!UserCreated, StaffTypes
<1>10. ASSUME NEW a \in AdminAccounts, St!UserUpdated(a)
       PROVE  StaffTypes'
  <2>1. users' \in [Staffers -> St!User]
    BY <1>10, StaffWebhookTyped DEF St!UserUpdated, St!Role
  <2> QED
    BY <1>10, <2>1 DEF St!UserUpdated, StaffTypes
<1>11. ASSUME NEW a \in AdminAccounts, St!UserDeleted(a)
       PROVE  StaffTypes'
  <2>1. users' \in [Staffers -> St!User]
    BY <1>11, StaffRowTyped DEF St!UserDeleted, StaffTypes
  <2>2. abandoned' \in BOOLEAN
    BY <1>11 DEF St!UserDeleted, StaffTypes
  <2> QED
    BY <1>11, <2>1, <2>2 DEF St!UserDeleted, StaffTypes
<1>12. ASSUME NEW a \in AdminAccounts,
              St!SignUp(a) \/ St!EditProfile(a) \/ St!DeleteAccount(a)
       PROVE  StaffTypes'
  BY <1>12 DEF St!SignUp, St!EditProfile, St!DeleteAccount, StaffTypes, St!Event
<1> QED
  BY <1>1, <1>2, <1>3, <1>4, <1>5, <1>6, <1>7, <1>8, <1>9, <1>10, <1>11, <1>12 DEF St!Next

(***************************************************************************)
(* Every operation keeps the tiers chosen and the active members let in.   *)
(* A webhook brings only the tier of an invitation, or none, and never     *)
(* opens a row; an invitation and a save carry what their request chose.   *)
(***************************************************************************)
LEMMA StaffChosenStep ==
  ASSUME StaffTypes, StaffChosen, St!Next
  PROVE  StaffChosen'
<1> USE StaffAssumption DEF ChosenFor
<1>a. /\ \A p \in Staffers, role \in St!Role :
           chosen' = St!Chose(p, role) =>
             chosen \subseteq chosen' /\ (role = "STAFF" \/ <<p, role>> \in chosen')
  BY DEF St!Chose
<1>b. \A p \in Staffers, on \in BOOLEAN :
        St!Open(p, on) => /\ \A q \in Staffers \ {p} : q \in opened' <=> q \in opened
                          /\ p \in opened' <=> on
  BY DEF St!Open
<1>c. /\ users \in [Staffers -> St!User] /\ invitations \in [St!Ids -> St!Invitation]
      /\ request \in StaffRequest
  BY DEF StaffTypes
<1>1. ASSUME NEW actor \in Staffers, NEW p \in Staffers, NEW role \in St!Role,
             NEW flag \in BOOLEAN, St!Create(actor, p, role, flag)
      PROVE  StaffChosen'
  BY <1>1, <1>a, <1>b, <1>c DEF St!Create, StaffChosen, St!NoUser
<1>2. ASSUME NEW actor \in Staffers, NEW p \in Staffers, NEW role \in St!Role,
             NEW flag \in BOOLEAN, St!Update(actor, p, role, flag)
      PROVE  StaffChosen'
  <2>1. request'.step = "save" /\ request'.who = p /\ request'.row.role = role
    BY <1>2, <1>c DEF St!Update, St!User
  <2> QED
    BY <1>2, <1>a, <2>1 DEF St!Update, StaffChosen
<1>3. ASSUME NEW actor \in Staffers, NEW p \in Staffers, NEW role \in St!Role,
             St!createAndSendInvitation(actor, p, role)
      PROVE  StaffChosen'
  <2>1. \A i \in St!Ids : \/ invitations'[i] = invitations[i]
                          \/ invitations'[i].email = p /\ invitations'[i].role = role
    BY <1>3, <1>c DEF St!createAndSendInvitation
  <2> QED
    BY <1>3, <1>a, <2>1 DEF St!createAndSendInvitation, StaffChosen
<1>4. ASSUME NEW actor \in Staffers, NEW p \in Staffers, St!Remove(actor, p)
      PROVE  StaffChosen'
  BY <1>4 DEF St!Remove, StaffChosen, St!NoRequest
<1>5. ASSUME NEW actor \in Staffers, NEW p \in Staffers, St!Restore(actor, p)
      PROVE  StaffChosen'
  <2>1. \A q \in Staffers : users'[q].role = users[q].role
    BY <1>5, <1>c DEF St!Restore, St!User
  <2>2. \A q \in Staffers \ {p} : users'[q] = users[q]
    BY <1>5, <1>c DEF St!Restore
  <2>3. /\ opened \subseteq opened' /\ p \in opened'
        /\ UNCHANGED <<invitations, request, chosen>>
    BY <1>5 DEF St!Restore, St!Open
  <2> QED
    BY <2>1, <2>2, <2>3 DEF StaffChosen
<1>6. CASE St!SaveUpdate
  <2>1. request.who \in Staffers /\ request.row.isActive \in BOOLEAN
    BY <1>6 DEF St!SaveUpdate, StaffTypes, StaffRequest, St!User
  <2>2. \A q \in Staffers : users'[q] = IF q = request.who THEN request.row ELSE users[q]
    BY <1>6, <1>c DEF St!SaveUpdate
  <2>3. request'.step = "idle"
    BY <1>6 DEF St!SaveUpdate, St!NoRequest
  <2> QED
    BY <1>6, <1>b, <2>1, <2>2, <2>3 DEF St!SaveUpdate, StaffChosen
<1>7. CASE St!Deactivate \/ St!SoftDelete \/ St!revokePendingForEmail \/ St!RequestDies
  <2>1. UNCHANGED chosen /\ request'.step # "save"
    <3>1. \/ request' = St!NoRequest
          \/ \E step \in {"delete", "revoke"} : request' = [request EXCEPT !.step = step]
      BY <1>7 DEF St!Deactivate, St!SoftDelete, St!revokePendingForEmail, St!RequestDies
    <3>2. UNCHANGED chosen
      BY <1>7 DEF St!Deactivate, St!SoftDelete, St!revokePendingForEmail, St!RequestDies
    <3>3. CASE request' = St!NoRequest
      BY <3>2, <3>3 DEF St!NoRequest
    <3>4. ASSUME NEW step \in {"delete", "revoke"}, request' = [request EXCEPT !.step = step]
          PROVE  request'.step # "save"
      <4>1. request'.step = step
        BY <1>c, <3>4, StaffRequestGoesOn
      <4> QED
        BY <4>1
    <3> QED
      BY <3>1, <3>2, <3>3, <3>4
  <2>2. \A i \in St!Ids : /\ invitations'[i].email = invitations[i].email
                          /\ invitations'[i].role = invitations[i].role
    <3>1. CASE St!revokePendingForEmail
      BY <1>c, <3>1 DEF St!revokePendingForEmail, St!Invitation
    <3>2. CASE UNCHANGED invitations
      BY <3>2
    <3> QED
      BY <1>7, <3>1, <3>2 DEF St!Deactivate, St!SoftDelete, St!RequestDies
  <2>3. CASE St!Deactivate
    <3>1. \A q \in Staffers : /\ users'[q].role = users[q].role
                              /\ q # request.who => users'[q] = users[q]
                              /\ q = request.who => ~ users'[q].isActive
      BY <2>3, <1>c DEF St!Deactivate, St!User
    <3>2. request.who \in Staffers /\ St!Open(request.who, FALSE)
      BY <2>3 DEF St!Deactivate, StaffTypes
    <3> QED
      BY <1>b, <2>1, <2>2, <3>1, <3>2 DEF StaffChosen
  <2>4. CASE ~ St!Deactivate
    <3>1. \A q \in Staffers : /\ users'[q].role = users[q].role
                              /\ users'[q].isActive = users[q].isActive
      BY <1>7, <2>4, <1>c DEF St!SoftDelete, St!revokePendingForEmail, St!RequestDies, St!User
    <3>2. UNCHANGED opened
      BY <1>7, <2>4 DEF St!SoftDelete, St!revokePendingForEmail, St!RequestDies
    <3> QED
      BY <2>1, <2>2, <3>1, <3>2 DEF StaffChosen
  <2> QED
    BY <2>3, <2>4
<1>8. ASSUME NEW actor \in Staffers, NEW i \in St!Ids,
             \/ St!revoke(actor, i) \/ St!resend(actor, i)
             \/ St!SaveInvitation(i) \/ St!MarkAccepted(i) \/ St!HandlerDies(i)
      PROVE  StaffChosen'
  <2>1. \/ UNCHANGED invitations
        \/ \E status \in {"pending", "accepted", "revoked"} :
             invitations' = [invitations EXCEPT ![i].status = status]
    BY <1>8 DEF St!revoke, St!resend, St!SaveInvitation, St!MarkAccepted, St!HandlerDies
  <2>2. \A j \in St!Ids : /\ invitations'[j].email = invitations[j].email
                          /\ invitations'[j].role = invitations[j].role
    BY <1>c, <2>1 DEF St!Invitation
  <2>3. UNCHANGED <<users, request, opened, chosen>>
    BY <1>8 DEF St!revoke, St!resend, St!SaveInvitation, St!MarkAccepted, St!HandlerDies
  <2> QED
    BY <2>2, <2>3 DEF StaffChosen
<1>d. ASSUME NEW a \in AdminAccounts, NEW role \in St!Role, ChosenFor(StafferOf[a], role),
             users' = St!createOrUpdateFromClerk(a, role),
             UNCHANGED <<invitations, request, opened, chosen>>
      PROVE  StaffChosen'
  <2>1. StafferOf[a] \in Staffers
    OBVIOUS
  <2>2. \A q \in Staffers : /\ q # StafferOf[a] => users'[q] = users[q]
                            /\ q = StafferOf[a] => users'[q].role = role
                            /\ users'[q].isActive => users[q].isActive
    BY <1>c, <1>d, <2>1 DEF St!createOrUpdateFromClerk, St!User, St!NoUser
  <2> QED
    BY <1>d, <2>1, <2>2 DEF StaffChosen
<1>9. ASSUME NEW a \in AdminAccounts, St!UserCreated(a)
      PROVE  StaffChosen'
  <2>1. PICK i \in St!PendingOf(StafferOf[a]) :
          users' = St!createOrUpdateFromClerk(a, invitations[i].role)
    BY <1>9 DEF St!UserCreated
  <2>2. /\ i \in St!Ids /\ invitations[i].role \in St!Role
        /\ invitations[i].email = StafferOf[a]
    BY <1>c DEF St!PendingOf, St!Invitation
  <2>3. ChosenFor(StafferOf[a], invitations[i].role)
    BY <2>2 DEF StaffChosen
  <2> QED
    BY <1>9, <1>d, <2>1, <2>2, <2>3 DEF St!UserCreated
<1>10. ASSUME NEW a \in AdminAccounts, St!UserUpdated(a)
       PROVE  StaffChosen'
  BY <1>10, <1>d DEF St!UserUpdated, St!Role
<1>11. ASSUME NEW a \in AdminAccounts, St!UserDeleted(a)
       PROVE  StaffChosen'
  <2>1. \A q \in Staffers : /\ users'[q].role = users[q].role
                            /\ users'[q].isActive => users[q].isActive
    BY <1>11, <1>c DEF St!UserDeleted, St!User
  <2> QED
    BY <1>11, <2>1 DEF St!UserDeleted, StaffChosen
<1>12. ASSUME NEW a \in AdminAccounts,
              St!SignUp(a) \/ St!EditProfile(a) \/ St!DeleteAccount(a)
       PROVE  StaffChosen'
  BY <1>12 DEF St!SignUp, St!EditProfile, St!DeleteAccount, StaffChosen
<1> QED
  BY <1>1, <1>2, <1>3, <1>4, <1>5, <1>6, <1>7, <1>8, <1>9, <1>10, <1>11, <1>12 DEF St!Next

(***************************************************************************)
(* When a second super admin is counted, one is left without the first.    *)
(***************************************************************************)
LEMMA AnotherSuperAdmin ==
  ASSUME NEW p, St!assertNotLastSuperAdmin
  PROVE  St!ActiveSuperAdmins \ {p} # {}
<1>1. IsFiniteSet(St!ActiveSuperAdmins)
  BY StaffAssumption, FS_Subset DEF St!ActiveSuperAdmins, St!Live
<1>2. SUFFICES ASSUME St!ActiveSuperAdmins \subseteq {p} PROVE FALSE
  OBVIOUS
<1>3. IsFiniteSet({p}) /\ Cardinality({p}) = 1
  BY FS_Singleton
<1>4. Cardinality(St!ActiveSuperAdmins) <= 1 /\ Cardinality(St!ActiveSuperAdmins) \in Nat
  BY <1>1, <1>2, <1>3, FS_Subset, FS_CardinalityType
<1>5. St!Cardinality(St!ActiveSuperAdmins) = Cardinality(St!ActiveSuperAdmins)
  BY Zenon DEF Cardinality, St!Cardinality
<1> QED
  BY <1>4, <1>5 DEF St!assertNotLastSuperAdmin

(***************************************************************************)
(* A step that changes no request and takes nobody away keeps StaffKept.   *)
(***************************************************************************)
LEMMA StaffKeptGrows ==
  ASSUME StaffKept, UNCHANGED request, abandoned => abandoned',
         abandoned' \/ St!ActiveSuperAdmins \subseteq St!ActiveSuperAdmins'
  PROVE  StaffKept'
BY DEF StaffKept

(***************************************************************************)
(* Every operation leaves a super admin, or Clerk has taken one away.  The *)
(* count of update and remove is made on what they read; it is still good  *)
(* when they write, because only another request of the panel, or Clerk,   *)
(* could have taken the second one meanwhile.                              *)
(***************************************************************************)
LEMMA StaffKeptStep ==
  ASSUME StaffTypes, StaffKept, St!Next
  PROVE  StaffKept'
<1> USE StaffAssumption
<1>c. users \in [Staffers -> St!User] /\ request \in StaffRequest /\ abandoned \in BOOLEAN
  BY DEF StaffTypes
<1> DEFINE Super(u) == u.state = "live" /\ u.role = "SUPER_ADMIN" /\ u.isActive
<1>m. /\ St!ActiveSuperAdmins = {p \in Staffers : Super(users[p])}
      /\ St!ActiveSuperAdmins' = {p \in Staffers : Super(users'[p])}
  BY DEF St!ActiveSuperAdmins, St!Live
<1>1. ASSUME NEW actor \in Staffers, NEW p \in Staffers, NEW role \in St!Role,
             NEW flag \in BOOLEAN, St!Create(actor, p, role, flag)
      PROVE  StaffKept'
  <2>1. \A q \in Staffers : Super(users[q]) => users'[q] = users[q]
    BY <1>1, <1>c DEF St!Create
  <2>2. St!ActiveSuperAdmins \subseteq St!ActiveSuperAdmins'
    BY <1>m, <2>1
  <2> QED
    BY <1>1, <2>2, StaffKeptGrows DEF St!Create
<1>2. ASSUME NEW actor \in Staffers, NEW p \in Staffers, NEW role \in St!Role,
             NEW flag \in BOOLEAN, St!Update(actor, p, role, flag)
      PROVE  StaffKept'
  <2>1. /\ request'.step = "save" /\ request'.who = p /\ request'.row.state = "live"
        /\ request'.row.role = role /\ request'.row.isActive = flag
        /\ UNCHANGED <<users, abandoned>>
    BY <1>2, <1>c DEF St!Update, St!User, St!Live
  <2>2. CASE role = "SUPER_ADMIN" /\ flag
    BY <1>m, <2>1, <2>2 DEF StaffKept
  <2>3. CASE ~ (role = "SUPER_ADMIN" /\ flag)
    <3>1. CASE users[p].role = "SUPER_ADMIN"
      <4>1. St!assertNotLastSuperAdmin
        BY <1>2, <2>3, <3>1 DEF St!Update
      <4> QED
        BY <1>m, <2>1, <4>1, AnotherSuperAdmin DEF StaffKept
    <3>2. CASE users[p].role # "SUPER_ADMIN"
      BY <1>m, <2>1, <3>2 DEF StaffKept
    <3> QED
      BY <3>1, <3>2
  <2> QED
    BY <2>2, <2>3
<1>3. ASSUME NEW actor \in Staffers, NEW p \in Staffers, NEW role \in St!Role,
             St!createAndSendInvitation(actor, p, role)
      PROVE  StaffKept'
  BY <1>3, <1>m, StaffKeptGrows DEF St!createAndSendInvitation
<1>4. ASSUME NEW actor \in Staffers, NEW p \in Staffers, St!Remove(actor, p)
      PROVE  StaffKept'
  <2>1. request'.step = "remove" /\ request'.who = p /\ UNCHANGED <<users, abandoned>>
    BY <1>4 DEF St!Remove, St!NoRequest
  <2>2. CASE users[p].role = "SUPER_ADMIN"
    <3>1. St!assertNotLastSuperAdmin
      BY <1>4, <2>2 DEF St!Remove
    <3> QED
      BY <1>m, <2>1, <3>1, AnotherSuperAdmin DEF StaffKept
  <2>3. CASE users[p].role # "SUPER_ADMIN"
    BY <1>m, <2>1, <2>3 DEF StaffKept
  <2> QED
    BY <2>2, <2>3
<1>5. ASSUME NEW actor \in Staffers, NEW p \in Staffers, St!Restore(actor, p)
      PROVE  StaffKept'
  <2>1. \A q \in Staffers : Super(users[q]) => users'[q] = users[q]
    BY <1>5, <1>c DEF St!Restore
  <2>2. St!ActiveSuperAdmins \subseteq St!ActiveSuperAdmins'
    BY <1>m, <2>1
  <2> QED
    BY <1>5, <2>2, StaffKeptGrows DEF St!Restore
<1>6. CASE St!SaveUpdate
  <2>1. request.who \in Staffers /\ request.step = "save"
    BY <1>6 DEF St!SaveUpdate, StaffTypes
  <2>2. \A q \in Staffers : users'[q] = IF q = request.who THEN request.row ELSE users[q]
    BY <1>6, <1>c DEF St!SaveUpdate
  <2>3. request'.step = "idle" /\ UNCHANGED abandoned
    BY <1>6 DEF St!SaveUpdate, St!NoRequest
  <2>4. CASE abandoned
    BY <2>3, <2>4 DEF StaffKept
  <2>5. CASE ~ abandoned /\ Super(request.row)
    <3>1. request.who \in St!ActiveSuperAdmins'
      BY <1>m, <2>1, <2>2, <2>5
    <3> QED
      BY <2>3, <3>1 DEF StaffKept
  <2>6. CASE ~ abandoned /\ ~ Super(request.row)
    <3>1. St!ActiveSuperAdmins \ {request.who} # {}
      BY <2>1, <2>6 DEF StaffKept
    <3>2. St!ActiveSuperAdmins \ {request.who} \subseteq St!ActiveSuperAdmins'
      BY <1>m, <2>2
    <3> QED
      BY <2>3, <3>1, <3>2 DEF StaffKept
  <2> QED
    BY <2>4, <2>5, <2>6
<1>7. CASE St!Deactivate \/ St!SoftDelete
  <2>1. request.who \in Staffers /\ request.step \in {"remove", "delete"}
    BY <1>7 DEF St!Deactivate, St!SoftDelete, StaffTypes
  <2>2. \A q \in Staffers : /\ q # request.who => users'[q] = users[q]
                            /\ q = request.who => ~ Super(users'[q])
    <3>1. CASE St!Deactivate
      <4>1. \A q \in Staffers : /\ q # request.who => users'[q] = users[q]
                                /\ q = request.who => users'[q].isActive = FALSE
        BY <1>c, <2>1, <3>1 DEF St!Deactivate, St!User
      <4> QED
        BY <4>1
    <3>2. CASE St!SoftDelete
      <4>1. \A q \in Staffers : /\ q # request.who => users'[q] = users[q]
                                /\ q = request.who => users'[q].state = "deleted"
        BY <1>c, <2>1, <3>2 DEF St!SoftDelete, St!User
      <4> QED
        BY <4>1
    <3> QED
      BY <1>7, <3>1, <3>2
  <2>3. /\ request'.step \in {"delete", "revoke"} /\ request'.who = request.who
        /\ UNCHANGED abandoned
    <3>1. /\ UNCHANGED abandoned
          /\ \/ request' = [request EXCEPT !.step = "delete"]
             \/ request' = [request EXCEPT !.step = "revoke"]
      BY <1>7 DEF St!Deactivate, St!SoftDelete
    <3>2. \A step \in {"delete", "revoke"} :
            /\ [request EXCEPT !.step = step].step = step
            /\ [request EXCEPT !.step = step].who = request.who
      BY <1>c, StaffRequestGoesOn
    <3> QED
      BY <3>1, <3>2
  <2>4. St!ActiveSuperAdmins \ {request.who} \subseteq St!ActiveSuperAdmins' \ {request.who}
    BY <1>m, <2>2
  <2> QED
    BY <2>1, <2>3, <2>4 DEF StaffKept
<1>13. CASE St!revokePendingForEmail \/ St!RequestDies
  <2>1. request'.step = "idle" /\ UNCHANGED <<users, abandoned>>
    BY <1>13 DEF St!revokePendingForEmail, St!RequestDies, St!NoRequest
  <2>2. St!ActiveSuperAdmins' = St!ActiveSuperAdmins
    BY <1>m, <2>1
  <2> QED
    BY <2>1, <2>2 DEF StaffKept
<1>8. ASSUME NEW actor \in Staffers, NEW i \in St!Ids,
             \/ St!revoke(actor, i) \/ St!resend(actor, i)
             \/ St!SaveInvitation(i) \/ St!MarkAccepted(i) \/ St!HandlerDies(i)
      PROVE  StaffKept'
  <2>1. UNCHANGED <<users, request, abandoned>>
    BY <1>8 DEF St!revoke, St!resend, St!SaveInvitation, St!MarkAccepted, St!HandlerDies
  <2> QED
    BY <1>m, <2>1, StaffKeptGrows
<1>9. ASSUME NEW a \in AdminAccounts, St!UserCreated(a)
      PROVE  StaffKept'
  <2> DEFINE p == StafferOf[a]
  <2>1. PICK i \in St!PendingOf(p) :
          /\ users' = St!createOrUpdateFromClerk(a, invitations[i].role)
          /\ abandoned' = (abandoned \/ (p \in St!ActiveSuperAdmins
                                          /\ invitations[i].role # "SUPER_ADMIN"))
    BY <1>9 DEF St!UserCreated
  <2>2. p \in Staffers /\ UNCHANGED request /\ (abandoned => abandoned')
    BY <1>9, <2>1 DEF St!UserCreated
  <2>3. \A q \in Staffers : q # p => users'[q] = users[q]
    BY <1>c, <2>1, <2>2 DEF St!createOrUpdateFromClerk
  <2>4. ASSUME ~ abandoned', Super(users[p])
        PROVE  Super(users'[p])
    <3>1. invitations[i].role = "SUPER_ADMIN"
      BY <1>m, <2>1, <2>2, <2>4
    <3>2. users[p].clerkId = a
      BY <1>9, <2>4 DEF St!UserCreated, St!NoConflict
    <3>3. users'[p] = [users[p] EXCEPT !.role = "SUPER_ADMIN"]
      BY <1>c, <2>1, <2>2, <3>1, <3>2 DEF St!createOrUpdateFromClerk
    <3> QED
      BY <1>c, <2>2, <2>4, <3>3 DEF St!User
  <2>5. abandoned' \/ St!ActiveSuperAdmins \subseteq St!ActiveSuperAdmins'
    BY <1>m, <2>3, <2>4
  <2> QED
    BY <2>2, <2>5, StaffKeptGrows
<1>10. ASSUME NEW a \in AdminAccounts, St!UserUpdated(a)
       PROVE  StaffKept'
  <2>1. \A q \in Staffers : Super(users[q]) => users'[q] = users[q]
    BY <1>10, <1>c DEF St!UserUpdated, St!createOrUpdateFromClerk
  <2>2. St!ActiveSuperAdmins \subseteq St!ActiveSuperAdmins'
    BY <1>m, <2>1
  <2> QED
    BY <1>10, <2>2, StaffKeptGrows DEF St!UserUpdated
<1>11. ASSUME NEW a \in AdminAccounts, St!UserDeleted(a)
       PROVE  StaffKept'
  <2>1. \A q \in Staffers : q # StafferOf[a] => users'[q] = users[q]
    BY <1>11, <1>c DEF St!UserDeleted
  <2>2. /\ UNCHANGED request
        /\ abandoned' = (abandoned \/ StafferOf[a] \in St!ActiveSuperAdmins)
    BY <1>11 DEF St!UserDeleted
  <2>3. abandoned' \/ St!ActiveSuperAdmins \subseteq St!ActiveSuperAdmins'
    BY <1>m, <2>1, <2>2
  <2> QED
    BY <2>2, <2>3, StaffKeptGrows
<1>12. ASSUME NEW a \in AdminAccounts,
              St!SignUp(a) \/ St!EditProfile(a) \/ St!DeleteAccount(a)
       PROVE  StaffKept'
  <2>1. UNCHANGED <<users, request, abandoned>>
    BY <1>12 DEF St!SignUp, St!EditProfile, St!DeleteAccount
  <2> QED
    BY <1>m, <2>1, StaffKeptGrows
<1> QED
  BY <1>1, <1>2, <1>3, <1>4, <1>5, <1>6, <1>7, <1>8, <1>9, <1>10, <1>11, <1>12, <1>13
  DEF St!Next

-----------------------------------------------------------------------------
(* Clients *)

ClientTypes ==
  /\ clients \in [Customers -> Cl!Client]
  /\ storeClerk \in [StoreAccounts -> {"none", "live", "gone"}]
  /\ storeSent \subseteq Cl!Event
  /\ provisioning \subseteq StoreAccounts /\ mirrored \subseteq StoreAccounts
  /\ member \in [Invitees -> {"none", "awaiting", "approved", "rejected"}]
  /\ invited \subseteq Customers /\ unlocked \subseteq Customers
  /\ \A p \in Customers : clients[p].adminInvitePending => clients[p].clerkId \in StoreAccounts

(* Once its two writes are over, the row of a provisioned customer is there *)
(* to stay, so no later webhook or login can write another, and it opens    *)
(* only with the member's approval.                                         *)
Gated(a) ==
  \/ a \in provisioning
  \/ CustomerOf[a] \in unlocked
  \/ /\ clients[CustomerOf[a]].state # "none"
     /\ Cl!LetIn(a) => member[CustomerOf[a]] = "approved"

ClientGated == \A a \in mirrored : CustomerOf[a] \in Invitees /\ Gated(a)

ClientInv == ClientTypes /\ ClientGated

(***************************************************************************)
(* A row changed in some columns, and no more pending than it was.         *)
(***************************************************************************)
LEMMA ClientRowChanged ==
  ASSUME ClientTypes, NEW p \in Customers, NEW row \in Cl!Client,
         clients' = [clients EXCEPT ![p] = row],
         row.clerkId = clients[p].clerkId,
         row.adminInvitePending => clients[p].adminInvitePending
  PROVE  /\ clients' \in [Customers -> Cl!Client]
         /\ \A q \in Customers :
              clients'[q].adminInvitePending => clients'[q].clerkId \in StoreAccounts
         /\ clients'[p] = row /\ \A q \in Customers : q # p => clients'[q] = clients[q]
BY DEF ClientTypes

(***************************************************************************)
(* A shop without customers.                                               *)
(***************************************************************************)
LEMMA ClientInitInv ==
  ASSUME Cl!Init
  PROVE  ClientInv
<1>1. Cl!NoClient \in Cl!Client
  BY DEF Cl!NoClient, Cl!Client
<1> QED
  BY <1>1 DEF Cl!Init, ClientInv, ClientTypes, ClientGated, Cl!NoClient

(***************************************************************************)
(* Every operation keeps the tables typed.                                 *)
(***************************************************************************)
LEMMA ClientTypesStep ==
  ASSUME ClientTypes, Cl!Next
  PROVE  ClientTypes'
<1> USE ClientsAssumption
<1>a. \A a \in StoreAccounts, open \in BOOLEAN :
        [state |-> "live", clerkId |-> a, isActive |-> open, adminInvitePending |-> ~ open]
          \in Cl!Client
  BY DEF Cl!Client
<1>b. ASSUME NEW a \in StoreAccounts, NEW open \in BOOLEAN,
             clients' = [clients EXCEPT ![CustomerOf[a]] =
               [state |-> "live", clerkId |-> a, isActive |-> open,
                adminInvitePending |-> ~ open]]
      PROVE  /\ clients' \in [Customers -> Cl!Client]
             /\ \A p \in Customers :
                  clients'[p].adminInvitePending => clients'[p].clerkId \in StoreAccounts
  BY <1>a, <1>b DEF ClientTypes
<1>c. \A a \in StoreAccounts, e \in {"user.created", "user.updated", "user.deleted"} :
        storeSent \cup {<<e, a>>} \subseteq Cl!Event
  BY DEF ClientTypes, Cl!Event
<1>1. ASSUME NEW a \in StoreAccounts,
             Cl!Create(a) \/ Cl!UserCreatedOrUpdated(a) \/ Cl!Login(a)
      PROVE  ClientTypes'
  <2>1. clients' = [clients EXCEPT ![CustomerOf[a]] =
          [state |-> "live", clerkId |-> a, isActive |-> TRUE, adminInvitePending |-> ~ TRUE]]
    BY <1>1 DEF Cl!Create, Cl!UserCreatedOrUpdated, Cl!Login, Cl!recuperarDesdeClerk,
         Cl!createOrUpdateFromClerk
  <2>2. /\ UNCHANGED <<storeClerk, storeSent, provisioning, member, invited, mirrored>>
        /\ unlocked' \in {unlocked, unlocked \cup {CustomerOf[a]}}
    BY <1>1 DEF Cl!Create, Cl!UserCreatedOrUpdated, Cl!Login
  <2> QED
    BY <1>b, <2>1, <2>2 DEF ClientTypes
<1>2. ASSUME NEW a \in StoreAccounts, Cl!SaveMirror(a)
      PROVE  ClientTypes'
  <2>1. clients' = [clients EXCEPT ![CustomerOf[a]] =
          [state |-> "live", clerkId |-> a, isActive |-> FALSE, adminInvitePending |-> ~ FALSE]]
    BY <1>2 DEF Cl!SaveMirror
  <2> QED
    BY <1>2, <1>b, <2>1 DEF ClientTypes, Cl!SaveMirror
<1>3. ASSUME NEW a \in StoreAccounts, Cl!UserDeleted(a)
      PROVE  ClientTypes'
  BY <1>3 DEF ClientTypes, Cl!UserDeleted, Cl!Client
<1>4. ASSUME NEW a \in StoreAccounts,
             \/ Cl!CreateUser(a) \/ Cl!MirrorFails(a)
             \/ Cl!SignUp(a) \/ Cl!EditProfile(a) \/ Cl!DeleteAccount(a)
      PROVE  ClientTypes'
  <2>1. /\ storeClerk' \in [StoreAccounts -> {"none", "live", "gone"}]
        /\ storeSent' \subseteq Cl!Event
    BY <1>4, <1>c
    DEF Cl!CreateUser, Cl!MirrorFails, Cl!SignUp, Cl!EditProfile, Cl!DeleteAccount, ClientTypes
  <2> QED
    BY <1>4, <2>1
    DEF Cl!CreateUser, Cl!MirrorFails, Cl!SignUp, Cl!EditProfile, Cl!DeleteAccount, ClientTypes
<1>5. ASSUME NEW p \in Customers, NEW isActive \in BOOLEAN,
             Cl!Remove(p) \/ Cl!Update(p, isActive)
      PROVE  ClientTypes'
  <2>1. CASE Cl!Remove(p)
    <3> DEFINE row == [clients[p] EXCEPT !.state = "deleted"]
    <3>1. /\ row \in Cl!Client /\ row.clerkId = clients[p].clerkId
          /\ row.adminInvitePending => clients[p].adminInvitePending
      BY DEF ClientTypes, Cl!Client
    <3>2. clients' = [clients EXCEPT ![p] = row]
      BY <2>1 DEF Cl!Remove
    <3> HIDE DEF row
    <3> QED
      BY <2>1, <3>1, <3>2, ClientRowChanged DEF Cl!Remove, ClientTypes
  <2>2. CASE Cl!Update(p, isActive)
    <3> DEFINE row == [clients[p] EXCEPT !.isActive = isActive]
    <3>1. /\ row \in Cl!Client /\ row.clerkId = clients[p].clerkId
          /\ row.adminInvitePending => clients[p].adminInvitePending
      BY DEF ClientTypes, Cl!Client
    <3>2. clients' = [clients EXCEPT ![p] = row] /\ unlocked' \subseteq Customers
      BY <2>2 DEF Cl!Update, ClientTypes
    <3> HIDE DEF row
    <3> QED
      BY <2>2, <3>1, <3>2, ClientRowChanged DEF Cl!Update, ClientTypes
  <2> QED
    BY <1>5, <2>1, <2>2
<1>6. ASSUME NEW p \in Customers, Cl!Invite(p) \/ Cl!Revocar(p)
      PROVE  ClientTypes'
  BY <1>6 DEF Cl!Invite, Cl!Revocar, ClientTypes
<1>7. ASSUME NEW p \in Invitees, Cl!Join(p)
      PROVE  ClientTypes'
  BY <1>7 DEF Cl!Join, ClientTypes
<1>8. ASSUME NEW p \in Invitees, Cl!ActivateForEmail(p)
      PROVE  ClientTypes'
  <2> DEFINE row == [clients[p] EXCEPT !.isActive = TRUE, !.adminInvitePending = FALSE]
  <2>1. p \in Customers /\ (UNCHANGED clients \/ clients' = [clients EXCEPT ![p] = row])
    BY <1>8 DEF Cl!ActivateForEmail
  <2>2. /\ row \in Cl!Client /\ row.clerkId = clients[p].clerkId
        /\ row.adminInvitePending => clients[p].adminInvitePending
    <3>1. clients[p] \in Cl!Client
      BY <2>1 DEF ClientTypes
    <3>2. row.clerkId = clients[p].clerkId /\ row.adminInvitePending = FALSE
      BY <3>1 DEF Cl!Client
    <3>3. row \in Cl!Client
      BY <3>1 DEF Cl!Client
    <3> QED
      BY <3>2, <3>3
  <2>3. member' \in [Invitees -> {"none", "awaiting", "approved", "rejected"}]
    BY <1>8 DEF Cl!ActivateForEmail, ClientTypes
  <2> HIDE DEF row
  <2> QED
    BY <1>8, <2>1, <2>2, <2>3, ClientRowChanged DEF Cl!ActivateForEmail, ClientTypes
<1>9. ASSUME NEW p \in Invitees, NEW deleted \in BOOLEAN, Cl!RevokeForEmail(p, deleted)
      PROVE  ClientTypes'
  <2>1. CASE ~ Cl!findPendingByEmail(p)
    BY <1>9, <2>1 DEF Cl!RevokeForEmail, ClientTypes
  <2>2. CASE Cl!findPendingByEmail(p)
    <3> DEFINE a == clients[p].clerkId
    <3>1. a \in StoreAccounts /\ p \in Customers
      BY <2>2 DEF ClientTypes, Cl!findPendingByEmail
    <3>2. /\ clients' = [clients EXCEPT ![p].state = "deleted"]
          /\ member' = [member EXCEPT ![p] = "rejected"]
          /\ \/ /\ storeClerk' = [storeClerk EXCEPT ![a] = "gone"]
                /\ storeSent' = storeSent \cup {<<"user.deleted", a>>}
             \/ UNCHANGED <<storeClerk, storeSent>>
          /\ UNCHANGED <<provisioning, invited, mirrored, unlocked>>
      BY <1>9, <2>2 DEF Cl!RevokeForEmail
    <3>3. /\ clients' \in [Customers -> Cl!Client]
          /\ \A q \in Customers : /\ clients'[q].clerkId = clients[q].clerkId
                                  /\ clients'[q].adminInvitePending = clients[q].adminInvitePending
      BY <3>1, <3>2 DEF ClientTypes, Cl!Client
    <3>4. /\ storeClerk' \in [StoreAccounts -> {"none", "live", "gone"}]
          /\ storeSent' \subseteq Cl!Event
      BY <1>c, <3>1, <3>2 DEF ClientTypes
    <3> QED
      BY <3>2, <3>3, <3>4 DEF ClientTypes
  <2> QED
    BY <2>1, <2>2
<1> QED
  BY <1>1, <1>2, <1>3, <1>4, <1>5, <1>6, <1>7, <1>8, <1>9 DEF Cl!Next

(***************************************************************************)
(* Every operation keeps the provisioned customers gated.                  *)
(***************************************************************************)
LEMMA ClientGatedStep ==
  ASSUME ClientTypes, ClientGated, Cl!Next
  PROVE  ClientGated'
<1> USE ClientsAssumption
<1>a. clients \in [Customers -> Cl!Client]
  BY DEF ClientTypes
<1>m. /\ \A a \in StoreAccounts :
           /\ CustomerOf[a] \in Customers
           /\ Cl!LetIn(a) <=> /\ clients[CustomerOf[a]].clerkId = a
                              /\ clients[CustomerOf[a]].state = "live"
                              /\ clients[CustomerOf[a]].isActive
           /\ Cl!LetIn(a)' <=> /\ clients'[CustomerOf[a]].clerkId = a
                               /\ clients'[CustomerOf[a]].state = "live"
                               /\ clients'[CustomerOf[a]].isActive
      /\ mirrored \subseteq StoreAccounts
  BY DEF Cl!LetIn, Cl!HasRow, ClientTypes
<1> USE DEF ClientGated, Gated
<1>1. ASSUME NEW a \in StoreAccounts,
             Cl!Create(a) \/ Cl!UserCreatedOrUpdated(a) \/ Cl!Login(a)
      PROVE  ClientGated'
  <2>1. /\ clients[CustomerOf[a]].state = "none"
        /\ clients' = [clients EXCEPT ![CustomerOf[a]] =
             [state |-> "live", clerkId |-> a, isActive |-> TRUE, adminInvitePending |-> FALSE]]
    BY <1>1 DEF Cl!Create, Cl!UserCreatedOrUpdated, Cl!Login, Cl!recuperarDesdeClerk,
         Cl!createOrUpdateFromClerk, Cl!guardDuplicateEmail
  <2>2. UNCHANGED <<provisioning, member, mirrored>> /\ unlocked \subseteq unlocked'
    BY <1>1 DEF Cl!Create, Cl!UserCreatedOrUpdated, Cl!Login
  <2>3. \A b \in StoreAccounts :
          CustomerOf[b] # CustomerOf[a] => clients'[CustomerOf[b]] = clients[CustomerOf[b]]
    BY <1>a, <1>m, <2>1
  <2> QED
    BY <1>m, <2>1, <2>2, <2>3
<1>2. ASSUME NEW a \in StoreAccounts, Cl!SaveMirror(a)
      PROVE  ClientGated'
  <2>1. \A b \in StoreAccounts :
          clients'[CustomerOf[b]] =
            IF CustomerOf[b] = CustomerOf[a]
            THEN [state |-> "live", clerkId |-> a, isActive |-> FALSE, adminInvitePending |-> TRUE]
            ELSE clients[CustomerOf[b]]
    BY <1>2, <1>a, <1>m DEF Cl!SaveMirror
  <2>2. provisioning' = provisioning \ {a} /\ UNCHANGED <<member, mirrored, unlocked>>
    BY <1>2 DEF Cl!SaveMirror
  <2> QED
    BY <1>m, <2>1, <2>2
<1>3. ASSUME NEW p \in Customers, NEW isActive \in BOOLEAN,
             Cl!Remove(p) \/ Cl!Update(p, isActive)
               \/ \E a \in StoreAccounts : CustomerOf[a] = p /\ Cl!UserDeleted(a)
      PROVE  ClientGated'
  <2>1. UNCHANGED <<provisioning, member, mirrored>> /\ unlocked \subseteq unlocked'
    BY <1>3 DEF Cl!Remove, Cl!Update, Cl!UserDeleted
  <2>2. \A q \in Customers : q # p => clients'[q] = clients[q]
    BY <1>3, <1>a DEF Cl!Remove, Cl!Update, Cl!UserDeleted
  <2>3. CASE Cl!Update(p, isActive)
    <3>1. /\ clients'[p].state = "live" /\ clients'[p].isActive = isActive
          /\ isActive => p \in unlocked'
      BY <1>a, <2>3 DEF Cl!Update, Cl!Client
    <3> QED
      BY <1>m, <2>1, <2>2, <3>1
  <2>4. CASE ~ Cl!Update(p, isActive)
    <3>1. clients' = [clients EXCEPT ![p].state = "deleted"]
      BY <1>3, <2>4 DEF Cl!Remove, Cl!UserDeleted
    <3>2. clients'[p].state = "deleted"
      BY <1>a, <3>1 DEF Cl!Client
    <3> QED
      BY <1>m, <2>1, <2>2, <3>2
  <2> QED
    BY <2>3, <2>4
<1>4. ASSUME NEW a \in StoreAccounts,
             \/ Cl!CreateUser(a) \/ Cl!MirrorFails(a)
             \/ Cl!SignUp(a) \/ Cl!EditProfile(a) \/ Cl!DeleteAccount(a)
      PROVE  ClientGated'
  <2>1. \/ /\ provisioning' = provisioning \cup {a} /\ mirrored' = mirrored \cup {a}
           /\ CustomerOf[a] \in Invitees /\ UNCHANGED unlocked
        \/ /\ provisioning' = provisioning \ {a} /\ UNCHANGED mirrored
           /\ unlocked' = unlocked \cup {CustomerOf[a]}
        \/ UNCHANGED <<provisioning, mirrored, unlocked>>
    BY <1>4 DEF Cl!CreateUser, Cl!MirrorFails, Cl!SignUp, Cl!EditProfile, Cl!DeleteAccount
  <2>2. UNCHANGED <<clients, member>>
    BY <1>4 DEF Cl!CreateUser, Cl!MirrorFails, Cl!SignUp, Cl!EditProfile, Cl!DeleteAccount
  <2> QED
    BY <1>m, <2>1, <2>2
<1>5. ASSUME NEW p \in Customers, Cl!Invite(p) \/ Cl!Revocar(p)
      PROVE  ClientGated'
  <2>1. UNCHANGED <<clients, member, provisioning, mirrored, unlocked>>
    BY <1>5 DEF Cl!Invite, Cl!Revocar
  <2> QED
    BY <1>m, <2>1
<1>6. ASSUME NEW p \in Invitees, NEW deleted \in BOOLEAN,
             Cl!Join(p) \/ Cl!ActivateForEmail(p) \/ Cl!RevokeForEmail(p, deleted)
      PROVE  ClientGated'
  <2>1. UNCHANGED <<provisioning, mirrored, unlocked>>
    BY <1>6 DEF Cl!Join, Cl!ActivateForEmail, Cl!RevokeForEmail
  <2>2. /\ member[p] # "approved"
        /\ \A q \in Invitees \ {p} : member'[q] = member[q]
    BY <1>6 DEF Cl!Join, Cl!ActivateForEmail, Cl!RevokeForEmail, ClientTypes
  <2>3. \A q \in Customers \ {p} : clients'[q] = clients[q]
    BY <1>6, <1>a DEF Cl!Join, Cl!ActivateForEmail, Cl!RevokeForEmail
  <2>4. \/ member'[p] = "approved" /\ (clients[p].state # "none" => clients'[p].state # "none")
        \/ clients'[p] = clients[p]
        \/ clients'[p].state = "deleted"
    BY <1>6, <1>a DEF Cl!Join, Cl!ActivateForEmail, Cl!RevokeForEmail, ClientTypes, Cl!Client
  <2> QED
    BY <1>m, <2>1, <2>2, <2>3, <2>4
<1> QED
  BY <1>1, <1>2, <1>3, <1>4, <1>5, <1>6 DEF Cl!Next

-----------------------------------------------------------------------------
(* Addresses *)

AddressTypes == Ad!TypeOK

OneOf(S) == \E d \in S : S = {d}

(* What the one handler of the client knows at each statement: between a    *)
(* clearDefault and the write after it there is no default, elsewhere one,  *)
(* as long as there are addresses.                                          *)
AddressBook(r) ==
  LET h == at[r] IN
  /\ h.step = "idle" => h = Ad!Done /\ (Ad!Live = {} \/ OneOf(Ad!Defaults))
  /\ h.step = "clear" => h.isDefault /\ (h.id # 0 => h.id \in Ad!Live)
  /\ h.step = "insert" => IF h.isDefault THEN Ad!Defaults = {} ELSE OneOf(Ad!Defaults)
  /\ h.step = "save" => /\ h.id \in Ad!Live
                        /\ \/ h.isDefault /\ Ad!Defaults = {}
                           \/ (h.isDefault <=> book[h.id].isDefault) /\ OneOf(Ad!Defaults)
  /\ h.step = "softDelete" => /\ h.id \in Ad!Live
                              /\ h.isDefault <=> book[h.id].isDefault
                              /\ OneOf(Ad!Defaults)
  /\ h.step = "survivor" => Ad!Defaults = {}
  /\ h.step = "promote" => h.id \in Ad!Live /\ Ad!Defaults = {}

(***************************************************************************)
(* The first unused id is one of them.                                     *)
(***************************************************************************)
LEMMA LeastId ==
  ASSUME NEW S \in SUBSET Ad!Ids, S # {}
  PROVE  Ad!Min(S) \in S
<1>1. S \subseteq Nat
  BY AddressesAssumption DEF Ad!Ids
<1>2. \E x \in S : \A y \in S : x <= y
  <2>1. PICK x \in S : \A y \in S : ~ (<<y, x>> \in OpToRel(<, Nat))
    BY <1>1, WFMin, NatLessThanWellFounded
  <2>2. \A y \in S : ~ (y < x)
    BY <1>1, <2>1 DEF OpToRel
  <2> QED
    BY <1>1, <2>2
<1> QED
  BY <1>2 DEF Ad!Min

(***************************************************************************)
(* The latest address, which inherits the default, is one of the survivors. *)
(***************************************************************************)
LEMMA GreatestId ==
  ASSUME NEW S \in SUBSET Ad!Ids, S # {}
  PROVE  Ad!Max(S) \in S
<1> DEFINE T == {MaxCreated - x : x \in S}
<1>1. S \subseteq Nat /\ T \subseteq Nat /\ T # {}
  <2>1. \A x \in S : x \in Nat /\ MaxCreated - x \in Nat
    BY AddressesAssumption DEF Ad!Ids
  <2> QED
    BY <2>1
<1>2. \E x \in S : \A y \in S : x >= y
  <2>1. PICK t \in T : \A u \in T : ~ (<<u, t>> \in OpToRel(<, Nat))
    BY <1>1, WFMin, NatLessThanWellFounded
  <2>2. PICK x \in S : t = MaxCreated - x
    OBVIOUS
  <2>3. ASSUME NEW y \in S PROVE x >= y
    <3>1. MaxCreated - y \in T /\ ~ (MaxCreated - y < MaxCreated - x)
      BY <1>1, <2>1, <2>2 DEF OpToRel
    <3> QED
      BY <1>1, <3>1, AddressesAssumption
  <2> QED
    BY <2>3
<1> QED
  BY <1>2 DEF Ad!Max

(***************************************************************************)
(* A client without addresses.                                             *)
(***************************************************************************)
LEMMA AddressInitTypes ==
  ASSUME Ad!Init
  PROVE  AddressTypes
BY DEF Ad!Init, AddressTypes, Ad!TypeOK, Ad!ClientAddress, Ad!Done, Ad!Handler

(***************************************************************************)
(* The address book stays typed, whatever overlaps.                        *)
(***************************************************************************)
LEMMA AddressTypesStep ==
  ASSUME AddressTypes, Ad!Next
  PROVE  AddressTypes'
<1> PICK r \in BookRequests :
      \/ \E wanted \in BOOLEAN : Ad!Create(r, wanted)
      \/ \E i \in Ad!Ids : Ad!Update(r, i) \/ Ad!SetDefault(r, i) \/ Ad!Remove(r, i)
      \/ Ad!ClearDefault(r) \/ Ad!Insert(r) \/ Ad!Save(r)
      \/ Ad!SoftDelete(r) \/ Ad!FindSurvivor(r) \/ Ad!Promote(r)
  BY DEF Ad!Next
<1> USE DEF AddressTypes, Ad!TypeOK
<1>a. \A step \in {"idle", "clear", "insert", "save", "softDelete", "survivor", "promote"},
         id \in Ad!Ids \cup {0}, isDefault \in BOOLEAN :
        Ad!Go(r, step, id, isDefault) => at' \in [BookRequests -> Ad!Handler]
  BY DEF Ad!Go, Ad!Handler
<1>b. at[r].id \in Ad!Ids \cup {0} /\ at[r].isDefault \in BOOLEAN
  BY DEF Ad!Handler
<1>c. \A i \in Ad!Ids : book[i].isDefault \in BOOLEAN
  BY DEF Ad!ClientAddress
<1>1. ASSUME NEW wanted \in BOOLEAN, Ad!Create(r, wanted)
      PROVE  AddressTypes'
  <2>1. Ad!FirstIsDefault(wanted) \in BOOLEAN
    BY DEF Ad!FirstIsDefault
  <2> QED
    BY <1>1, <1>a, <2>1 DEF Ad!Create
<1>2. ASSUME NEW i \in Ad!Ids, Ad!Update(r, i) \/ Ad!SetDefault(r, i) \/ Ad!Remove(r, i)
      PROVE  AddressTypes'
  BY <1>2, <1>a, <1>c DEF Ad!Update, Ad!SetDefault, Ad!Remove
<1>3. CASE Ad!ClearDefault(r)
  <2>1. book' \in [Ad!Ids -> Ad!ClientAddress]
    BY <1>3 DEF Ad!ClearDefault, Ad!ClientAddress
  <2> QED
    BY <1>3, <1>a, <1>b, <2>1 DEF Ad!ClearDefault
<1>4. CASE Ad!Insert(r)
  <2>1. book' \in [Ad!Ids -> Ad!ClientAddress]
    BY <1>4, <1>b DEF Ad!Insert, Ad!ClientAddress
  <2> QED
    BY <1>4, <1>a, <2>1 DEF Ad!Insert
<1>5. CASE Ad!Save(r)
  <2>1. book' \in [Ad!Ids -> Ad!ClientAddress]
    BY <1>5, <1>b DEF Ad!Save, Ad!ClientAddress
  <2> QED
    BY <1>5, <1>a, <2>1 DEF Ad!Save
<1>6. CASE Ad!SoftDelete(r)
  <2>1. book' \in [Ad!Ids -> Ad!ClientAddress]
    BY <1>6, <1>b DEF Ad!SoftDelete, Ad!ClientAddress
  <2> QED
    BY <1>6, <1>a, <2>1 DEF Ad!SoftDelete
<1>7. CASE Ad!FindSurvivor(r)
  <2>1. Ad!Live # {} => Ad!Max(Ad!Live) \in Ad!Ids
    BY GreatestId DEF Ad!Live
  <2> QED
    BY <1>7, <1>a, <2>1 DEF Ad!FindSurvivor
<1>8. CASE Ad!Promote(r)
  <2>1. book' \in [Ad!Ids -> Ad!ClientAddress]
    BY <1>8, <1>b DEF Ad!Promote, Ad!ClientAddress
  <2> QED
    BY <1>8, <1>a, <2>1 DEF Ad!Promote
<1> QED
  BY <1>1, <1>2, <1>3, <1>4, <1>5, <1>6, <1>7, <1>8

(***************************************************************************)
(* A handler alone with the book keeps what it knows at each statement.    *)
(***************************************************************************)
LEMMA AddressBookStep ==
  ASSUME AddressTypes, NEW r, BookRequests = {r}, AddressBook(r), Ad!Next
  PROVE  AddressBook(r)'
<1>a. /\ book \in [Ad!Ids -> Ad!ClientAddress] /\ at \in [{r} -> Ad!Handler]
      /\ at[r] \in Ad!Handler
  BY DEF AddressTypes, Ad!TypeOK
<1>b. \A step, id, isDefault :
        Ad!Go(r, step, id, isDefault) =>
          at'[r] = [step |-> step, id |-> id, isDefault |-> isDefault]
  BY <1>a DEF Ad!Go
<1>c. /\ Ad!Live = {i \in Ad!Ids : book[i].state = "live"}
      /\ Ad!Live' = {i \in Ad!Ids : book'[i].state = "live"}
      /\ Ad!Defaults = {i \in Ad!Live : book[i].isDefault}
      /\ Ad!Defaults' = {i \in Ad!Live' : book'[i].isDefault}
      /\ 0 \notin Ad!Ids
  BY DEF Ad!Live, Ad!Defaults, Ad!Ids
<1>1. ASSUME NEW wanted \in BOOLEAN, Ad!Create(r, wanted)
      PROVE  AddressBook(r)'
  <2>1. at[r].step = "idle" /\ UNCHANGED book
    BY <1>1 DEF Ad!Create, Ad!Done
  <2>2. Ad!Live' = Ad!Live /\ Ad!Defaults' = Ad!Defaults
    BY <1>c, <2>1
  <2>3. Ad!Live = {} => Ad!Defaults = {}
    BY <1>c
  <2>4. \/ at'[r] = [step |-> "clear", id |-> 0, isDefault |-> TRUE]
        \/ /\ at'[r] = [step |-> "insert", id |-> 0, isDefault |-> Ad!FirstIsDefault(wanted)]
           /\ Ad!FirstIsDefault(wanted) => Ad!Live = {}
           /\ ~ Ad!FirstIsDefault(wanted) => Ad!Live # {}
    BY <1>1, <1>b DEF Ad!Create, Ad!FirstIsDefault
  <2> QED
    BY <2>1, <2>2, <2>3, <2>4 DEF AddressBook
<1>2. ASSUME NEW i \in Ad!Ids, Ad!Update(r, i) \/ Ad!SetDefault(r, i) \/ Ad!Remove(r, i)
      PROVE  AddressBook(r)'
  <2>1. /\ at[r] = Ad!Done /\ i \in Ad!Live /\ UNCHANGED book
        /\ \/ Ad!Go(r, "save", i, book[i].isDefault)
           \/ Ad!Go(r, "clear", i, TRUE)
           \/ Ad!Go(r, "softDelete", i, book[i].isDefault)
    BY <1>2 DEF Ad!Update, Ad!SetDefault, Ad!Remove
  <2>2. at[r].step = "idle"
    BY <2>1 DEF Ad!Done
  <2>3. Ad!Live' = Ad!Live /\ Ad!Defaults' = Ad!Defaults /\ OneOf(Ad!Defaults)
    BY <1>c, <2>1, <2>2 DEF AddressBook
  <2>4. /\ at'[r].id = i /\ at'[r].step \in {"save", "clear", "softDelete"}
        /\ at'[r].step = "clear" => at'[r].isDefault = TRUE
        /\ at'[r].step # "clear" => at'[r].isDefault = book[i].isDefault
    BY <2>1, <1>a DEF Ad!Go
  <2> QED
    BY <2>1, <2>3, <2>4 DEF AddressBook
<1>3. CASE Ad!ClearDefault(r)
  <2>1. at[r].step = "clear" /\ at[r].isDefault
    BY <1>3 DEF Ad!ClearDefault, AddressBook
  <2>2. \A i \in Ad!Ids : book'[i].state = book[i].state /\ book'[i].isDefault = FALSE
    BY <1>3, <1>a DEF Ad!ClearDefault, Ad!ClientAddress
  <2>3. Ad!Live' = Ad!Live /\ Ad!Defaults' = {}
    BY <1>c, <2>2
  <2>4. /\ at'[r].step = IF at[r].id = 0 THEN "insert" ELSE "save"
        /\ at'[r].id = at[r].id /\ at'[r].isDefault = TRUE
    BY <1>3, <1>a DEF Ad!ClearDefault, Ad!Go
  <2> QED
    BY <2>1, <2>3, <2>4 DEF AddressBook
<1>4. CASE Ad!Insert(r)
  <2> DEFINE n == Ad!Min(Ad!Unused)
  <2>1. at[r].step = "insert" /\ n \in Ad!Ids /\ book[n].state = "none"
    BY <1>4, LeastId DEF Ad!Insert, Ad!Unused
  <2>2. \A i \in Ad!Ids : book'[i] = IF i = n THEN [state |-> "live", isDefault |-> at[r].isDefault]
                                     ELSE book[i]
    BY <1>4, <1>a DEF Ad!Insert
  <2>3. n \notin Ad!Live /\ n \in Ad!Live'
    BY <1>c, <2>1, <2>2
  <2>4. Ad!Defaults' = IF at[r].isDefault THEN Ad!Defaults \cup {n} ELSE Ad!Defaults
    <3> HIDE DEF n
    <3> QED
      BY <1>a, <1>c, <2>1, <2>2, <2>3 DEF Ad!Handler
  <2>5. at'[r] = Ad!Done
    BY <1>4, <1>b DEF Ad!Insert, Ad!Done
  <2>6. OneOf(Ad!Defaults')
    BY <2>1, <2>4 DEF AddressBook, OneOf
  <2> QED
    BY <2>5, <2>6 DEF AddressBook, Ad!Done, OneOf
<1>5. CASE Ad!Save(r)
  <2> DEFINE n == at[r].id
  <2>1. /\ at[r].step = "save" /\ n \in Ad!Live
        /\ \/ at[r].isDefault /\ Ad!Defaults = {}
           \/ (at[r].isDefault <=> book[n].isDefault) /\ OneOf(Ad!Defaults)
    BY <1>5 DEF Ad!Save, AddressBook
  <2>2. \A i \in Ad!Ids : /\ book'[i].state = book[i].state
                          /\ i # n => book'[i] = book[i]
                          /\ i = n => book'[i].isDefault = at[r].isDefault
    BY <1>5, <1>a DEF Ad!Save, Ad!ClientAddress
  <2>3. /\ Ad!Live' = Ad!Live
        /\ \/ Ad!Defaults = {} /\ Ad!Defaults' = {n}
           \/ Ad!Defaults' = Ad!Defaults /\ OneOf(Ad!Defaults)
    <3> HIDE DEF n
    <3> QED
      BY <1>c, <2>1, <2>2
  <2>4. at'[r] = Ad!Done
    BY <1>5, <1>b DEF Ad!Save, Ad!Done
  <2> QED
    BY <2>3, <2>4 DEF AddressBook, Ad!Done, OneOf
<1>6. CASE Ad!SoftDelete(r)
  <2> DEFINE n == at[r].id
  <2>1. /\ at[r].step = "softDelete" /\ n \in Ad!Live
        /\ at[r].isDefault <=> book[n].isDefault
        /\ OneOf(Ad!Defaults)
    BY <1>6 DEF Ad!SoftDelete, AddressBook
  <2>2. \A i \in Ad!Ids : /\ i # n => book'[i] = book[i]
                          /\ i = n => book'[i].state = "deleted"
    BY <1>6, <1>a DEF Ad!SoftDelete, Ad!ClientAddress
  <2>3. Ad!Defaults' = Ad!Defaults \ {n}
    <3> HIDE DEF n
    <3> QED
      BY <1>c, <2>1, <2>2
  <2>4. CASE at[r].isDefault
    <3>1. n \in Ad!Defaults
      BY <1>c, <2>1, <2>4
    <3>2. Ad!Defaults' = {}
      BY <2>1, <2>3, <3>1 DEF OneOf
    <3>3. at'[r].step = "survivor"
      BY <1>6, <1>a, <2>4 DEF Ad!SoftDelete, Ad!Go
    <3> QED
      BY <3>2, <3>3 DEF AddressBook
  <2>5. CASE ~ at[r].isDefault
    <3>1. n \notin Ad!Defaults
      BY <1>c, <2>1, <2>5
    <3>2. OneOf(Ad!Defaults')
      BY <2>1, <2>3, <3>1 DEF OneOf
    <3>3. at'[r] = Ad!Done
      BY <1>6, <1>b, <2>5 DEF Ad!SoftDelete, Ad!Done
    <3> QED
      BY <3>2, <3>3 DEF AddressBook, Ad!Done, OneOf
  <2> QED
    BY <2>4, <2>5
<1>7. CASE Ad!FindSurvivor(r)
  <2>1. at[r].step = "survivor" /\ UNCHANGED book /\ Ad!Defaults = {}
    BY <1>7 DEF Ad!FindSurvivor, AddressBook
  <2>2. Ad!Live' = Ad!Live /\ Ad!Defaults' = {}
    BY <1>c, <2>1
  <2>3. CASE Ad!Live = {}
    <3>1. Ad!Go(r, "idle", 0, FALSE)
      BY <1>7, <2>3 DEF Ad!FindSurvivor
    <3>2. at'[r] = Ad!Done
      BY <1>b, <3>1 DEF Ad!Done
    <3> QED
      BY <2>2, <2>3, <3>2 DEF AddressBook, Ad!Done
  <2>4. CASE Ad!Live # {}
    <3>1. Ad!Go(r, "promote", Ad!Max(Ad!Live), TRUE)
      BY <1>7, <2>4 DEF Ad!FindSurvivor
    <3>2. at'[r].step = "promote" /\ at'[r].id = Ad!Max(Ad!Live)
      BY <1>a, <3>1 DEF Ad!Go
    <3>3. Ad!Max(Ad!Live) \in Ad!Live
      BY <1>c, <2>4, GreatestId
    <3> QED
      BY <2>2, <3>2, <3>3 DEF AddressBook
  <2> QED
    BY <2>3, <2>4
<1>8. CASE Ad!Promote(r)
  <2> DEFINE n == at[r].id
  <2>1. at[r].step = "promote" /\ n \in Ad!Live /\ Ad!Defaults = {}
    BY <1>8 DEF Ad!Promote, AddressBook
  <2>2. \A i \in Ad!Ids : /\ book'[i].state = book[i].state
                          /\ i # n => book'[i] = book[i]
                          /\ i = n => book'[i].isDefault = TRUE
    BY <1>8, <1>a DEF Ad!Promote, Ad!ClientAddress
  <2>3. Ad!Defaults' = {n}
    <3> HIDE DEF n
    <3> QED
      BY <1>c, <2>1, <2>2
  <2>4. at'[r] = Ad!Done
    BY <1>8, <1>b DEF Ad!Promote, Ad!Done
  <2> QED
    BY <2>3, <2>4 DEF AddressBook, Ad!Done, OneOf
<1> QED
  BY <1>1, <1>2, <1>3, <1>4, <1>5, <1>6, <1>7, <1>8 DEF Ad!Next

(***************************************************************************)
(* What a handler that is done knows is that there is one default.         *)
(***************************************************************************)
LEMMA AddressBookOne ==
  ASSUME NEW r, BookRequests = {r}, AddressBook(r)
  PROVE  OneDefault
<1> SUFFICES ASSUME Ad!Quiet, Ad!Live # {} PROVE Ad!Cardinality(Ad!Defaults) = 1
  BY DEF OneDefault, Ad!OneDefault
<1>1. PICK d : Ad!Defaults = {d}
  BY DEF Ad!Quiet, AddressBook, Ad!Done, OneOf
<1>2. Cardinality({d}) = 1
  BY FS_Singleton
<1>3. Ad!Cardinality({d}) = Cardinality({d})
  BY Zenon DEF Cardinality, Ad!Cardinality
<1> QED
  BY <1>1, <1>2, <1>3

-----------------------------------------------------------------------------
(* Access *)

(* Whoever may work in a module may list and read it and what it leans on. *)
Complete(G) ==
  \A p \in G : p[2] \notin Ac!ACCIONES_DE_LECTURA =>
    \A m \in {p[1]} \cup (IF p[1] \in DOMAIN Ac!MODULOS_DE_APOYO
                          THEN Ac!MODULOS_DE_APOYO[p[1]] ELSE {}) :
      Ac!Offers({m}, Ac!ACCIONES_DE_LECTURA) \cap Ac!MODULE_ACTIONS \subseteq G

AccessEdit ==
  [step : {"idle", "ask", "wipe", "save", "unassign", "softDelete", "clear", "assign"},
   role : SUBSET Ac!RoleIds, to : SUBSET (Ac!RoleIds \cup Ac!MODULE_ACTIONS \cup UNION Requests),
   user : SUBSET Members]

Carries(q) ==
  /\ q.step \in {"clear", "assign"} => q.to \subseteq Ac!RoleIds
  /\ q.step \in {"idle", "wipe", "save", "unassign", "softDelete"} => q.to \subseteq Ac!MODULE_ACTIONS
  /\ q.step = "ask" => q.to \subseteq UNION Requests

AccessTypes ==
  /\ permissions \subseteq Ac!MODULE_ACTIONS
  /\ roles \in [Ac!RoleIds -> Ac!ManagedRole]
  /\ grants \in [Ac!RoleIds -> SUBSET Ac!MODULE_ACTIONS]
  /\ userRoles \in [Members -> SUBSET Ac!RoleIds]
  /\ process \in Ac!Boot
  /\ edit \in [Edits -> AccessEdit]
  /\ \A e \in Edits : Carries(edit[e])

(* Edits run only with the catalogue complete; what they carry is complete, *)
(* and so is what they find of a role whose old grants are gone.  A base    *)
(* role that is being seeded was never edited.                              *)
AccessGrants ==
  /\ process # "up" => \A e \in Edits : edit[e].step = "idle"
  /\ process \notin {"down", "permissions"} => permissions = Ac!MODULE_ACTIONS
  /\ \A r \in Ac!RoleIds :
       /\ roles[r].edited => Complete(grants[r])
       /\ roles[r].state = "none" => ~ roles[r].edited
       /\ r \in BaseKeys /\ process = r => ~ roles[r].edited
  /\ \A e \in Edits :
       /\ edit[e].step \in {"wipe", "save"} => Complete(edit[e].to)
       /\ edit[e].step = "save" => \A r \in edit[e].role : Complete(grants[r])

AccessInv == AccessTypes /\ AccessGrants

(***************************************************************************)
(* Two complete sets of permissions are complete together.                 *)
(***************************************************************************)
LEMMA CompleteUnion ==
  /\ Complete({})
  /\ \A G, H : Complete(G) /\ Complete(H) => Complete(G \cup H)
BY DEF Complete

(***************************************************************************)
(* What conLecturasImplicadas adds makes any request complete.             *)
(***************************************************************************)
LEMMA LecturasComplete ==
  ASSUME permissions = Ac!MODULE_ACTIONS, NEW asked
  PROVE  Complete(Ac!conLecturasImplicadas(asked))
<1> DEFINE L == Ac!ACCIONES_DE_LECTURA
           trabajan == {p[1] : p \in {x \in asked : x[2] \notin L}}
           touched == DOMAIN Ac!MODULOS_DE_APOYO \cap {p[1] : p \in asked}
           apoyo == UNION {Ac!MODULOS_DE_APOYO[m] : m \in touched}
           G == asked \cup {p \in permissions : p[1] \in trabajan \cup apoyo /\ p[2] \in L}
<1>1. Ac!conLecturasImplicadas(asked) = G
  BY DEF Ac!conLecturasImplicadas
<1>2. SUFFICES ASSUME NEW p \in G, p[2] \notin L,
                      NEW m \in {p[1]} \cup (IF p[1] \in DOMAIN Ac!MODULOS_DE_APOYO
                                             THEN Ac!MODULOS_DE_APOYO[p[1]] ELSE {}),
                      NEW q \in Ac!Offers({m}, L), q \in Ac!MODULE_ACTIONS
               PROVE  q \in G
  BY <1>1 DEF Complete
<1>3. p \in asked
  BY <1>2
<1>4. q[1] = m /\ q[2] \in L
  BY DEF Ac!Offers
<1>5. m \in trabajan \cup apoyo
  <2>1. CASE m = p[1]
    BY <1>2, <1>3, <2>1
  <2>2. CASE m # p[1]
    <3>1. p[1] \in touched /\ m \in Ac!MODULOS_DE_APOYO[p[1]]
      BY <1>3, <2>2
    <3> QED
      BY <3>1
  <2> QED
    BY <2>1, <2>2
<1> QED
  BY <1>2, <1>4, <1>5

(***************************************************************************)
(* An empty catalogue, or one from before a release: nobody has edited.    *)
(***************************************************************************)
LEMMA AccessInitInv ==
  ASSUME Ac!Init
  PROVE  AccessInv
<1>1. Ac!Idle \in AccessEdit /\ Carries(Ac!Idle) /\ Ac!Idle.step = "idle"
  BY DEF Ac!Idle, AccessEdit, Carries
<1>2. [state |-> "none", isActive |-> FALSE, edited |-> FALSE] \in Ac!ManagedRole
  BY DEF Ac!ManagedRole
<1>3. AccessTypes
  BY <1>1, <1>2 DEF Ac!Init, AccessTypes, Ac!Boot
<1>4. AccessGrants
  BY <1>1, AccessAssumption DEF Ac!Init, AccessGrants, Ac!RoleIds
<1> QED
  BY <1>3, <1>4 DEF AccessInv

(***************************************************************************)
(* A request moves to its next statement, or ends.                         *)
(***************************************************************************)
LEMMA EditMoves ==
  ASSUME AccessTypes, NEW e \in Edits, NEW q \in AccessEdit, Carries(q),
         edit' = [edit EXCEPT ![e] = q]
  PROVE  /\ edit' \in [Edits -> AccessEdit]
         /\ \A f \in Edits : Carries(edit'[f])
         /\ \A f \in Edits : edit'[f] = IF f = e THEN q ELSE edit[f]
<1>1. edit \in [Edits -> AccessEdit] /\ \A f \in Edits : Carries(edit[f])
  BY DEF AccessTypes
<1>2. \A f \in Edits : edit'[f] = IF f = e THEN q ELSE edit[f]
  BY <1>1
<1> QED
  BY <1>1, <1>2

(***************************************************************************)
(* What a request carries from one of its statements to the next.          *)
(***************************************************************************)
LEMMA EditTyped ==
  ASSUME AccessTypes, NEW e \in Edits
  PROVE  /\ Ac!Idle \in AccessEdit /\ Carries(Ac!Idle)
         /\ edit[e].step = "wipe" =>
              LET q == [edit[e] EXCEPT !.step = "save"]
              IN  q \in AccessEdit /\ Carries(q) /\ q.role = edit[e].role /\ q.to = edit[e].to
         /\ edit[e].step = "unassign" =>
              LET q == [edit[e] EXCEPT !.step = "softDelete"]
              IN  q \in AccessEdit /\ Carries(q)
         /\ edit[e].step = "clear" =>
              LET q == [edit[e] EXCEPT !.step = "assign"]
              IN  q \in AccessEdit /\ Carries(q)
BY DEF AccessTypes, AccessEdit, Carries, Ac!Idle

(***************************************************************************)
(* Every statement keeps the tables typed.                                 *)
(***************************************************************************)
LEMMA AccessTypesStep ==
  ASSUME AccessTypes, Ac!Next
  PROVE  AccessTypes'
<1> USE AccessAssumption
<1>a. BaseKeys \subseteq Ac!RoleIds /\ CustomRoles \subseteq Ac!RoleIds
  BY DEF Ac!RoleIds
<1>b. \A state \in {"none", "live", "deleted"}, x, y \in BOOLEAN :
        [state |-> state, isActive |-> x, edited |-> y] \in Ac!ManagedRole
  BY DEF Ac!ManagedRole
<1>c. \A q \in Ac!ManagedRole, b \in BOOLEAN :
        /\ [q EXCEPT !.isActive = b] \in Ac!ManagedRole
        /\ [q EXCEPT !.edited = b] \in Ac!ManagedRole
        /\ [q EXCEPT !.state = "deleted"] \in Ac!ManagedRole
  BY DEF Ac!ManagedRole
<1>d. Ac!Live \subseteq Ac!RoleIds /\ Ac!Active \subseteq Ac!RoleIds
  BY DEF Ac!Live, Ac!Active
<1>e. \A e \in Edits : Ac!End(e) => /\ edit' \in [Edits -> AccessEdit]
                                    /\ \A f \in Edits : Carries(edit'[f])
  BY EditTyped, EditMoves DEF Ac!End
<1>f. \A e \in Edits : edit[e] \in AccessEdit /\ Carries(edit[e])
  BY DEF AccessTypes
<1>1. CASE Ac!Start \/ Ac!SeedPermissions
  <2>1. process' \in Ac!Boot /\ permissions' \subseteq Ac!MODULE_ACTIONS
    BY <1>1 DEF Ac!Start, Ac!SeedPermissions, Ac!Boot, AccessTypes
  <2> QED
    BY <1>1, <2>1 DEF Ac!Start, Ac!SeedPermissions, AccessTypes
<1>2. CASE Ac!Crash
  <2>1. /\ edit' \in [Edits -> AccessEdit] /\ \A f \in Edits : Carries(edit'[f])
    BY <1>2, EditTyped DEF Ac!Crash
  <2> QED
    BY <1>2, <2>1 DEF Ac!Crash, AccessTypes, Ac!Boot
<1>3. ASSUME NEW k \in BaseKeys, Ac!SeedRole(k)
      PROVE  AccessTypes'
  BY <1>3, <1>a, <1>b DEF Ac!SeedRole, AccessTypes
<1>4. ASSUME NEW k \in BaseKeys, Ac!SeedGrants(k)
      PROVE  AccessTypes'
  <2>1. process' \in Ac!Boot
    BY <1>4 DEF Ac!SeedGrants, Ac!Boot
  <2>2. grants' \in [Ac!RoleIds -> SUBSET Ac!MODULE_ACTIONS]
    BY <1>4, <1>a DEF Ac!SeedGrants, AccessTypes
  <2> QED
    BY <1>4, <2>1, <2>2 DEF Ac!SeedGrants, AccessTypes
<1>5. ASSUME NEW e \in Edits, Ac!UndoCreate(e)
      PROVE  AccessTypes'
  <2>1. PICK r \in edit[e].role :
          /\ roles' = [roles EXCEPT ![r] = [state |-> "none", isActive |-> FALSE, edited |-> FALSE]]
          /\ grants' = [grants EXCEPT ![r] = {}]
          /\ userRoles' = [u \in Members |-> userRoles[u] \ {r}]
    BY <1>5 DEF Ac!UndoCreate
  <2>2. r \in Ac!RoleIds
    BY <1>f DEF AccessEdit
  <2>3. /\ roles' \in [Ac!RoleIds -> Ac!ManagedRole]
        /\ grants' \in [Ac!RoleIds -> SUBSET Ac!MODULE_ACTIONS]
        /\ userRoles' \in [Members -> SUBSET Ac!RoleIds]
    BY <1>b, <2>1, <2>2 DEF AccessTypes
  <2> QED
    BY <1>5, <1>e, <2>3 DEF Ac!UndoCreate, AccessTypes
<1>6. ASSUME NEW e \in Edits, NEW r \in CustomRoles, NEW asked \in Requests \cup {{}},
             Ac!CreateRole(e, r, asked)
      PROVE  AccessTypes'
  <2> DEFINE q == [step |-> "ask", role |-> {r}, to |-> asked, user |-> {}]
  <2>1. q \in AccessEdit /\ Carries(q)
    BY <1>a DEF AccessEdit, Carries
  <2>2. /\ edit' \in [Edits -> AccessEdit] /\ \A f \in Edits : Carries(edit'[f])
    <3>1. UNCHANGED edit \/ edit' = [edit EXCEPT ![e] = q]
      BY <1>6 DEF Ac!CreateRole, Ac!Go
    <3> HIDE DEF q
    <3> QED
      BY <2>1, <3>1, EditMoves DEF AccessTypes
  <2>3. roles' \in [Ac!RoleIds -> Ac!ManagedRole]
    BY <1>6, <1>a, <1>b DEF Ac!CreateRole, AccessTypes
  <2> QED
    BY <1>6, <2>2, <2>3 DEF Ac!CreateRole, AccessTypes
<1>7. ASSUME NEW e \in Edits, NEW r \in Ac!RoleIds, NEW isActive \in BOOLEAN,
             Ac!UpdateRole(e, r, isActive)
      PROVE  AccessTypes'
  BY <1>7, <1>c DEF Ac!UpdateRole, AccessTypes
<1>8. ASSUME NEW e \in Edits, NEW r \in Ac!RoleIds, NEW asked \in Requests,
             Ac!AskPermissions(e, r, asked)
      PROVE  AccessTypes'
  <2> DEFINE q == [step |-> "wipe", role |-> {r}, to |-> Ac!conLecturasImplicadas(asked),
                   user |-> {}]
  <2>1. Ac!conLecturasImplicadas(asked) \subseteq Ac!MODULE_ACTIONS
    BY <1>8 DEF Ac!AskPermissions, Ac!conLecturasImplicadas, AccessTypes
  <2>2. q \in AccessEdit /\ Carries(q)
    BY <2>1 DEF AccessEdit, Carries
  <2>3. edit' = [edit EXCEPT ![e] = q]
    BY <1>8 DEF Ac!AskPermissions, Ac!Go
  <2> HIDE DEF q
  <2> QED
    BY <1>8, <2>2, <2>3, EditMoves DEF Ac!AskPermissions, AccessTypes
<1>9. ASSUME NEW e \in Edits, NEW r \in Ac!RoleIds, Ac!DeleteRole(e, r)
      PROVE  AccessTypes'
  <2> DEFINE q == [step |-> "unassign", role |-> {r}, to |-> {}, user |-> {}]
  <2>1. q \in AccessEdit /\ Carries(q)
    BY DEF AccessEdit, Carries
  <2>2. edit' = [edit EXCEPT ![e] = q]
    BY <1>9 DEF Ac!DeleteRole, Ac!Go
  <2> HIDE DEF q
  <2> QED
    BY <1>9, <2>1, <2>2, EditMoves DEF Ac!DeleteRole, AccessTypes
<1>10. ASSUME NEW e \in Edits, Ac!WipeGrants(e)
       PROVE  AccessTypes'
  <2> DEFINE q == [edit[e] EXCEPT !.step = "save"]
  <2>1. q \in AccessEdit /\ Carries(q) /\ edit' = [edit EXCEPT ![e] = q]
    BY <1>10, EditTyped DEF Ac!WipeGrants
  <2> HIDE DEF q
  <2>2. grants' \in [Ac!RoleIds -> SUBSET Ac!MODULE_ACTIONS]
    BY <1>10 DEF Ac!WipeGrants, AccessTypes
  <2> QED
    BY <1>10, <2>1, <2>2, EditMoves DEF Ac!WipeGrants, AccessTypes
<1>11. ASSUME NEW e \in Edits, Ac!SaveGrants(e)
       PROVE  AccessTypes'
  <2>1. edit[e].to \subseteq Ac!MODULE_ACTIONS
    BY <1>11, <1>f DEF Ac!SaveGrants, Carries
  <2>2. /\ grants' \in [Ac!RoleIds -> SUBSET Ac!MODULE_ACTIONS]
        /\ roles' \in [Ac!RoleIds -> Ac!ManagedRole]
    BY <1>11, <1>c, <2>1 DEF Ac!SaveGrants, AccessTypes
  <2> QED
    BY <1>11, <1>e, <2>2 DEF Ac!SaveGrants, AccessTypes
<1>12. ASSUME NEW e \in Edits, Ac!Unassign(e)
       PROVE  AccessTypes'
  <2> DEFINE q == [edit[e] EXCEPT !.step = "softDelete"]
  <2>1. q \in AccessEdit /\ Carries(q) /\ edit' = [edit EXCEPT ![e] = q]
    BY <1>12, EditTyped DEF Ac!Unassign
  <2> HIDE DEF q
  <2>2. userRoles' \in [Members -> SUBSET Ac!RoleIds]
    BY <1>12 DEF Ac!Unassign, AccessTypes
  <2> QED
    BY <1>12, <2>1, <2>2, EditMoves DEF Ac!Unassign, AccessTypes
<1>13. ASSUME NEW e \in Edits, Ac!SoftDeleteRole(e)
       PROVE  AccessTypes'
  <2>1. roles' \in [Ac!RoleIds -> Ac!ManagedRole]
    BY <1>13, <1>c DEF Ac!SoftDeleteRole, AccessTypes
  <2> QED
    BY <1>13, <1>e, <2>1 DEF Ac!SoftDeleteRole, AccessTypes
<1>14. ASSUME NEW e \in Edits, NEW u \in Assigned, NEW rs \in SUBSET Ac!RoleIds,
              Ac!SetUserRoles(e, u, rs)
       PROVE  AccessTypes'
  <2> DEFINE q == [step |-> "clear", role |-> {}, to |-> rs, user |-> {u}]
  <2>1. q \in AccessEdit /\ Carries(q)
    BY DEF AccessEdit, Carries
  <2>2. edit' = [edit EXCEPT ![e] = q]
    BY <1>14 DEF Ac!SetUserRoles, Ac!Go
  <2> HIDE DEF q
  <2> QED
    BY <1>14, <2>1, <2>2, EditMoves DEF Ac!SetUserRoles, AccessTypes
<1>15. ASSUME NEW e \in Edits, Ac!ClearUserRoles(e)
       PROVE  AccessTypes'
  <2> DEFINE q == [edit[e] EXCEPT !.step = "assign"]
  <2>1. q \in AccessEdit /\ Carries(q) /\ (Ac!End(e) \/ edit' = [edit EXCEPT ![e] = q])
    BY <1>15, EditTyped DEF Ac!ClearUserRoles
  <2> HIDE DEF q
  <2>2. userRoles' \in [Members -> SUBSET Ac!RoleIds]
    BY <1>15 DEF Ac!ClearUserRoles, AccessTypes
  <2>3. edit' \in [Edits -> AccessEdit] /\ \A f \in Edits : Carries(edit'[f])
    BY <1>e, <2>1, EditMoves
  <2> QED
    BY <1>15, <2>2, <2>3 DEF Ac!ClearUserRoles, AccessTypes
<1>16. ASSUME NEW e \in Edits, Ac!SaveUserRoles(e)
       PROVE  AccessTypes'
  <2>1. edit[e].to \subseteq Ac!RoleIds
    BY <1>16, <1>f DEF Ac!SaveUserRoles, Carries
  <2>2. userRoles' \in [Members -> SUBSET Ac!RoleIds]
    BY <1>16, <2>1 DEF Ac!SaveUserRoles, AccessTypes
  <2> QED
    BY <1>16, <1>e, <2>2 DEF Ac!SaveUserRoles, AccessTypes
<1>17. ASSUME NEW u \in Assigned, NEW rs \in SUBSET Ac!RoleIds, Ac!AssignRolesLenient(u, rs)
       PROVE  AccessTypes'
  BY <1>17, <1>d DEF Ac!AssignRolesLenient, AccessTypes
<1> QED
  BY <1>1, <1>2, <1>3, <1>4, <1>5, <1>6, <1>7, <1>8, <1>9, <1>10, <1>11, <1>12, <1>13, <1>14,
     <1>15, <1>16, <1>17 DEF Ac!Next

(***************************************************************************)
(* Steps that leave the grants, the history of the roles and the start-up  *)
(* alone, and give no edit anything to save.                               *)
(***************************************************************************)
LEMMA GrantsAlone ==
  ASSUME AccessTypes, AccessGrants, NEW e \in Edits,
         process = "up", UNCHANGED <<permissions, grants, process>>,
         \A r \in Ac!RoleIds : /\ roles'[r].edited => roles[r].edited
                               /\ roles'[r].state = "none" => ~ roles'[r].edited,
         \A f \in Edits : f # e => edit'[f] = edit[f],
         edit'[e] = edit[e] \/ edit'[e].step \notin {"wipe", "save"}
  PROVE  AccessGrants'
BY AccessAssumption DEF AccessGrants

(***************************************************************************)
(* Every statement keeps the grants of an edited role complete.  An edit   *)
(* computes its reads from the whole catalogue, because it runs only when  *)
(* the seeding is over; between its delete and its save the role has what  *)
(* other edits saved, complete too, so the union of the two saves is.      *)
(***************************************************************************)
LEMMA AccessGrantsStep ==
  ASSUME AccessTypes, AccessGrants, Ac!Next
  PROVE  AccessGrants'
<1> USE AccessAssumption
<1>a. /\ roles \in [Ac!RoleIds -> Ac!ManagedRole]
      /\ grants \in [Ac!RoleIds -> SUBSET Ac!MODULE_ACTIONS]
      /\ edit \in [Edits -> AccessEdit] /\ permissions \subseteq Ac!MODULE_ACTIONS
      /\ BaseKeys \subseteq Ac!RoleIds /\ CustomRoles \subseteq Ac!RoleIds
      /\ \A e \in Edits : edit[e].role \subseteq Ac!RoleIds
  BY DEF AccessTypes, Ac!RoleIds, AccessEdit
<1>b. \A e \in Edits : Ac!End(e) =>
        edit'[e].step = "idle" /\ \A f \in Edits : f # e => edit'[f] = edit[f]
  BY <1>a DEF Ac!End, Ac!Idle
<1>c. \A e \in Edits : \A step, role, to, user : Ac!Go(e, step, role, to, user) =>
        /\ edit'[e] = [step |-> step, role |-> role, to |-> to, user |-> user]
        /\ \A f \in Edits : f # e => edit'[f] = edit[f]
  BY <1>a DEF Ac!Go
<1>d. \A e \in Edits : edit[e].step # "idle" => process = "up"
  BY DEF AccessGrants
<1>1. CASE Ac!Start
  BY <1>1 DEF Ac!Start, AccessGrants
<1>2. CASE Ac!SeedPermissions
  <2>1. permissions' = Ac!MODULE_ACTIONS /\ UNCHANGED <<roles, grants, edit>>
    BY <1>2, <1>a DEF Ac!SeedPermissions
  <2>2. process' = "up" \/ roles[process'].state = "none"
    BY <1>2 DEF Ac!SeedPermissions
  <2>3. \A e \in Edits : edit[e].step = "idle"
    BY <1>2 DEF Ac!SeedPermissions, AccessGrants
  <2> QED
    BY <2>1, <2>2, <2>3 DEF AccessGrants
<1>3. CASE Ac!Crash
  <2>1. \A e \in Edits : edit'[e].step = "idle"
    BY <1>3 DEF Ac!Crash, Ac!Idle
  <2> QED
    BY <1>3, <2>1 DEF Ac!Crash, AccessGrants
<1>4. ASSUME NEW k \in BaseKeys, Ac!SeedRole(k)
      PROVE  AccessGrants'
  <2>1. /\ UNCHANGED <<permissions, grants, process, edit>>
        /\ \A r \in Ac!RoleIds : r # k => roles'[r] = roles[r]
        /\ roles'[k].edited = FALSE /\ roles'[k].state = "live"
    BY <1>4, <1>a DEF Ac!SeedRole
  <2> QED
    BY <2>1 DEF AccessGrants
<1>5. ASSUME NEW k \in BaseKeys, Ac!SeedGrants(k)
      PROVE  AccessGrants'
  <2>1. /\ process = k /\ process # "up" /\ process \notin {"down", "permissions"}
        /\ UNCHANGED <<permissions, roles, edit>>
    BY <1>5 DEF Ac!SeedGrants
  <2>2. \A r \in Ac!RoleIds : r # k => grants'[r] = grants[r]
    BY <1>5, <1>a DEF Ac!SeedGrants
  <2>3. process' = "up" \/ roles[process'].state = "none"
    BY <1>5 DEF Ac!SeedGrants
  <2> QED
    BY <1>a, <2>1, <2>2, <2>3 DEF AccessGrants
<1>6. ASSUME NEW e \in Edits, Ac!UndoCreate(e)
      PROVE  AccessGrants'
  <2>1. PICK r \in edit[e].role :
          /\ roles' = [roles EXCEPT ![r] = [state |-> "none", isActive |-> FALSE, edited |-> FALSE]]
          /\ grants' = [grants EXCEPT ![r] = {}]
    BY <1>6 DEF Ac!UndoCreate
  <2>2. /\ process = "up" /\ UNCHANGED <<permissions, process>> /\ Ac!End(e)
    BY <1>6, <1>d DEF Ac!UndoCreate
  <2>3. /\ roles'[r].edited = FALSE
        /\ \A x \in Ac!RoleIds : x # r => roles'[x] = roles[x] /\ grants'[x] = grants[x]
        /\ Complete(grants'[r])
    BY <1>a, <2>1, CompleteUnion
  <2> QED
    BY <1>a, <1>b, <2>2, <2>3 DEF AccessGrants
<1>7. ASSUME NEW e \in Edits, NEW r \in CustomRoles, NEW asked \in Requests \cup {{}},
             Ac!CreateRole(e, r, asked)
      PROVE  AccessGrants'
  <2>1. process = "up" /\ UNCHANGED <<permissions, grants, process>>
    BY <1>7 DEF Ac!CreateRole, Ac!Free
  <2>2. \A x \in Ac!RoleIds : /\ x # r => roles'[x] = roles[x]
                              /\ x = r => ~ roles'[x].edited
    BY <1>7, <1>a DEF Ac!CreateRole
  <2>3. UNCHANGED edit \/ Ac!Go(e, "ask", {r}, asked, {})
    BY <1>7 DEF Ac!CreateRole
  <2>4. /\ \A f \in Edits : f # e => edit'[f] = edit[f]
        /\ edit'[e] = edit[e] \/ edit'[e].step \notin {"wipe", "save"}
    <3>1. CASE UNCHANGED edit
      BY <3>1
    <3>2. CASE Ac!Go(e, "ask", {r}, asked, {})
      <4>1. /\ \A f \in Edits : f # e => edit'[f] = edit[f]
            /\ edit'[e].step = "ask"
        BY <1>a, <3>2 DEF Ac!Go
      <4> QED
        BY <4>1
    <3> QED
      BY <2>3, <3>1, <3>2
  <2>5. \A x \in Ac!RoleIds : /\ roles'[x].edited => roles[x].edited
                              /\ roles'[x].state = "none" => ~ roles'[x].edited
    BY <2>2 DEF AccessGrants
  <2> QED
    BY <2>1, <2>4, <2>5, GrantsAlone
<1>8. ASSUME NEW e \in Edits, NEW r \in Ac!RoleIds, NEW isActive \in BOOLEAN,
             Ac!UpdateRole(e, r, isActive)
      PROVE  AccessGrants'
  <2>1. process = "up" /\ UNCHANGED <<permissions, grants, process, edit>>
    BY <1>8 DEF Ac!UpdateRole, Ac!Free
  <2>2. \A x \in Ac!RoleIds : /\ roles'[x].edited => roles[x].edited
                              /\ roles'[x].state = roles[x].state
    BY <1>8, <1>a DEF Ac!UpdateRole, Ac!ManagedRole
  <2>3. \A x \in Ac!RoleIds : roles'[x].state = "none" => ~ roles'[x].edited
    BY <2>2 DEF AccessGrants
  <2> QED
    BY <2>1, <2>2, <2>3, GrantsAlone
<1>9. ASSUME NEW e \in Edits, NEW r \in Ac!RoleIds, NEW asked \in Requests,
             Ac!AskPermissions(e, r, asked)
      PROVE  AccessGrants'
  <2> DEFINE full == Ac!conLecturasImplicadas(asked)
  <2>1. process = "up" /\ UNCHANGED <<permissions, roles, grants, process>>
    BY <1>9, <1>d DEF Ac!AskPermissions, Ac!Free
  <2>2. Complete(full)
    BY <2>1, LecturasComplete DEF AccessGrants
  <2>3. /\ edit'[e].step = "wipe" /\ edit'[e].to = full
        /\ \A f \in Edits : f # e => edit'[f] = edit[f]
    BY <1>9, <1>a DEF Ac!AskPermissions, Ac!Go
  <2> HIDE DEF full
  <2> QED
    BY <2>1, <2>2, <2>3 DEF AccessGrants
<1>10. ASSUME NEW e \in Edits, Ac!WipeGrants(e)
       PROVE  AccessGrants'
  <2>1. /\ edit[e].step = "wipe" /\ process = "up"
        /\ UNCHANGED <<permissions, roles, process>>
    BY <1>10, <1>d DEF Ac!WipeGrants
  <2>2. /\ edit'[e].step = "save" /\ edit'[e].to = edit[e].to /\ edit'[e].role = edit[e].role
        /\ \A f \in Edits : f # e => edit'[f] = edit[f]
    BY <1>10, <1>a DEF Ac!WipeGrants, AccessEdit
  <2>3. \A r \in Ac!RoleIds : /\ r \in edit[e].role => Complete(grants'[r])
                              /\ r \notin edit[e].role => grants'[r] = grants[r]
    BY <1>10, CompleteUnion DEF Ac!WipeGrants
  <2>4. \A r \in Ac!RoleIds : Complete(grants[r]) => Complete(grants'[r])
    BY <2>3
  <2>5. edit[e].role \subseteq Ac!RoleIds /\ Complete(edit[e].to)
    BY <1>a, <2>1 DEF AccessGrants, AccessEdit
  <2>6. \A r \in Ac!RoleIds : /\ roles'[r].edited => Complete(grants'[r])
                              /\ roles'[r].state = "none" => ~ roles'[r].edited
                              /\ r \in BaseKeys /\ process' = r => ~ roles'[r].edited
    BY <2>1, <2>4 DEF AccessGrants
  <2>7. ASSUME NEW f \in Edits
        PROVE  /\ edit'[f].step \in {"wipe", "save"} => Complete(edit'[f].to)
               /\ edit'[f].step = "save" => \A r \in edit'[f].role : Complete(grants'[r])
    <3>1. CASE f = e
      BY <2>2, <2>3, <2>5, <3>1
    <3>2. CASE f # e
      <4>1. edit'[f] = edit[f] /\ edit[f].role \subseteq Ac!RoleIds
        BY <1>a, <2>2, <3>2 DEF AccessEdit
      <4> QED
        BY <2>4, <4>1 DEF AccessGrants
    <3> QED
      BY <3>1, <3>2
  <2>8. process' = "up" /\ permissions' = Ac!MODULE_ACTIONS
    BY <2>1 DEF AccessGrants
  <2> QED
    BY <2>6, <2>7, <2>8 DEF AccessGrants
<1>11. ASSUME NEW e \in Edits, Ac!SaveGrants(e)
       PROVE  AccessGrants'
  <2> DEFINE kept == {r \in edit[e].role : roles[r].state # "none"}
  <2>1. /\ edit[e].step = "save" /\ process = "up" /\ UNCHANGED <<permissions, process>>
        /\ Ac!End(e)
    BY <1>11, <1>d DEF Ac!SaveGrants
  <2>2. \A r \in Ac!RoleIds :
          /\ r \in kept => /\ grants'[r] = grants[r] \cup edit[e].to
                           /\ roles'[r].state # "none"
          /\ r \notin kept => grants'[r] = grants[r] /\ roles'[r] = roles[r]
    BY <1>11, <1>a DEF Ac!SaveGrants, Ac!ManagedRole
  <2>3. \A r \in kept : Complete(grants'[r])
    <3>1. \A r \in kept : Complete(grants[r]) /\ Complete(edit[e].to)
      BY <2>1 DEF AccessGrants
    <3>2. kept \subseteq Ac!RoleIds
      BY <1>a DEF AccessEdit
    <3> HIDE DEF kept
    <3>3. ASSUME NEW r \in kept PROVE Complete(grants'[r])
      <4>1. grants'[r] = grants[r] \cup edit[e].to
        BY <2>2, <3>2
      <4>2. Complete(grants[r] \cup edit[e].to)
        BY <3>1, CompleteUnion
      <4> QED
        BY <4>1, <4>2
    <3> QED
      BY <3>3
  <2> HIDE DEF kept
  <2>4. \A r \in Ac!RoleIds :
          /\ roles'[r].edited => Complete(grants'[r])
          /\ roles'[r].state = "none" => ~ roles'[r].edited
    BY <2>2, <2>3 DEF AccessGrants
  <2>5. \A r \in BaseKeys : process' # r
    BY <2>1
  <2>6. \A r \in Ac!RoleIds : Complete(grants[r]) => Complete(grants'[r])
    BY <2>2, <2>3
  <2>7. \A f \in Edits :
          /\ edit'[f].step \in {"wipe", "save"} => Complete(edit'[f].to)
          /\ edit'[f].step = "save" => \A r \in edit'[f].role : Complete(grants'[r])
    <3>1. /\ edit'[e].step = "idle"
          /\ \A f \in Edits : f # e => edit'[f] = edit[f]
      BY <1>b, <2>1
    <3>2. \A f \in Edits : edit[f].step = "save" => \A r \in edit[f].role : Complete(grants'[r])
      BY <1>a, <2>6 DEF AccessGrants
    <3> QED
      BY <3>1, <3>2 DEF AccessGrants
  <2> QED
    BY <2>1, <2>4, <2>5, <2>7 DEF AccessGrants
<1>12. ASSUME NEW e \in Edits, NEW r \in Ac!RoleIds, Ac!DeleteRole(e, r)
       PROVE  AccessGrants'
  <2>1. process = "up" /\ UNCHANGED <<permissions, roles, grants, process>>
    BY <1>12 DEF Ac!DeleteRole, Ac!Free
  <2>2. edit'[e].step = "unassign" /\ \A f \in Edits : f # e => edit'[f] = edit[f]
    BY <1>12, <1>a DEF Ac!DeleteRole, Ac!Go
  <2>3. \A x \in Ac!RoleIds : roles'[x].state = "none" => ~ roles'[x].edited
    BY <2>1 DEF AccessGrants
  <2> QED
    BY <2>1, <2>2, <2>3, GrantsAlone
<1>13. ASSUME NEW e \in Edits,
              Ac!Unassign(e) \/ Ac!ClearUserRoles(e) \/ Ac!SaveUserRoles(e)
       PROVE  AccessGrants'
  <2>1. process = "up" /\ UNCHANGED <<permissions, roles, grants, process>>
    BY <1>13, <1>d DEF Ac!Unassign, Ac!ClearUserRoles, Ac!SaveUserRoles
  <2>2. /\ edit'[e].step \notin {"wipe", "save"}
        /\ \A f \in Edits : f # e => edit'[f] = edit[f]
    BY <1>13, <1>a, <1>b DEF Ac!Unassign, Ac!ClearUserRoles, Ac!SaveUserRoles, AccessEdit
  <2>3. \A x \in Ac!RoleIds : roles'[x].state = "none" => ~ roles'[x].edited
    BY <2>1 DEF AccessGrants
  <2> QED
    BY <2>1, <2>2, <2>3, GrantsAlone
<1>14. ASSUME NEW e \in Edits, Ac!SoftDeleteRole(e)
       PROVE  AccessGrants'
  <2>1. process = "up" /\ UNCHANGED <<permissions, grants, process>> /\ Ac!End(e)
    BY <1>14, <1>d DEF Ac!SoftDeleteRole
  <2>2. \A x \in Ac!RoleIds : /\ roles'[x].edited => roles[x].edited
                              /\ \/ roles'[x] = roles[x]
                                 \/ roles'[x].state = "deleted"
    BY <1>14, <1>a DEF Ac!SoftDeleteRole, Ac!ManagedRole
  <2>3. \A x \in Ac!RoleIds : roles'[x].state = "none" => ~ roles'[x].edited
    BY <2>2 DEF AccessGrants
  <2> QED
    BY <1>b, <2>1, <2>2, <2>3, GrantsAlone
<1>15. ASSUME NEW e \in Edits, NEW u \in Assigned, NEW rs \in SUBSET Ac!RoleIds,
              Ac!SetUserRoles(e, u, rs)
       PROVE  AccessGrants'
  <2>1. process = "up" /\ UNCHANGED <<permissions, roles, grants, process>>
    BY <1>15 DEF Ac!SetUserRoles, Ac!Free
  <2>2. edit'[e].step = "clear" /\ \A f \in Edits : f # e => edit'[f] = edit[f]
    BY <1>15, <1>a DEF Ac!SetUserRoles, Ac!Go
  <2>3. \A x \in Ac!RoleIds : roles'[x].state = "none" => ~ roles'[x].edited
    BY <2>1 DEF AccessGrants
  <2> QED
    BY <2>1, <2>2, <2>3, GrantsAlone
<1>16. ASSUME NEW u \in Assigned, NEW rs \in SUBSET Ac!RoleIds, Ac!AssignRolesLenient(u, rs)
       PROVE  AccessGrants'
  BY <1>16 DEF Ac!AssignRolesLenient, AccessGrants
<1> QED
  BY <1>1, <1>2, <1>3, <1>4, <1>5, <1>6, <1>7, <1>8, <1>9, <1>10, <1>11, <1>12, <1>13, <1>14,
     <1>15, <1>16 DEF Ac!Next

-----------------------------------------------------------------------------
(* Access: the gates of the routes *)

(* What the guards know how to read; a permission is one of the catalogue. *)
GateFormed(gate) ==
  /\ gate.kind \in {"public", "client", "any", "tiers", "permission"}
  /\ gate.kind = "permission" => gate.needs \in Ac!MODULE_ACTIONS

Formed(c) == \A k \in DOMAIN c : GateFormed(c[k].gate)

(* The actions that the entries of a controller ask for; those of a module. *)
Asks(entries, A) == \A k \in DOMAIN entries : entries[k][3] \in A

Catalogued(m, A) == \A a \in A : <<m, a>> \in Ac!MODULE_ACTIONS

IsList(s) == \E n \in Nat : s = [k \in 1 .. n |-> s[k]]

(***************************************************************************)
(* The gates that ask for no permission.                                   *)
(***************************************************************************)
LEMMA PlainGates ==
  /\ GateFormed(Ac!Public) /\ GateFormed(Ac!Client) /\ GateFormed(Ac!AnyAuthenticated)
  /\ GateFormed(Ac!Admins) /\ \A tiers : GateFormed(Ac!Roles(tiers))
BY DEF GateFormed, Ac!Public, Ac!Client, Ac!AnyAuthenticated, Ac!Admins, Ac!Roles, Ac!Gate

(***************************************************************************)
(* The routes of a controller under one gate.                              *)
(***************************************************************************)
LEMMA UnderFormed ==
  \A gate, base, entries :
    GateFormed(gate) => /\ Formed(Ac!Under(gate, base, entries))
                        /\ IsList(entries) => IsList(Ac!Under(gate, base, entries))
<1> TAKE gate, base, entries
<1> HAVE GateFormed(gate)
<1>1. Formed(Ac!Under(gate, base, entries))
  BY DEF Formed, Ac!Under, Ac!Route
<1>2. IsList(entries) => IsList(Ac!Under(gate, base, entries))
  BY DEF IsList, Ac!Under
<1> QED
  BY <1>1, <1>2

(***************************************************************************)
(* The routes of one module, if the catalogue has what they ask for.       *)
(***************************************************************************)
LEMMA WithinFormed ==
  \A m, base, entries, A :
    Asks(entries, A) /\ Catalogued(m, A)
      => /\ Formed(Ac!Within(m, base, entries))
         /\ IsList(entries) => IsList(Ac!Within(m, base, entries))
<1> TAKE m, base, entries, A
<1> HAVE Asks(entries, A) /\ Catalogued(m, A)
<1>1. \A k \in DOMAIN entries : <<m, entries[k][3]>> \in Ac!MODULE_ACTIONS
  BY DEF Asks, Catalogued
<1>2. \A k \in DOMAIN entries : GateFormed(Ac!RequirePermission(m, entries[k][3]))
  BY <1>1 DEF GateFormed, Ac!RequirePermission, Ac!Gate
<1>3. Formed(Ac!Within(m, base, entries))
  BY <1>2 DEF Formed, Ac!Within, Ac!Route
<1>4. IsList(entries) => IsList(Ac!Within(m, base, entries))
  BY DEF IsList, Ac!Within
<1> QED
  BY <1>3, <1>4

(***************************************************************************)
(* The five routes of a resource.                                          *)
(***************************************************************************)
LEMMA CrudFormed ==
  \A base, m, ops : Catalogued(m, Ac!CRUD) => Formed(Ac!Crud(base, m, ops))
<1> TAKE base, m, ops
<1> HAVE Catalogued(m, Ac!CRUD)
<1>1. \A a \in Ac!CRUD : GateFormed(Ac!RequirePermission(m, a))
  BY DEF Catalogued, GateFormed, Ac!RequirePermission, Ac!Gate
<1> QED
  BY <1>1 DEF Formed, Ac!Crud, Ac!Route, Ac!CRUD

(***************************************************************************)
(* What the catalogue offers.                                              *)
(***************************************************************************)
LEMMA Offered ==
  /\ \A m \in {"products", "categories", "departments", "stock-locations", "nomenclators",
               "delivery-options", "clients", "cms-pages", "cms-banners", "cms-services",
               "cms-staff", "contact"} : Catalogued(m, Ac!CRUD)
  /\ Catalogued("cms-pages", Ac!CRUD \cup {"publish"})
  /\ Catalogued("contact", Ac!CRUD \cup {"reply"})
  /\ Catalogued("orders", {"list", "read", "create", "update-status", "update-payment-status"})
  /\ Catalogued("refunds", {"list", "read", "request", "complete", "reject"})
  /\ Catalogued("inventory", {"list", "read", "aggregate", "history", "create-operation"})
  /\ \A m \in {"cms-settings", "fulfillment-settings"} : Catalogued(m, {"read", "update"})
  /\ Catalogued("cms-home", {"read", "update", "publish"})
  /\ Catalogued("payments", {"list"})
  /\ Catalogued("dashboard", {"view"})
  /\ Catalogued("uploads", {"create"})
BY DEF Catalogued, Ac!MODULE_ACTIONS, Ac!Offers

(***************************************************************************)
(* Tables written one after the other.                                     *)
(***************************************************************************)
LEMMA Concatenated ==
  \A s, t : IsList(s) /\ IsList(t) /\ Formed(s) /\ Formed(t) => IsList(s \o t) /\ Formed(s \o t)
<1> TAKE s, t
<1> HAVE IsList(s) /\ IsList(t) /\ Formed(s) /\ Formed(t)
<1>1. PICK m \in Nat, n \in Nat : s = [k \in 1 .. m |-> s[k]] /\ t = [k \in 1 .. n |-> t[k]]
  BY DEF IsList
<1> DEFINE T == {s[k] : k \in 1 .. m} \cup {t[k] : k \in 1 .. n}
<1> HIDE DEF T
<1>2. s \in [1 .. m -> T] /\ t \in [1 .. n -> T] /\ DOMAIN s = 1 .. m /\ DOMAIN t = 1 .. n
  BY <1>1, Zenon DEF T
<1>3. s \in Seq(T) /\ t \in Seq(T)
  BY <1>2
<1>4. \A r \in T : GateFormed(r.gate)
  BY <1>2 DEF Formed, T
<1>5. PICK u : u = s \o t
  OBVIOUS
<1>6. u \in Seq(T)
  BY <1>3, <1>5
<1>7. Len(u) \in Nat /\ u \in [1 .. Len(u) -> T]
  BY <1>6
<1>8. IsList(u)
  BY <1>7 DEF IsList
<1> QED
  BY <1>4, <1>5, <1>7, <1>8 DEF Formed

(***************************************************************************)
(* The lists that tables are written as.                                   *)
(***************************************************************************)
LEMMA Lists ==
  /\ \A a : IsList(<<a>>)
  /\ \A a, b : IsList(<<a, b>>)
  /\ \A a, b, c : IsList(<<a, b, c>>)
  /\ \A a, b, c, d : IsList(<<a, b, c, d>>)
  /\ \A a, b, c, d, e, f, g : IsList(<<a, b, c, d, e, f, g>>)
<1>1. ASSUME NEW a PROVE IsList(<<a>>)
  <2>1. <<a>> = [k \in 1 .. 1 |-> <<a>>[k]]
    OBVIOUS
  <2> QED
    BY <2>1 DEF IsList
<1>2. ASSUME NEW a, NEW b PROVE IsList(<<a, b>>)
  <2>1. <<a, b>> = [k \in 1 .. 2 |-> <<a, b>>[k]]
    OBVIOUS
  <2> QED
    BY <2>1 DEF IsList
<1>3. ASSUME NEW a, NEW b, NEW c PROVE IsList(<<a, b, c>>)
  <2>1. <<a, b, c>> = [k \in 1 .. 3 |-> <<a, b, c>>[k]]
    OBVIOUS
  <2> QED
    BY <2>1 DEF IsList
<1>4. ASSUME NEW a, NEW b, NEW c, NEW d PROVE IsList(<<a, b, c, d>>)
  <2>1. <<a, b, c, d>> = [k \in 1 .. 4 |-> <<a, b, c, d>>[k]]
    OBVIOUS
  <2> QED
    BY <2>1 DEF IsList
<1>5. ASSUME NEW a, NEW b, NEW c, NEW d, NEW e, NEW f, NEW g
      PROVE  IsList(<<a, b, c, d, e, f, g>>)
  <2>1. <<a, b, c, d, e, f, g>> = [k \in 1 .. 7 |-> <<a, b, c, d, e, f, g>>[k]]
    OBVIOUS
  <2> QED
    BY <2>1 DEF IsList
<1> QED
  BY <1>1, <1>2, <1>3, <1>4, <1>5

(***************************************************************************)
(* Every controller asks for what the guards can read and the catalogue    *)
(* offers.                                                                 *)
(***************************************************************************)
LEMMA ControllersFormed == \A c \in Ac!Controllers : Formed(c)
<1>1. /\ Formed(Ac!AuthController) /\ Formed(Ac!PermissionsController)
      /\ Formed(Ac!CmsFaqController) /\ Formed(Ac!CartController)
      /\ Formed(Ac!ClientAddressesController) /\ Formed(Ac!StorefrontOrdersController)
  BY PlainGates, UnderFormed
     DEF Ac!AuthController, Ac!PermissionsController, Ac!CmsFaqController, Ac!CartController,
     Ac!ClientAddressesController, Ac!StorefrontOrdersController
<1>2. /\ Formed(Ac!StorefrontFulfillmentController)
      /\ Formed(Ac!StorefrontPaymentMethodsController)
      /\ Formed(Ac!AppController) /\ Formed(Ac!HealthController)
      /\ Formed(Ac!GeographyController) /\ Formed(Ac!PublicCatalogController)
  BY PlainGates, UnderFormed
     DEF Ac!StorefrontFulfillmentController, Ac!StorefrontPaymentMethodsController,
     Ac!AppController, Ac!HealthController, Ac!GeographyController,
     Ac!PublicCatalogController
<1>3. /\ Formed(Ac!PublicCategoriesController) /\ Formed(Ac!PublicDepartmentsController)
      /\ Formed(Ac!PublicProductsController) /\ Formed(Ac!PublicCmsController)
      /\ Formed(Ac!PublicContactController) /\ Formed(Ac!PublicFulfillmentController)
  BY PlainGates, UnderFormed
     DEF Ac!PublicCategoriesController, Ac!PublicDepartmentsController,
     Ac!PublicProductsController, Ac!PublicCmsController, Ac!PublicContactController,
     Ac!PublicFulfillmentController
<1>4. /\ Formed(Ac!OrderTrackingController) /\ Formed(Ac!OrderExpiryController)
      /\ Formed(Ac!PickupRemindersController) /\ Formed(Ac!PaymentsWebhookController)
      /\ Formed(Ac!WebhooksController) /\ Formed(Ac!StorefrontMirrorController)
  BY PlainGates, UnderFormed
     DEF Ac!OrderTrackingController, Ac!OrderExpiryController, Ac!PickupRemindersController,
     Ac!PaymentsWebhookController, Ac!WebhooksController, Ac!StorefrontMirrorController
<1>5. /\ Formed(Ac!CategoriesController) /\ Formed(Ac!DepartmentsController)
      /\ Formed(Ac!ProductsController)
  BY CrudFormed, Offered
     DEF Ac!CategoriesController, Ac!DepartmentsController, Ac!ProductsController
<1>6. /\ Formed(Ac!NomenclatorsController) /\ Formed(Ac!DeliveryOptionsController)
      /\ Formed(Ac!CmsBannersController)
  BY CrudFormed, Offered
     DEF Ac!NomenclatorsController, Ac!DeliveryOptionsController, Ac!CmsBannersController
<1>7. /\ Formed(Ac!CmsServicesController) /\ Formed(Ac!CmsStaffController)
      /\ Formed(Ac!ContactTemplatesController)
  BY CrudFormed, Offered
     DEF Ac!CmsServicesController, Ac!CmsStaffController, Ac!ContactTemplatesController
<1>8. Formed(Ac!ClientsController)
  <2>1. \A base, entries :
          Asks(entries, Ac!CRUD)
            => Formed(Ac!Within("clients", base, entries))
    BY Offered, WithinFormed
  <2> QED
    BY <2>1 DEF Asks, Ac!ClientsController, Ac!CRUD
<1>9. Formed(Ac!StockLocationsController)
  <2>1. \A base, entries :
          Asks(entries, Ac!CRUD)
            => Formed(Ac!Within("stock-locations", base, entries))
    BY Offered, WithinFormed
  <2> QED
    BY <2>1 DEF Asks, Ac!StockLocationsController, Ac!CRUD
<1>10. Formed(Ac!InventoryController)
  <2>1. \A base, entries :
          Asks(entries, {"list", "read", "aggregate", "history", "create-operation"})
            => Formed(Ac!Within("inventory", base, entries))
    BY Offered, WithinFormed
  <2> QED
    BY <2>1 DEF Asks, Ac!InventoryController
<1>11. Formed(Ac!FulfillmentSettingsController)
  <2>1. \A base, entries :
          Asks(entries, {"read", "update"})
            => Formed(Ac!Within("fulfillment-settings", base, entries))
    BY Offered, WithinFormed
  <2> QED
    BY <2>1 DEF Asks, Ac!FulfillmentSettingsController
<1>12. Formed(Ac!FulfillmentController)
  <2>1. \A base, entries :
          Asks(entries, {"list", "read", "create", "update-status", "update-payment-status"})
            => Formed(Ac!Within("orders", base, entries))
    BY Offered, WithinFormed
  <2> QED
    BY <2>1 DEF Asks, Ac!FulfillmentController
<1>13. /\ Formed(Ac!RefundsController) /\ Formed(Ac!OrderRefundsController)
  <2>1. \A base, entries :
          Asks(entries, {"list", "read", "request", "complete", "reject"})
            => Formed(Ac!Within("refunds", base, entries))
    BY Offered, WithinFormed
  <2> QED
    BY <2>1 DEF Asks, Ac!RefundsController, Ac!OrderRefundsController
<1>14. Formed(Ac!CollectionsController)
  <2>1. \A base, entries :
          Asks(entries, {"list"})
            => Formed(Ac!Within("payments", base, entries))
    BY Offered, WithinFormed
  <2> QED
    BY <2>1 DEF Asks, Ac!CollectionsController
<1>15. Formed(Ac!DashboardController)
  <2>1. \A base, entries :
          Asks(entries, {"view"})
            => Formed(Ac!Within("dashboard", base, entries))
    BY Offered, WithinFormed
  <2> QED
    BY <2>1 DEF Asks, Ac!DashboardController
<1>16. Formed(Ac!UploadsController)
  <2>1. \A base, entries :
          Asks(entries, {"create"})
            => Formed(Ac!Within("uploads", base, entries))
    BY Offered, WithinFormed
  <2> QED
    BY <2>1 DEF Asks, Ac!UploadsController
<1>17. Formed(Ac!CmsSettingsController)
  <2>1. \A base, entries :
          Asks(entries, {"read", "update"})
            => Formed(Ac!Within("cms-settings", base, entries))
    BY Offered, WithinFormed
  <2> QED
    BY <2>1 DEF Asks, Ac!CmsSettingsController
<1>18. Formed(Ac!CmsHomeController)
  <2>1. \A base, entries :
          Asks(entries, {"read", "update", "publish"})
            => Formed(Ac!Within("cms-home", base, entries))
    BY Offered, WithinFormed
  <2> QED
    BY <2>1 DEF Asks, Ac!CmsHomeController
<1>19. /\ Formed(Ac!CmsPagesController) /\ Formed(Ac!CmsHomeNoticesController)
  <2>1. \A base, entries :
          Asks(entries, Ac!CRUD \cup {"publish"})
            => Formed(Ac!Within("cms-pages", base, entries))
    BY Offered, WithinFormed
  <2> QED
    BY <2>1
       DEF Asks, Ac!CmsPagesController, Ac!CmsHomeNoticesController, Ac!CRUD, Ac!CmsTextsController
<1>20. Formed(Ac!ContactMessagesController)
  <2>1. \A base, entries :
          Asks(entries, Ac!CRUD \cup {"reply"})
            => Formed(Ac!Within("contact", base, entries))
    BY Offered, WithinFormed
  <2> QED
    BY <2>1 DEF Asks, Ac!ContactMessagesController, Ac!CRUD
<1>21. \A base, entries :
        Asks(entries, {"list", "read", "create", "update-status", "update-payment-status"})
        /\ IsList(entries)
          => /\ Formed(Ac!Within("orders", base, entries))
             /\ IsList(Ac!Within("orders", base, entries))
  BY Offered, WithinFormed
<1>22. \A gate, base, entries :
        GateFormed(gate) /\ IsList(entries)
          => Formed(Ac!Under(gate, base, entries)) /\ IsList(Ac!Under(gate, base, entries))
  BY UnderFormed
<1>23. Formed(Ac!UsersController)
  BY <1>22, PlainGates, Lists, Concatenated DEF Ac!UsersController
<1>24. Formed(Ac!PaymentMethodsController)
  BY <1>21, <1>22, PlainGates, Lists, Concatenated DEF Ac!PaymentMethodsController, Asks
<1>25. Formed(Ac!OrdersController)
  <2>1. Formed(Ac!OrdersProgress) /\ IsList(Ac!OrdersProgress)
    BY <1>21, <1>22, PlainGates, Lists, Concatenated DEF Ac!OrdersProgress, Asks
  <2>2. Formed(Ac!OrdersPayment) /\ IsList(Ac!OrdersPayment)
    BY <1>21, <1>22, PlainGates, Lists, Concatenated DEF Ac!OrdersPayment, Asks
  <2>3. Formed(Ac!OrdersReports) /\ IsList(Ac!OrdersReports)
    BY <1>21, Lists DEF Ac!OrdersReports, Asks
  <2> QED
    BY <2>1, <2>2, <2>3, Concatenated, Zenon DEF Ac!OrdersController
<1> QED
  BY <1>1, <1>2, <1>3, <1>4, <1>5, <1>6, <1>7, <1>8, <1>9, <1>10, <1>11, <1>12, <1>13, <1>14,
     <1>15, <1>16, <1>17, <1>18, <1>19, <1>20, <1>21, <1>22, <1>23, <1>24, <1>25, Zenon
     DEF Ac!Controllers

(***************************************************************************)
(* The guards agree with the decorators on every gate they can read.       *)
(***************************************************************************)
LEMMA GuardsAgree ==
  ASSUME NEW gate, GateFormed(gate), permissions = Ac!MODULE_ACTIONS, AccessTypes,
         NEW u \in Members
  PROVE  Ac!Admitted(u, gate) <=> Ac!Entitled(u, gate)
<1>1. TierOf[u] \in {"SUPER_ADMIN", "ADMIN", "STAFF"}
  BY TiersAssumption
<1>2. userRoles[u] \subseteq Ac!RoleIds
  BY DEF AccessTypes
<1>3. \A need : (\E r \in Ac!getActiveRoleIdsForUser(u) : need \in grants[r])
               <=> (\E r \in Ac!RoleIds : /\ roles[r].state = "live" /\ roles[r].isActive
                                          /\ r \in userRoles[u] /\ need \in grants[r])
  BY <1>2 DEF Ac!getActiveRoleIdsForUser, Ac!Active, Ac!Live
<1>4. Ac!isSystemAdmin(TierOf[u]) <=> TierOf[u] # "STAFF"
  BY <1>1 DEF Ac!isSystemAdmin, Ac!SUPER_ADMIN, Ac!ADMIN
<1>5. gate.kind = "permission" => gate.needs \in permissions
  BY DEF GateFormed
<1>6. CASE gate.kind = "permission"
  BY <1>3, <1>4, <1>5, <1>6
     DEF Ac!Admitted, Ac!Entitled, Ac!AuthGuard, Ac!RolesGuard, Ac!PermissionGuard,
         Ac!hasPermission, Ac!STAFF
<1>7. CASE gate.kind # "permission"
  BY <1>7 DEF GateFormed, Ac!Admitted, Ac!Entitled, Ac!AuthGuard, Ac!RolesGuard,
              Ac!PermissionGuard
<1> QED
  BY <1>6, <1>7

-----------------------------------------------------------------------------
(* The composition *)

PeopleInv == AccessInv /\ StaffInv /\ ClientInv /\ AddressTypes

(***************************************************************************)
(* What is known of a component says nothing of the others' tables.        *)
(***************************************************************************)
LEMMA PeopleApart ==
  /\ AccessInv /\ UNCHANGED accessVars => AccessInv'
  /\ StaffInv /\ UNCHANGED staffVars => StaffInv'
  /\ ClientInv /\ UNCHANGED clientVars => ClientInv'
  /\ AddressTypes /\ UNCHANGED addressVars => AddressTypes'
<1>1. AccessInv /\ UNCHANGED accessVars => AccessInv'
  BY DEF accessVars, AccessInv, AccessTypes, AccessGrants, Complete, Carries
<1>2. StaffInv /\ UNCHANGED staffVars => StaffInv'
  BY DEF staffVars, StaffInv, StaffTypes, StaffChosen, StaffKept, ChosenFor,
         St!ActiveSuperAdmins, St!Live
<1>3. ClientInv /\ UNCHANGED clientVars => ClientInv'
  BY DEF clientVars, ClientInv, ClientTypes, ClientGated, Gated, Cl!LetIn, Cl!HasRow
<1>4. AddressTypes /\ UNCHANGED addressVars => AddressTypes'
  BY DEF addressVars, AddressTypes, Ad!TypeOK
<1> QED
  BY <1>1, <1>2, <1>3, <1>4

(***************************************************************************)
(* The four inductive invariants together, along every behaviour.          *)
(***************************************************************************)
LEMMA PeopleInvariant == Spec => []PeopleInv
<1>1. Init => PeopleInv
  BY AccessInitInv, StaffInitInv, ClientInitInv, AddressInitTypes DEF Init, PeopleInv
<1>2. PeopleInv /\ [Next]_vars => PeopleInv'
  <2> SUFFICES ASSUME PeopleInv, [Next]_vars PROVE PeopleInv'
    OBVIOUS
  <2>1. CASE AccessStep
    <3>1. AccessInv'
      BY <2>1, AccessTypesStep, AccessGrantsStep DEF AccessStep, PeopleInv, AccessInv
    <3> QED
      BY <2>1, <3>1, PeopleApart DEF AccessStep, PeopleInv
  <2>2. CASE StaffStep
    <3>1. StaffInv'
      BY <2>2, StaffTypesStep, StaffChosenStep, StaffKeptStep DEF StaffStep, PeopleInv, StaffInv
    <3> QED
      BY <2>2, <3>1, PeopleApart DEF StaffStep, PeopleInv
  <2>3. CASE ClientStep
    <3>1. ClientInv'
      BY <2>3, ClientTypesStep, ClientGatedStep DEF ClientStep, PeopleInv, ClientInv
    <3> QED
      BY <2>3, <3>1, PeopleApart DEF ClientStep, PeopleInv
  <2>4. CASE AddressStep
    <3>1. AddressTypes'
      BY <2>4, AddressTypesStep DEF AddressStep, PeopleInv
    <3> QED
      BY <2>4, <3>1, PeopleApart DEF AddressStep, PeopleInv
  <2>5. CASE UNCHANGED vars
    BY <2>5, PeopleApart DEF vars, PeopleInv
  <2> QED
    BY <2>1, <2>2, <2>3, <2>4, <2>5 DEF Next
<1> QED
  BY <1>1, <1>2, PTL DEF Spec

(***************************************************************************)
(* The tables and the requests in progress are always well-formed: an edit *)
(* of roles that overlaps another never saves what is no permission, and   *)
(* no step of any component leaves a row outside its columns' values.      *)
(***************************************************************************)
THEOREM PeopleTyped == Spec => []TypesOK
<1>1. AccessInv => Ac!TypeOK
  BY DEF AccessInv, AccessTypes, Ac!TypeOK, AccessEdit, Carries
<1>2. StaffInv => St!TypeOK
  BY DEF StaffInv, StaffTypes, St!TypeOK, StaffRequest
<1>3. ClientInv => Cl!TypeOK
  BY DEF ClientInv, ClientTypes, Cl!TypeOK
<1>4. PeopleInv => TypesOK
  BY <1>1, <1>2, <1>3 DEF PeopleInv, AddressTypes, TypesOK
<1> QED
  BY <1>4, PeopleInvariant, PTL

(***************************************************************************)
(* Whatever edits overlap between the delete and the save of               *)
(* setRolePermissions, and wherever the process dies, a role whose grants  *)
(* an administrator set holds the reads of every module it works in.       *)
(***************************************************************************)
THEOREM GrantsCanBeUsed == Spec => []ReadsComeAlong
<1>1. PeopleInv => ReadsComeAlong
  BY DEF PeopleInv, AccessInv, AccessGrants, Complete, ReadsComeAlong, Ac!ReadsComeAlong
<1> QED
  BY <1>1, PeopleInvariant, PTL

(***************************************************************************)
(* Whatever edits of roles overlap, wherever the process dies and whatever *)
(* release the catalogue is from, once the service is up every permission a *)
(* route asks for is there, and the guards of every route let exactly the  *)
(* members through whom its decorators name.                               *)
(***************************************************************************)
THEOREM GuardsAdmit == Spec => []Ac!GuardsAdmitTheirOwn
<1>1. \A gate \in Ac!Gates : GateFormed(gate)
  BY ControllersFormed DEF Ac!Gates, Ac!AllRoutes, Formed
<1>2. PeopleInv => Ac!GuardsAdmitTheirOwn
  <2> SUFFICES ASSUME PeopleInv, process = "up", NEW gate \in Ac!Gates
               PROVE  /\ gate.kind = "permission" => gate.needs \in permissions
                      /\ \A u \in Members : Ac!Admitted(u, gate) <=> Ac!Entitled(u, gate)
    BY DEF Ac!GuardsAdmitTheirOwn
  <2>1. permissions = Ac!MODULE_ACTIONS /\ AccessTypes
    BY DEF PeopleInv, AccessInv, AccessGrants
  <2>2. GateFormed(gate)
    BY <1>1
  <2>3. gate.kind = "permission" => gate.needs \in permissions
    BY <2>1, <2>2 DEF GateFormed
  <2> QED
    BY <2>1, <2>2, <2>3, GuardsAgree
<1> QED
  BY <1>2, PeopleInvariant, PTL

(***************************************************************************)
(* Whatever webhooks are repeated, delayed or lost, an active member of    *)
(* the back office was let in, and has a tier somebody chose for it.       *)
(***************************************************************************)
THEOREM NobodyLetsThemselvesIn == Spec => []ChosenByAnAdmin
<1>1. PeopleInv => ChosenByAnAdmin
  BY DEF PeopleInv, StaffInv, StaffChosen, ChosenFor, ChosenByAnAdmin, St!ChosenByAnAdmin
<1> QED
  BY <1>1, PeopleInvariant, PTL

(***************************************************************************)
(* The check for the last super admin and the save it allows are two       *)
(* statements, with webhooks between them: as long as Clerk takes no super *)
(* admin away, there is one.                                               *)
(***************************************************************************)
THEOREM BackOfficeKeepsASuperAdmin == Spec => []SuperAdminRemains
<1>1. PeopleInv => SuperAdminRemains
  BY DEF PeopleInv, StaffInv, StaffKept, SuperAdminRemains, St!SuperAdminRemains
<1> QED
  BY <1>1, PeopleInvariant, PTL

(***************************************************************************)
(* A customer made from an invitation to the back office is let in only    *)
(* when the member is approved, or somebody unlocks the customer itself.   *)
(***************************************************************************)
THEOREM MirrorGated == Spec => []MirrorStaysGated
<1>1. PeopleInv => MirrorStaysGated
  BY DEF PeopleInv, ClientInv, ClientGated, Gated, MirrorStaysGated, Cl!MirrorStaysGated
<1> QED
  BY <1>1, PeopleInvariant, PTL

(***************************************************************************)
(* For a client whose requests come one after the other, each a sequence   *)
(* of statements that may find a limit or a missing row: between requests  *)
(* the address book has exactly one default.                               *)
(***************************************************************************)
THEOREM OneDefaultAddress ==
  ASSUME NEW r, BookRequests = {r}
  PROVE  Spec => []OneDefault
<1> DEFINE Inv == AddressTypes /\ AddressBook(r)
<1>1. Init => Inv
  BY AddressInitTypes DEF Init, Ad!Init, AddressBook, Ad!Live, Ad!Done
<1>2. Inv /\ [Next]_vars => Inv'
  <2> SUFFICES ASSUME Inv, [Next]_vars PROVE Inv'
    OBVIOUS
  <2>1. CASE AddressStep
    BY <2>1, AddressTypesStep, AddressBookStep DEF AddressStep
  <2>2. CASE UNCHANGED addressVars
    <3>1. AddressTypes'
      BY <2>2, PeopleApart
    <3>2. AddressBook(r)'
      BY <2>2 DEF addressVars, AddressBook, Ad!Live, Ad!Defaults
    <3> QED
      BY <3>1, <3>2
  <2> QED
    BY <2>1, <2>2 DEF Next, AccessStep, StaffStep, ClientStep, vars
<1>3. Inv => OneDefault
  BY AddressBookOne
<1> HIDE DEF Inv
<1> QED
  BY <1>1, <1>2, <1>3, PTL DEF Spec
=============================================================================
