------------------------------- MODULE Access -------------------------------
(***************************************************************************)
(* Who may reach what in the back office: the catalogue of permissions,    *)
(* the managed roles with their grants, the roles of each member, and the  *)
(* chain of guards in front of every route.  PermissionsService issues its *)
(* statements one by one outside any transaction, so an edit is a request  *)
(* in progress and others run between its statements.  Names and           *)
(* descriptions of the roles are left out.                                 *)
(***************************************************************************)
EXTENDS Routes

CONSTANTS
  Members,          \* users of the back office
  Assigned,         \* bound: the members whose managed roles are edited
  TierOf,           \* their role of the enum: SUPER_ADMIN, ADMIN or STAFF
  BaseKeys,         \* systemKeys of the base roles looked at
  CustomRoles,      \* rows createRole may use
  Edits,            \* request slots: the edits that can be in progress
  Requests          \* the sets of permissions an administrator asks for

VARIABLES
  permissions,   \* the rows of the permissions table, all of them active
  roles,         \* the roles rows
  grants,        \* role_permissions
  userRoles,     \* user_roles
  process,       \* "down", or how far onModuleInit has come
  edit           \* the requests in progress: next statement and what it carries

vars == <<permissions, roles, grants, userRoles, process, edit>>

-----------------------------------------------------------------------------
(* The catalogue *)

CRUD == {"list", "read", "create", "update", "delete"}

ACCIONES_DE_LECTURA == {"list", "read"}

(* The lists the screens of a module consult. *)
MODULOS_DE_APOYO ==
  [m \in {"products", "categories", "inventory", "cms-banners", "cms-home", "payments"} |->
     CASE m = "products" -> {"categories", "departments"}
       [] m = "categories" -> {"departments"}
       [] m = "inventory" -> {"categories", "departments", "stock-locations"}
       [] m = "cms-banners" -> {"products", "categories", "departments"}
       [] m = "cms-home" -> {"products", "departments", "cms-banners"}
       [] m = "payments" -> {"orders", "clients"}]

Offers(modules, actions) == modules \X actions

MODULE_ACTIONS ==
  UNION
    { Offers({"products", "categories", "departments", "stock-locations", "nomenclators",
              "delivery-options", "clients", "cms-pages", "cms-banners", "cms-services",
              "cms-staff", "contact"}, CRUD),
      Offers({"stock-locations"}, {"view-all"}),
      Offers({"cms-pages"}, {"publish"}),
      Offers({"contact"}, {"reply"}),
      Offers({"orders"}, {"list", "read", "create", "update-status",
                          "update-status-direct", "update-payment-status"}),
      Offers({"refunds"}, {"list", "read", "request", "complete", "reject"}),
      Offers({"inventory"}, {"list", "read", "aggregate", "history", "create-operation"}),
      Offers({"cms-settings", "fulfillment-settings"}, {"read", "update"}),
      Offers({"cms-home"}, {"read", "update", "publish"}),
      Offers({"payments"}, {"list"}),
      Offers({"dashboard"}, {"view"}),
      Offers({"uploads"}, {"create"}) }

(* What each base role is born with. *)
BASE_ROLES ==
  [k \in {"GROCER", "KARDIST", "WEB_MANAGER"} |->
     CASE k = "GROCER" ->
            Offers({"products", "categories", "departments", "stock-locations"},
                   ACCIONES_DE_LECTURA)
            \cup Offers({"inventory"}, {"list", "read", "history", "create-operation"})
       [] k = "KARDIST" ->
            Offers({"categories", "departments"}, ACCIONES_DE_LECTURA)
            \cup Offers({"inventory"}, {"read", "aggregate", "history"})
            \cup Offers({"uploads"}, {"create"})
       [] k = "WEB_MANAGER" ->
            Offers({"cms-home"}, {"read", "update", "publish"})
            \cup Offers({"cms-banners"}, CRUD)
            \cup Offers({"cms-pages"}, CRUD \cup {"publish"})
            \cup Offers({"uploads"}, {"create"})
            \cup Offers({"products", "categories", "departments"}, ACCIONES_DE_LECTURA)]

-----------------------------------------------------------------------------
(* Types *)

RoleIds == BaseKeys \cup CustomRoles

ManagedRole == [state : {"none", "live", "deleted"}, isActive : BOOLEAN,
                edited : BOOLEAN]  \* history: its grants were set by an administrator

(* An edit: role, to and user are sets, empty when it carries none. *)
Idle == [step |-> "idle", role |-> {}, to |-> {}, user |-> {}]

Boot == {"down", "permissions", "up"} \cup BaseKeys

TypeOK ==
  /\ permissions \subseteq MODULE_ACTIONS
  /\ roles \in [RoleIds -> ManagedRole]
  /\ grants \in [RoleIds -> SUBSET MODULE_ACTIONS]
  /\ userRoles \in [Members -> SUBSET RoleIds]
  /\ process \in Boot
  /\ \A e \in Edits :
       /\ edit[e].step \in {"idle", "ask", "wipe", "save", "unassign", "softDelete",
                            "clear", "assign"}
       /\ edit[e].role \subseteq RoleIds
       /\ edit[e].to \subseteq CASE edit[e].step \in {"clear", "assign"} -> RoleIds
                                [] edit[e].step = "ask" -> UNION Requests
                                [] OTHER -> MODULE_ACTIONS
       /\ edit[e].user \subseteq Members

Live == {r \in RoleIds : roles[r].state = "live"}

Active == {r \in Live : roles[r].isActive}

Go(e, step, role, to, user) ==
  edit' = [edit EXCEPT ![e] = [step |-> step, role |-> role, to |-> to, user |-> user]]

End(e) == edit' = [edit EXCEPT ![e] = Idle]

-----------------------------------------------------------------------------
(* onModuleInit *)

(* seedPermissions: only the rows that are missing. *)
SeedPermissions ==
  /\ process = "permissions"
  /\ permissions' = permissions \cup MODULE_ACTIONS
  /\ process' \in IF BaseKeys \subseteq {k \in BaseKeys : roles[k].state # "none"}
                  THEN {"up"} ELSE {k \in BaseKeys : roles[k].state = "none"}
  /\ UNCHANGED <<roles, grants, userRoles, edit>>

(* seedBaseRoles: the row of a role never seen before, deleted ones counting as seen. *)
SeedRole(k) ==
  /\ process = k
  /\ roles[k].state = "none"
  /\ roles' = [roles EXCEPT ![k] = [state |-> "live", isActive |-> TRUE, edited |-> FALSE]]
  /\ UNCHANGED <<permissions, grants, userRoles, process, edit>>

(* ... and then its grants, a statement later. *)
SeedGrants(k) ==
  /\ process = k
  /\ roles[k].state = "live"
  /\ grants' = [grants EXCEPT ![k] = @ \cup (BASE_ROLES[k] \cap permissions)]
  /\ LET left == {j \in BaseKeys \ {k} : roles[j].state = "none"}
     IN  process' \in IF left = {} THEN {"up"} ELSE left
  /\ UNCHANGED <<permissions, roles, userRoles, edit>>

Start == process = "down" /\ process' = "permissions"
         /\ UNCHANGED <<permissions, roles, grants, userRoles, edit>>

(* The process dies: what is in progress is lost, the rows stay. *)
Crash ==
  /\ process # "down"
  /\ process' = "down"
  /\ edit' = [e \in Edits |-> Idle]
  /\ UNCHANGED <<permissions, roles, grants, userRoles>>

-----------------------------------------------------------------------------
(* The edits *)

Free(e) == process = "up" /\ edit[e].step = "idle"

(* createRole: the row first; the permissions, when they come, are set next. *)
CreateRole(e, r, asked) ==
  /\ Free(e)
  /\ roles[r].state = "none"
  /\ roles' = [roles EXCEPT ![r] = [state |-> "live", isActive |-> TRUE, edited |-> FALSE]]
  /\ IF asked = {} THEN UNCHANGED edit ELSE Go(e, "ask", {r}, asked, {})
  /\ UNCHANGED <<permissions, grants, userRoles, process>>

(* An unknown permission: the role just created is undone. *)
UndoCreate(e) ==
  /\ edit[e].step = "ask"
  /\ \E r \in edit[e].role :
       /\ roles' = [roles EXCEPT ![r] = [state |-> "none", isActive |-> FALSE, edited |-> FALSE]]
       /\ grants' = [grants EXCEPT ![r] = {}]
       /\ userRoles' = [u \in Members |-> userRoles[u] \ {r}]
  /\ End(e)
  /\ UNCHANGED <<permissions, process>>

UpdateRole(e, r, isActive) ==
  /\ Free(e)
  /\ r \in Live
  /\ roles' = [roles EXCEPT ![r].isActive = isActive]
  /\ UNCHANGED <<permissions, grants, userRoles, process, edit>>

(* Mutant: only the module that was asked for comes with its reads. *)
conLecturasImplicadas_NoSupport(asked) ==
  asked \cup {p \in permissions :
                p[1] \in {q[1] : q \in {x \in asked : x[2] \notin ACCIONES_DE_LECTURA}}
                /\ p[2] \in ACCIONES_DE_LECTURA}

(* Working in a module brings its reads; touching it, those of the modules it leans on. *)
conLecturasImplicadas(asked) ==
  LET trabajan == {p[1] : p \in {x \in asked : x[2] \notin ACCIONES_DE_LECTURA}}
      apoyo == UNION {MODULOS_DE_APOYO[m] : m \in DOMAIN MODULOS_DE_APOYO \cap {p[1] : p \in asked}}
  IN  asked \cup {p \in permissions : p[1] \in trabajan \cup apoyo
                                      /\ p[2] \in ACCIONES_DE_LECTURA}

(* setRolePermissions: the checks and the reads, not of an empty list ... *)
AskPermissions(e, r, asked) ==
  /\ \/ Free(e)
     \/ edit[e].step = "ask" /\ edit[e].role = {r} /\ edit[e].to = asked
  /\ r \in Live
  /\ asked # {} /\ asked \subseteq permissions
  /\ Go(e, "wipe", {r}, conLecturasImplicadas(asked), {})
  /\ UNCHANGED <<permissions, roles, grants, userRoles, process>>

(* ... then the delete ... *)
WipeGrants(e) ==
  /\ edit[e].step = "wipe"
  /\ grants' = [r \in RoleIds |-> IF r \in edit[e].role THEN {} ELSE grants[r]]
  /\ edit' = [edit EXCEPT ![e].step = "save"]
  /\ UNCHANGED <<permissions, roles, userRoles, process>>

(* ... and the save, which adds to what another edit saved; without the row it fails. *)
SaveGrants(e) ==
  /\ edit[e].step = "save"
  /\ LET kept == {r \in edit[e].role : roles[r].state # "none"}
     IN  /\ grants' = [r \in RoleIds |-> IF r \in kept THEN grants[r] \cup edit[e].to
                                         ELSE grants[r]]
         /\ roles' = [r \in RoleIds |-> IF r \in kept THEN [roles[r] EXCEPT !.edited = TRUE]
                                        ELSE roles[r]]
  /\ End(e)
  /\ UNCHANGED <<permissions, userRoles, process>>

(* deleteRole: the assignments go, then the row is soft-deleted; its grants stay. *)
DeleteRole(e, r) ==
  /\ Free(e)
  /\ r \in Live
  /\ Go(e, "unassign", {r}, {}, {})
  /\ UNCHANGED <<permissions, roles, grants, userRoles, process>>

Unassign(e) ==
  /\ edit[e].step = "unassign"
  /\ userRoles' = [u \in Members |-> userRoles[u] \ edit[e].role]
  /\ edit' = [edit EXCEPT ![e].step = "softDelete"]
  /\ UNCHANGED <<permissions, roles, grants, process>>

SoftDeleteRole(e) ==
  /\ edit[e].step = "softDelete"
  /\ roles' = [r \in RoleIds |-> IF r \in edit[e].role THEN [roles[r] EXCEPT !.state = "deleted"]
                                 ELSE roles[r]]
  /\ End(e)
  /\ UNCHANGED <<permissions, grants, userRoles, process>>

(* setUserRoles: the roles must exist when asked; the rows are replaced later. *)
SetUserRoles(e, u, rs) ==
  /\ Free(e)
  /\ rs \subseteq Live
  /\ Go(e, "clear", {}, rs, {u})
  /\ UNCHANGED <<permissions, roles, grants, userRoles, process>>

ClearUserRoles(e) ==
  /\ edit[e].step = "clear"
  /\ userRoles' = [u \in Members |-> IF u \in edit[e].user THEN {} ELSE userRoles[u]]
  /\ IF edit[e].to = {} THEN End(e) ELSE edit' = [edit EXCEPT ![e].step = "assign"]
  /\ UNCHANGED <<permissions, roles, grants, process>>

SaveUserRoles(e) ==
  /\ edit[e].step = "assign"
  /\ userRoles' = [u \in Members |-> IF u \in edit[e].user
                     THEN userRoles[u] \cup {r \in edit[e].to : roles[r].state # "none"}
                     ELSE userRoles[u]]
  /\ End(e)
  /\ UNCHANGED <<permissions, roles, grants, process>>

(* assignRolesLenient, for an invitation accepted: what is still active of what it carried. *)
AssignRolesLenient(u, rs) ==
  /\ process = "up"
  /\ rs \cap Active # {}
  /\ userRoles' = [userRoles EXCEPT ![u] = @ \cup (rs \cap Active)]
  /\ UNCHANGED <<permissions, roles, grants, process, edit>>

-----------------------------------------------------------------------------
(* The guards *)

isSystemAdmin(tier) == tier \in {SUPER_ADMIN, ADMIN}

(* An assignment to a role that is deleted or inactive counts for nothing. *)
getActiveRoleIdsForUser(u) == {r \in userRoles[u] : r \in Active}

hasPermission(u, need) ==
  \/ isSystemAdmin(TierOf[u])
  \/ /\ need \in permissions
     /\ \E r \in getActiveRoleIdsForUser(u) : need \in grants[r]

(* AuthGuard: a member with a valid token, except on public routes. *)
AuthGuard(callers, gate) == gate.kind \in {"public", "client"} \/ callers # {}

RolesGuard(u, gate) == gate.kind = "tiers" => TierOf[u] \in gate.tiers

(* PermissionGuard: denied unless a decorator lets the member through. *)
PermissionGuard(u, gate) ==
  \/ isSystemAdmin(TierOf[u])
  \/ gate.kind = "permission" /\ hasPermission(u, gate.needs)
  \/ gate.kind \in {"tiers", "any"}

(* The three of them, in their order, for one member. *)
Admitted(u, gate) ==
  \/ gate.kind \in {"public", "client"}
  \/ AuthGuard({u}, gate) /\ RolesGuard(u, gate) /\ PermissionGuard(u, gate)

-----------------------------------------------------------------------------
Init ==
  /\ permissions \in {{}, {p \in MODULE_ACTIONS : p[1] \notin {"cms-home", "payments"}}}
  /\ roles = [r \in RoleIds |-> [state |-> "none", isActive |-> FALSE, edited |-> FALSE]]
  /\ grants = [r \in RoleIds |-> {}]
  /\ userRoles = [u \in Members |-> {}]
  /\ process = "down"
  /\ edit = [e \in Edits |-> Idle]

Next ==
  \/ Start \/ SeedPermissions \/ Crash
  \/ \E k \in BaseKeys : SeedRole(k) \/ SeedGrants(k)
  \/ \E e \in Edits :
       \/ UndoCreate(e)
       \/ \E r \in CustomRoles, asked \in Requests \cup {{}} : CreateRole(e, r, asked)
       \/ \E r \in RoleIds :
            \/ \E isActive \in BOOLEAN : UpdateRole(e, r, isActive)
            \/ \E asked \in Requests : AskPermissions(e, r, asked)
            \/ DeleteRole(e, r)
       \/ WipeGrants(e) \/ SaveGrants(e) \/ Unassign(e) \/ SoftDeleteRole(e)
       \/ \E u \in Assigned, rs \in SUBSET RoleIds : SetUserRoles(e, u, rs)
       \/ ClearUserRoles(e) \/ SaveUserRoles(e)
  \/ \E u \in Assigned, rs \in SUBSET RoleIds : AssignRolesLenient(u, rs)

Spec == Init /\ [][Next]_vars

-----------------------------------------------------------------------------
(* Properties *)

Gates == {route.gate : route \in AllRoutes}

AllReached == AllRoutes = OwnRoutes

(* What the decorators promise, said without the guards. *)
Entitled(u, gate) ==
  CASE gate.kind \in {"public", "client", "any"} -> TRUE
    [] gate.kind = "tiers" -> TierOf[u] \in gate.tiers
    [] OTHER ->
         \/ TierOf[u] # STAFF
         \/ \E r \in RoleIds : /\ roles[r].state = "live" /\ roles[r].isActive
                               /\ r \in userRoles[u] /\ gate.needs \in grants[r]

(***************************************************************************)
(* With the service up, the guards let exactly the members through whom    *)
(* the decorators of a route name: for a permission, those with a live and *)
(* active role that grants it.  In particular every permission a route     *)
(* asks for is in the catalogue, or its grant would open nothing, and a    *)
(* role deleted while it was being assigned opens nothing either.          *)
(***************************************************************************)
GuardsAdmitTheirOwn ==
  process = "up" =>
    \A gate \in Gates :
      /\ gate.kind = "permission" => gate.needs \in permissions
      /\ \A u \in Members : Admitted(u, gate) <=> Entitled(u, gate)

(***************************************************************************)
(* With the service up, a request to a route's own path is answered by     *)
(* that route and by no other, to exactly the members its decorators name. *)
(***************************************************************************)
RoutesServeTheirOwn == (process = "up" => AllReached) /\ GuardsAdmitTheirOwn

(***************************************************************************)
(* A role whose grants were set by an administrator never lets anybody     *)
(* work in a module without listing and reading it and the modules its     *)
(* screens lean on, even when two edits of the role interleave.            *)
(***************************************************************************)
ReadsComeAlong ==
  \A r \in RoleIds : roles[r].edited =>
    \A p \in grants[r] : p[2] \notin ACCIONES_DE_LECTURA =>
      \A m \in {p[1]} \cup (IF p[1] \in DOMAIN MODULOS_DE_APOYO
                            THEN MODULOS_DE_APOYO[p[1]] ELSE {}) :
        Offers({m}, ACCIONES_DE_LECTURA) \cap MODULE_ACTIONS \subseteq grants[r]
=============================================================================
