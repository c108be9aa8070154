------------------------------ MODULE MCPeople ------------------------------
(***************************************************************************)
(* People on small instances.  A behaviour is about one component, chosen  *)
(* at the start, and only that one moves: the components share nothing, so *)
(* their interleavings add no case.  Access is looked at twice: one edit   *)
(* of the roles, the custom one included, and two at the same time, of the *)
(* base role.  Staff too: the members' requests with one invitation, and   *)
(* two invitations, which may overlap, with no request.                    *)
(***************************************************************************)
EXTENDS People, TLC

CONSTANTS e1, e2

VARIABLE focus

MCTierOf == ("ana" :> "STAFF") @@ ("jefa" :> "ADMIN") @@ ("root" :> "SUPER_ADMIN")

(* A request that works in a module and one that only reads, each with      *)
(* modules they lean on.                                                    *)
MCRequests == {{<<"cms-home", "update">>}, {<<"products", "read">>}}

MCStafferOf == ("a1" :> "eva") @@ ("r1" :> "root")

(* One person with two accounts: the second registration is the hard one. *)
MCCustomerOf == ("a1" :> "eva") @@ ("a2" :> "eva")

MCInit ==
  /\ focus \in {"access", "edits", "staff", "invitations", "clients", "addresses"}
  /\ Init
  /\ focus # "access" => permissions = {}

MCNext ==
  /\ UNCHANGED focus
  /\ \/ focus = "access" /\ AccessStep /\ edit'[e2] = Ac!Idle
     \/ focus = "edits" /\ AccessStep /\ roles'["c1"].state = "none"
     \/ focus = "staff" /\ StaffStep /\ invitations'[2].status = "none"
     \/ focus = "invitations" /\ StaffStep /\ request' = St!NoRequest
     \/ focus = "clients" /\ ClientStep
     \/ focus = "addresses" /\ AddressStep

(* A person of the store who cannot get in keeps coming back. *)
Login(a) == focus = "clients" /\ Cl!Login(a) /\ UNCHANGED <<focus, accessVars, staffVars, addressVars>>

MCSpec == MCInit /\ [][MCNext]_<<focus, vars>>
          /\ \A a \in StoreAccounts : WF_<<focus, vars>>(Login(a))

(* Access: every route answers its own path, to the members it names. *)
RoutesServeTheirOwn == focus = "access" => Ac!RoutesServeTheirOwn
=============================================================================
