------------------------------- MODULE MCShop --------------------------------
(***************************************************************************)
(* Shop on small instances.  A behaviour is about one component, chosen at *)
(* the start, and only that one moves: the components share nothing, so    *)
(* their interleavings add no case.                                        *)
(***************************************************************************)
EXTENDS Shop, TLC

CONSTANTS r1, r2

VARIABLE focus

(* Saturdays, Sundays and holidays of 2026, the two changes of the clock,   *)
(* both ends of a day in Cuba, and the turn of the year.                    *)
MCInstants ==
  {24*61+12, 24*64+3, 24*65+12, 24*90+12, 24*91+3, 24*91+12, 24*93+20,
   24*119+12, 24*203+12, 24*204+3, 24*302+12, 24*303+23, 24*304+3,
   24*356+12, 24*363+23, 24*365+12}

(* Two provinces, the whole of one or some of both, and one list whose      *)
(* municipality is not in its province.                                     *)
MCProvinceOf == ("a1" :> "A") @@ ("a2" :> "A") @@ ("b1" :> "B")

Item(t, p, m) == [coverageType |-> t, province |-> p, municipality |-> m]
Zone(p, m) == [province |-> p, municipality |-> m]

MCCoverageInputs ==
  {{Item("province", "A", "a1")},
   {Item("municipality", "A", "a2"), Item("municipality", "B", "b1")},
   {Item("municipality", "B", "a1")}}

MCZoneInputs == {{}, {Zone("A", Null)}, {Zone("B", "b1"), Zone("A", "a1")}}

MCCovering == ("m1" :> {"s"}) @@ ("m2" :> {})

MCWindows == {<<Null, 2>>, <<2, 1>>}

MCReminderDays == <<1, 2>>

MCQuota == [mensual |-> 3, diario |-> 2, reservaMensual |-> 1, reservaDiaria |-> 1]

MCPrescindibles == {<<"welcome", 0>>}

MCApagadas == {<<"order_cancelled", 0>>}

MCInit ==
  /\ focus \in {"cart", "promise", "delivery", "catalogue", "content", "mail", "attempts"}
  /\ Init
  /\ focus # "promise" => order = Pr!Unpaid(0)
  /\ focus # "attempts" => handling[r1] # At!Idle
  /\ focus # "mail" => waiting["o1"].email

MCNext ==
  /\ UNCHANGED focus
  /\ \/ focus = "cart" /\ CartStep
     \/ focus = "promise" /\ PromiseStep
     \/ focus = "delivery" /\ DeliveryStep
     \/ focus = "catalogue" /\ CatalogueStep
     \/ focus = "content" /\ ContentStep
     \/ focus = "mail" /\ MailStep
     \/ focus = "attempts" /\ AttemptStep

MCSpec == MCInit /\ [][MCNext]_<<focus, vars>>
=============================================================================
