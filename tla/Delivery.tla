------------------------------ MODULE Delivery -------------------------------
(***************************************************************************)
(* How an order reaches its client: storages with the area they cover and  *)
(* their pickup counters, delivery options with their zones, the offer     *)
(* made to a client, the validation of a choice, and the panel's list of   *)
(* municipalities that can buy but cannot be served.                       *)
(***************************************************************************)
EXTENDS Integers, FiniteSets, Sequences

CONSTANTS
  Provinces,
  ProvinceOf,       \* municipality -> province
  Locations,        \* ids of storages
  Addresses,        \* addresses of pickup counters
  PointIds,         \* ids of pickup counters
  Options,          \* ids of delivery options
  CoverageInputs,   \* the coverage lists an administrator sends
  ZoneInputs,       \* the zone lists an administrator sends
  FEE, Thresholds, Subtotals,   \* in cents
  Null

VARIABLES
  storages,         \* location -> row, with its coverage
  points,           \* rows of pickup counters
  options,          \* option -> row, with its zones
  pickupEnabled,    \* the fulfillment setting
  saving            \* zones that a request has deleted and not inserted yet

vars == <<storages, points, options, pickupEnabled, saving>>

Municipalities == DOMAIN ProvinceOf

-----------------------------------------------------------------------------
(* Coverage and zones *)

(* A coverage row or a zone names a province and perhaps a municipality. *)
Area == [province : Provinces, municipality : Municipalities \cup {Null}]

(* A row of coverage as the panel sends it. *)
CoverageItemDto ==
  [coverageType : {"province", "municipality"}, province : Provinces,
   municipality : Municipalities \cup {Null}]

(* What makes validateCoverage throw. *)
InvalidItem(i) ==
  /\ i.coverageType = "municipality"
  /\ i.municipality = Null \/ ProvinceOf[i.municipality] # i.province

(* A province row drops the municipality; equal rows are merged. *)
validateCoverage(items) ==
  {[province |-> i.province,
    municipality |-> IF i.coverageType = "municipality" THEN i.municipality ELSE Null] : i \in items}

(* The row names the municipality, or the whole of its province. *)
Reaches(area, m) ==
  \/ area.municipality = m
  \/ area.municipality = Null /\ area.province = ProvinceOf[m]

Absent == [state |-> "absent", isActive |-> FALSE, coverage |-> {}]

IsServing(l) == storages[l].state = "live" /\ storages[l].isActive

(* The active storages that deliver to a municipality. *)
coveringLocationIds(m) ==
  {l \in Locations : IsServing(l) /\ \E a \in storages[l].coverage : Reaches(a, m)}

-----------------------------------------------------------------------------
(* The offer *)

ActivePoints == {p \in points : IsServing(p.location)}

(* Mutant: only the counters of the storages that cover the place. *)
pickupPoints_OnlyNear(m) ==
  IF m = Null THEN ActivePoints
  ELSE {p \in ActivePoints : p.location \in coveringLocationIds(m)}

(* Counters near the client; any counter when none is near; none where no   *)
(* storage serves.                                                          *)
pickupPoints(m) ==
  LET covering == coveringLocationIds(m)
      near     == {p \in ActivePoints : p.location \in covering}
  IN  CASE m = Null -> ActivePoints
        [] m # Null /\ covering = {} -> {}
        [] m # Null /\ covering # {} -> IF near # {} THEN near ELSE ActivePoints

IsOffered(o) == options[o].state = "live" /\ options[o].enabled

(* An option without zones is offered everywhere. *)
ReachesOption(o, m) ==
  options[o].zones = {} \/ \E z \in options[o].zones : Reaches(z, m)

(* Mutant: options are offered where no storage serves. *)
optionsForMunicipality_Anywhere(m) ==
  {o \in Options : IsOffered(o) /\
     IF m = Null THEN options[o].zones = {} ELSE ReachesOption(o, m)}

optionsForMunicipality(m) ==
  {o \in Options : IsOffered(o) /\
     IF m = Null THEN options[o].zones = {}
     ELSE coveringLocationIds(m) # {} /\ ReachesOption(o, m)}

availableForClient(m) ==
  [deliveryOptions |-> optionsForMunicipality(m),
   pickupPoints    |-> IF pickupEnabled THEN pickupPoints(m) ELSE {}]

IsEmpty(offer) == offer.deliveryOptions = {} /\ offer.pickupPoints = {}

NothingToOffer(m) == IsEmpty(availableForClient(m))

(* Null, the id that was sent if it is on offer, or the only one there is. *)
Picked(id, offered) ==
  LET chosen == {c \in offered : IF id = Null THEN Cardinality(offered) = 1 ELSE c = id}
  IN  IF chosen = {} THEN Null ELSE CHOOSE c \in chosen : TRUE

LocationOf(id) == (CHOOSE p \in points : p.id = id).location

(* The choice of a checkout, or Null when it is refused.  It is judged on    *)
(* the tables as they are; checkout awaits the cart and the payment method   *)
(* before it asks for the storages, and what an administrator changes in     *)
(* that time is not modelled.                                                *)
resolveChoice(input) ==
  LET offer  == availableForClient(input.municipality)
      type   == IF input.type # Null THEN input.type
                ELSE IF offer.deliveryOptions # {} THEN "delivery" ELSE "pickup"
      point  == Picked(input.point, {p.id : p \in offer.pickupPoints})
      option == Picked(input.option, offer.deliveryOptions)
  IN  CASE IsEmpty(offer) -> Null
        [] ~IsEmpty(offer) /\ type = "pickup" ->
             IF ~pickupEnabled \/ point = Null THEN Null
             ELSE [type |-> type, option |-> Null, location |-> LocationOf(point), fee |-> 0]
        [] ~IsEmpty(offer) /\ type = "delivery" ->
             IF option = Null THEN Null
             ELSE [type |-> type, option |-> option, location |-> Null, fee |-> FEE]

(* The storages the reservation may use; every one without a municipality. *)
resolveAllowedLocationIds(m, choice) ==
  IF m = Null THEN Locations
  ELSE coveringLocationIds(m) \cup ({choice.location} \ {Null})

(* Nothing is charged once the purchase reaches the option's threshold; a   *)
(* threshold of zero is none.                                               *)
feeConPromocion(choice, subtotal) ==
  IF /\ choice.option # Null
     /\ options[choice.option].threshold > 0
     /\ subtotal >= options[choice.option].threshold
  THEN 0 ELSE choice.fee

-----------------------------------------------------------------------------
(* The panel's warning *)

municipalitiesWithoutFulfillment ==
  {m \in Municipalities :
     /\ \E l \in Locations : IsServing(l) /\ \E a \in storages[l].coverage : Reaches(a, m)
     /\ ~\E o \in Options : IsOffered(o) /\ ReachesOption(o, m)}

(* With pickup standing the query is skipped. *)
getSettingsResponse ==
  IF pickupEnabled /\ pickupPoints(Null) # {} THEN {} ELSE municipalitiesWithoutFulfillment

(* The places the shop lets a client choose.  The query also wants an active *)
(* municipality, and no code makes one inactive.                             *)
listMunicipalities == {m \in Municipalities : coveringLocationIds(m) # {}}

-----------------------------------------------------------------------------
(* Storages *)

(* Rows for the addresses at some places of a list, with ids not in use. *)
writePickupAddresses(l, list, places) ==
  LET unused == PointIds \ {p.id : p \in points}
      ids    == CHOOSE f \in [places -> unused] : \A m, n \in places : f[m] = f[n] => m = n
  IN  {[id |-> ids[n], location |-> l, address |-> list[n]] : n \in places}

EnoughIds(places) == Cardinality(places) <= Cardinality(PointIds) - Cardinality(points)

(* The counters of a storage after an edit: an address that was there keeps *)
(* its row (one of them, if it had several), new ones are written, the rest *)
(* are deleted.                                                             *)
reconcilePickupAddresses(l, list) ==
  LET before == {p \in points : p.location = l}
      known  == {p.address : p \in before}
      kept   == {rows \in SUBSET before :
                   /\ {p.address : p \in rows} = known \cap {list[n] : n \in DOMAIN list}
                   /\ Cardinality(rows) = Cardinality({p.address : p \in rows})}
      new    == {n \in DOMAIN list : list[n] \notin known}
  IN  {(points \ before) \cup rows \cup writePickupAddresses(l, list, new) :
         rows \in {k \in kept : EnoughIds(new)}}

(* The lists of addresses an administrator sends. *)
AddressLists == {<<>>} \cup {<<a>> : a \in Addresses} \cup {<<a, b>> : a, b \in Addresses}

create(l) ==
  /\ storages[l].state = "absent"
  /\ \E items \in CoverageInputs, active \in BOOLEAN, list \in AddressLists :
       /\ ~\E i \in items : InvalidItem(i)
       /\ EnoughIds(DOMAIN list)
       /\ storages' = [storages EXCEPT ![l] =
            [state |-> "live", isActive |-> active, coverage |-> validateCoverage(items)]]
       /\ points' = points \cup writePickupAddresses(l, list, DOMAIN list)
  /\ UNCHANGED <<options, pickupEnabled, saving>>

(* Each field is optional; what is not sent stays. *)
update(l) ==
  /\ storages[l].state = "live"
  /\ \E active \in BOOLEAN, items \in CoverageInputs \cup {{}} :
       /\ ~\E i \in items : InvalidItem(i)
       /\ storages' = [storages EXCEPT
            ![l].isActive = active,
            ![l].coverage = IF items = {} THEN @ ELSE validateCoverage(items)]
  /\ \/ UNCHANGED points
     \/ \E list \in AddressLists : points' \in reconcilePickupAddresses(l, list)
  /\ UNCHANGED <<options, pickupEnabled, saving>>

(* Soft deletion: coverage and counters stay behind. *)
remove(l) ==
  /\ storages[l].state = "live"
  /\ storages' = [storages EXCEPT ![l].state = "deleted"]
  /\ UNCHANGED <<points, options, pickupEnabled, saving>>

-----------------------------------------------------------------------------
(* Delivery options *)

NoOption == [state |-> "absent", enabled |-> FALSE, zones |-> {}, threshold |-> 0]

(* createOption and updateOption save the option, then replaceZones deletes *)
(* its zones and inserts the new ones, each statement on its own.           *)
createOption(o) ==
  /\ saving = Null
  /\ options[o].state = "absent"
  /\ \E enabled \in BOOLEAN, threshold \in Thresholds, zones \in ZoneInputs :
       /\ options' = [options EXCEPT ![o] =
            [state |-> "live", enabled |-> enabled, zones |-> {}, threshold |-> threshold]]
       /\ saving' = [option |-> o, zones |-> zones]
  /\ UNCHANGED <<storages, points, pickupEnabled>>

updateOption(o) ==
  /\ saving = Null
  /\ options[o].state = "live"
  /\ \E enabled \in BOOLEAN, threshold \in Thresholds :
       \/ /\ options' = [options EXCEPT ![o].enabled = enabled, ![o].threshold = threshold]
          /\ UNCHANGED saving
       \/ \E zones \in ZoneInputs :
            /\ options' = [options EXCEPT ![o].enabled = enabled, ![o].threshold = threshold,
                                          ![o].zones = {}]
            /\ saving' = [option |-> o, zones |-> zones]
  /\ UNCHANGED <<storages, points, pickupEnabled>>

replaceZones ==
  /\ saving # Null
  /\ options' = [options EXCEPT ![saving.option].zones = @ \cup saving.zones]
  /\ saving' = Null
  /\ UNCHANGED <<storages, points, pickupEnabled>>

removeOption(o) ==
  /\ options[o].state = "live"
  /\ options' = [options EXCEPT ![o].state = "deleted", ![o].zones = {}]
  /\ UNCHANGED <<storages, points, pickupEnabled, saving>>

updateSettings ==
  /\ pickupEnabled' \in BOOLEAN
  /\ UNCHANGED <<storages, points, options, saving>>

-----------------------------------------------------------------------------

Init ==
  /\ storages = [l \in Locations |-> Absent]
  /\ points = {}
  /\ options = [o \in Options |-> NoOption]
  /\ pickupEnabled = TRUE
  /\ saving = Null

Next ==
  \/ \E l \in Locations : create(l) \/ update(l) \/ remove(l)
  \/ \E o \in Options : createOption(o) \/ updateOption(o) \/ removeOption(o)
  \/ replaceZones
  \/ updateSettings

Spec == Init /\ [][Next]_vars

-----------------------------------------------------------------------------
(* Properties *)

TypeOK ==
  /\ \A l \in Locations :
       /\ storages[l].state \in {"absent", "live", "deleted"}
       /\ storages[l].isActive \in BOOLEAN
       /\ storages[l].coverage \subseteq Area
  /\ points \subseteq [id : PointIds, location : Locations, address : Addresses]
  /\ \A p, q \in points : p.id = q.id => p = q
  /\ \A o \in Options : options[o].zones \subseteq Area
  /\ pickupEnabled \in BOOLEAN

(***************************************************************************)
(* The panel names exactly the municipalities where the shop shows goods   *)
(* and checkout has nothing to offer, though it answers from a shortcut    *)
(* and a query of its own and not from the offer (getSettingsResponse,     *)
(* availableForClient).                                                    *)
(***************************************************************************)
DeadEndsReported == getSettingsResponse = {m \in listMunicipalities : NothingToOffer(m)}

(* The choices a client of a municipality can send. *)
ChoicesAt(m) ==
  [municipality : {m}, type : {Null, "pickup", "delivery"},
   point : PointIds \cup {Null}, option : Options \cup {Null}]

Servable(m, choice) ==
  LET allowed == resolveAllowedLocationIds(m, choice)
  IN  /\ m # Null => \E l \in allowed : l \in coveringLocationIds(m)
      /\ choice.type = "pickup" => IsServing(choice.location) /\ choice.location \in allowed
      /\ choice.type = "delivery" =>
           /\ IsOffered(choice.option)
           /\ \A subtotal \in Subtotals :
                feeConPromocion(choice, subtotal) = 0 <=>
                  options[choice.option].threshold \in 1 .. subtotal

(***************************************************************************)
(* A checkout that is accepted has somewhere to take the goods from: where *)
(* the place is known an active storage that covers it may be used, and a  *)
(* counter to collect at is an active one that may be drained; and the     *)
(* delivery is free just when the purchase reaches the option's threshold  *)
(* (resolveChoice, resolveAllowedLocationIds, feeConPromocion).  With      *)
(* nothing to offer, resolveChoice throws before it looks at the choice.   *)
(***************************************************************************)
AcceptedIsServable ==
  \A m \in Municipalities \cup {Null} : ~NothingToOffer(m) =>
    \A input \in ChoicesAt(m) :
      resolveChoice(input) # Null => Servable(m, resolveChoice(input))
=============================================================================
