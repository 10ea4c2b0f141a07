--------------------------- MODULE Aoe2UnitBridge ---------------------------
(***************************************************************************)
(* Aoe2UnitGameplayRenderBridge: the renderer instances that stand in for  *)
(* units and their corpses.  The simulation creates and deletes units and  *)
(* features and queues an event for each; once per drawn frame Prepare     *)
(* works off the events and Update visits all slots.                       *)
(*                                                                         *)
(* A unit is known to the bridge by its id and its address, the "lifetime  *)
(* token"; the module has the id pool and the memory pool that decide when *)
(* either is used again.                                                   *)
(***************************************************************************)
EXTENDS Naturals, SequencesExt, SimObjectIDPool

CONSTANTS
    UnitId, FeatureId,
    Def,            \* unit definitions: a subset of {"mapped", "broken", "native"}
    Kind,           \* [FeatureId -> {"plain", "corpse", "ownCorpse"}]
    ReusePages,     \* may the memory pool hand out freed pages again: it does
                    \* ({TRUE}), or if it did not ({FALSE})
    MaxPages,       \* bound of the model: pages of the memory pool
    MaxEvents       \* bound of the model: events between two drawn frames

ASSUME SetAssumption ==
    /\ IsFiniteSet(UnitId) /\ IsFiniteSet(FeatureId)
    /\ Def \subseteq {"mapped", "broken", "native"}
    /\ Kind \in [FeatureId -> {"plain", "corpse", "ownCorpse"}]
    /\ ReusePages \subseteq BOOLEAN /\ MaxPages \in Nat /\ MaxEvents \in Nat

VARIABLES
    units,              \* unitHandler: the live units by id
    idPool,             \* their ids
    reusePages, pages, freePages,
                        \* unitMemPool: pages made; those freed, the next one last
    features,           \* featureHandler: the live features and their sources
    spentFeatures,      \* ids of deleted features
    stage,              \* where the main thread is
    enabled,
    queuedEvents, processingEvents,
    cursor,             \* the loop variable of the sweep and of Update
    slots, activeUnitIds,
    featureSlots, activeFeatureIds,
    live                \* the renderer's instances that are alive

memory == <<reusePages, pages, freePages>>
sim == <<units, idPool, memory, features, spentFeatures>>
events == <<queuedEvents, processingEvents>>
unitSlots == <<slots, activeUnitIds>>
corpses == <<featureSlots, activeFeatureIds>>
vars == <<sim, stage, enabled, events, cursor, unitSlots, corpses, live>>

(* Entry x of a map becomes r. *)
Put(map, x, r) ==
    [y \in DOMAIN map \cup {x} |-> IF y = x THEN r ELSE map[y]]

Init ==
    /\ units = <<>> /\ features = <<>> /\ spentFeatures = {}
    /\ idPool = Expand(UnitId)
    /\ reusePages \in ReusePages /\ pages = 0 /\ freePages = <<>>
    /\ stage = "sim" /\ enabled = FALSE /\ cursor = 1
    /\ queuedEvents = <<>> /\ processingEvents = <<>>
    /\ slots = <<>> /\ activeUnitIds = <<>>
    /\ featureSlots = <<>> /\ activeFeatureIds = <<>>
    /\ live = {}

-----------------------------------------------------------------------------
(* The simulation: CUnitHandler and CFeatureHandler. *)

UnitCreated(u, page) == [type |-> "UnitCreated", id |-> u, token |-> page]
UnitDestroyed(u, page) == [type |-> "UnitDestroyed", id |-> u, token |-> page]
FeatureCreated(f) == [type |-> "FeatureCreated", id |-> f]
FeatureDestroyed(f) == [type |-> "FeatureDestroyed", id |-> f]

(* QueueUnitEvent, QueueFeatureEvent *)
Queue(s) ==
    /\ stage = "sim"
    /\ IF enabled
       THEN /\ Len(queuedEvents) + Len(s) <= MaxEvents
            /\ queuedEvents' = queuedEvents \o s
       ELSE UNCHANGED queuedEvents
    /\ UNCHANGED <<stage, enabled, processingEvents, cursor, unitSlots,
                   corpses, live>>

(* unitMemPool.alloc: the page freed last, or a new one *)
NextPage == IF freePages = <<>> THEN pages + 1 ELSE Last(freePages)

CreateUnit(u, def) ==
    /\ HasID(idPool, u)
    /\ NextPage <= MaxPages
    /\ units' = Put(units, u, [page |-> NextPage, def |-> def])
    /\ idPool' = Assigned(idPool, u)
    /\ IF freePages = <<>>
       THEN pages' = pages + 1 /\ UNCHANGED freePages
       ELSE freePages' = Front(freePages) /\ UNCHANGED pages
    /\ Queue(<<UnitCreated(u, NextPage)>>)
    /\ UNCHANGED <<reusePages, features, spentFeatures>>

(* The ids of features wait for a pool of 32000 to run out: none is used   *)
(* again here.                                                             *)
NewFeatures == FeatureId \ (DOMAIN features \cup spentFeatures)

(* DeleteUnit; the destructor leaves the wreck, a set of at most one, after *)
(* the event.  collect: GarbageCollectUnit, which recycles the id at once.  *)
DeleteUnit(u, wreck, collect) ==
    LET page == units[u].page
        freed == Freed(idPool, u)
    IN  /\ units' = Restrict(units, DOMAIN units \ {u})
        /\ idPool' = IF collect THEN RecycleID(freed, u) ELSE freed
        /\ freePages' = IF reusePages THEN Append(freePages, page)
                        ELSE freePages
        /\ features' = [f \in DOMAIN features \cup wreck |->
                          IF f \in wreck THEN {[id |-> u, token |-> page]}
                          ELSE features[f]]
        /\ Queue(<<UnitDestroyed(u, page)>> \o
                 SetToSeq({FeatureCreated(f) : f \in wreck}))
        /\ UNCHANGED <<reusePages, pages, spentFeatures>>

(* a feature that is no wreck: its source is empty *)
CreateFeature(f) ==
    /\ features' = Put(features, f, {})
    /\ Queue(<<FeatureCreated(f)>>)
    /\ UNCHANGED <<units, idPool, memory, spentFeatures>>

DeleteFeature(f) ==
    /\ features' = Restrict(features, DOMAIN features \ {f})
    /\ spentFeatures' = spentFeatures \cup {f}
    /\ Queue(<<FeatureDestroyed(f)>>)
    /\ UNCHANGED <<units, idPool, memory>>

-----------------------------------------------------------------------------
(* Slots.  activeUnitIds lists the ids with a slot; a slot knows its place. *)

(* Mutant of Unslotted: the id moved to the gap keeps its old place. *)
UnslottedStale(S, ids, x) == Restrict(S, DOMAIN S \ {x})

(* RemoveUnitSlot, RemoveFeatureSlot: the last id moves into the gap. *)
Unslotted(S, ids, x) ==
    [y \in DOMAIN S \ {x} |->
        IF y = Last(ids) THEN [S[y] EXCEPT !.activeIndex = S[x].activeIndex]
        ELSE S[y]]
GapFilled(S, ids, x) == Front([ids EXCEPT ![S[x].activeIndex] = Last(ids)])

RemoveUnitSlot(u) ==
    /\ slots' = Unslotted(slots, activeUnitIds, u)
    /\ activeUnitIds' = GapFilled(slots, activeUnitIds, u)
    /\ live' = live \ {slots[u].instance}

RemoveFeatureSlot(f) ==
    /\ featureSlots' = Unslotted(featureSlots, activeFeatureIds, f)
    /\ activeFeatureIds' = GapFilled(featureSlots, activeFeatureIds, f)
    /\ live' = live \ {featureSlots[f].instance}

(* CreateInstance: some handle that is not alive. *)
FreshInstance(L) == CHOOSE i \in 1..(Cardinality(L) + 1) : i \notin L

UnitSlot(instance, token, place) ==
    [instance |-> instance, token |-> token, activeIndex |-> place,
     pendingDestroy |-> FALSE]

(* Mutant of AddUnit: an id that has a slot keeps it, whatever the token. *)
AddUnitById(u, def, token) ==
    LET instance == FreshInstance(live) IN
    IF def # "mapped" \/ u \in DOMAIN slots
    THEN UNCHANGED <<unitSlots, live>>
    ELSE /\ slots' = Put(slots, u,
                         UnitSlot(instance, token, Len(activeUnitIds) + 1))
         /\ activeUnitIds' = Append(activeUnitIds, u)
         /\ live' = live \cup {instance}

(* A "native" definition has no usable mapping; for a "broken" one the     *)
(* renderer fails to create the instance.                                  *)
AddUnit(u, def, token) ==
    LET former == u \in DOMAIN slots
        S == IF former THEN Unslotted(slots, activeUnitIds, u) ELSE slots
        ids == IF former THEN GapFilled(slots, activeUnitIds, u)
               ELSE activeUnitIds
        L == IF former THEN live \ {slots[u].instance} ELSE live
        instance == FreshInstance(L)
    IN  CASE \/ def = "native"
             \/ former /\ slots[u].token = token ->
               UNCHANGED <<unitSlots, live>>
          [] OTHER ->
               IF def = "broken"
               THEN slots' = S /\ activeUnitIds' = ids /\ live' = L
               ELSE /\ slots' = Put(S, u, UnitSlot(instance, token, Len(ids) + 1))
                    /\ activeUnitIds' = Append(ids, u)
                    /\ live' = L \cup {instance}

(* Mutant of AddFeatureSlot: the place is read after the push. *)
AddFeatureSlotLate(f, instance) ==
    /\ featureSlots' =
         Put(featureSlots, f, [instance |-> instance,
                               activeIndex |-> Len(activeFeatureIds) + 2])
    /\ activeFeatureIds' = Append(activeFeatureIds, f)

AddFeatureSlot(f, instance) ==
    /\ featureSlots' =
         Put(featureSlots, f, [instance |-> instance,
                               activeIndex |-> Len(activeFeatureIds) + 1])
    /\ activeFeatureIds' = Append(activeFeatureIds, f)

(* the slots of the unit that feature f is the wreck of: at most one *)
Heirlooms(f) ==
    {s.id : s \in {s \in features[f] : /\ s.id \in DOMAIN slots
                                       /\ slots[s.id].token = s.token}}

(* Mutant of AddFeature: the instance handed over is destroyed as well. *)
AddFeatureDestroying(f) ==
    IF Kind[f] = "plain" \/ f \in DOMAIN featureSlots \/ Heirlooms(f) = {}
    THEN UNCHANGED <<unitSlots, corpses, live>>
    ELSE \E u \in Heirlooms(f) :
            /\ AddFeatureSlot(f, slots[u].instance)
            /\ RemoveUnitSlot(u)

(***************************************************************************)
(* AddFeature: the wreck of a unit that still has its slot takes over the  *)
(* instance; another one gets its own if its definition names a resource.  *)
(***************************************************************************)
AddFeature(f) ==
    IF Kind[f] = "plain" \/ f \in DOMAIN featureSlots
    THEN UNCHANGED <<unitSlots, corpses, live>>
    ELSE IF Heirlooms(f) # {}
    THEN \E u \in Heirlooms(f) :
            /\ AddFeatureSlot(f, slots[u].instance)
            /\ slots' = Unslotted(slots, activeUnitIds, u)
            /\ activeUnitIds' = GapFilled(slots, activeUnitIds, u)
            /\ UNCHANGED live
    ELSE IF Kind[f] = "ownCorpse"
    THEN /\ AddFeatureSlot(f, FreshInstance(live))
         /\ live' = live \cup {FreshInstance(live)}
         /\ UNCHANGED unitSlots
    ELSE UNCHANGED <<unitSlots, corpses, live>>

MarkUnitDestroyed(u, token) ==
    slots' = IF u \in DOMAIN slots /\ slots[u].token = token
             THEN [slots EXCEPT ![u].pendingDestroy = TRUE] ELSE slots

-----------------------------------------------------------------------------
(* A drawn frame: Prepare, the events, the sweep, Update. *)

(* Mutant of Everything: the features that exist already are forgotten. *)
EveryUnit == {[i \in DOMAIN us |-> UnitCreated(us[i], units[us[i]].page)] :
                us \in SetToSeqs(DOMAIN units)}

(* Enable adds all units, then all features: the same as working off an    *)
(* event for each.  (Called by Init it is not followed by a sweep and an   *)
(* Update; right after it they find nothing to do.)                        *)
EventsFor(us, fs) ==
    [i \in DOMAIN us |-> UnitCreated(us[i], units[us[i]].page)] \o
    [i \in DOMAIN fs |-> FeatureCreated(fs[i])]
Everything ==
    {EventsFor(us, fs) : us \in SetToSeqs(DOMAIN units),
                         fs \in SetToSeqs(DOMAIN features)}

Enable ==
    /\ stage = "sim" /\ ~enabled
    /\ enabled' = TRUE /\ stage' = "events"
    /\ processingEvents' \in Everything
    /\ UNCHANGED <<sim, queuedEvents, cursor, unitSlots, corpses, live>>

Disable ==
    /\ stage = "sim" /\ enabled
    /\ enabled' = FALSE /\ queuedEvents' = <<>>
    /\ slots' = <<>> /\ activeUnitIds' = <<>>
    /\ featureSlots' = <<>> /\ activeFeatureIds' = <<>>
    /\ live' = live \ ({slots[u].instance : u \in DOMAIN slots} \cup
                       {featureSlots[f].instance : f \in DOMAIN featureSlots})
    /\ UNCHANGED <<sim, stage, processingEvents, cursor>>

(* Prepare of a bridge that stays enabled *)
Prepare ==
    /\ stage = "sim" /\ enabled
    /\ stage' = "events"
    /\ processingEvents' = queuedEvents /\ queuedEvents' = <<>>
    /\ UNCHANGED <<sim, enabled, cursor, unitSlots, corpses, live>>

ProcessUnitEvent(e) ==
    /\ IF e.type = "UnitDestroyed"
       THEN MarkUnitDestroyed(e.id, e.token) /\ UNCHANGED <<activeUnitIds, live>>
       ELSE IF e.id \in DOMAIN units /\ units[e.id].page = e.token
       THEN AddUnit(e.id, units[e.id].def, e.token)
       ELSE UNCHANGED <<unitSlots, live>>
    /\ UNCHANGED corpses

ProcessFeatureEvent(e) ==
    IF e.type = "FeatureCreated" /\ e.id \in DOMAIN features
    THEN AddFeature(e.id)
    ELSE IF e.type = "FeatureDestroyed" /\ e.id \in DOMAIN featureSlots
    THEN RemoveFeatureSlot(e.id) /\ UNCHANGED unitSlots
    ELSE UNCHANGED <<unitSlots, corpses, live>>

ProcessEvent ==
    /\ stage = "events" /\ processingEvents # <<>>
    /\ LET e == Head(processingEvents) IN
       IF e.type \in {"UnitCreated", "UnitDestroyed"}
       THEN ProcessUnitEvent(e) ELSE ProcessFeatureEvent(e)
    /\ processingEvents' = Tail(processingEvents)
    /\ UNCHANGED <<sim, stage, enabled, queuedEvents, cursor>>

(* The loops over the active ids: the one at the cursor is removed if bad, *)
(* which puts another one there; else the cursor moves on.                 *)

(* Mutant of SweepSlot: the cursor moves on in any case. *)
SweepSlotSkipping(u) ==
    /\ IF slots[u].pendingDestroy THEN RemoveUnitSlot(u)
       ELSE UNCHANGED <<unitSlots, live>>
    /\ cursor' = cursor + 1
    /\ UNCHANGED corpses

SweepSlot(u) ==
    /\ IF slots[u].pendingDestroy
       THEN RemoveUnitSlot(u) /\ UNCHANGED cursor
       ELSE cursor' = cursor + 1 /\ UNCHANGED <<unitSlots, live>>
    /\ UNCHANGED corpses

UpdateSlot(u) ==
    /\ IF u \in DOMAIN units /\ units[u].page = slots[u].token
       THEN cursor' = cursor + 1 /\ UNCHANGED <<unitSlots, live>>
       ELSE RemoveUnitSlot(u) /\ UNCHANGED cursor
    /\ UNCHANGED corpses

UpdateFeatureSlot(f) ==
    /\ IF f \in DOMAIN features
       THEN cursor' = cursor + 1 /\ UNCHANGED <<corpses, live>>
       ELSE RemoveFeatureSlot(f) /\ UNCHANGED cursor
    /\ UNCHANGED unitSlots

(* at the end of a loop: on to the next one *)
GoTo(next) ==
    stage' = next /\ cursor' = 1 /\ UNCHANGED <<unitSlots, corpses, live>>

Sweep ==
    /\ stage = "events" /\ processingEvents = <<>>
    /\ IF cursor > Len(activeUnitIds) THEN GoTo("update")
       ELSE SweepSlot(activeUnitIds[cursor]) /\ UNCHANGED stage
    /\ UNCHANGED <<sim, enabled, events>>

Update ==
    /\ stage = "update"
    /\ IF cursor > Len(activeUnitIds) THEN GoTo("updateFeatures")
       ELSE UpdateSlot(activeUnitIds[cursor]) /\ UNCHANGED stage
    /\ UNCHANGED <<sim, enabled, events>>

UpdateFeatures ==
    /\ stage = "updateFeatures"
    /\ IF cursor > Len(activeFeatureIds) THEN GoTo("sim")
       ELSE UpdateFeatureSlot(activeFeatureIds[cursor]) /\ UNCHANGED stage
    /\ UNCHANGED <<sim, enabled, events>>

Next ==
    \/ \E u \in UnitId, def \in Def : CreateUnit(u, def)
    \/ \E u \in DOMAIN units, wreck \in {{}} \cup {{f} : f \in NewFeatures},
          collect \in BOOLEAN : DeleteUnit(u, wreck, collect)
    \/ \E f \in NewFeatures : CreateFeature(f)
    \/ \E f \in DOMAIN features : DeleteFeature(f)
    \/ Enable \/ Disable \/ Prepare
    \/ ProcessEvent \/ Sweep \/ Update \/ UpdateFeatures

Spec == Init /\ [][Next]_vars

-----------------------------------------------------------------------------
(* Properties. *)

Page == 1..MaxPages
Instance == 1..(Cardinality(UnitId) + Cardinality(FeatureId))
UnitSlotOK(s) ==
    s \in [instance : Instance, token : Page,
           activeIndex : 1..Cardinality(UnitId), pendingDestroy : BOOLEAN]
FeatureSlotOK(s) ==
    s \in [instance : Instance, activeIndex : 1..Cardinality(FeatureId)]

(* Every variable keeps its type; a slot's place is within its list, and   *)
(* there are never more instances than unit and feature ids.               *)
TypeOK ==
    /\ DOMAIN units \subseteq UnitId
    /\ \A u \in DOMAIN units : units[u] \in [page : Page, def : Def]
    /\ idPool \in [freeIDs : SUBSET UnitId, tempIDs : SUBSET UnitId]
    /\ reusePages \in ReusePages
    /\ pages \in 0..MaxPages /\ freePages \in Seq(Page)
    /\ DOMAIN features \subseteq FeatureId \ spentFeatures
    /\ stage \in {"sim", "events", "update", "updateFeatures"}
    /\ enabled \in BOOLEAN
    /\ cursor \in 1..(Cardinality(UnitId) + Cardinality(FeatureId) + 1)
    /\ DOMAIN slots \subseteq UnitId
    /\ \A u \in DOMAIN slots : UnitSlotOK(slots[u])
    /\ DOMAIN featureSlots \subseteq FeatureId
    /\ \A f \in DOMAIN featureSlots : FeatureSlotOK(featureSlots[f])
    /\ activeUnitIds \in Seq(UnitId) /\ activeFeatureIds \in Seq(FeatureId)
    /\ live \subseteq Instance

(* The slots and the active lists agree, whatever is removed from the      *)
(* middle: each slot is at its own place, and the list has no other ids.   *)
Agree(S, ids) ==
    /\ Len(ids) = Cardinality(DOMAIN S)
    /\ \A x \in DOMAIN S :
          S[x].activeIndex \in DOMAIN ids /\ ids[S[x].activeIndex] = x
ActiveListsAgree ==
    Agree(slots, activeUnitIds) /\ Agree(featureSlots, activeFeatureIds)

(* Every instance alive in the renderer is owned by exactly one slot (none *)
(* leaks, none is shared by a unit and a corpse that took it over) and     *)
(* every slot's instance is alive.                                         *)
InstancesOwned ==
    /\ live = {slots[u].instance : u \in DOMAIN slots} \cup
              {featureSlots[f].instance : f \in DOMAIN featureSlots}
    /\ Cardinality(live) = Cardinality(DOMAIN slots)
                             + Cardinality(DOMAIN featureSlots)

Drawing == stage \in {"update", "updateFeatures"}

(* When Update draws no slot is left of a dead unit or feature: the events *)
(* and the sweep have removed them all, so that the checks of Update only  *)
(* confirm it.                                                             *)
NoGhost ==
    Drawing =>
        /\ \A u \in DOMAIN slots :
              /\ u \in DOMAIN units /\ units[u].page = slots[u].token
              /\ units[u].def = "mapped"
        /\ DOMAIN featureSlots \subseteq DOMAIN features

(* When Update draws, every live feature with a resource of its own has an *)
(* instance, whenever it was created and whenever the bridge was enabled.  *)
EveryCorpseShown ==
    Drawing =>
        \A f \in DOMAIN features :
            Kind[f] = "ownCorpse" => f \in DOMAIN featureSlots

(* When Update draws, every live unit with a usable mapping has the slot   *)
(* of its own lifetime: no event about an earlier unit of that id has      *)
(* taken it away.  "A CUnit address is only an unsynced lifetime token":   *)
(* it names one lifetime as long as the address is not used again.         *)
EveryUnitShown ==
    Drawing =>
        \A u \in DOMAIN units :
            units[u].def = "mapped" =>
                u \in DOMAIN slots /\ slots[u].token = units[u].page

(* The same if the memory pool never handed out a page again, so that an   *)
(* address did name one lifetime: the ids alone, used again within a frame, *)
(* do no harm.                                                             *)
ShownIfPagesStay == ~reusePages => EveryUnitShown

=============================================================================
