---------------------- MODULE Aoe2UnitBridgeEventProofs ----------------------
(* What the bridge shows is what there is: no event is missing between the    *)
(* simulation and the slots, for any number of units and features.           *)
EXTENDS Aoe2UnitBridgeProofs

Events ==
    {UnitCreated(u, p) : u \in UnitId, p \in Page}
        \cup {UnitDestroyed(u, p) : u \in UnitId, p \in Page}
        \cup {FeatureCreated(f) : f \in FeatureId}
        \cup {FeatureDestroyed(f) : f \in FeatureId}

(* The events that are still to be worked off.                               *)
Pending == Range(processingEvents) \cup Range(queuedEvents)

(* An id is free, waits to be, or is used by a unit.                         *)
IdsApart ==
    /\ idPool.freeIDs \cap idPool.tempIDs = {}
    /\ (idPool.freeIDs \cup idPool.tempIDs) \cap DOMAIN units = {}

(* Where events may be, and slots: none while the bridge is disabled.        *)
Modes ==
    /\ processingEvents \in Seq(Events) /\ queuedEvents \in Seq(Events)
    /\ stage # "events" => processingEvents = <<>>
    /\ stage # "sim" => enabled = TRUE /\ queuedEvents = <<>>
    /\ enabled = FALSE =>
          queuedEvents = <<>> /\ DOMAIN slots = {} /\ DOMAIN featureSlots = {}
    /\ stage = "sim" \/ processingEvents # <<>> => cursor = 1

(* A slot is marked only until the sweep has come by.                        *)
MarksAhead ==
    \A u \in DOMAIN slots : slots[u].pendingDestroy = TRUE =>
        stage = "events" /\ cursor <= slots[u].activeIndex

(* A unit u with address p exists.                                           *)
Named(u, p) == u \in DOMAIN units /\ units[u].page = p
Lives(u) == Named(u, slots[u].token) /\ units[u].def = "mapped"

(* The end of whatever a slot stands for is on its way.                      *)
EndsComing ==
    /\ \A u \in DOMAIN slots :
          \/ Lives(u) \/ slots[u].pendingDestroy = TRUE
          \/ UnitDestroyed(u, slots[u].token) \in Pending
    /\ \A f \in DOMAIN featureSlots :
          f \in DOMAIN features \/ FeatureDestroyed(f) \in Pending

(* A corpse with a resource has its slot, or it is on its way.               *)
CorpsesComing ==
    /\ \A f \in FeatureId : FeatureDestroyed(f) \in Pending => f \in spentFeatures
    /\ enabled = TRUE =>
          \A f \in DOMAIN features : Kind[f] = "ownCorpse" =>
              f \in DOMAIN featureSlots \/ FeatureCreated(f) \in Pending

(* If addresses are not used again: what is said about the dead is not said  *)
(* about the living, and a unit has its slot, or it is on its way.           *)
Gone(u, p) == p <= pages /\ ~Named(u, p)
DeadIsDead ==
    /\ freePages = <<>>
    /\ \A u \in DOMAIN units : units[u].page <= pages
    /\ \A u \in UnitId, p \in Page : UnitDestroyed(u, p) \in Pending => Gone(u, p)
    /\ \A u \in DOMAIN slots :
          slots[u].pendingDestroy = TRUE => ~Named(u, slots[u].token)
    /\ \A f \in DOMAIN features : \A s \in features[f] :
          s.id \in UnitId /\ s.token \in Page /\ Gone(s.id, s.token)
HasSlot(u) == u \in DOMAIN slots /\ slots[u].token = units[u].page
UnitsComing ==
    enabled = TRUE =>
        \A u \in DOMAIN units : units[u].def = "mapped" =>
            HasSlot(u) \/ UnitCreated(u, units[u].page) \in Pending
PagesStay == reusePages = FALSE => DeadIsDead /\ UnitsComing

EventInvariant ==
    /\ IdsApart /\ Modes /\ MarksAhead /\ EndsComing /\ CorpsesComing /\ PagesStay
All == Inv /\ EventInvariant

-----------------------------------------------------------------------------
(* Sequences of events.                                                      *)
LEMMA RangeOfConcatenation ==
    ASSUME NEW X, NEW s \in Seq(X), NEW t \in Seq(X)
    PROVE  s \o t \in Seq(X) /\ Range(s \o t) = Range(s) \cup Range(t)
  <1>1. /\ s \o t \in Seq(X) /\ DOMAIN (s \o t) = 1..(Len(s) + Len(t))
        /\ DOMAIN s = 1..Len(s) /\ DOMAIN t = 1..Len(t)
        /\ Len(s) \in Nat /\ Len(t) \in Nat
    OBVIOUS
  <1>2. \A i \in 1..Len(s) : (s \o t)[i] = s[i]
    OBVIOUS
  <1>3. \A i \in 1..Len(t) : (s \o t)[Len(s) + i] = t[i]
    OBVIOUS
  <1> DEFINE u == s \o t
  <1> HIDE DEF u
  <1>4. DOMAIN u = 1..(Len(s) + Len(t))
    BY <1>1 DEF u
  <1>5. \A i \in 1..Len(s) : i \in DOMAIN u /\ u[i] = s[i]
    BY <1>1, <1>2, <1>4 DEF u
  <1>6. \A i \in 1..Len(t) : Len(s) + i \in DOMAIN u /\ u[Len(s) + i] = t[i]
    BY <1>1, <1>3, <1>4 DEF u
  <1>7. \A i \in DOMAIN u : i \in 1..Len(s) \/ (i - Len(s) \in 1..Len(t) /\ i = Len(s) + (i - Len(s)))
    BY <1>1, <1>4
  <1>8. Range(u) \subseteq Range(s) \cup Range(t)
    <2>1. ASSUME NEW i \in DOMAIN u PROVE u[i] \in Range(s) \cup Range(t)
      <3>1. CASE i \in 1..Len(s)
        BY <1>1, <1>5, <3>1 DEF Range
      <3>2. CASE i - Len(s) \in 1..Len(t) /\ i = Len(s) + (i - Len(s))
        <4> DEFINE j == i - Len(s)
        <4>1. u[Len(s) + j] = t[j] /\ j \in DOMAIN t
          BY <1>1, <1>6, <3>2
        <4> QED  BY <3>2, <4>1 DEF Range
      <3> QED  BY <1>7, <3>1, <3>2
    <2> QED  BY <2>1 DEF Range
  <1>9. Range(s) \subseteq Range(u)
    BY <1>1, <1>5 DEF Range
  <1>10. Range(t) \subseteq Range(u)
    BY <1>1, <1>6 DEF Range
  <1> QED  BY <1>1, <1>8, <1>9, <1>10 DEF u

LEMMA RangeOfTail ==
    ASSUME NEW X, NEW s \in Seq(X), s # <<>>
    PROVE  /\ Tail(s) \in Seq(X) /\ Head(s) \in X
           /\ Range(s) = {Head(s)} \cup Range(Tail(s))
  <1>1. /\ Tail(s) \in Seq(X) /\ Head(s) = s[1] /\ Head(s) \in X
        /\ DOMAIN s = 1..Len(s) /\ Len(s) \in Nat /\ Len(s) > 0
        /\ DOMAIN Tail(s) = 1..(Len(s) - 1)
        /\ \A i \in 1..(Len(s) - 1) : Tail(s)[i] = s[i + 1]
    OBVIOUS
  <1>2. Range(Tail(s)) \subseteq Range(s)
    BY <1>1 DEF Range
  <1>3. ASSUME NEW i \in DOMAIN s PROVE s[i] \in {Head(s)} \cup Range(Tail(s))
    <2>1. CASE i = 1
      BY <1>1, <2>1
    <2>2. CASE i # 1
      <3>1. i - 1 \in DOMAIN Tail(s) /\ (i - 1) + 1 = i
        BY <1>1, <2>2
      <3>2. Tail(s)[i - 1] = s[i]
        BY <1>1, <3>1
      <3> QED  BY <3>1, <3>2 DEF Range
    <2> QED  BY <2>1, <2>2
  <1>4. Head(s) \in Range(s)
    BY <1>1 DEF Range
  <1> QED  BY <1>1, <1>2, <1>3, <1>4 DEF Range

LEMMA RangeOfNothing == Range(<<>>) = {}
  BY DEF Range

(* A finite set's sequence.                                                  *)
LEMMA SequenceOfSet ==
    ASSUME NEW S, IsFiniteSet(S)
    PROVE  SetToSeq(S) \in Seq(S) /\ Range(SetToSeq(S)) = S
  <1> DEFINE n == Cardinality(S)
             s == SetToSeq(S)
  <1>1. n \in Nat /\ ExistsBijection(1..n, S)
    BY FS_CardinalityType
  <1>2. PICK b : b \in Bijection(1..n, S)
    BY <1>1 DEF ExistsBijection
  <1>3. b \in [1..n -> S] /\ IsInjective(b)
    BY <1>2 DEF Bijection, Injection
  <1>4. s \in [1..n -> S] /\ IsInjective(s)
    BY <1>3 DEF SetToSeq
  <1> HIDE DEF s
  <1>5. s \in Injection(1..n, S)
    BY <1>4 DEF Injection
  <1>6. IsFiniteSet(1..n) /\ Cardinality(1..n) = n
    BY <1>1, FS_Interval
  <1>7. s \in Surjection(1..n, S)
    BY <1>5, <1>6, FS_Injection
  <1>8. s \in Seq(S)
    BY <1>1, <1>4
  <1>9. Range(s) = S
    BY <1>4, <1>7 DEF Range, Surjection
  <1> QED  BY <1>8, <1>9 DEF s

(* Different events are different.                                           *)
LEMMA EventsDiffer ==
    /\ \A u, p, v, q : UnitDestroyed(u, p) = UnitDestroyed(v, q) => u = v /\ p = q
    /\ \A u, p, v, q : UnitCreated(u, p) = UnitCreated(v, q) => u = v /\ p = q
    /\ \A f, g : FeatureCreated(f) = FeatureCreated(g) => f = g
    /\ \A f, g : FeatureDestroyed(f) = FeatureDestroyed(g) => f = g
    /\ \A u, p, v, q : UnitDestroyed(u, p) # UnitCreated(v, q)
    /\ \A u, p, f : /\ UnitDestroyed(u, p) # FeatureCreated(f)
                    /\ UnitDestroyed(u, p) # FeatureDestroyed(f)
                    /\ UnitCreated(u, p) # FeatureCreated(f)
                    /\ UnitCreated(u, p) # FeatureDestroyed(f)
    /\ \A f, g : FeatureCreated(f) # FeatureDestroyed(g)
  <1>1. \A u, p : /\ UnitDestroyed(u, p).type = "UnitDestroyed"
                  /\ UnitDestroyed(u, p).id = u /\ UnitDestroyed(u, p).token = p
    BY DEF UnitDestroyed
  <1>2. \A u, p : /\ UnitCreated(u, p).type = "UnitCreated"
                  /\ UnitCreated(u, p).id = u /\ UnitCreated(u, p).token = p
    BY DEF UnitCreated
  <1>3. \A f : FeatureCreated(f).type = "FeatureCreated" /\ FeatureCreated(f).id = f
    BY DEF FeatureCreated
  <1>4. \A f : FeatureDestroyed(f).type = "FeatureDestroyed" /\ FeatureDestroyed(f).id = f
    BY DEF FeatureDestroyed
  <1>5. /\ \A u, p, v, q : UnitDestroyed(u, p) = UnitDestroyed(v, q) => u = v /\ p = q
        /\ \A u, p, v, q : UnitCreated(u, p) = UnitCreated(v, q) => u = v /\ p = q
    BY <1>1, <1>2
  <1>6. /\ \A f, g : FeatureCreated(f) = FeatureCreated(g) => f = g
        /\ \A f, g : FeatureDestroyed(f) = FeatureDestroyed(g) => f = g
    BY <1>3, <1>4
  <1>7. \A u, p, v, q : UnitDestroyed(u, p) # UnitCreated(v, q)
    BY <1>1, <1>2
  <1>8. \A u, p, f : /\ UnitDestroyed(u, p) # FeatureCreated(f)
                     /\ UnitDestroyed(u, p) # FeatureDestroyed(f)
                     /\ UnitCreated(u, p) # FeatureCreated(f)
                     /\ UnitCreated(u, p) # FeatureDestroyed(f)
    BY <1>1, <1>2, <1>3, <1>4
  <1>9. \A f, g : FeatureCreated(f) # FeatureDestroyed(g)
    BY <1>3, <1>4
  <1> QED  BY <1>5, <1>6, <1>7, <1>8, <1>9

LEMMA EventIs ==
    ASSUME NEW e \in Events
    PROVE  /\ e.type = "UnitCreated" => /\ e.id \in UnitId /\ e.token \in Page
                                        /\ e = UnitCreated(e.id, e.token)
           /\ e.type = "UnitDestroyed" => /\ e.id \in UnitId /\ e.token \in Page
                                          /\ e = UnitDestroyed(e.id, e.token)
           /\ e.type = "FeatureCreated" => e.id \in FeatureId /\ e = FeatureCreated(e.id)
           /\ e.type = "FeatureDestroyed" => e.id \in FeatureId /\ e = FeatureDestroyed(e.id)
           /\ e.type \in {"UnitCreated", "UnitDestroyed", "FeatureCreated",
                          "FeatureDestroyed"}
  <1>1. \A u \in UnitId, q \in Page :
            /\ UnitCreated(u, q).type = "UnitCreated"
            /\ UnitCreated(u, q).id = u /\ UnitCreated(u, q).token = q
    BY DEF UnitCreated
  <1>2. \A u \in UnitId, q \in Page :
            /\ UnitDestroyed(u, q).type = "UnitDestroyed"
            /\ UnitDestroyed(u, q).id = u /\ UnitDestroyed(u, q).token = q
    BY DEF UnitDestroyed
  <1>3. \A f \in FeatureId :
            /\ FeatureCreated(f).type = "FeatureCreated" /\ FeatureCreated(f).id = f
            /\ FeatureDestroyed(f).type = "FeatureDestroyed" /\ FeatureDestroyed(f).id = f
    BY DEF FeatureCreated, FeatureDestroyed
  <1> QED  BY <1>1, <1>2, <1>3 DEF Events

-----------------------------------------------------------------------------
(* What the handlers do to the slots of others.                              *)
Kept(u) ==
    /\ u \in DOMAIN slots'
    /\ slots'[u].token = slots[u].token
    /\ slots'[u].pendingDestroy = slots[u].pendingDestroy

LEMMA UnslottedIs ==
    ASSUME NEW S, \A x \in DOMAIN S : S[x] \in UnitSlots, NEW ids, NEW u \in DOMAIN S,
           NEW x \in DOMAIN S \ {u}
    PROVE  /\ x \in DOMAIN Unslotted(S, ids, u)
           /\ Unslotted(S, ids, u)[x].token = S[x].token
           /\ Unslotted(S, ids, u)[x].pendingDestroy = S[x].pendingDestroy
           /\ Unslotted(S, ids, u)[x].activeIndex \in {S[x].activeIndex, S[u].activeIndex}
  <1>1. \A r \in UnitSlots, i \in 1..Cardinality(UnitId) :
            /\ [r EXCEPT !.activeIndex = i].token = r.token
            /\ [r EXCEPT !.activeIndex = i].pendingDestroy = r.pendingDestroy
            /\ [r EXCEPT !.activeIndex = i].activeIndex = i
    BY DEF UnitSlots
  <1>2. S[x] \in UnitSlots /\ S[u] \in UnitSlots
    OBVIOUS
  <1>3. S[u].activeIndex \in 1..Cardinality(UnitId)
    BY <1>2 DEF UnitSlots
  <1>4. /\ x \in DOMAIN Unslotted(S, ids, u)
        /\ Unslotted(S, ids, u)[x] =
              IF x = Last(ids) THEN [S[x] EXCEPT !.activeIndex = S[u].activeIndex]
              ELSE S[x]
    BY DEF Unslotted
  <1>5. CASE x = Last(ids)
    <2>1. Unslotted(S, ids, u)[x] = [S[x] EXCEPT !.activeIndex = S[u].activeIndex]
      BY <1>4, <1>5
    <2> DEFINE r == [S[x] EXCEPT !.activeIndex = S[u].activeIndex]
    <2>2. /\ r.token = S[x].token /\ r.pendingDestroy = S[x].pendingDestroy
          /\ r.activeIndex = S[u].activeIndex
      BY <1>1, <1>2, <1>3
    <2> HIDE DEF r
    <2>3. Unslotted(S, ids, u)[x] = r
      BY <2>1 DEF r
    <2> QED  BY <1>4, <2>2, <2>3
  <1>6. CASE x # Last(ids)
    BY <1>4, <1>6
  <1> QED  BY <1>5, <1>6

LEMMA SlotTyped ==
    ASSUME Inv
    PROVE  /\ \A x \in DOMAIN slots : slots[x] \in UnitSlots
           /\ DOMAIN slots \subseteq UnitId /\ DOMAIN featureSlots \subseteq FeatureId
           /\ \A x \in DOMAIN slots : /\ slots[x].token \in Page
                                       /\ slots[x].pendingDestroy \in BOOLEAN
                                       /\ slots[x].activeIndex \in Nat
  <1>1. /\ \A x \in DOMAIN slots : slots[x] \in UnitSlots
        /\ DOMAIN slots \subseteq UnitId /\ DOMAIN featureSlots \subseteq FeatureId
    BY DEF Inv, Slots, Consistent, Table
  <1>2. \A r \in UnitSlots : /\ r.token \in Page /\ r.pendingDestroy \in BOOLEAN
                             /\ r.activeIndex \in 1..Cardinality(UnitId)
    BY DEF UnitSlots
  <1>3. \A r \in UnitSlots : r.activeIndex \in Nat
    <2>1. Cardinality(UnitId) \in Nat
      BY FS_CardinalityType, SetAssumption
    <2> QED  BY <1>2, <2>1
  <1> QED  BY <1>1, <1>2, <1>3

LEMMA RemoveUnitSlotEffect ==
    ASSUME Inv, NEW u \in DOMAIN slots, slots' = Unslotted(slots, activeUnitIds, u)
    PROVE  /\ DOMAIN slots' = DOMAIN slots \ {u}
           /\ \A v \in DOMAIN slots \ {u} :
                 Kept(v) /\ slots'[v].activeIndex \in {slots[v].activeIndex,
                                                      slots[u].activeIndex}
  <1>1. DOMAIN slots' = DOMAIN slots \ {u}
    BY DEF Unslotted
  <1>2. ASSUME NEW v \in DOMAIN slots \ {u}
        PROVE  Kept(v) /\ slots'[v].activeIndex \in {slots[v].activeIndex,
                                                    slots[u].activeIndex}
    BY UnslottedIs, SlotTyped DEF Kept
  <1> QED  BY <1>1, <1>2

LEMMA AddUnitEffect ==
    ASSUME Inv, NEW u \in UnitId, NEW def, NEW token, AddUnit(u, def, token)
    PROVE  /\ DOMAIN slots' \ {u} = DOMAIN slots \ {u}
           /\ \A v \in DOMAIN slots \ {u} : Kept(v)
           /\ \/ /\ slots' = slots
                 /\ def = "native" \/ (u \in DOMAIN slots /\ slots[u].token = token)
              \/ def = "broken" /\ u \notin DOMAIN slots'
              \/ /\ u \in DOMAIN slots' /\ slots'[u].token = token
                 /\ slots'[u].pendingDestroy = FALSE /\ def \notin {"native", "broken"}
  <1> DEFINE S == IF u \in DOMAIN slots THEN Unslotted(slots, activeUnitIds, u) ELSE slots
  <1>1. /\ DOMAIN S = DOMAIN slots \ {u}
        /\ \A v \in DOMAIN slots \ {u} :
              /\ S[v].token = slots[v].token
              /\ S[v].pendingDestroy = slots[v].pendingDestroy
    <2>1. CASE u \in DOMAIN slots
      <3>1. S = Unslotted(slots, activeUnitIds, u)
        BY <2>1
      <3>2. DOMAIN Unslotted(slots, activeUnitIds, u) = DOMAIN slots \ {u}
        BY DEF Unslotted
      <3> HIDE DEF S
      <3> QED  BY <2>1, <3>1, <3>2, UnslottedIs, SlotTyped
    <2>2. CASE u \notin DOMAIN slots
      BY <2>2
    <2> QED  BY <2>1, <2>2
  <1>2. \/ /\ slots' = slots
           /\ def = "native" \/ (u \in DOMAIN slots /\ slots[u].token = token)
        \/ def = "broken" /\ slots' = S
        \/ /\ def \notin {"native", "broken"}
           /\ \E instance, place : slots' = Put(S, u, UnitSlot(instance, token, place))
    <2> HIDE DEF S
    <2> QED  BY DEF AddUnit, unitSlots, S
  <1> HIDE DEF S
  <1>3. CASE slots' = slots /\ (def = "native" \/ (u \in DOMAIN slots /\ slots[u].token = token))
    BY <1>3 DEF Kept
  <1>4. CASE def = "broken" /\ slots' = S
    BY <1>1, <1>4 DEF Kept
  <1>5. ASSUME def \notin {"native", "broken"},
               NEW instance, NEW place,
               slots' = Put(S, u, UnitSlot(instance, token, place))
        PROVE  /\ DOMAIN slots' \ {u} = DOMAIN slots \ {u}
               /\ \A v \in DOMAIN slots \ {u} : Kept(v)
               /\ u \in DOMAIN slots' /\ slots'[u].token = token
               /\ slots'[u].pendingDestroy = FALSE
    <2> DEFINE r == UnitSlot(instance, token, place)
    <2>1. r.token = token /\ r.pendingDestroy = FALSE
      BY DEF UnitSlot
    <2> HIDE DEF r
    <2>2. /\ DOMAIN slots' = DOMAIN S \cup {u} /\ slots'[u] = r
          /\ \A v \in DOMAIN S \ {u} : slots'[v] = S[v]
      BY <1>5 DEF Put, r
    <2> QED  BY <1>1, <2>1, <2>2 DEF Kept
  <1> QED  BY <1>2, <1>3, <1>4, <1>5

LEMMA RemoveFeatureSlotEffect ==
    ASSUME NEW f, RemoveFeatureSlot(f)
    PROVE  DOMAIN featureSlots' = DOMAIN featureSlots \ {f}
  BY DEF RemoveFeatureSlot, Unslotted

LEMMA AddFeatureEffect ==
    ASSUME NEW f, AddFeature(f)
    PROVE  /\ \/ slots' = slots
              \/ \E u \in Heirlooms(f) : slots' = Unslotted(slots, activeUnitIds, u)
           /\ DOMAIN featureSlots' \in {DOMAIN featureSlots, DOMAIN featureSlots \cup {f}}
           /\ Kind[f] = "ownCorpse" => f \in DOMAIN featureSlots'
  BY DEF AddFeature, AddFeatureSlot, unitSlots, corpses, Put

LEMMA MarkEffect ==
    ASSUME Inv, NEW u, NEW token, MarkUnitDestroyed(u, token)
    PROVE  /\ DOMAIN slots' = DOMAIN slots
           /\ \A v \in DOMAIN slots :
                 /\ slots'[v].token = slots[v].token
                 /\ slots'[v].pendingDestroy = TRUE <=>
                       \/ slots[v].pendingDestroy = TRUE
                       \/ v = u /\ slots[v].token = token
  <1>1. CASE slots' = slots /\ ~(u \in DOMAIN slots /\ slots[u].token = token)
    BY <1>1
  <1>2. CASE /\ u \in DOMAIN slots /\ slots[u].token = token
             /\ slots' = [slots EXCEPT ![u].pendingDestroy = TRUE]
    <2>1. \A r \in UnitSlots : /\ [r EXCEPT !.pendingDestroy = TRUE].token = r.token
                               /\ [r EXCEPT !.pendingDestroy = TRUE].pendingDestroy = TRUE
      BY DEF UnitSlots
    <2>2. ASSUME NEW v \in DOMAIN slots
          PROVE  /\ slots'[v].token = slots[v].token
                 /\ slots'[v].pendingDestroy = TRUE <=>
                       \/ slots[v].pendingDestroy = TRUE
                       \/ v = u /\ slots[v].token = token
      <3>1. slots'[v] = IF v = u THEN [slots[v] EXCEPT !.pendingDestroy = TRUE]
                        ELSE slots[v]
        BY <1>2
      <3>2. slots[v] \in UnitSlots
        BY SlotTyped
      <3>3. CASE v = u
        BY <1>2, <2>1, <3>1, <3>2, <3>3
      <3>4. CASE v # u
        BY <3>1, <3>4
      <3> QED  BY <3>3, <3>4
    <2> QED  BY <1>2, <2>2
  <1> QED  BY <1>1, <1>2 DEF MarkUnitDestroyed

-----------------------------------------------------------------------------
(* The simulation queues events.                                             *)
LEMMA NoMarks ==
    ASSUME MarksAhead, stage # "events"
    PROVE  \A u \in DOMAIN slots : slots[u].pendingDestroy # TRUE
  BY DEF MarksAhead

LEMMA QueueEffect ==
    ASSUME All, NEW s \in Seq(Events), Queue(s)
    PROVE  /\ Modes' /\ MarksAhead'
           /\ enabled' = enabled /\ slots' = slots /\ featureSlots' = featureSlots
           /\ enabled = TRUE => Pending' = Pending \cup Range(s)
           /\ enabled = FALSE => Pending' = {} /\ Pending = {}
           /\ stage = "sim"
  <1>1. /\ stage = "sim" /\ stage' = stage /\ enabled' = enabled
        /\ processingEvents' = processingEvents /\ cursor' = cursor
        /\ slots' = slots /\ featureSlots' = featureSlots
    BY DEF Queue, unitSlots, corpses
  <1>2. processingEvents = <<>> /\ cursor = 1
    BY <1>1 DEF All, EventInvariant, Modes
  <1>3. MarksAhead'
    BY <1>1, NoMarks DEF All, EventInvariant, MarksAhead
  <1>4. enabled \in BOOLEAN /\ queuedEvents \in Seq(Events)
    BY DEF All, Inv, BridgeTypes, EventInvariant, Modes
  <1>5. CASE enabled = TRUE
    <2>1. queuedEvents' = queuedEvents \o s
      BY <1>5 DEF Queue
    <2>2. queuedEvents' \in Seq(Events) /\ Range(queuedEvents') = Range(queuedEvents) \cup Range(s)
      BY <1>4, <2>1, RangeOfConcatenation
    <2>3. Pending' = Pending \cup Range(s)
      BY <1>1, <2>2 DEF Pending
    <2>4. Modes'
      BY <1>1, <1>2, <1>5, <2>2 DEF All, EventInvariant, Modes
    <2> QED  BY <1>1, <1>3, <1>5, <2>3, <2>4
  <1>6. CASE enabled = FALSE
    <2>1. queuedEvents' = queuedEvents /\ queuedEvents = <<>>
      BY <1>6 DEF Queue, All, EventInvariant, Modes
    <2>2. Pending' = {} /\ Pending = {}
      BY <1>1, <1>2, <2>1, RangeOfNothing DEF Pending
    <2>3. Modes'
      BY <1>1, <1>2, <1>6, <2>1 DEF All, EventInvariant, Modes
    <2> QED  BY <1>1, <1>3, <1>6, <2>2, <2>3
  <1> QED  BY <1>4, <1>5, <1>6

LEMMA SingleEvent ==
    ASSUME NEW e \in Events PROVE <<e>> \in Seq(Events) /\ Range(<<e>>) = {e}
  BY DEF Range

LEMMA CreateUnitEvents ==
    ASSUME All, NEW u \in UnitId, NEW def \in Def, CreateUnit(u, def), Inv'
    PROVE  EventInvariant'
  <1> DEFINE page == NextPage
             e == UnitCreated(u, page)
  <1>1. /\ units' = Put(units, u, [page |-> page, def |-> def])
        /\ idPool' = Assigned(idPool, u) /\ u \in idPool.freeIDs
        /\ Queue(<<e>>) /\ features' = features /\ spentFeatures' = spentFeatures
        /\ reusePages' = reusePages
    BY DEF CreateUnit, HasID
  <1>2. /\ DOMAIN units' = DOMAIN units \cup {u}
        /\ units'[u].page = page /\ units'[u].def = def
        /\ \A v \in DOMAIN units \ {u} : units'[v] = units[v]
    BY <1>1 DEF Put
  <1>3. u \notin DOMAIN units /\ u \notin idPool.tempIDs
    BY <1>1 DEF All, EventInvariant, IdsApart
  <1>4. page \in Page
    BY <1>2 DEF Inv, SimTypes
  <1>5. e \in Events
    BY <1>4 DEF Events
  <1> HIDE DEF page, e
  <1>6. /\ Modes' /\ MarksAhead'
        /\ enabled' = enabled /\ slots' = slots /\ featureSlots' = featureSlots
        /\ enabled = TRUE => Pending' = Pending \cup {e}
        /\ enabled = FALSE => Pending' = {} /\ Pending = {}
        /\ stage = "sim"
    BY <1>1, <1>5, SingleEvent, QueueEffect
  <1>7. enabled \in BOOLEAN
    BY DEF All, Inv, BridgeTypes
  <1>8. Pending \subseteq Pending' /\ Pending' \subseteq Pending \cup {e}
    BY <1>6, <1>7
  <1>9. IdsApart'
    <2>1. idPool \in [freeIDs : SUBSET UnitId, tempIDs : SUBSET UnitId]
      BY DEF All, Inv, SimTypes
    <2>2. [idPool EXCEPT !.freeIDs = @ \ {u}] =
            [freeIDs |-> idPool.freeIDs \ {u}, tempIDs |-> idPool.tempIDs]
      BY <2>1
    <2>3. \/ /\ idPool'.freeIDs = idPool.freeIDs \ {u}
             /\ idPool'.tempIDs = idPool.tempIDs
          \/ idPool'.freeIDs = idPool.tempIDs /\ idPool'.tempIDs = {}
      BY <1>1, <2>2 DEF Assigned, RecycleIDs, Expand
    <2> QED  BY <1>2, <1>3, <2>3 DEF IdsApart, All, EventInvariant
  <1>10. EndsComing'
    <2>1. \A v \in DOMAIN slots : v \in DOMAIN units => v # u
      BY <1>3
    <2>2. \A v \in DOMAIN slots : Lives(v) => Lives(v)'
      BY <1>2, <1>3, <1>6 DEF Lives, Named
    <2> QED  BY <1>1, <1>6, <1>8, <2>2 DEF EndsComing, All, EventInvariant
  <1>11. CorpsesComing'
    <2>1. \A f : FeatureDestroyed(f) \in Pending' => FeatureDestroyed(f) \in Pending
      BY <1>8, EventsDiffer DEF e
    <2> QED  BY <1>1, <1>6, <1>8, <2>1 DEF CorpsesComing, All, EventInvariant
  <1>12. ASSUME reusePages = FALSE PROVE DeadIsDead' /\ UnitsComing'
    <2>1. DeadIsDead /\ UnitsComing
      BY <1>12 DEF All, EventInvariant, PagesStay
    <2>2. freePages = <<>> /\ freePages' = <<>> /\ pages' = pages + 1 /\ page = pages + 1
      BY <2>1 DEF DeadIsDead, CreateUnit, NextPage, page
    <2>3. pages \in Nat /\ Page \subseteq Nat
      BY SetAssumption DEF All, Inv, SimTypes, Page
    <2>4. ASSUME NEW v \in UnitId, NEW q \in Nat, Gone(v, q) PROVE Gone(v, q)'
      BY <1>2, <1>3, <2>2, <2>3, <2>4 DEF Gone, Named
    <2>5. \A v \in DOMAIN units' : units'[v].page <= pages'
      <3>1. \A v \in DOMAIN units : units[v].page \in Nat /\ units[v].page <= pages
        BY <2>1, <2>3 DEF DeadIsDead, All, Inv, SimTypes
      <3> QED  BY <1>2, <2>2, <2>3, <3>1
    <2>6. \A v \in UnitId, q \in Page : UnitDestroyed(v, q) \in Pending' => Gone(v, q)'
      <3>1. \A v, q : UnitDestroyed(v, q) \in Pending' => UnitDestroyed(v, q) \in Pending
        BY <1>8, EventsDiffer DEF e
      <3> QED  BY <2>1, <2>3, <2>4, <3>1 DEF DeadIsDead
    <2>7. \A v \in DOMAIN slots' : slots'[v].pendingDestroy # TRUE
      BY <1>6, NoMarks DEF All, EventInvariant
    <2>8. \A f \in DOMAIN features' : \A t \in features'[f] :
              t.id \in UnitId /\ t.token \in Page /\ Gone(t.id, t.token)'
      BY <1>1, <2>1, <2>3, <2>4 DEF DeadIsDead
    <2>9. UnitsComing'
      BY <1>2, <1>3, <1>6, <1>8, <2>1 DEF UnitsComing, HasSlot, e
    <2> QED  BY <2>2, <2>5, <2>6, <2>7, <2>8, <2>9 DEF DeadIsDead
  <1> QED  BY <1>1, <1>6, <1>9, <1>10, <1>11, <1>12 DEF EventInvariant, PagesStay

LEMMA DeleteUnitEvents ==
    ASSUME All, NEW u \in DOMAIN units,
           NEW wreck \in {{}} \cup {{f} : f \in NewFeatures}, NEW collect \in BOOLEAN,
           DeleteUnit(u, wreck, collect), Inv'
    PROVE  EventInvariant'
  <1> DEFINE page == units[u].page
             e == UnitDestroyed(u, page)
             made == {FeatureCreated(f) : f \in wreck}
             s == <<e>> \o SetToSeq(made)
  <1>1. /\ units' = Restrict(units, DOMAIN units \ {u})
        /\ idPool' = IF collect THEN RecycleID(Freed(idPool, u), u) ELSE Freed(idPool, u)
        /\ features' = [f \in DOMAIN features \cup wreck |->
                          IF f \in wreck THEN {[id |-> u, token |-> page]}
                          ELSE features[f]]
        /\ Queue(s) /\ spentFeatures' = spentFeatures /\ reusePages' = reusePages
        /\ pages' = pages
    BY DEF DeleteUnit
  <1>2. /\ DOMAIN units' = DOMAIN units \ {u}
        /\ \A v \in DOMAIN units \ {u} : units'[v] = units[v]
    BY <1>1 DEF Restrict
  <1>3. /\ u \in UnitId /\ page \in Page /\ wreck \subseteq NewFeatures
        /\ NewFeatures \subseteq FeatureId
    BY DEF All, Inv, SimTypes, NewFeatures
  <1>4. s \in Seq(Events) /\ Range(s) = {e} \cup made
    <2>1. IsFiniteSet(wreck)
      BY FS_EmptySet, FS_Singleton
    <2>2. IsFiniteSet(made)
      <3>1. CASE wreck = {}
        <4>1. made = {}
          BY <3>1
        <4> QED  BY <4>1, FS_EmptySet
      <3>2. ASSUME NEW f \in NewFeatures, wreck = {f} PROVE IsFiniteSet(made)
        <4>1. made = {FeatureCreated(f)}
          BY <3>2
        <4> QED  BY <4>1, FS_Singleton
      <3> QED  BY <3>1, <3>2
    <2>3. made \subseteq Events /\ e \in Events
      BY <1>3 DEF Events
    <2> HIDE DEF e, made
    <2>4. SetToSeq(made) \in Seq(made) /\ Range(SetToSeq(made)) = made
      BY <2>2, SequenceOfSet
    <2>5. SetToSeq(made) \in Seq(Events)
      BY <2>3, <2>4
    <2>6. <<e>> \in Seq(Events) /\ Range(<<e>>) = {e}
      BY <2>3, SingleEvent
    <2>7. \A a, b \in Seq(Events) :
              a \o b \in Seq(Events) /\ Range(a \o b) = Range(a) \cup Range(b)
      BY RangeOfConcatenation
    <2> QED  BY <2>4, <2>5, <2>6, <2>7
  <1>5. \A x \in made : \E f \in wreck : x = FeatureCreated(f)
    OBVIOUS
  <1>6. \A f \in wreck : FeatureCreated(f) \in made
    OBVIOUS
  <1> HIDE DEF s, made, page, e
  <1>7. /\ Modes' /\ MarksAhead'
        /\ enabled' = enabled /\ slots' = slots /\ featureSlots' = featureSlots
        /\ enabled = TRUE => Pending' = Pending \cup {e} \cup made
        /\ enabled = FALSE => Pending' = {} /\ Pending = {}
        /\ stage = "sim"
    BY <1>1, <1>4, QueueEffect
  <1>8. enabled \in BOOLEAN
    BY DEF All, Inv, BridgeTypes
  <1>9. Pending \subseteq Pending' /\ Pending' \subseteq Pending \cup {e} \cup made
    BY <1>7, <1>8
  <1>10. IdsApart'
    <2> DEFINE freed == Freed(idPool, u)
    <2>1. idPool \in [freeIDs : SUBSET UnitId, tempIDs : SUBSET UnitId]
      BY DEF All, Inv, SimTypes
    <2>2. [idPool EXCEPT !.tempIDs = @ \cup {u}] =
            [freeIDs |-> idPool.freeIDs, tempIDs |-> idPool.tempIDs \cup {u}]
      BY <2>1
    <2>3. \/ freed.freeIDs = idPool.freeIDs /\ freed.tempIDs = idPool.tempIDs \cup {u}
          \/ freed.freeIDs = idPool.tempIDs \cup {u} /\ freed.tempIDs = {}
      BY <2>2 DEF Freed, RecycleIDs, Expand
    <2> HIDE DEF freed
    <2>4. /\ RecycleID(freed, u).freeIDs \cup RecycleID(freed, u).tempIDs =
                freed.freeIDs \cup freed.tempIDs
          /\ freed.freeIDs \cap freed.tempIDs = {} =>
                RecycleID(freed, u).freeIDs \cap RecycleID(freed, u).tempIDs = {}
      BY DEF RecycleID
    <2>5. /\ idPool'.freeIDs \cup idPool'.tempIDs = freed.freeIDs \cup freed.tempIDs
          /\ freed.freeIDs \cap freed.tempIDs = {} =>
                idPool'.freeIDs \cap idPool'.tempIDs = {}
      BY <1>1, <2>4 DEF freed
    <2>6. /\ idPool.freeIDs \cap idPool.tempIDs = {} /\ u \notin idPool.freeIDs
          /\ (idPool.freeIDs \cup idPool.tempIDs) \cap DOMAIN units = {}
      BY DEF All, EventInvariant, IdsApart
    <2> QED  BY <1>2, <2>3, <2>5, <2>6 DEF IdsApart
  <1>11. EndsComing'
    <2>1. ASSUME NEW v \in DOMAIN slots
          PROVE  \/ Lives(v)' \/ slots[v].pendingDestroy = TRUE
                 \/ UnitDestroyed(v, slots[v].token) \in Pending'
      <3>1. CASE v = u /\ slots[v].token = page
        <4>1. enabled = TRUE
          BY <1>8 DEF All, EventInvariant, Modes
        <4> QED  BY <1>7, <3>1, <4>1 DEF e
      <3>2. CASE ~(v = u /\ slots[v].token = page)
        <4>1. Lives(v) => Lives(v)'
          BY <1>2, <1>7, <3>2 DEF Lives, Named, page
        <4> QED  BY <1>9, <4>1 DEF EndsComing, All, EventInvariant
      <3> QED  BY <3>1, <3>2
    <2>2. DOMAIN features \subseteq DOMAIN features'
      BY <1>1
    <2> QED  BY <1>7, <1>9, <2>1, <2>2 DEF EndsComing, All, EventInvariant
  <1>12. CorpsesComing'
    <2>1. \A f : FeatureDestroyed(f) \in Pending' => FeatureDestroyed(f) \in Pending
      BY <1>5, <1>9, EventsDiffer DEF e
    <2>2. ASSUME enabled = TRUE, NEW f \in DOMAIN features', Kind[f] = "ownCorpse"
          PROVE  f \in DOMAIN featureSlots \/ FeatureCreated(f) \in Pending'
      <3>1. CASE f \in wreck
        BY <1>6, <1>7, <2>2, <3>1
      <3>2. CASE f \in DOMAIN features
        BY <1>9, <2>2, <3>2 DEF CorpsesComing, All, EventInvariant
      <3> QED  BY <1>1, <3>1, <3>2
    <2> QED  BY <1>1, <1>7, <2>1, <2>2 DEF CorpsesComing, All, EventInvariant
  <1>13. ASSUME reusePages = FALSE PROVE DeadIsDead' /\ UnitsComing'
    <2>1. DeadIsDead /\ UnitsComing
      BY <1>13 DEF All, EventInvariant, PagesStay
    <2>2. freePages' = <<>>
      BY <1>13, <2>1 DEF DeadIsDead, DeleteUnit
    <2>3. \A q : q = page => Gone(u, q)'
      BY <1>1, <1>2, <2>1 DEF Gone, Named, DeadIsDead, page
    <2>4. ASSUME NEW v, NEW q, Gone(v, q) PROVE Gone(v, q)'
      BY <1>1, <1>2, <2>4 DEF Gone, Named
    <2>5. \A v \in DOMAIN units' : units'[v].page <= pages'
      BY <1>1, <1>2, <2>1 DEF DeadIsDead
    <2>6. \A v \in UnitId, q \in Page : UnitDestroyed(v, q) \in Pending' => Gone(v, q)'
      <3>1. \A v, q : UnitDestroyed(v, q) \in Pending' =>
                UnitDestroyed(v, q) \in Pending \/ (v = u /\ q = page)
        BY <1>5, <1>9, EventsDiffer DEF e
      <3> QED  BY <2>1, <2>3, <2>4, <3>1 DEF DeadIsDead
    <2>7. \A v \in DOMAIN slots' : slots'[v].pendingDestroy # TRUE
      BY <1>7, NoMarks DEF All, EventInvariant
    <2>8. ASSUME NEW f \in DOMAIN features', NEW t \in features'[f]
          PROVE  t.id \in UnitId /\ t.token \in Page /\ Gone(t.id, t.token)'
      <3>1. CASE f \in wreck
        <4>1. t = [id |-> u, token |-> page]
          BY <1>1, <2>8, <3>1
        <4>2. t.id = u /\ t.token = page
          BY <4>1
        <4> QED  BY <1>3, <2>3, <4>2
      <3>2. CASE f \notin wreck
        <4>1. f \in DOMAIN features /\ t \in features[f]
          BY <1>1, <2>8, <3>2
        <4> QED  BY <2>1, <2>4, <4>1 DEF DeadIsDead
      <3> QED  BY <3>1, <3>2
    <2>9. UnitsComing'
      BY <1>2, <1>7, <1>9, <2>1 DEF UnitsComing, HasSlot
    <2> QED  BY <2>2, <2>5, <2>6, <2>7, <2>8, <2>9 DEF DeadIsDead
  <1> QED  BY <1>1, <1>7, <1>10, <1>11, <1>12, <1>13 DEF EventInvariant, PagesStay

LEMMA CreateFeatureEvents ==
    ASSUME All, NEW g \in NewFeatures, CreateFeature(g), Inv'
    PROVE  EventInvariant'
  <1> DEFINE e == FeatureCreated(g)
  <1>1. /\ features' = Put(features, g, {}) /\ Queue(<<e>>)
        /\ UNCHANGED <<units, idPool, reusePages, pages, freePages, spentFeatures>>
    BY DEF CreateFeature, memory
  <1>2. /\ DOMAIN features' = DOMAIN features \cup {g} /\ features'[g] = {}
        /\ \A f \in DOMAIN features \ {g} : features'[f] = features[f]
    BY <1>1 DEF Put
  <1>3. e \in Events
    BY DEF Events, NewFeatures
  <1> HIDE DEF e
  <1>4. /\ Modes' /\ MarksAhead'
        /\ enabled' = enabled /\ slots' = slots /\ featureSlots' = featureSlots
        /\ enabled = TRUE => Pending' = Pending \cup {e}
        /\ enabled = FALSE => Pending' = {} /\ Pending = {}
    BY <1>1, <1>3, SingleEvent, QueueEffect
  <1>5. enabled \in BOOLEAN
    BY DEF All, Inv, BridgeTypes
  <1>6. Pending \subseteq Pending' /\ Pending' \subseteq Pending \cup {e}
    BY <1>4, <1>5
  <1>7. IdsApart'
    BY <1>1 DEF IdsApart, All, EventInvariant
  <1>8. EndsComing'
    BY <1>1, <1>2, <1>4, <1>6 DEF EndsComing, Lives, Named, All, EventInvariant
  <1>9. CorpsesComing'
    <2>1. \A f : FeatureDestroyed(f) \in Pending' => FeatureDestroyed(f) \in Pending
      BY <1>6, EventsDiffer DEF e
    <2> QED  BY <1>1, <1>2, <1>4, <1>6, <2>1 DEF CorpsesComing, All, EventInvariant, e
  <1>10. ASSUME reusePages = FALSE PROVE DeadIsDead' /\ UnitsComing'
    <2>1. DeadIsDead /\ UnitsComing
      BY <1>10 DEF All, EventInvariant, PagesStay
    <2>2. \A v, q : UnitDestroyed(v, q) \in Pending' => UnitDestroyed(v, q) \in Pending
      BY <1>6, EventsDiffer DEF e
    <2>3. \A v, q : Gone(v, q) => Gone(v, q)'
      BY <1>1 DEF Gone, Named
    <2>4. \A f \in DOMAIN features' : \A t \in features'[f] :
              t.id \in UnitId /\ t.token \in Page /\ Gone(t.id, t.token)'
      BY <1>2, <2>1, <2>3 DEF DeadIsDead
    <2>5. UnitsComing'
      BY <1>1, <1>4, <1>6, <2>1 DEF UnitsComing, HasSlot
    <2> QED  BY <1>1, <1>4, <2>1, <2>2, <2>3, <2>4, <2>5 DEF DeadIsDead, Named
  <1> QED  BY <1>1, <1>4, <1>7, <1>8, <1>9, <1>10 DEF EventInvariant, PagesStay

LEMMA DeleteFeatureEvents ==
    ASSUME All, NEW g \in DOMAIN features, DeleteFeature(g), Inv'
    PROVE  EventInvariant'
  <1> DEFINE e == FeatureDestroyed(g)
  <1>1. /\ features' = Restrict(features, DOMAIN features \ {g}) /\ Queue(<<e>>)
        /\ spentFeatures' = spentFeatures \cup {g}
        /\ UNCHANGED <<units, idPool, reusePages, pages, freePages>>
    BY DEF DeleteFeature, memory
  <1>2. /\ DOMAIN features' = DOMAIN features \ {g}
        /\ \A f \in DOMAIN features \ {g} : features'[f] = features[f]
    BY <1>1 DEF Restrict
  <1>3. e \in Events
    BY DEF Events, All, Inv, SimTypes
  <1>4. \A f : FeatureDestroyed(f) = e => f = g
    BY EventsDiffer
  <1>5. /\ \A f : FeatureCreated(f) # e
        /\ \A v, q : UnitDestroyed(v, q) # e
    BY EventsDiffer
  <1>6. FeatureDestroyed(g) = e
    OBVIOUS
  <1> HIDE DEF e
  <1>7. /\ Modes' /\ MarksAhead'
        /\ enabled' = enabled /\ slots' = slots /\ featureSlots' = featureSlots
        /\ enabled = TRUE => Pending' = Pending \cup {e}
        /\ enabled = FALSE => Pending' = {} /\ Pending = {}
    BY <1>1, <1>3, SingleEvent, QueueEffect
  <1>8. enabled \in BOOLEAN
    BY DEF All, Inv, BridgeTypes
  <1>9. Pending \subseteq Pending' /\ Pending' \subseteq Pending \cup {e}
    BY <1>7, <1>8
  <1>10. IdsApart'
    BY <1>1 DEF IdsApart, All, EventInvariant
  <1>11. EndsComing'
    <2>1. ASSUME NEW f \in DOMAIN featureSlots
          PROVE  f \in DOMAIN features' \/ FeatureDestroyed(f) \in Pending'
      <3>1. enabled = TRUE
        BY <1>8 DEF All, EventInvariant, Modes
      <3> QED  BY <1>2, <1>6, <1>7, <1>9, <3>1 DEF EndsComing, All, EventInvariant
    <2>2. \A v \in DOMAIN slots : Lives(v) => Lives(v)'
      BY <1>1, <1>7 DEF Lives, Named
    <2> QED  BY <1>7, <1>9, <2>1, <2>2 DEF EndsComing, All, EventInvariant
  <1>12. CorpsesComing'
    BY <1>1, <1>2, <1>4, <1>7, <1>9 DEF CorpsesComing, All, EventInvariant
  <1>13. ASSUME reusePages = FALSE PROVE DeadIsDead' /\ UnitsComing'
    <2>1. DeadIsDead /\ UnitsComing
      BY <1>13 DEF All, EventInvariant, PagesStay
    <2>2. \A v, q : UnitDestroyed(v, q) \in Pending' => UnitDestroyed(v, q) \in Pending
      BY <1>5, <1>9
    <2>3. \A v, q : Gone(v, q) => Gone(v, q)'
      BY <1>1 DEF Gone, Named
    <2>4. \A f \in DOMAIN features' : \A t \in features'[f] :
              t.id \in UnitId /\ t.token \in Page /\ Gone(t.id, t.token)'
      BY <1>2, <2>1, <2>3 DEF DeadIsDead
    <2>5. UnitsComing'
      BY <1>1, <1>7, <1>9, <2>1 DEF UnitsComing, HasSlot
    <2> QED  BY <1>1, <1>7, <2>1, <2>2, <2>3, <2>4, <2>5 DEF DeadIsDead, Named
  <1> QED  BY <1>1, <1>7, <1>10, <1>11, <1>12, <1>13 DEF EventInvariant, PagesStay

-----------------------------------------------------------------------------
(* A frame begins.                                                           *)
LEMMA SimulationStands ==
    ASSUME UNCHANGED sim
    PROVE  /\ IdsApart <=> IdsApart'
           /\ \A u, p : (Named(u, p) <=> Named(u, p)') /\ (Gone(u, p) <=> Gone(u, p)')
           /\ UNCHANGED <<units, features, spentFeatures, reusePages, pages, freePages>>
  BY DEF sim, memory, IdsApart, Named, Gone

LEMMA PermutationIs ==
    ASSUME NEW S, IsFiniteSet(S), NEW s \in SetToSeqs(S)
    PROVE  Range(s) = S /\ \E n \in Nat : s \in [1..n -> S]
  <1> DEFINE n == Cardinality(S)
  <1>1. n \in Nat
    BY FS_CardinalityType
  <1>2. s \in [1..n -> S] /\ \A i, j \in 1..n : i # j => s[i] # s[j]
    BY DEF SetToSeqs
  <1>3. s \in Injection(1..n, S)
    BY <1>2 DEF Injection, IsInjective
  <1>4. IsFiniteSet(1..n) /\ Cardinality(1..n) = n
    BY <1>1, FS_Interval
  <1>5. s \in Surjection(1..n, S)
    BY <1>3, <1>4, FS_Injection
  <1>6. Range(s) = S
    BY <1>2, <1>5 DEF Range, Surjection
  <1> QED  BY <1>1, <1>2, <1>6

LEMMA EverythingIs ==
    ASSUME Inv, NEW s \in Everything
    PROVE  /\ s \in Seq(Events)
           /\ Range(s) = {UnitCreated(u, units[u].page) : u \in DOMAIN units}
                            \cup {FeatureCreated(f) : f \in DOMAIN features}
  <1>1. PICK us \in SetToSeqs(DOMAIN units), fs \in SetToSeqs(DOMAIN features) :
            s = EventsFor(us, fs)
    BY DEF Everything
  <1>2. /\ IsFiniteSet(DOMAIN units) /\ IsFiniteSet(DOMAIN features)
        /\ \A u \in DOMAIN units : u \in UnitId /\ units[u].page \in Page
        /\ DOMAIN features \subseteq FeatureId
    <2>1. DOMAIN units \in SUBSET UnitId /\ DOMAIN features \in SUBSET FeatureId
      BY DEF Inv, SimTypes
    <2>2. \A u \in DOMAIN units : u \in UnitId /\ units[u].page \in Page
      BY DEF Inv, SimTypes
    <2> QED  BY <2>1, <2>2, FS_Subset, SetAssumption
  <1>3. PICK n \in Nat : us \in [1..n -> DOMAIN units]
    BY <1>2, PermutationIs
  <1>4. PICK m \in Nat : fs \in [1..m -> DOMAIN features]
    BY <1>2, PermutationIs
  <1>5. Range(us) = DOMAIN units /\ Range(fs) = DOMAIN features
    BY <1>2, PermutationIs
  <1> DEFINE a == [i \in DOMAIN us |-> UnitCreated(us[i], units[us[i]].page)]
             b == [i \in DOMAIN fs |-> FeatureCreated(fs[i])]
  <1>6. a \in Seq(Events)
    <2>1. a \in [1..n -> Events]
      BY <1>2, <1>3 DEF Events
    <2> HIDE DEF a
    <2> QED  BY <2>1
  <1>7. b \in Seq(Events)
    <2>1. b \in [1..m -> Events]
      BY <1>2, <1>4 DEF Events
    <2> HIDE DEF b
    <2> QED  BY <2>1
  <1>8. Range(a) = {UnitCreated(u, units[u].page) : u \in DOMAIN units}
    BY <1>5 DEF Range
  <1>9. Range(b) = {FeatureCreated(f) : f \in DOMAIN features}
    BY <1>5 DEF Range
  <1>10. s = a \o b
    BY <1>1 DEF EventsFor
  <1> HIDE DEF a, b
  <1> QED  BY <1>6, <1>7, <1>8, <1>9, <1>10, RangeOfConcatenation

LEMMA EnableEvents == ASSUME All, Enable PROVE EventInvariant'
  <1>1. UNCHANGED sim /\ enabled' = TRUE /\ stage' = "events" /\ stage = "sim"
        /\ UNCHANGED <<queuedEvents, cursor, slots, featureSlots>>
    BY DEF Enable, unitSlots, corpses
  <1>2. enabled = FALSE
    BY DEF Enable, All, Inv, BridgeTypes
  <1>3. /\ processingEvents' \in Seq(Events)
        /\ Range(processingEvents') =
              {UnitCreated(u, units[u].page) : u \in DOMAIN units}
                \cup {FeatureCreated(f) : f \in DOMAIN features}
    BY EverythingIs DEF Enable, All
  <1>4. queuedEvents' = <<>> /\ DOMAIN slots = {} /\ DOMAIN featureSlots = {} /\ cursor = 1
    BY <1>1, <1>2 DEF All, EventInvariant, Modes
  <1>5. Pending' = {UnitCreated(u, units[u].page) : u \in DOMAIN units}
                     \cup {FeatureCreated(f) : f \in DOMAIN features}
    BY <1>3, <1>4, RangeOfNothing DEF Pending
  <1>6. Modes' /\ MarksAhead' /\ EndsComing'
    <2>1. queuedEvents' \in Seq(Events)
      BY <1>4
    <2>2. Modes'
      BY <1>1, <1>3, <1>4, <2>1 DEF Modes
    <2> QED  BY <1>1, <1>4, <2>2 DEF MarksAhead, EndsComing
  <1>7. /\ \A f : FeatureDestroyed(f) \notin Pending'
        /\ \A u, p : UnitDestroyed(u, p) \notin Pending'
    BY <1>5, EventsDiffer
  <1>8. CorpsesComing'
    BY <1>1, <1>5, <1>7, SimulationStands DEF CorpsesComing
  <1>9. ASSUME reusePages = FALSE PROVE DeadIsDead' /\ UnitsComing'
    <2>1. DeadIsDead
      BY <1>9 DEF All, EventInvariant, PagesStay
    <2>2. DeadIsDead'
      BY <1>1, <1>4, <1>7, <2>1, SimulationStands DEF DeadIsDead
    <2>3. UnitsComing'
      BY <1>1, <1>5, SimulationStands DEF UnitsComing
    <2> QED  BY <2>2, <2>3
  <1>10. IdsApart' /\ PagesStay'
    BY <1>1, <1>9, SimulationStands DEF All, EventInvariant, PagesStay
  <1> QED  BY <1>6, <1>8, <1>10 DEF EventInvariant

LEMMA DisableEvents == ASSUME All, Disable PROVE EventInvariant'
  <1>1. /\ UNCHANGED sim /\ enabled' = FALSE /\ stage = "sim" /\ stage' = "sim"
        /\ queuedEvents' = <<>> /\ slots' = <<>> /\ featureSlots' = <<>>
        /\ processingEvents' = processingEvents /\ cursor' = cursor
    BY DEF Disable
  <1>2. processingEvents = <<>> /\ cursor = 1
    BY <1>1 DEF All, EventInvariant, Modes
  <1>3. Pending' = {}
    BY <1>1, <1>2, RangeOfNothing DEF Pending
  <1>4. DOMAIN slots' = {} /\ DOMAIN featureSlots' = {}
    BY <1>1
  <1>5. Modes'
    BY <1>1, <1>2, <1>4 DEF Modes
  <1>6. MarksAhead' /\ EndsComing' /\ CorpsesComing'
    BY <1>1, <1>3, <1>4 DEF MarksAhead, EndsComing, CorpsesComing
  <1>7. ASSUME reusePages = FALSE PROVE DeadIsDead' /\ UnitsComing'
    <2>1. DeadIsDead
      BY <1>7 DEF All, EventInvariant, PagesStay
    <2> QED  BY <1>1, <1>3, <1>4, <2>1, SimulationStands DEF DeadIsDead, UnitsComing
  <1>8. IdsApart' /\ PagesStay'
    BY <1>1, <1>7, SimulationStands DEF All, EventInvariant, PagesStay
  <1> QED  BY <1>5, <1>6, <1>8 DEF EventInvariant

(* Nothing but the mode changes.                                             *)
LEMMA SameEvents ==
    ASSUME All, UNCHANGED <<sim, enabled, slots, featureSlots>>, Pending' = Pending
    PROVE  IdsApart' /\ EndsComing' /\ CorpsesComing' /\ PagesStay'
  <1>1. /\ units' = units /\ features' = features /\ spentFeatures' = spentFeatures
        /\ idPool' = idPool /\ reusePages' = reusePages /\ pages' = pages
        /\ freePages' = freePages
    BY DEF sim, memory
  <1>2. IdsApart' /\ EndsComing' /\ CorpsesComing'
    BY <1>1 DEF All, EventInvariant, IdsApart, EndsComing, CorpsesComing, Lives, Named
  <1>3. DeadIsDead => DeadIsDead'
    BY <1>1 DEF DeadIsDead, Gone, Named
  <1>4. UnitsComing => UnitsComing'
    BY <1>1 DEF UnitsComing, HasSlot
  <1> QED  BY <1>1, <1>2, <1>3, <1>4 DEF All, EventInvariant, PagesStay

LEMMA PrepareEvents == ASSUME All, Prepare PROVE EventInvariant'
  <1>1. /\ UNCHANGED <<sim, enabled, slots, featureSlots, cursor>>
        /\ enabled \in BOOLEAN /\ stage = "sim" /\ stage' = "events"
        /\ processingEvents' = queuedEvents /\ queuedEvents' = <<>>
    BY DEF Prepare, unitSlots, corpses, All, Inv, BridgeTypes
  <1>2. enabled = TRUE
    BY <1>1 DEF Prepare
  <1>3. processingEvents = <<>> /\ cursor = 1 /\ queuedEvents \in Seq(Events)
    BY <1>1 DEF All, EventInvariant, Modes
  <1>4. Pending' = Pending
    BY <1>1, <1>3, RangeOfNothing DEF Pending
  <1>5. Modes'
    BY <1>1, <1>2, <1>3 DEF Modes
  <1>6. MarksAhead'
    BY <1>1, NoMarks DEF MarksAhead, All, EventInvariant
  <1> QED  BY <1>1, <1>4, <1>5, <1>6, SameEvents DEF EventInvariant

-----------------------------------------------------------------------------
(* An event is worked off.  Next is the first one; what is left afterwards is *)
(* everything else.                                                          *)
Rest == Range(Tail(processingEvents))

LEMMA EventFrame ==
    ASSUME All, ProcessEvent, Inv'
    PROVE  /\ Modes' /\ MarksAhead' /\ IdsApart'
           /\ Head(processingEvents) \in Events
           /\ Pending' = Rest /\ Pending = {Head(processingEvents)} \cup Rest
           /\ enabled = TRUE /\ enabled' = TRUE /\ UNCHANGED sim
  <1>1. /\ stage = "events" /\ stage' = "events" /\ processingEvents # <<>>
        /\ processingEvents' = Tail(processingEvents)
        /\ UNCHANGED <<sim, enabled, queuedEvents, cursor>>
    BY DEF ProcessEvent
  <1>2. /\ processingEvents \in Seq(Events) /\ queuedEvents = <<>> /\ enabled = TRUE
        /\ cursor = 1
    BY <1>1 DEF All, EventInvariant, Modes
  <1>3. /\ Tail(processingEvents) \in Seq(Events) /\ Head(processingEvents) \in Events
        /\ Range(processingEvents) = {Head(processingEvents)} \cup Rest
    BY <1>1, <1>2, RangeOfTail DEF Rest
  <1>4. Pending' = Rest /\ Pending = {Head(processingEvents)} \cup Rest
    BY <1>1, <1>2, <1>3, RangeOfNothing DEF Pending, Rest
  <1>5. queuedEvents' \in Seq(Events)
    BY <1>1, <1>2
  <1>6. Modes'
    BY <1>1, <1>2, <1>3, <1>5 DEF Modes
  <1>7. MarksAhead'
    <2>1. \A r \in UnitSlots : r.activeIndex \in 1..Cardinality(UnitId)
      BY DEF UnitSlots
    <2>2. Cardinality(UnitId) \in Nat
      BY FS_CardinalityType, SetAssumption
    <2>3. \A u \in DOMAIN slots' : slots'[u] \in UnitSlots
      BY DEF Inv, Slots, Consistent, Table
    <2>4. \A u \in DOMAIN slots' : 1 <= slots'[u].activeIndex
      BY <2>1, <2>2, <2>3
    <2> QED  BY <1>1, <1>2, <2>4 DEF MarksAhead
  <1>8. IdsApart'
    BY <1>1, SimulationStands DEF All, EventInvariant
  <1> QED  BY <1>1, <1>2, <1>3, <1>4, <1>6, <1>7, <1>8

(* A step that keeps the corpses, and events about features.                 *)
LEMMA CorpsesKept ==
    ASSUME All, UNCHANGED <<sim, enabled, featureSlots>>,
           \A f : FeatureDestroyed(f) \in Pending' <=> FeatureDestroyed(f) \in Pending,
           \A f : FeatureCreated(f) \in Pending' <=> FeatureCreated(f) \in Pending
    PROVE  /\ CorpsesComing'
           /\ \A f \in DOMAIN featureSlots' :
                 f \in DOMAIN features' \/ FeatureDestroyed(f) \in Pending'
  BY SimulationStands DEF All, EventInvariant, CorpsesComing, EndsComing

(* A step that takes nothing away from what is said about the dead.          *)
LEMMA DeadKept ==
    ASSUME DeadIsDead, UNCHANGED sim,
           \A u, p : UnitDestroyed(u, p) \in Pending' => UnitDestroyed(u, p) \in Pending,
           \A u \in DOMAIN slots' :
              slots'[u].pendingDestroy = TRUE => ~Named(u, slots'[u].token)
    PROVE  DeadIsDead'
  <1>1. (\A u \in DOMAIN slots :
            slots[u].pendingDestroy = TRUE => ~Named(u, slots[u].token))'
    BY SimulationStands DEF Named
  <1> QED  BY <1>1, SimulationStands DEF DeadIsDead

LEMMA UnitCreatedEvents ==
    ASSUME All, ProcessEvent, Inv', Head(processingEvents).type = "UnitCreated"
    PROVE  EventInvariant'
  <1> DEFINE e == Head(processingEvents)
             u == e.id
             p == e.token
  <1>1. /\ Modes' /\ MarksAhead' /\ IdsApart' /\ e \in Events
        /\ Pending' = Rest /\ Pending = {e} \cup Rest
        /\ enabled = TRUE /\ enabled' = TRUE /\ UNCHANGED sim
    BY EventFrame
  <1>2. u \in UnitId /\ p \in Page /\ e = UnitCreated(u, p)
    BY <1>1, EventIs
  <1>3. /\ UNCHANGED corpses
        /\ \/ Named(u, p) /\ AddUnit(u, units[u].def, p)
           \/ ~Named(u, p) /\ UNCHANGED <<unitSlots, live>>
    <2>1. ProcessUnitEvent(e)
      BY DEF ProcessEvent
    <2> HIDE DEF e
    <2>2. UNCHANGED corpses /\ e.type # "UnitDestroyed"
      BY <2>1 DEF ProcessUnitEvent, e
    <2>3. IF Named(u, p) THEN AddUnit(u, units[u].def, p) ELSE UNCHANGED <<unitSlots, live>>
      BY <2>1, <2>2 DEF ProcessUnitEvent, Named
    <2> QED  BY <2>2, <2>3
  <1> HIDE DEF e, u, p
  <1>4. /\ \A f : FeatureDestroyed(f) \in Pending' <=> FeatureDestroyed(f) \in Pending
        /\ \A f : FeatureCreated(f) \in Pending' <=> FeatureCreated(f) \in Pending
        /\ \A v, q : UnitDestroyed(v, q) \in Pending' <=> UnitDestroyed(v, q) \in Pending
        /\ \A v, q : UnitCreated(v, q) \in Pending =>
              UnitCreated(v, q) \in Pending' \/ (v = u /\ q = p)
    <2>1. /\ \A f : FeatureDestroyed(f) # e /\ FeatureCreated(f) # e
          /\ \A v, q : UnitDestroyed(v, q) # e
          /\ \A v, q : UnitCreated(v, q) = e => v = u /\ q = p
      BY <1>2, EventsDiffer
    <2> QED  BY <1>1, <2>1
  <1>5. UNCHANGED <<sim, enabled, featureSlots>>
    BY <1>1, <1>3 DEF corpses
  <1>6. /\ CorpsesComing'
        /\ \A f \in DOMAIN featureSlots' :
              f \in DOMAIN features' \/ FeatureDestroyed(f) \in Pending'
    BY <1>4, <1>5, CorpsesKept
  <1>7. /\ DOMAIN slots' \ {u} = DOMAIN slots \ {u}
        /\ \A v \in DOMAIN slots \ {u} : Kept(v)
        /\ \/ slots' = slots
           \/ u \notin DOMAIN slots'
           \/ /\ u \in DOMAIN slots' /\ slots'[u].token = p
              /\ slots'[u].pendingDestroy = FALSE /\ Named(u, p) /\ units[u].def = "mapped"
        /\ Named(u, p) /\ units[u].def = "mapped" =>
              u \in DOMAIN slots' /\ slots'[u].token = p
    <2>1. CASE Named(u, p) /\ AddUnit(u, units[u].def, p)
      <3> DEFINE def == units[u].def
      <3>1. def \in {"mapped", "broken", "native"}
        <4>1. units[u] \in [page : Page, def : Def]
          BY <2>1 DEF Named, All, Inv, SimTypes
        <4>2. def \in Def
          BY <4>1
        <4> QED  BY <4>2, SetAssumption
      <3>2. /\ DOMAIN slots' \ {u} = DOMAIN slots \ {u}
            /\ \A v \in DOMAIN slots \ {u} : Kept(v)
            /\ \/ /\ slots' = slots
                  /\ def = "native" \/ (u \in DOMAIN slots /\ slots[u].token = p)
               \/ def = "broken" /\ u \notin DOMAIN slots'
               \/ /\ u \in DOMAIN slots' /\ slots'[u].token = p
                  /\ slots'[u].pendingDestroy = FALSE /\ def \notin {"native", "broken"}
        BY <1>2, <2>1, AddUnitEffect DEF All
      <3> QED  BY <2>1, <3>1, <3>2
    <2>2. CASE ~Named(u, p) /\ UNCHANGED <<unitSlots, live>>
      BY <2>2 DEF unitSlots, Kept
    <2> QED  BY <1>3, <2>1, <2>2
  <1>8. \A v \in DOMAIN slots' :
            \/ v \in DOMAIN slots /\ slots'[v].token = slots[v].token
               /\ slots'[v].pendingDestroy = slots[v].pendingDestroy
            \/ /\ v = u /\ slots'[v].token = p /\ slots'[v].pendingDestroy = FALSE
               /\ Named(u, p) /\ units[u].def = "mapped"
    BY <1>7 DEF Kept
  <1>9. \A v \in DOMAIN slots' :
            \/ Named(v, slots'[v].token) /\ units[v].def = "mapped"
            \/ slots'[v].pendingDestroy = TRUE
            \/ UnitDestroyed(v, slots'[v].token) \in Pending'
    BY <1>4, <1>8 DEF All, EventInvariant, EndsComing, Lives
  <1>10. EndsComing'
    BY <1>1, <1>6, <1>9, SimulationStands DEF EndsComing, Lives, Named
  <1>11. ASSUME reusePages = FALSE PROVE DeadIsDead' /\ UnitsComing'
    <2>1. DeadIsDead /\ UnitsComing
      BY <1>11 DEF All, EventInvariant, PagesStay
    <2>2. \A v \in DOMAIN slots' :
              slots'[v].pendingDestroy = TRUE => ~Named(v, slots'[v].token)
      BY <1>8, <2>1 DEF DeadIsDead
    <2>3. DeadIsDead'
      BY <1>1, <1>4, <2>1, <2>2, DeadKept
    <2>4. ASSUME NEW v \in DOMAIN units, units[v].def = "mapped"
          PROVE  \/ v \in DOMAIN slots' /\ slots'[v].token = units[v].page
                 \/ UnitCreated(v, units[v].page) \in Pending'
      <3>1. HasSlot(v) \/ UnitCreated(v, units[v].page) \in Pending
        BY <1>1, <2>1, <2>4 DEF UnitsComing
      <3>2. CASE v = u /\ units[v].page = p
        BY <1>7, <2>4, <3>2 DEF Named
      <3>3. CASE v # u
        BY <1>4, <1>7, <3>1, <3>3 DEF HasSlot, Kept
      <3>4. CASE v = u /\ units[v].page # p
        <4>1. slots' = slots
          BY <1>3, <3>4 DEF Named, unitSlots
        <4> QED  BY <1>4, <3>1, <3>4, <4>1 DEF HasSlot
      <3> QED  BY <3>2, <3>3, <3>4
    <2>5. UnitsComing'
      BY <1>1, <2>4, SimulationStands DEF UnitsComing, HasSlot
    <2> QED  BY <2>3, <2>5
  <1>12. PagesStay'
    BY <1>1, <1>11, SimulationStands DEF PagesStay
  <1> QED  BY <1>1, <1>6, <1>10, <1>12 DEF EventInvariant

LEMMA UnitDestroyedEvents ==
    ASSUME All, ProcessEvent, Inv', Head(processingEvents).type = "UnitDestroyed"
    PROVE  EventInvariant'
  <1> DEFINE e == Head(processingEvents)
             u == e.id
             p == e.token
  <1>1. /\ Modes' /\ MarksAhead' /\ IdsApart' /\ e \in Events
        /\ Pending' = Rest /\ Pending = {e} \cup Rest
        /\ enabled = TRUE /\ enabled' = TRUE /\ UNCHANGED sim
    BY EventFrame
  <1>2. u \in UnitId /\ p \in Page /\ e = UnitDestroyed(u, p)
    BY <1>1, EventIs
  <1>3. UNCHANGED corpses /\ MarkUnitDestroyed(u, p)
    BY DEF ProcessEvent, ProcessUnitEvent
  <1> HIDE DEF e, u, p
  <1>4. /\ \A f : FeatureDestroyed(f) \in Pending' <=> FeatureDestroyed(f) \in Pending
        /\ \A f : FeatureCreated(f) \in Pending' <=> FeatureCreated(f) \in Pending
        /\ \A v, q : UnitCreated(v, q) \in Pending' <=> UnitCreated(v, q) \in Pending
        /\ \A v, q : UnitDestroyed(v, q) \in Pending' => UnitDestroyed(v, q) \in Pending
        /\ \A v, q : UnitDestroyed(v, q) \in Pending =>
              UnitDestroyed(v, q) \in Pending' \/ (v = u /\ q = p)
    <2>1. /\ \A f : FeatureDestroyed(f) # e /\ FeatureCreated(f) # e
          /\ \A v, q : UnitCreated(v, q) # e
          /\ \A v, q : UnitDestroyed(v, q) = e => v = u /\ q = p
      BY <1>2, EventsDiffer
    <2> QED  BY <1>1, <2>1
  <1>5. UNCHANGED <<sim, enabled, featureSlots>>
    BY <1>1, <1>3 DEF corpses
  <1>6. /\ CorpsesComing'
        /\ \A f \in DOMAIN featureSlots' :
              f \in DOMAIN features' \/ FeatureDestroyed(f) \in Pending'
    BY <1>4, <1>5, CorpsesKept
  <1>7. /\ DOMAIN slots' = DOMAIN slots
        /\ \A v \in DOMAIN slots :
              /\ slots'[v].token = slots[v].token
              /\ slots'[v].pendingDestroy = TRUE <=>
                    \/ slots[v].pendingDestroy = TRUE
                    \/ v = u /\ slots[v].token = p
    BY <1>3, MarkEffect DEF All
  <1>8. \A v \in DOMAIN slots' :
            \/ Named(v, slots'[v].token) /\ units[v].def = "mapped"
            \/ slots'[v].pendingDestroy = TRUE
            \/ UnitDestroyed(v, slots'[v].token) \in Pending'
    BY <1>4, <1>7 DEF All, EventInvariant, EndsComing, Lives
  <1>9. EndsComing'
    BY <1>1, <1>6, <1>8, SimulationStands DEF EndsComing, Lives, Named
  <1>10. ASSUME reusePages = FALSE PROVE DeadIsDead' /\ UnitsComing'
    <2>1. DeadIsDead /\ UnitsComing
      BY <1>10 DEF All, EventInvariant, PagesStay
    <2>2. ~Named(u, p)
      BY <1>1, <1>2, <2>1 DEF DeadIsDead, Gone
    <2>3. \A v \in DOMAIN slots' :
              slots'[v].pendingDestroy = TRUE => ~Named(v, slots'[v].token)
      BY <1>7, <2>1, <2>2 DEF DeadIsDead
    <2>4. DeadIsDead'
      BY <1>1, <1>4, <2>1, <2>3, DeadKept
    <2>5. UnitsComing'
      BY <1>1, <1>4, <1>7, <2>1, SimulationStands DEF UnitsComing, HasSlot
    <2> QED  BY <2>4, <2>5
  <1>11. PagesStay'
    BY <1>1, <1>10, SimulationStands DEF PagesStay
  <1> QED  BY <1>1, <1>6, <1>9, <1>11 DEF EventInvariant

LEMMA AddFeatureSlots ==
    ASSUME Inv, NEW f, AddFeature(f)
    PROVE  /\ \A v \in DOMAIN slots' : v \in DOMAIN slots /\ Kept(v)
           /\ \A v \in DOMAIN slots \ DOMAIN slots' :
                 \E t \in features[f] : t.id = v /\ t.token = slots[v].token
  <1>1. CASE slots' = slots
    BY <1>1 DEF Kept
  <1>2. ASSUME NEW u \in Heirlooms(f), slots' = Unslotted(slots, activeUnitIds, u)
        PROVE  /\ \A v \in DOMAIN slots' : v \in DOMAIN slots /\ Kept(v)
               /\ \A v \in DOMAIN slots \ DOMAIN slots' :
                     \E t \in features[f] : t.id = v /\ t.token = slots[v].token
    <2>1. PICK t \in features[f] : /\ t.id = u /\ t.id \in DOMAIN slots
                                   /\ slots[t.id].token = t.token
      BY DEF Heirlooms
    <2>2. /\ DOMAIN slots' = DOMAIN slots \ {u}
          /\ \A v \in DOMAIN slots \ {u} : Kept(v)
      BY <1>2, <2>1, RemoveUnitSlotEffect
    <2> QED  BY <2>1, <2>2
  <1> QED  BY <1>1, <1>2, AddFeatureEffect

LEMMA FeatureEvents ==
    ASSUME All, ProcessEvent, Inv',
           Head(processingEvents).type \in {"FeatureCreated", "FeatureDestroyed"}
    PROVE  EventInvariant'
  <1> DEFINE e == Head(processingEvents)
             f == e.id
  <1>1. /\ Modes' /\ MarksAhead' /\ IdsApart' /\ e \in Events
        /\ Pending' = Rest /\ Pending = {e} \cup Rest
        /\ enabled = TRUE /\ enabled' = TRUE /\ UNCHANGED sim
    BY EventFrame
  <1>2. f \in FeatureId /\ (e = FeatureCreated(f) \/ e = FeatureDestroyed(f))
    BY <1>1, EventIs
  <1>3. \/ e = FeatureCreated(f) /\ f \in DOMAIN features /\ AddFeature(f)
        \/ /\ e = FeatureDestroyed(f) /\ f \in DOMAIN featureSlots
           /\ RemoveFeatureSlot(f) /\ UNCHANGED unitSlots
        \/ /\ e = FeatureCreated(f) => f \notin DOMAIN features
           /\ e = FeatureDestroyed(f) => f \notin DOMAIN featureSlots
           /\ UNCHANGED <<unitSlots, corpses, live>>
    <2>1. ProcessFeatureEvent(e)
      BY DEF ProcessEvent
    <2>2. e.type \in {"FeatureCreated", "FeatureDestroyed"}
      OBVIOUS
    <2>3. /\ e.type = "FeatureCreated" => e = FeatureCreated(f)
          /\ e.type = "FeatureDestroyed" => e = FeatureDestroyed(f)
      BY <1>1, EventIs
    <2> HIDE DEF e, f
    <2>4. FeatureCreated(f) # FeatureDestroyed(f)
      BY EventsDiffer
    <2> QED  BY <2>1, <2>2, <2>3, <2>4 DEF ProcessFeatureEvent, f
  <1> HIDE DEF e, f
  <1>4. FeatureDestroyed(f) \in Pending => f \notin DOMAIN features
    BY <1>2 DEF All, EventInvariant, CorpsesComing, Inv, SimTypes
  <1>5. /\ \A v \in DOMAIN slots' : v \in DOMAIN slots /\ Kept(v)
        /\ \A v \in DOMAIN slots \ DOMAIN slots' :
              f \in DOMAIN features
              /\ \E t \in features[f] : t.id = v /\ t.token = slots[v].token
    <2>1. CASE f \in DOMAIN features /\ AddFeature(f)
      BY <2>1, AddFeatureSlots DEF All
    <2>2. CASE UNCHANGED unitSlots
      BY <2>2 DEF unitSlots, Kept
    <2> QED  BY <1>3, <2>1, <2>2
  <1>6. /\ \A g \in DOMAIN featureSlots' : g \in DOMAIN featureSlots \/ g \in DOMAIN features
        /\ e = FeatureDestroyed(f) => f \notin DOMAIN featureSlots'
        /\ \A g \in DOMAIN features : g \in DOMAIN featureSlots => g \in DOMAIN featureSlots'
        /\ e = FeatureCreated(f) /\ f \in DOMAIN features /\ Kind[f] = "ownCorpse" =>
              f \in DOMAIN featureSlots'
    <2>1. CASE e = FeatureCreated(f) /\ f \in DOMAIN features /\ AddFeature(f)
      <3>1. e # FeatureDestroyed(f)
        BY <2>1, EventsDiffer
      <3>2. /\ DOMAIN featureSlots' \in {DOMAIN featureSlots, DOMAIN featureSlots \cup {f}}
            /\ Kind[f] = "ownCorpse" => f \in DOMAIN featureSlots'
        BY <2>1, AddFeatureEffect
      <3> QED  BY <2>1, <3>1, <3>2
    <2>2. CASE e = FeatureDestroyed(f) /\ RemoveFeatureSlot(f)
      <3>1. e # FeatureCreated(f)
        BY <2>2, EventsDiffer
      <3>2. f \notin DOMAIN features
        BY <1>1, <1>4, <2>2
      <3> QED  BY <2>2, <3>1, <3>2, RemoveFeatureSlotEffect
    <2>3. CASE /\ e = FeatureCreated(f) => f \notin DOMAIN features
               /\ e = FeatureDestroyed(f) => f \notin DOMAIN featureSlots
               /\ UNCHANGED <<unitSlots, corpses, live>>
      BY <2>3 DEF corpses
    <2> QED  BY <1>3, <2>1, <2>2, <2>3
  <1>7. /\ \A v, q : UnitCreated(v, q) \in Pending' <=> UnitCreated(v, q) \in Pending
        /\ \A v, q : UnitDestroyed(v, q) \in Pending' <=> UnitDestroyed(v, q) \in Pending
        /\ \A g : FeatureCreated(g) \in Pending =>
              FeatureCreated(g) \in Pending' \/ (g = f /\ e = FeatureCreated(f))
        /\ \A g : FeatureDestroyed(g) \in Pending =>
              FeatureDestroyed(g) \in Pending' \/ (g = f /\ e = FeatureDestroyed(f))
        /\ \A g : FeatureDestroyed(g) \in Pending' => FeatureDestroyed(g) \in Pending
    <2>1. /\ \A v, q : UnitCreated(v, q) # e /\ UnitDestroyed(v, q) # e
          /\ \A g : FeatureCreated(g) = e => g = f /\ e = FeatureCreated(f)
          /\ \A g : FeatureDestroyed(g) = e => g = f /\ e = FeatureDestroyed(f)
      BY <1>2, EventsDiffer
    <2> QED  BY <1>1, <2>1
  <1>8. EndsComing'
    <2>1. \A v \in DOMAIN slots' :
              \/ Named(v, slots'[v].token) /\ units[v].def = "mapped"
              \/ slots'[v].pendingDestroy = TRUE
              \/ UnitDestroyed(v, slots'[v].token) \in Pending'
      BY <1>5, <1>7 DEF All, EventInvariant, EndsComing, Lives, Kept
    <2>2. \A g \in DOMAIN featureSlots' :
              g \in DOMAIN features \/ FeatureDestroyed(g) \in Pending'
      BY <1>6, <1>7 DEF All, EventInvariant, EndsComing
    <2> QED  BY <1>1, <2>1, <2>2, SimulationStands DEF EndsComing, Lives, Named
  <1>9. CorpsesComing'
    <2>1. \A g \in DOMAIN features : Kind[g] = "ownCorpse" =>
              g \in DOMAIN featureSlots' \/ FeatureCreated(g) \in Pending'
      BY <1>1, <1>6, <1>7 DEF All, EventInvariant, CorpsesComing
    <2>2. \A g \in FeatureId : FeatureDestroyed(g) \in Pending' => g \in spentFeatures
      BY <1>7 DEF All, EventInvariant, CorpsesComing
    <2> QED  BY <1>1, <2>1, <2>2, SimulationStands DEF CorpsesComing
  <1>10. ASSUME reusePages = FALSE PROVE DeadIsDead' /\ UnitsComing'
    <2>1. DeadIsDead /\ UnitsComing
      BY <1>10 DEF All, EventInvariant, PagesStay
    <2>2. \A v \in DOMAIN slots' :
              slots'[v].pendingDestroy = TRUE => ~Named(v, slots'[v].token)
      BY <1>5, <2>1 DEF DeadIsDead, Kept
    <2>3. DeadIsDead'
      BY <1>1, <1>7, <2>1, <2>2, DeadKept
    <2>4. ASSUME NEW v \in DOMAIN units, units[v].def = "mapped"
          PROVE  \/ v \in DOMAIN slots' /\ slots'[v].token = units[v].page
                 \/ UnitCreated(v, units[v].page) \in Pending'
      <3>1. HasSlot(v) \/ UnitCreated(v, units[v].page) \in Pending
        BY <1>1, <2>1, <2>4 DEF UnitsComing
      <3>2. CASE UnitCreated(v, units[v].page) \in Pending
        BY <1>7, <3>2
      <3>3. CASE HasSlot(v) /\ v \in DOMAIN slots'
        BY <1>5, <3>3 DEF HasSlot, Kept
      <3>4. CASE HasSlot(v) /\ v \notin DOMAIN slots'
        <4>1. PICK t \in features[f] : t.id = v /\ t.token = slots[v].token
          BY <1>5, <3>4 DEF HasSlot
        <4>2. ~Named(v, slots[v].token)
          BY <1>5, <2>1, <3>4, <4>1 DEF DeadIsDead, Gone, HasSlot
        <4> QED  BY <3>4, <4>2 DEF Named, HasSlot
      <3> QED  BY <3>1, <3>2, <3>3, <3>4
    <2>5. UnitsComing'
      BY <1>1, <2>4, SimulationStands DEF UnitsComing, HasSlot
    <2> QED  BY <2>3, <2>5
  <1>11. PagesStay'
    BY <1>1, <1>10, SimulationStands DEF PagesStay
  <1> QED  BY <1>1, <1>8, <1>9, <1>11 DEF EventInvariant

-----------------------------------------------------------------------------
(* The loops over the slots: no event is left.                               *)
LEMMA NothingPending ==
    ASSUME All, stage # "sim", processingEvents = <<>>
    PROVE  Pending = {} /\ queuedEvents = <<>> /\ enabled = TRUE
  BY RangeOfNothing DEF All, EventInvariant, Modes, Pending

LEMMA NothingPendingNext ==
    ASSUME processingEvents' = <<>>, queuedEvents' = <<>> PROVE Pending' = {}
  BY RangeOfNothing DEF Pending

LEMMA LoopEnds ==
    ASSUME All, stage # "sim", processingEvents = <<>>,
           \E next \in {"update", "updateFeatures", "sim"} : GoTo(next),
           UNCHANGED <<sim, enabled, events>>,
           \A u \in DOMAIN slots : slots[u].pendingDestroy # TRUE
    PROVE  EventInvariant'
  <1>1. /\ UNCHANGED <<sim, enabled, slots, featureSlots, processingEvents, queuedEvents>>
        /\ stage' \in {"update", "updateFeatures", "sim"} /\ cursor' = 1
    BY DEF GoTo, events, unitSlots, corpses
  <1>2. Pending = {} /\ queuedEvents = <<>> /\ enabled = TRUE
    BY NothingPending
  <1>3. Pending' = Pending
    BY <1>1, <1>2, NothingPendingNext
  <1>4. Modes'
    <2>1. processingEvents' \in Seq(Events) /\ queuedEvents' \in Seq(Events)
      BY <1>1 DEF All, EventInvariant, Modes
    <2> QED  BY <1>1, <1>2, <2>1 DEF Modes
  <1>5. MarksAhead'
    BY <1>1 DEF MarksAhead
  <1> QED  BY <1>1, <1>3, <1>4, <1>5, SameEvents DEF EventInvariant

LEMMA CursorOn ==
    ASSUME All, stage \in {"update", "updateFeatures"}, cursor' = cursor + 1,
           UNCHANGED <<sim, stage, enabled, events, slots, featureSlots>>
    PROVE  EventInvariant'
  <1>1. processingEvents = <<>>
    BY DEF All, EventInvariant, Modes
  <1>2. Pending = {} /\ queuedEvents = <<>> /\ enabled = TRUE
    BY <1>1, NothingPending
  <1>3. Pending' = Pending
    BY <1>1, <1>2, NothingPendingNext DEF events
  <1>4. Modes'
    <2>1. processingEvents' \in Seq(Events) /\ queuedEvents' \in Seq(Events)
      BY DEF events, All, EventInvariant, Modes
    <2> QED  BY <1>1, <1>2, <2>1 DEF Modes, events
  <1>5. MarksAhead'
    BY NoMarks DEF MarksAhead, All, EventInvariant
  <1> QED  BY <1>3, <1>4, <1>5, SameEvents DEF EventInvariant

LEMMA SweepEvents == ASSUME All, Sweep, Inv' PROVE EventInvariant'
  <1>1. /\ stage = "events" /\ processingEvents = <<>> /\ UNCHANGED <<sim, enabled, events>>
        /\ processingEvents' = <<>> /\ queuedEvents' = queuedEvents
    BY DEF Sweep, events
  <1>2. Pending = {} /\ queuedEvents = <<>> /\ enabled = TRUE
    BY <1>1, NothingPending
  <1>3. Pending' = {}
    BY <1>1, <1>2, NothingPendingNext
  <1>4. /\ cursor \in Nat /\ Len(activeUnitIds) \in Nat
        /\ \A u \in DOMAIN slots : /\ slots[u].activeIndex \in 1..Len(activeUnitIds)
                                   /\ activeUnitIds[slots[u].activeIndex] = u
    <2>1. cursor \in Nat
      <3>1. Cardinality(UnitId) \in Nat /\ Cardinality(FeatureId) \in Nat
        BY FS_CardinalityType, SetAssumption
      <3> QED  BY <3>1 DEF All, Inv, BridgeTypes, Places
    <2>2. activeUnitIds \in Seq(UnitId) /\ Placed(slots, activeUnitIds)
      BY DEF All, Inv, Slots, Consistent, Table
    <2> QED  BY <2>1, <2>2 DEF Placed
  <1>5. CASE cursor > Len(activeUnitIds)
    <2>1. GoTo("update")
      BY <1>5 DEF Sweep
    <2>2. \A u \in DOMAIN slots : slots[u].pendingDestroy # TRUE
      <3>1. ASSUME NEW u \in DOMAIN slots PROVE ~(cursor <= slots[u].activeIndex)
        BY <1>4, <1>5
      <3> QED  BY <3>1 DEF All, EventInvariant, MarksAhead
    <2>3. stage # "sim" /\ \E next \in {"update", "updateFeatures", "sim"} : GoTo(next)
      BY <1>1, <2>1
    <2> QED  BY <1>1, <2>2, <2>3, LoopEnds
  <1>6. CASE ~(cursor > Len(activeUnitIds))
    <2> DEFINE u == activeUnitIds[cursor]
    <2>1. SweepSlot(u) /\ stage' = "events"
      BY <1>1, <1>6 DEF Sweep
    <2>2. u \in DOMAIN slots /\ slots[u].activeIndex = cursor
      <3>1. activeUnitIds \in Seq(UnitId) /\ Placed(slots, activeUnitIds) /\ cursor >= 1
        BY DEF All, Inv, Slots, Consistent, Table, BridgeTypes, Places
      <3>2. cursor \in DOMAIN activeUnitIds
        BY <1>4, <1>6, <3>1
      <3> QED  BY <3>1, <3>2 DEF Placed
    <2> HIDE DEF u
    <2>3. Modes'
      <3>1. processingEvents' \in Seq(Events) /\ queuedEvents' \in Seq(Events)
        BY <1>1, <1>2
      <3> QED  BY <1>1, <1>2, <2>1, <3>1 DEF Modes
    <2>4. IdsApart'
      BY <1>1, SimulationStands DEF All, EventInvariant
    <2>5. CASE slots[u].pendingDestroy = TRUE
      <3>1. /\ slots' = Unslotted(slots, activeUnitIds, u) /\ cursor' = cursor
            /\ featureSlots' = featureSlots
        BY <2>1, <2>5 DEF SweepSlot, RemoveUnitSlot, corpses
      <3>2. /\ DOMAIN slots' = DOMAIN slots \ {u}
            /\ \A v \in DOMAIN slots \ {u} :
                  Kept(v) /\ slots'[v].activeIndex \in {slots[v].activeIndex, cursor}
        BY <2>2, <3>1, RemoveUnitSlotEffect DEF All
      <3>3. MarksAhead'
        BY <1>1, <1>4, <2>1, <3>1, <3>2 DEF All, EventInvariant, MarksAhead, Kept
      <3>4. EndsComing'
        <4>1. \A v \in DOMAIN slots' :
                  \/ Named(v, slots'[v].token) /\ units[v].def = "mapped"
                  \/ slots'[v].pendingDestroy = TRUE
          BY <1>2, <3>2 DEF All, EventInvariant, EndsComing, Lives, Kept
        <4>2. \A g \in DOMAIN featureSlots : g \in DOMAIN features
          BY <1>2 DEF All, EventInvariant, EndsComing
        <4> QED  BY <1>1, <3>1, <4>1, <4>2, SimulationStands DEF EndsComing, Lives, Named
      <3>5. CorpsesComing'
        BY <1>1, <1>2, <1>3, <3>1, SimulationStands DEF All, EventInvariant, CorpsesComing
      <3>6. ASSUME reusePages = FALSE PROVE DeadIsDead' /\ UnitsComing'
        <4>1. DeadIsDead /\ UnitsComing
          BY <3>6 DEF All, EventInvariant, PagesStay
        <4>2. \A v \in DOMAIN slots' :
                  slots'[v].pendingDestroy = TRUE => ~Named(v, slots'[v].token)
          BY <3>2, <4>1 DEF DeadIsDead, Kept
        <4>3. DeadIsDead'
          BY <1>1, <1>3, <4>1, <4>2, DeadKept
        <4>4. ASSUME NEW v \in DOMAIN units, units[v].def = "mapped"
              PROVE  v \in DOMAIN slots' /\ slots'[v].token = units[v].page
          <5>1. v \in DOMAIN slots /\ slots[v].token = units[v].page
            BY <1>2, <4>1, <4>4 DEF UnitsComing, HasSlot
          <5>2. v # u
            BY <2>5, <4>1, <5>1 DEF DeadIsDead, Named
          <5> QED  BY <3>2, <5>1, <5>2 DEF Kept
        <4>5. UnitsComing'
          BY <1>1, <4>4, SimulationStands DEF UnitsComing, HasSlot
        <4> QED  BY <4>3, <4>5
      <3>7. PagesStay'
        BY <1>1, <3>6, SimulationStands DEF PagesStay
      <3> QED  BY <2>3, <2>4, <3>3, <3>4, <3>5, <3>7 DEF EventInvariant
    <2>6. CASE slots[u].pendingDestroy = FALSE
      <3>1. UNCHANGED <<slots, featureSlots>> /\ cursor' = cursor + 1
        BY <2>1, <2>6 DEF SweepSlot, unitSlots, corpses
      <3>2. ASSUME NEW v \in DOMAIN slots, slots[v].pendingDestroy = TRUE
            PROVE  cursor + 1 <= slots[v].activeIndex
        <4>1. v # u /\ cursor <= slots[v].activeIndex
          BY <2>6, <3>2 DEF All, EventInvariant, MarksAhead
        <4>2. slots[v].activeIndex # cursor
          BY <1>4, <4>1 DEF u
        <4>3. slots[v].activeIndex \in Nat
          BY <1>4
        <4> QED  BY <1>4, <4>1, <4>2, <4>3
      <3>3. MarksAhead'
        BY <2>1, <3>1, <3>2 DEF MarksAhead
      <3> QED  BY <1>1, <1>2, <1>3, <2>3, <3>1, <3>3, SameEvents DEF EventInvariant
    <2> QED  BY <2>2, <2>5, <2>6, SlotTyped DEF All
  <1> QED  BY <1>5, <1>6

LEMMA UpdateEvents == ASSUME All, Update PROVE EventInvariant'
  <1>1. stage = "update" /\ UNCHANGED <<sim, enabled, events>>
    BY DEF Update
  <1>2. /\ processingEvents = <<>>
        /\ \A u \in DOMAIN slots : slots[u].pendingDestroy # TRUE
    BY <1>1, NoMarks DEF All, EventInvariant, Modes
  <1>3. stage # "sim"
    BY <1>1
  <1>4. Pending = {}
    BY <1>2, <1>3, NothingPending
  <1>5. CASE GoTo("updateFeatures")
    <2>1. \E next \in {"update", "updateFeatures", "sim"} : GoTo(next)
      BY <1>5
    <2> QED  BY <1>1, <1>2, <1>3, <2>1, LoopEnds
  <1>6. CASE /\ cursor <= Len(activeUnitIds)
             /\ UpdateSlot(activeUnitIds[cursor]) /\ UNCHANGED stage
    <2> DEFINE u == activeUnitIds[cursor]
    <2>1. u \in DOMAIN slots
      BY <1>6, CursorMoves DEF All, Inv
    <2> HIDE DEF u
    <2>2. u \in DOMAIN units /\ units[u].page = slots[u].token
      BY <1>2, <1>4, <2>1 DEF All, EventInvariant, EndsComing, Lives, Named
    <2>3. UpdateSlot(u) /\ UNCHANGED stage
      BY <1>6 DEF u
    <2>4. cursor' = cursor + 1 /\ UNCHANGED <<slots, featureSlots>>
      BY <2>2, <2>3 DEF UpdateSlot, unitSlots, corpses
    <2> QED  BY <1>1, <2>3, <2>4, CursorOn
  <1>7. cursor \in Int /\ Len(activeUnitIds) \in Nat
    BY DEF All, Inv, BridgeTypes, Places, Slots, Consistent, Table
  <1> QED  BY <1>5, <1>6, <1>7 DEF Update

LEMMA UpdateFeaturesEvents == ASSUME All, UpdateFeatures PROVE EventInvariant'
  <1>1. stage = "updateFeatures" /\ UNCHANGED <<sim, enabled, events>>
    BY DEF UpdateFeatures
  <1>2. /\ processingEvents = <<>>
        /\ \A u \in DOMAIN slots : slots[u].pendingDestroy # TRUE
    BY <1>1, NoMarks DEF All, EventInvariant, Modes
  <1>3. stage # "sim"
    BY <1>1
  <1>4. Pending = {}
    BY <1>2, <1>3, NothingPending
  <1>5. CASE GoTo("sim")
    <2>1. \E next \in {"update", "updateFeatures", "sim"} : GoTo(next)
      BY <1>5
    <2> QED  BY <1>1, <1>2, <1>3, <2>1, LoopEnds
  <1>6. CASE /\ cursor <= Len(activeFeatureIds)
             /\ UpdateFeatureSlot(activeFeatureIds[cursor]) /\ UNCHANGED stage
    <2> DEFINE f == activeFeatureIds[cursor]
    <2>1. f \in DOMAIN featureSlots
      BY <1>6, CursorMoves DEF All, Inv
    <2> HIDE DEF f
    <2>2. f \in DOMAIN features
      BY <1>4, <2>1 DEF All, EventInvariant, EndsComing
    <2>3. UpdateFeatureSlot(f) /\ UNCHANGED stage
      BY <1>6 DEF f
    <2>4. cursor' = cursor + 1 /\ UNCHANGED <<slots, featureSlots>>
      BY <2>2, <2>3 DEF UpdateFeatureSlot, unitSlots, corpses
    <2> QED  BY <1>1, <2>3, <2>4, CursorOn
  <1>7. cursor \in Int /\ Len(activeFeatureIds) \in Nat
    BY DEF All, Inv, BridgeTypes, Places, Slots, Consistent, Table
  <1> QED  BY <1>5, <1>6, <1>7 DEF UpdateFeatures

-----------------------------------------------------------------------------
LEMMA InitEvents == Init => EventInvariant
  <1> SUFFICES ASSUME Init PROVE EventInvariant
    OBVIOUS
  <1>1. /\ DOMAIN units = {} /\ DOMAIN features = {} /\ DOMAIN slots = {}
        /\ DOMAIN featureSlots = {} /\ idPool = [freeIDs |-> UnitId, tempIDs |-> {}]
        /\ processingEvents = <<>> /\ queuedEvents = <<>> /\ stage = "sim"
        /\ enabled = FALSE /\ cursor = 1 /\ freePages = <<>>
    BY DEF Init, Expand
  <1>2. Pending = {}
    BY <1>1, RangeOfNothing DEF Pending
  <1>3. IdsApart
    BY <1>1 DEF IdsApart
  <1>4. Modes
    BY <1>1 DEF Modes
  <1>5. MarksAhead /\ EndsComing /\ CorpsesComing /\ PagesStay
    BY <1>1, <1>2 DEF MarksAhead, EndsComing, CorpsesComing, PagesStay, DeadIsDead,
                      UnitsComing
  <1> QED  BY <1>3, <1>4, <1>5 DEF EventInvariant

LEMMA EventsInductive == All /\ Inv' /\ [Next]_vars => EventInvariant'
  <1> SUFFICES ASSUME All, Inv', [Next]_vars PROVE EventInvariant'
    OBVIOUS
  <1>1. ASSUME NEW u \in UnitId, NEW def \in Def, CreateUnit(u, def)
        PROVE  EventInvariant'
    BY <1>1, CreateUnitEvents
  <1>2. ASSUME NEW u \in DOMAIN units,
               NEW wreck \in {{}} \cup {{f} : f \in NewFeatures},
               NEW collect \in BOOLEAN, DeleteUnit(u, wreck, collect)
        PROVE  EventInvariant'
    BY <1>2, DeleteUnitEvents
  <1>3. ASSUME NEW f \in NewFeatures, CreateFeature(f) PROVE EventInvariant'
    BY <1>3, CreateFeatureEvents
  <1>4. ASSUME NEW f \in DOMAIN features, DeleteFeature(f) PROVE EventInvariant'
    BY <1>4, DeleteFeatureEvents
  <1>5. CASE Enable \/ Disable \/ Prepare
    BY <1>5, EnableEvents, DisableEvents, PrepareEvents
  <1>6. CASE ProcessEvent
    <2>1. Head(processingEvents).type \in
            {"UnitCreated", "UnitDestroyed", "FeatureCreated", "FeatureDestroyed"}
      BY <1>6, EventFrame, EventIs
    <2> QED  BY <1>6, <2>1, UnitCreatedEvents, UnitDestroyedEvents, FeatureEvents
  <1>7. CASE Sweep \/ Update \/ UpdateFeatures
    BY <1>7, SweepEvents, UpdateEvents, UpdateFeaturesEvents
  <1>8. CASE UNCHANGED vars
    <2>1. UNCHANGED <<sim, enabled, slots, featureSlots, stage, cursor, processingEvents,
                      queuedEvents>>
      BY <1>8 DEF vars, events, unitSlots, corpses
    <2>2. Pending' = Pending
      BY <2>1 DEF Pending
    <2>3. Modes' /\ MarksAhead'
      BY <2>1 DEF All, EventInvariant, Modes, MarksAhead
    <2> QED  BY <2>1, <2>2, <2>3, SameEvents DEF EventInvariant
  <1> QED  BY <1>1, <1>2, <1>3, <1>4, <1>5, <1>6, <1>7, <1>8 DEF Next

LEMMA AllAlways == Spec => []All
  <1>1. All /\ [Next]_vars => All'
    BY InvInductive, EventsInductive DEF All
  <1> QED  BY InitInv, InitEvents, <1>1, PTL DEF Spec, All

LEMMA DrawingIsQuiet ==
    ASSUME All, Drawing
    PROVE  /\ Pending = {} /\ enabled = TRUE
           /\ \A u \in DOMAIN slots : slots[u].pendingDestroy # TRUE
  <1>1. stage # "events" /\ stage # "sim"
    BY DEF Drawing
  <1>2. processingEvents = <<>>
    BY <1>1 DEF All, EventInvariant, Modes
  <1> QED  BY <1>1, <1>2, NothingPending, NoMarks DEF All, EventInvariant

(* When Update draws, no slot is left of what has died, in whatever order    *)
(* units and features came and went, ids and addresses being used again.     *)
THEOREM NoGhosts == Spec => []NoGhost
  <1>1. ASSUME All PROVE NoGhost
    BY <1>1, DrawingIsQuiet DEF NoGhost, All, EventInvariant, EndsComing, Lives, Named
  <1> QED  BY <1>1, AllAlways, PTL

(* When Update draws, each corpse with a resource of its own has its slot.   *)
THEOREM CorpsesShown == Spec => []EveryCorpseShown
  <1>1. ASSUME All PROVE EveryCorpseShown
    BY <1>1, DrawingIsQuiet DEF EveryCorpseShown, All, EventInvariant, CorpsesComing
  <1> QED  BY <1>1, AllAlways, PTL

(* If the memory pool did not use addresses again, each living unit would    *)
(* have its slot when Update draws: that an address is taken for a lifetime  *)
(* is the only way to lose one.                                              *)
THEOREM UnitsShownIfPagesStay == Spec => []ShownIfPagesStay
  <1>1. ASSUME All PROVE ShownIfPagesStay
    <2> SUFFICES ASSUME ~reusePages, Drawing, NEW u \in DOMAIN units,
                        units[u].def = "mapped"
                 PROVE  u \in DOMAIN slots /\ slots[u].token = units[u].page
      BY DEF ShownIfPagesStay, EveryUnitShown
    <2>1. reusePages \in BOOLEAN
      BY <1>1, SetAssumption DEF All, Inv, SimTypes
    <2>2. reusePages = FALSE
      BY <2>1, Zenon
    <2>3. UnitsComing
      BY <1>1, <2>2 DEF All, EventInvariant, PagesStay
    <2>4. Pending = {} /\ enabled = TRUE
      BY <1>1, DrawingIsQuiet
    <2> QED  BY <2>3, <2>4 DEF UnitsComing, HasSlot
  <1> QED  BY <1>1, AllAlways, PTL
=============================================================================
