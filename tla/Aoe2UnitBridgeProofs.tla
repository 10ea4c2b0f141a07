------------------------ MODULE Aoe2UnitBridgeProofs ------------------------
(* The tables of slots and the renderer's instances, for any number of units *)
(* and features, any order of events and any reuse of ids and addresses.     *)
EXTENDS Aoe2UnitBridge, FiniteSetTheorems, SequenceTheorems, TLAPS

UnitSlots ==
    [instance : Instance, token : Page, activeIndex : 1..Cardinality(UnitId),
     pendingDestroy : BOOLEAN]
FeatureSlots == [instance : Instance, activeIndex : 1..Cardinality(FeatureId)]

(* A slot that moves to another slot's place stays a slot with its instance. *)
Movable(R) ==
    \A r, q \in R :
        /\ [r EXCEPT !.activeIndex = q.activeIndex] \in R
        /\ [r EXCEPT !.activeIndex = q.activeIndex].activeIndex = q.activeIndex
        /\ [r EXCEPT !.activeIndex = q.activeIndex].instance = r.instance

(* Each slot is at its place of the list, and each place has its slot.       *)
Placed(S, ids) ==
    /\ \A x \in DOMAIN S :
          S[x].activeIndex \in DOMAIN ids /\ ids[S[x].activeIndex] = x
    /\ \A i \in DOMAIN ids : ids[i] \in DOMAIN S /\ S[ids[i]].activeIndex = i

(* A table of slots S in R, for ids in X, with its list.                     *)
Table(X, R, S, ids) ==
    /\ DOMAIN S \subseteq X
    /\ \A x \in DOMAIN S : S[x] \in R
    /\ ids \in Seq(X)
    /\ Placed(S, ids)

(* The instances in L are those of the slots in S and F, one for each.       *)
Owned(L, S, F) ==
    /\ L = {S[x].instance : x \in DOMAIN S} \cup {F[x].instance : x \in DOMAIN F}
    /\ \A x, y \in DOMAIN S : S[x].instance = S[y].instance => x = y
    /\ \A x, y \in DOMAIN F : F[x].instance = F[y].instance => x = y
    /\ \A x \in DOMAIN S, y \in DOMAIN F : S[x].instance # F[y].instance

(* What the simulation keeps.                                                *)
SimTypes ==
    /\ DOMAIN units \subseteq UnitId
    /\ \A u \in DOMAIN units : units[u] \in [page : Page, def : Def]
    /\ idPool \in [freeIDs : SUBSET UnitId, tempIDs : SUBSET UnitId]
    /\ reusePages \in ReusePages
    /\ pages \in 0..MaxPages /\ freePages \in Seq(Page)
    /\ DOMAIN features \subseteq FeatureId \ spentFeatures

Places == 1..(Cardinality(UnitId) + Cardinality(FeatureId) + 1)
BridgeTypes ==
    /\ stage \in {"sim", "events", "update", "updateFeatures"}
    /\ enabled \in BOOLEAN
    /\ cursor \in Places

(* Two tables and the instances of their slots.                              *)
Consistent(S, ids, F, fids, L) ==
    /\ Table(UnitId, UnitSlots, S, ids)
    /\ Table(FeatureId, FeatureSlots, F, fids)
    /\ Owned(L, S, F)

Slots == Consistent(slots, activeUnitIds, featureSlots, activeFeatureIds, live)

Inv == SimTypes /\ BridgeTypes /\ Slots

-----------------------------------------------------------------------------
(* Sequences and records.                                                    *)
LEMMA FrontIs ==
    ASSUME NEW X, NEW s \in Seq(X), s # <<>>
    PROVE  /\ Front(s) \in Seq(X)
           /\ DOMAIN Front(s) = 1..(Len(s) - 1)
           /\ \A i \in 1..(Len(s) - 1) : Front(s)[i] = s[i]
           /\ Last(s) \in X
  BY DEF Front, Last

LEMMA SlotsMovable == Movable(UnitSlots) /\ Movable(FeatureSlots)
  <1>1. Movable(UnitSlots)
    BY DEF Movable, UnitSlots
  <1>2. Movable(FeatureSlots)
    BY DEF Movable, FeatureSlots
  <1> QED  BY <1>1, <1>2

-----------------------------------------------------------------------------
(* A slot is removed: the last of the list moves into the gap.               *)
LEMMA RemovedTable ==
    ASSUME NEW X, NEW R, Movable(R), NEW S, NEW ids, Table(X, R, S, ids),
           NEW x \in DOMAIN S
    PROVE  /\ DOMAIN Unslotted(S, ids, x) = DOMAIN S \ {x}
           /\ \A y \in DOMAIN S \ {x} :
                 Unslotted(S, ids, x)[y].instance = S[y].instance
           /\ Table(X, R, Unslotted(S, ids, x), GapFilled(S, ids, x))
  <1> DEFINE T == Unslotted(S, ids, x)
             gap == S[x].activeIndex
             last == ids[Len(ids)]
             moved == [ids EXCEPT ![gap] = last]
             new == GapFilled(S, ids, x)
  <1>1. /\ ids \in Seq(X) /\ DOMAIN S \subseteq X
        /\ \A y \in DOMAIN S : S[y] \in R
        /\ \A y \in DOMAIN S : S[y].activeIndex \in DOMAIN ids /\ ids[S[y].activeIndex] = y
        /\ \A i \in DOMAIN ids : ids[i] \in DOMAIN S /\ S[ids[i]].activeIndex = i
    BY DEF Table, Placed
  <1>2. gap \in DOMAIN ids /\ ids[gap] = x /\ DOMAIN ids = 1..Len(ids) /\ Len(ids) \in Nat
    BY <1>1
  <1>3. Len(ids) > 0 /\ Len(ids) \in DOMAIN ids
    BY <1>2
  <1>4. last \in DOMAIN S /\ S[last].activeIndex = Len(ids)
    BY <1>1, <1>3
  <1>5. /\ moved \in Seq(X) /\ Len(moved) = Len(ids) /\ moved[gap] = last
        /\ \A i \in DOMAIN ids \ {gap} : moved[i] = ids[i]
    <2>1. last \in X
      BY <1>1, <1>4
    <2> QED  BY <1>1, <1>2, <2>1
  <1>6. /\ new \in Seq(X) /\ DOMAIN new = 1..(Len(ids) - 1)
        /\ \A i \in 1..(Len(ids) - 1) : new[i] = moved[i]
    <2>1. moved # <<>>
      BY <1>3, <1>5
    <2>2. new = Front(moved)
      BY DEF GapFilled, Last
    <2> HIDE DEF moved, new
    <2> QED  BY <1>5, <2>1, <2>2, FrontIs
  <1>7. /\ DOMAIN T = DOMAIN S \ {x}
        /\ \A y \in DOMAIN S \ {x} :
              T[y] = IF y = last THEN [S[y] EXCEPT !.activeIndex = gap] ELSE S[y]
    BY DEF Unslotted, Last
  <1>8. ASSUME NEW y \in DOMAIN S \ {x}
        PROVE  /\ T[y] \in R /\ T[y].instance = S[y].instance
               /\ T[y].activeIndex = IF y = last THEN gap ELSE S[y].activeIndex
    <2>1. S[y] \in R /\ S[x] \in R
      BY <1>1
    <2>2. CASE y = last
      <3>1. T[y] = [S[y] EXCEPT !.activeIndex = S[x].activeIndex]
        BY <1>7, <2>2
      <3> HIDE DEF T
      <3> QED  BY <2>1, <2>2, <3>1 DEF Movable
    <2>3. CASE y # last
      BY <1>7, <2>1, <2>3
    <2> QED  BY <2>2, <2>3
  <1> HIDE DEF T, new, moved, last, gap
  <1>9. ASSUME NEW y \in DOMAIN T
        PROVE  T[y].activeIndex \in DOMAIN new /\ new[T[y].activeIndex] = y
    <2>1. CASE y = last
      <3>1. gap # Len(ids)
        BY <1>2, <1>7, <1>9, <2>1 DEF last
      <3>2. gap \in 1..(Len(ids) - 1)
        BY <1>2, <3>1
      <3> QED  BY <1>5, <1>6, <1>7, <1>8, <2>1, <3>2
    <2>2. CASE y # last
      <3> DEFINE place == S[y].activeIndex
      <3>1. place \in DOMAIN ids /\ ids[place] = y /\ y # x
        BY <1>1, <1>7
      <3>2. place # gap /\ place # Len(ids)
        BY <1>2, <2>2, <3>1 DEF last
      <3>3. place \in 1..(Len(ids) - 1)
        BY <1>2, <3>1, <3>2
      <3>4. new[place] = y
        BY <1>5, <1>6, <3>1, <3>2, <3>3
      <3> QED  BY <1>6, <1>7, <1>8, <2>2, <3>3, <3>4
    <2> QED  BY <2>1, <2>2
  <1>10. ASSUME NEW i \in DOMAIN new
         PROVE  new[i] \in DOMAIN T /\ T[new[i]].activeIndex = i
    <2>1. i \in 1..(Len(ids) - 1) /\ i \in DOMAIN ids /\ i # Len(ids)
      BY <1>2, <1>6
    <2>2. CASE i = gap
      <3>1. new[i] = last
        BY <1>5, <1>6, <2>1, <2>2
      <3>2. last # x
        BY <1>4, <2>1, <2>2 DEF gap
      <3> QED  BY <1>4, <1>7, <1>8, <2>2, <3>1, <3>2
    <2>3. CASE i # gap
      <3>1. new[i] = ids[i]
        BY <1>5, <1>6, <2>1, <2>3
      <3>2. ids[i] \in DOMAIN S /\ S[ids[i]].activeIndex = i
        BY <1>1, <2>1
      <3>3. ids[i] # x /\ ids[i] # last
        BY <1>4, <2>1, <2>3, <3>2 DEF gap
      <3> QED  BY <1>7, <1>8, <3>1, <3>2, <3>3
    <2> QED  BY <2>2, <2>3
  <1>11. Table(X, R, T, new)
    BY <1>1, <1>6, <1>7, <1>8, <1>9, <1>10 DEF Table, Placed
  <1> QED  BY <1>7, <1>8, <1>11 DEF T, new

(* A slot is added at the end of the list.                                   *)
LEMMA AddedTable ==
    ASSUME NEW X, NEW R, NEW S, NEW ids, Table(X, R, S, ids),
           NEW x \in X, x \notin DOMAIN S, NEW r \in R, r.activeIndex = Len(ids) + 1
    PROVE  Table(X, R, Put(S, x, r), Append(ids, x))
  <1> DEFINE T == Put(S, x, r)
             new == Append(ids, x)
  <1>1. /\ ids \in Seq(X) /\ DOMAIN S \subseteq X
        /\ \A y \in DOMAIN S : S[y] \in R
        /\ \A y \in DOMAIN S : S[y].activeIndex \in DOMAIN ids /\ ids[S[y].activeIndex] = y
        /\ \A i \in DOMAIN ids : ids[i] \in DOMAIN S /\ S[ids[i]].activeIndex = i
    BY DEF Table, Placed
  <1>2. /\ DOMAIN T = DOMAIN S \cup {x} /\ T[x] = r
        /\ \A y \in DOMAIN S : T[y] = S[y]
    BY DEF Put
  <1>3. /\ new \in Seq(X) /\ DOMAIN new = DOMAIN ids \cup {Len(ids) + 1}
        /\ new[Len(ids) + 1] = x /\ \A i \in DOMAIN ids : new[i] = ids[i]
    BY <1>1
  <1> HIDE DEF T, new
  <1>4. Placed(T, new)
    BY <1>1, <1>2, <1>3 DEF Placed
  <1> QED  BY <1>1, <1>2, <1>3, <1>4 DEF Table, T, new

(* The list is as long as the table.                                         *)
LEMMA TableCounted ==
    ASSUME NEW X, IsFiniteSet(X), NEW R, NEW S, NEW ids, Table(X, R, S, ids)
    PROVE  IsFiniteSet(DOMAIN S) /\ Cardinality(DOMAIN S) = Len(ids)
  <1>1. ids \in Seq(X) /\ Len(ids) \in Nat /\ DOMAIN ids = 1..Len(ids)
    BY DEF Table
  <1>2. ids \in Bijection(1..Len(ids), DOMAIN S)
    <2>1. ids \in [1..Len(ids) -> DOMAIN S]
      BY <1>1 DEF Table, Placed
    <2>2. \A i, j \in 1..Len(ids) : ids[i] = ids[j] => i = j
      BY <1>1 DEF Table, Placed
    <2>3. \A x \in DOMAIN S : \E i \in 1..Len(ids) : ids[i] = x
      BY <1>1 DEF Table, Placed
    <2>4. ids \in Injection(1..Len(ids), DOMAIN S)
      BY <1>1, <2>1, <2>2 DEF Injection, IsInjective
    <2>5. ids \in Surjection(1..Len(ids), DOMAIN S)
      BY <2>1, <2>3 DEF Surjection
    <2> QED  BY <2>4, <2>5 DEF Bijection
  <1>3. ExistsBijection(1..Len(ids), DOMAIN S)
    BY <1>2 DEF ExistsBijection
  <1>4. IsFiniteSet(1..Len(ids)) /\ Cardinality(1..Len(ids)) = Len(ids)
    BY <1>1, FS_Interval
  <1> QED  BY <1>3, <1>4, FS_Bijection

-----------------------------------------------------------------------------
(* Instances and slots.                                                      *)
InstancesOf(S) == {S[x].instance : x \in DOMAIN S}

LEMMA OwnedSwapped ==
    ASSUME NEW L, NEW S, NEW F
    PROVE  Owned(L, S, F) <=> Owned(L, F, S)
  BY DEF Owned

(* As many instances as slots.                                               *)
LEMMA InstancesCounted ==
    ASSUME NEW S, IsFiniteSet(DOMAIN S),
           \A x, y \in DOMAIN S : S[x].instance = S[y].instance => x = y
    PROVE  /\ IsFiniteSet(InstancesOf(S))
           /\ Cardinality(InstancesOf(S)) = Cardinality(DOMAIN S)
  <1> DEFINE f == [x \in DOMAIN S |-> S[x].instance]
  <1>1. f \in [DOMAIN S -> InstancesOf(S)]
    BY DEF InstancesOf
  <1>2. f \in Injection(DOMAIN S, InstancesOf(S))
    BY <1>1 DEF Injection, IsInjective
  <1>3. f \in Surjection(DOMAIN S, InstancesOf(S))
    BY <1>1 DEF Surjection, InstancesOf
  <1>4. ExistsBijection(DOMAIN S, InstancesOf(S))
    <2>1. f \in Bijection(DOMAIN S, InstancesOf(S))
      BY <1>2, <1>3 DEF Bijection
    <2> QED  BY <2>1 DEF ExistsBijection
  <1> QED  BY <1>4, FS_Bijection

LEMMA OwnedCounted ==
    ASSUME NEW L, NEW S, NEW F, Owned(L, S, F),
           IsFiniteSet(DOMAIN S), IsFiniteSet(DOMAIN F)
    PROVE  /\ IsFiniteSet(L)
           /\ Cardinality(L) = Cardinality(DOMAIN S) + Cardinality(DOMAIN F)
  <1>1. /\ IsFiniteSet(InstancesOf(S))
        /\ Cardinality(InstancesOf(S)) = Cardinality(DOMAIN S)
    BY InstancesCounted DEF Owned
  <1>2. /\ IsFiniteSet(InstancesOf(F))
        /\ Cardinality(InstancesOf(F)) = Cardinality(DOMAIN F)
    BY InstancesCounted DEF Owned
  <1>3. L = InstancesOf(S) \cup InstancesOf(F)
    BY DEF Owned, InstancesOf
  <1>4. InstancesOf(S) \cap InstancesOf(F) = {}
    BY DEF Owned, InstancesOf
  <1>5. Cardinality(InstancesOf(S)) \in Nat /\ Cardinality(InstancesOf(F)) \in Nat
    BY <1>1, <1>2, FS_CardinalityType
  <1>6. /\ IsFiniteSet(InstancesOf(S) \cup InstancesOf(F))
        /\ Cardinality(InstancesOf(S) \cup InstancesOf(F)) =
              Cardinality(InstancesOf(S)) + Cardinality(InstancesOf(F))
                - Cardinality(InstancesOf(S) \cap InstancesOf(F))
    BY <1>1, <1>2, FS_Union
  <1>7. Cardinality(InstancesOf(S) \cap InstancesOf(F)) = 0
    BY <1>4, FS_EmptySet
  <1>8. Cardinality(L) = Cardinality(InstancesOf(S)) + Cardinality(InstancesOf(F))
    BY <1>3, <1>5, <1>6, <1>7
  <1> QED  BY <1>1, <1>2, <1>3, <1>6, <1>8

(* A fresh handle exists, and handles are never larger than needed.          *)
LEMMA FreshIs ==
    ASSUME NEW L, IsFiniteSet(L)
    PROVE  FreshInstance(L) \in 1..(Cardinality(L) + 1) \ L
  <1> DEFINE n == Cardinality(L)
  <1>1. n \in Nat
    BY FS_CardinalityType
  <1>2. ASSUME 1..(n + 1) \subseteq L PROVE FALSE
    <2>1. Cardinality(1..(n + 1)) <= n
      BY <1>2, FS_Subset
    <2>2. Cardinality(1..(n + 1)) = n + 1
      BY <1>1, FS_Interval
    <2> QED  BY <1>1, <2>1, <2>2
  <1>3. \E i \in 1..(n + 1) : i \notin L
    BY <1>2
  <1> QED  BY <1>3 DEF FreshInstance

(* What becomes of the instances when slots come and go.                     *)
LEMMA OwnedAfterRemoval ==
    ASSUME NEW L, NEW S, NEW F, Owned(L, S, F), NEW x \in DOMAIN S,
           NEW T, DOMAIN T = DOMAIN S \ {x},
           \A y \in DOMAIN T : T[y].instance = S[y].instance
    PROVE  Owned(L \ {S[x].instance}, T, F)
  BY DEF Owned

LEMMA OwnedAfterAddition ==
    ASSUME NEW L, NEW S, NEW F, Owned(L, S, F), NEW x, x \notin DOMAIN S,
           NEW r, r.instance \notin L
    PROVE  Owned(L \cup {r.instance}, Put(S, x, r), F)
  <1> DEFINE T == Put(S, x, r)
  <1>1. /\ DOMAIN T = DOMAIN S \cup {x} /\ T[x] = r
        /\ \A y \in DOMAIN S : T[y] = S[y]
    BY DEF Put
  <1>2. /\ \A y \in DOMAIN S : r.instance # S[y].instance
        /\ \A y \in DOMAIN F : r.instance # F[y].instance
    BY DEF Owned
  <1> HIDE DEF T
  <1>3. L \cup {r.instance} = InstancesOf(T) \cup InstancesOf(F)
    <2>1. InstancesOf(T) = InstancesOf(S) \cup {r.instance}
      BY <1>1 DEF InstancesOf
    <2> QED  BY <2>1 DEF Owned, InstancesOf
  <1>4. \A y, z \in DOMAIN T : T[y].instance = T[z].instance => y = z
    BY <1>1, <1>2 DEF Owned
  <1>5. \A y \in DOMAIN T, z \in DOMAIN F : T[y].instance # F[z].instance
    BY <1>1, <1>2 DEF Owned
  <1> QED  BY <1>3, <1>4, <1>5 DEF Owned, InstancesOf, T

LEMMA OwnedAfterHandover ==
    ASSUME NEW L, NEW S, NEW F, Owned(L, S, F), NEW x \in DOMAIN S,
           NEW T, DOMAIN T = DOMAIN S \ {x},
           \A y \in DOMAIN T : T[y].instance = S[y].instance,
           NEW f, f \notin DOMAIN F, NEW r, r.instance = S[x].instance
    PROVE  Owned(L, T, Put(F, f, r))
  <1>1. Owned(L \ {r.instance}, F, T)
    BY OwnedAfterRemoval, OwnedSwapped
  <1>2. Owned((L \ {r.instance}) \cup {r.instance}, Put(F, f, r), T)
    BY <1>1, OwnedAfterAddition
  <1>3. (L \ {r.instance}) \cup {r.instance} = L
    BY DEF Owned
  <1> QED  BY <1>2, <1>3, OwnedSwapped

-----------------------------------------------------------------------------
(* The operations on both tables.                                            *)
LEMMA Room ==
    ASSUME NEW S, NEW ids, NEW F, NEW fids, NEW L, Consistent(S, ids, F, fids, L)
    PROVE  /\ FreshInstance(L) \notin L
           /\ \A u \in UnitId \ DOMAIN S :
                 FreshInstance(L) \in Instance /\ Len(ids) + 1 \in 1..Cardinality(UnitId)
           /\ \A f \in FeatureId \ DOMAIN F :
                 FreshInstance(L) \in Instance /\ Len(fids) + 1 \in 1..Cardinality(FeatureId)
  <1>1. /\ IsFiniteSet(DOMAIN S) /\ Cardinality(DOMAIN S) = Len(ids)
        /\ IsFiniteSet(DOMAIN F) /\ Cardinality(DOMAIN F) = Len(fids)
    BY TableCounted, SetAssumption DEF Consistent
  <1>2. IsFiniteSet(L) /\ Cardinality(L) = Len(ids) + Len(fids)
    BY <1>1, OwnedCounted DEF Consistent
  <1>3. /\ Len(ids) \in Nat /\ Len(fids) \in Nat
        /\ Cardinality(UnitId) \in Nat /\ Cardinality(FeatureId) \in Nat
    BY <1>1, FS_CardinalityType, SetAssumption
  <1>4. /\ DOMAIN S \in SUBSET UnitId /\ DOMAIN F \in SUBSET FeatureId
    BY DEF Consistent, Table
  <1>5. /\ Len(ids) <= Cardinality(UnitId)
        /\ Len(ids) = Cardinality(UnitId) => DOMAIN S = UnitId
    BY <1>1, <1>4, FS_Subset, SetAssumption
  <1>6. /\ Len(fids) <= Cardinality(FeatureId)
        /\ Len(fids) = Cardinality(FeatureId) => DOMAIN F = FeatureId
    BY <1>1, <1>4, FS_Subset, SetAssumption
  <1>7. FreshInstance(L) \in 1..(Cardinality(L) + 1) /\ FreshInstance(L) \notin L
    BY <1>2, FreshIs
  <1>8. ASSUME NEW u \in UnitId \ DOMAIN S
        PROVE  FreshInstance(L) \in Instance /\ Len(ids) + 1 \in 1..Cardinality(UnitId)
    <2>1. Len(ids) < Cardinality(UnitId)
      BY <1>3, <1>5
    <2> QED  BY <1>2, <1>3, <1>6, <1>7, <2>1 DEF Instance
  <1>9. ASSUME NEW f \in FeatureId \ DOMAIN F
        PROVE  FreshInstance(L) \in Instance /\ Len(fids) + 1 \in 1..Cardinality(FeatureId)
    <2>1. Len(fids) < Cardinality(FeatureId)
      BY <1>3, <1>6
    <2> QED  BY <1>2, <1>3, <1>5, <1>7, <2>1 DEF Instance
  <1> QED  BY <1>7, <1>8, <1>9

LEMMA UnitRemoved ==
    ASSUME NEW S, NEW ids, NEW F, NEW fids, NEW L, Consistent(S, ids, F, fids, L),
           NEW u \in DOMAIN S
    PROVE  /\ Consistent(Unslotted(S, ids, u), GapFilled(S, ids, u), F, fids,
                         L \ {S[u].instance})
           /\ DOMAIN Unslotted(S, ids, u) = DOMAIN S \ {u}
  <1>1. /\ DOMAIN Unslotted(S, ids, u) = DOMAIN S \ {u}
        /\ \A y \in DOMAIN S \ {u} : Unslotted(S, ids, u)[y].instance = S[y].instance
        /\ Table(UnitId, UnitSlots, Unslotted(S, ids, u), GapFilled(S, ids, u))
    BY RemovedTable, SlotsMovable DEF Consistent
  <1>2. Owned(L \ {S[u].instance}, Unslotted(S, ids, u), F)
    BY <1>1, OwnedAfterRemoval DEF Consistent
  <1> QED  BY <1>1, <1>2 DEF Consistent

LEMMA FeatureRemoved ==
    ASSUME NEW S, NEW ids, NEW F, NEW fids, NEW L, Consistent(S, ids, F, fids, L),
           NEW f \in DOMAIN F
    PROVE  Consistent(S, ids, Unslotted(F, fids, f), GapFilled(F, fids, f),
                      L \ {F[f].instance})
  <1>1. /\ DOMAIN Unslotted(F, fids, f) = DOMAIN F \ {f}
        /\ \A y \in DOMAIN F \ {f} : Unslotted(F, fids, f)[y].instance = F[y].instance
        /\ Table(FeatureId, FeatureSlots, Unslotted(F, fids, f), GapFilled(F, fids, f))
    BY RemovedTable, SlotsMovable DEF Consistent
  <1>2. Owned(L \ {F[f].instance}, Unslotted(F, fids, f), S)
    BY <1>1, OwnedSwapped, OwnedAfterRemoval DEF Consistent
  <1> QED  BY <1>1, <1>2, OwnedSwapped DEF Consistent

LEMMA UnitAdded ==
    ASSUME NEW S, NEW ids, NEW F, NEW fids, NEW L, Consistent(S, ids, F, fids, L),
           NEW u \in UnitId \ DOMAIN S, NEW token \in Page
    PROVE  LET r == UnitSlot(FreshInstance(L), token, Len(ids) + 1) IN
           Consistent(Put(S, u, r), Append(ids, u), F, fids, L \cup {FreshInstance(L)})
  <1> DEFINE r == UnitSlot(FreshInstance(L), token, Len(ids) + 1)
  <1>1. /\ r \in UnitSlots /\ r.instance = FreshInstance(L)
        /\ r.activeIndex = Len(ids) + 1
    BY Room DEF UnitSlot, UnitSlots
  <1>2. r.instance \notin L
    BY <1>1, Room
  <1> HIDE DEF r
  <1>3. Table(UnitId, UnitSlots, Put(S, u, r), Append(ids, u))
    BY <1>1, AddedTable DEF Consistent
  <1>4. Owned(L \cup {r.instance}, Put(S, u, r), F)
    BY <1>2, OwnedAfterAddition DEF Consistent
  <1>5. Consistent(Put(S, u, r), Append(ids, u), F, fids, L \cup {FreshInstance(L)})
    BY <1>1, <1>3, <1>4 DEF Consistent
  <1> QED  BY <1>5 DEF r

LEMMA FeatureAdded ==
    ASSUME NEW S, NEW ids, NEW F, NEW fids, NEW L, Consistent(S, ids, F, fids, L),
           NEW f \in FeatureId \ DOMAIN F
    PROVE  LET r == [instance |-> FreshInstance(L), activeIndex |-> Len(fids) + 1] IN
           Consistent(S, ids, Put(F, f, r), Append(fids, f), L \cup {FreshInstance(L)})
  <1> DEFINE r == [instance |-> FreshInstance(L), activeIndex |-> Len(fids) + 1]
  <1>1. /\ r \in FeatureSlots /\ r.instance = FreshInstance(L)
        /\ r.activeIndex = Len(fids) + 1
    BY Room DEF FeatureSlots
  <1>2. r.instance \notin L
    BY <1>1, Room
  <1> HIDE DEF r
  <1>3. Table(FeatureId, FeatureSlots, Put(F, f, r), Append(fids, f))
    BY <1>1, AddedTable DEF Consistent
  <1>4. Owned(L \cup {r.instance}, S, Put(F, f, r))
    BY <1>2, OwnedAfterAddition, OwnedSwapped DEF Consistent
  <1>5. Consistent(S, ids, Put(F, f, r), Append(fids, f), L \cup {FreshInstance(L)})
    BY <1>1, <1>3, <1>4 DEF Consistent
  <1> QED  BY <1>5 DEF r

LEMMA HandedOver ==
    ASSUME NEW S, NEW ids, NEW F, NEW fids, NEW L, Consistent(S, ids, F, fids, L),
           NEW u \in DOMAIN S, NEW f \in FeatureId \ DOMAIN F
    PROVE  LET r == [instance |-> S[u].instance, activeIndex |-> Len(fids) + 1] IN
           Consistent(Unslotted(S, ids, u), GapFilled(S, ids, u),
                      Put(F, f, r), Append(fids, f), L)
  <1> DEFINE r == [instance |-> S[u].instance, activeIndex |-> Len(fids) + 1]
  <1>1. /\ DOMAIN Unslotted(S, ids, u) = DOMAIN S \ {u}
        /\ \A y \in DOMAIN S \ {u} : Unslotted(S, ids, u)[y].instance = S[y].instance
        /\ Table(UnitId, UnitSlots, Unslotted(S, ids, u), GapFilled(S, ids, u))
    BY RemovedTable, SlotsMovable DEF Consistent
  <1>2. r \in FeatureSlots /\ r.instance = S[u].instance /\ r.activeIndex = Len(fids) + 1
    <2>1. S[u].instance \in Instance
      <3>1. S[u] \in UnitSlots
        BY DEF Consistent, Table
      <3> QED  BY <3>1 DEF UnitSlots
    <2>2. Len(fids) + 1 \in 1..Cardinality(FeatureId)
      BY Room
    <2> QED  BY <2>1, <2>2 DEF FeatureSlots
  <1> HIDE DEF r
  <1>3. Table(FeatureId, FeatureSlots, Put(F, f, r), Append(fids, f))
    BY <1>2, AddedTable DEF Consistent
  <1>4. Owned(L, Unslotted(S, ids, u), Put(F, f, r))
    BY <1>1, <1>2, OwnedAfterHandover DEF Consistent
  <1>5. Consistent(Unslotted(S, ids, u), GapFilled(S, ids, u),
                   Put(F, f, r), Append(fids, f), L)
    BY <1>1, <1>3, <1>4 DEF Consistent
  <1> QED  BY <1>5 DEF r

-----------------------------------------------------------------------------
(* The handlers of the bridge.                                               *)
LEMMA SlotsSame ==
    ASSUME Slots, UNCHANGED <<unitSlots, corpses, live>> PROVE Slots'
  BY DEF Slots, unitSlots, corpses

LEMMA RemoveUnitSlotInv ==
    ASSUME Slots, NEW u \in DOMAIN slots, RemoveUnitSlot(u), UNCHANGED corpses
    PROVE  Slots'
  BY UnitRemoved DEF Slots, RemoveUnitSlot, corpses

LEMMA RemoveFeatureSlotInv ==
    ASSUME Slots, NEW f \in DOMAIN featureSlots, RemoveFeatureSlot(f),
           UNCHANGED unitSlots
    PROVE  Slots'
  BY FeatureRemoved DEF Slots, RemoveFeatureSlot, unitSlots

LEMMA AddUnitInv ==
    ASSUME Slots, NEW u \in UnitId, NEW def, NEW token \in Page,
           AddUnit(u, def, token), UNCHANGED corpses
    PROVE  Slots'
  <1> DEFINE former == u \in DOMAIN slots
             S == IF former THEN Unslotted(slots, activeUnitIds, u) ELSE slots
             ids == IF former THEN GapFilled(slots, activeUnitIds, u)
                    ELSE activeUnitIds
             L == IF former THEN live \ {slots[u].instance} ELSE live
  <1>1. /\ Consistent(S, ids, featureSlots, activeFeatureIds, L)
        /\ u \notin DOMAIN S
    <2>1. CASE former
      <3>1. /\ S = Unslotted(slots, activeUnitIds, u)
            /\ ids = GapFilled(slots, activeUnitIds, u)
            /\ L = live \ {slots[u].instance}
        BY <2>1
      <3> HIDE DEF S, ids, L
      <3>2. /\ Consistent(Unslotted(slots, activeUnitIds, u),
                          GapFilled(slots, activeUnitIds, u),
                          featureSlots, activeFeatureIds, live \ {slots[u].instance})
            /\ DOMAIN Unslotted(slots, activeUnitIds, u) = DOMAIN slots \ {u}
        BY <2>1, UnitRemoved DEF Slots
      <3> QED  BY <3>1, <3>2
    <2>2. CASE ~former
      BY <2>2 DEF Slots
    <2> QED  BY <2>1, <2>2
  <1>2. featureSlots' = featureSlots /\ activeFeatureIds' = activeFeatureIds
    BY DEF corpses
  <1>3. \/ UNCHANGED <<unitSlots, live>>
        \/ slots' = S /\ activeUnitIds' = ids /\ live' = L
        \/ /\ slots' = Put(S, u, UnitSlot(FreshInstance(L), token, Len(ids) + 1))
           /\ activeUnitIds' = Append(ids, u)
           /\ live' = L \cup {FreshInstance(L)}
    <2> HIDE DEF L, S, ids
    <2> QED  BY DEF AddUnit, L, S, ids
  <1> HIDE DEF L, S, ids
  <1>4. CASE UNCHANGED <<unitSlots, live>>
    BY <1>4, SlotsSame
  <1>5. CASE slots' = S /\ activeUnitIds' = ids /\ live' = L
    BY <1>1, <1>2, <1>5 DEF Slots
  <1>6. CASE /\ slots' = Put(S, u, UnitSlot(FreshInstance(L), token, Len(ids) + 1))
             /\ activeUnitIds' = Append(ids, u)
             /\ live' = L \cup {FreshInstance(L)}
    <2>1. Consistent(Put(S, u, UnitSlot(FreshInstance(L), token, Len(ids) + 1)),
                     Append(ids, u), featureSlots, activeFeatureIds,
                     L \cup {FreshInstance(L)})
      BY <1>1, UnitAdded
    <2> QED  BY <1>2, <1>6, <2>1 DEF Slots
  <1> QED  BY <1>3, <1>4, <1>5, <1>6

LEMMA AddFeatureInv ==
    ASSUME Slots, NEW f \in FeatureId, AddFeature(f)
    PROVE  Slots'
  <1>1. CASE UNCHANGED <<unitSlots, corpses, live>>
    BY <1>1, SlotsSame
  <1>2. ASSUME f \notin DOMAIN featureSlots, NEW u \in Heirlooms(f),
               AddFeatureSlot(f, slots[u].instance),
               slots' = Unslotted(slots, activeUnitIds, u),
               activeUnitIds' = GapFilled(slots, activeUnitIds, u),
               UNCHANGED live
        PROVE  Slots'
    <2>1. u \in DOMAIN slots
      BY DEF Heirlooms
    <2> QED  BY <1>2, <2>1, HandedOver DEF Slots, AddFeatureSlot
  <1>3. ASSUME f \notin DOMAIN featureSlots, AddFeatureSlot(f, FreshInstance(live)),
               live' = live \cup {FreshInstance(live)}, UNCHANGED unitSlots
        PROVE  Slots'
    BY <1>3, FeatureAdded DEF Slots, AddFeatureSlot, unitSlots
  <1> QED  BY <1>1, <1>2, <1>3 DEF AddFeature

LEMMA MarkInv ==
    ASSUME Slots, NEW u, NEW token, MarkUnitDestroyed(u, token),
           UNCHANGED <<activeUnitIds, live, corpses>>
    PROVE  Slots'
  <1>1. CASE slots' = slots
    BY <1>1 DEF Slots, corpses
  <1>2. CASE u \in DOMAIN slots /\ slots' = [slots EXCEPT ![u].pendingDestroy = TRUE]
    <2>1. DOMAIN slots' = DOMAIN slots
      BY <1>2
    <2>2. ASSUME NEW x \in DOMAIN slots
          PROVE  /\ slots'[x] \in UnitSlots
                 /\ slots'[x].instance = slots[x].instance
                 /\ slots'[x].activeIndex = slots[x].activeIndex
      <3>1. slots[x] \in UnitSlots
        BY DEF Slots, Consistent, Table
      <3>2. \A r \in UnitSlots :
                /\ [r EXCEPT !.pendingDestroy = TRUE] \in UnitSlots
                /\ [r EXCEPT !.pendingDestroy = TRUE].instance = r.instance
                /\ [r EXCEPT !.pendingDestroy = TRUE].activeIndex = r.activeIndex
        BY DEF UnitSlots
      <3>3. slots'[x] = IF x = u THEN [slots[x] EXCEPT !.pendingDestroy = TRUE]
                        ELSE slots[x]
        BY <1>2
      <3> QED  BY <3>1, <3>2, <3>3
    <2>3. Table(UnitId, UnitSlots, slots', activeUnitIds')
      BY <2>1, <2>2 DEF Slots, Consistent, Table, Placed
    <2>4. Owned(live', slots', featureSlots')
      <3>1. Owned(live, slots, featureSlots)
        BY DEF Slots, Consistent
      <3>2. featureSlots' = featureSlots /\ live' = live
        BY DEF corpses
      <3> QED  BY <2>1, <2>2, <3>1, <3>2 DEF Owned
    <2> QED  BY <2>3, <2>4 DEF Slots, Consistent, corpses
  <1> QED  BY <1>1, <1>2 DEF MarkUnitDestroyed

-----------------------------------------------------------------------------
(* The steps.                                                                *)
LEMMA CursorMoves ==
    ASSUME Slots, BridgeTypes
    PROVE  /\ 1 \in Places
           /\ cursor <= Len(activeUnitIds) =>
                 activeUnitIds[cursor] \in DOMAIN slots /\ cursor + 1 \in Places
           /\ cursor <= Len(activeFeatureIds) =>
                 activeFeatureIds[cursor] \in DOMAIN featureSlots
                 /\ cursor + 1 \in Places
  <1>1. /\ Cardinality(UnitId) \in Nat /\ Cardinality(FeatureId) \in Nat
    BY FS_CardinalityType, SetAssumption
  <1>2. ASSUME cursor <= Len(activeUnitIds)
        PROVE  activeUnitIds[cursor] \in DOMAIN slots /\ cursor + 1 \in Places
    <2>1. activeUnitIds \in Seq(UnitId) /\ cursor \in Nat \ {0}
      BY <1>1 DEF Slots, Consistent, Table, BridgeTypes, Places
    <2>2. cursor \in DOMAIN activeUnitIds
      BY <1>2, <2>1
    <2>3. /\ activeUnitIds[cursor] \in DOMAIN slots
          /\ slots[activeUnitIds[cursor]].activeIndex = cursor
      BY <2>2 DEF Slots, Consistent, Table, Placed
    <2>4. slots[activeUnitIds[cursor]] \in UnitSlots
      BY <2>3 DEF Slots, Consistent, Table
    <2>5. cursor \in 1..Cardinality(UnitId)
      BY <2>3, <2>4 DEF UnitSlots
    <2> QED  BY <1>1, <2>3, <2>5 DEF Places
  <1>3. ASSUME cursor <= Len(activeFeatureIds)
        PROVE  activeFeatureIds[cursor] \in DOMAIN featureSlots /\ cursor + 1 \in Places
    <2>1. activeFeatureIds \in Seq(FeatureId) /\ cursor \in Nat \ {0}
      BY <1>1 DEF Slots, Consistent, Table, BridgeTypes, Places
    <2>2. cursor \in DOMAIN activeFeatureIds
      BY <1>3, <2>1
    <2>3. /\ activeFeatureIds[cursor] \in DOMAIN featureSlots
          /\ featureSlots[activeFeatureIds[cursor]].activeIndex = cursor
      BY <2>2 DEF Slots, Consistent, Table, Placed
    <2>4. featureSlots[activeFeatureIds[cursor]] \in FeatureSlots
      BY <2>3 DEF Slots, Consistent, Table
    <2>5. cursor \in 1..Cardinality(FeatureId)
      BY <2>3, <2>4 DEF FeatureSlots
    <2> QED  BY <1>1, <2>3, <2>5 DEF Places
  <1>4. 1 \in Places
    BY <1>1 DEF Places
  <1> QED  BY <1>2, <1>3, <1>4

LEMMA EventInv ==
    ASSUME Inv, ProcessEvent PROVE BridgeTypes' /\ Slots'
  <1> DEFINE e == Head(processingEvents)
  <1> SUFFICES Slots'
    BY DEF Inv, BridgeTypes, ProcessEvent
  <1>1. CASE ProcessUnitEvent(e)
    <2>1. UNCHANGED corpses
      BY <1>1 DEF ProcessUnitEvent
    <2>2. CASE MarkUnitDestroyed(e.id, e.token) /\ UNCHANGED <<activeUnitIds, live>>
      BY <2>1, <2>2, MarkInv DEF Inv
    <2>3. CASE /\ e.id \in DOMAIN units /\ units[e.id].page = e.token
               /\ AddUnit(e.id, units[e.id].def, e.token)
      <3>1. e.id \in UnitId /\ units[e.id] \in [page : Page, def : Def]
        BY <2>3 DEF Inv, SimTypes
      <3>2. e.token \in Page
        BY <2>3, <3>1
      <3> HIDE DEF e
      <3> QED  BY <2>1, <2>3, <3>1, <3>2, AddUnitInv DEF Inv
    <2>4. CASE UNCHANGED <<unitSlots, live>>
      BY <2>1, <2>4, SlotsSame DEF Inv
    <2> QED  BY <1>1, <2>2, <2>3, <2>4 DEF ProcessUnitEvent
  <1>2. CASE ProcessFeatureEvent(e)
    <2>1. CASE e.id \in DOMAIN features /\ AddFeature(e.id)
      <3>1. e.id \in FeatureId
        BY <2>1 DEF Inv, SimTypes
      <3> QED  BY <2>1, <3>1, AddFeatureInv DEF Inv
    <2>2. CASE /\ e.id \in DOMAIN featureSlots
               /\ RemoveFeatureSlot(e.id) /\ UNCHANGED unitSlots
      BY <2>2, RemoveFeatureSlotInv DEF Inv
    <2>3. CASE UNCHANGED <<unitSlots, corpses, live>>
      BY <2>3, SlotsSame DEF Inv
    <2> QED  BY <1>2, <2>1, <2>2, <2>3 DEF ProcessFeatureEvent
  <1> QED  BY <1>1, <1>2 DEF ProcessEvent

LEMMA GoToInv ==
    ASSUME Inv, NEW next \in {"update", "updateFeatures", "sim"}, GoTo(next),
           UNCHANGED enabled
    PROVE  BridgeTypes' /\ Slots'
  BY SlotsSame, CursorMoves DEF Inv, GoTo, BridgeTypes

LEMMA SweepInv ==
    ASSUME Inv, Sweep PROVE BridgeTypes' /\ Slots'
  <1> DEFINE u == activeUnitIds[cursor]
  <1>1. UNCHANGED enabled
    BY DEF Sweep
  <1>2. CASE GoTo("update")
    BY <1>1, <1>2, GoToInv
  <1>3. CASE cursor <= Len(activeUnitIds) /\ SweepSlot(u) /\ UNCHANGED stage
    <2>1. u \in DOMAIN slots /\ cursor + 1 \in Places
      BY <1>3, CursorMoves DEF Inv
    <2> HIDE DEF u
    <2>2. cursor' \in Places
      BY <1>3, <2>1 DEF SweepSlot, Inv, BridgeTypes
    <2>3. Slots'
      BY <1>3, <2>1, RemoveUnitSlotInv, SlotsSame DEF SweepSlot, Inv
    <2> QED  BY <1>1, <1>3, <2>2, <2>3 DEF Inv, BridgeTypes
  <1>4. cursor \in Int /\ Len(activeUnitIds) \in Nat
    BY DEF Inv, BridgeTypes, Places, Slots, Consistent, Table
  <1> QED  BY <1>2, <1>3, <1>4 DEF Sweep

LEMMA UpdateInv ==
    ASSUME Inv, Update PROVE BridgeTypes' /\ Slots'
  <1> DEFINE u == activeUnitIds[cursor]
  <1>1. UNCHANGED enabled
    BY DEF Update
  <1>2. CASE GoTo("updateFeatures")
    BY <1>1, <1>2, GoToInv
  <1>3. CASE cursor <= Len(activeUnitIds) /\ UpdateSlot(u) /\ UNCHANGED stage
    <2>1. u \in DOMAIN slots /\ cursor + 1 \in Places
      BY <1>3, CursorMoves DEF Inv
    <2> HIDE DEF u
    <2>2. cursor' \in Places
      BY <1>3, <2>1 DEF UpdateSlot, Inv, BridgeTypes
    <2>3. Slots'
      BY <1>3, <2>1, RemoveUnitSlotInv, SlotsSame DEF UpdateSlot, Inv
    <2> QED  BY <1>1, <1>3, <2>2, <2>3 DEF Inv, BridgeTypes
  <1>4. cursor \in Int /\ Len(activeUnitIds) \in Nat
    BY DEF Inv, BridgeTypes, Places, Slots, Consistent, Table
  <1> QED  BY <1>2, <1>3, <1>4 DEF Update

LEMMA UpdateFeaturesInv ==
    ASSUME Inv, UpdateFeatures PROVE BridgeTypes' /\ Slots'
  <1> DEFINE f == activeFeatureIds[cursor]
  <1>1. UNCHANGED enabled
    BY DEF UpdateFeatures
  <1>2. CASE GoTo("sim")
    BY <1>1, <1>2, GoToInv
  <1>3. CASE cursor <= Len(activeFeatureIds) /\ UpdateFeatureSlot(f) /\ UNCHANGED stage
    <2>1. f \in DOMAIN featureSlots /\ cursor + 1 \in Places
      BY <1>3, CursorMoves DEF Inv
    <2> HIDE DEF f
    <2>2. cursor' \in Places
      BY <1>3, <2>1 DEF UpdateFeatureSlot, Inv, BridgeTypes
    <2>3. Slots'
      BY <1>3, <2>1, RemoveFeatureSlotInv, SlotsSame DEF UpdateFeatureSlot, Inv
    <2> QED  BY <1>1, <1>3, <2>2, <2>3 DEF Inv, BridgeTypes
  <1>4. cursor \in Int /\ Len(activeFeatureIds) \in Nat
    BY DEF Inv, BridgeTypes, Places, Slots, Consistent, Table
  <1> QED  BY <1>2, <1>3, <1>4 DEF UpdateFeatures

LEMMA NothingConsistent == Consistent(<<>>, <<>>, <<>>, <<>>, {})
  BY DEF Consistent, Table, Placed, Owned

LEMMA DisableInv ==
    ASSUME Inv, Disable PROVE BridgeTypes' /\ Slots'
  <1>1. live' = {}
    BY DEF Disable, Inv, Slots, Consistent, Owned
  <1>2. /\ slots' = <<>> /\ activeUnitIds' = <<>>
        /\ featureSlots' = <<>> /\ activeFeatureIds' = <<>>
    BY DEF Disable
  <1>3. Slots'
    BY <1>1, <1>2, NothingConsistent DEF Slots
  <1> QED  BY <1>3 DEF Disable, Inv, BridgeTypes

(* An event queued by the simulation changes nothing here.                   *)
LEMMA QueueInv ==
    ASSUME Inv, NEW s, Queue(s) PROVE BridgeTypes' /\ Slots'
  BY SlotsSame DEF Inv, Queue, BridgeTypes

-----------------------------------------------------------------------------
(* The simulation.                                                           *)
LEMMA SimSame == ASSUME Inv, UNCHANGED sim PROVE SimTypes'
  BY DEF Inv, SimTypes, sim, memory

LEMMA PoolTypes ==
    ASSUME NEW pool \in [freeIDs : SUBSET UnitId, tempIDs : SUBSET UnitId],
           NEW u \in UnitId
    PROVE  /\ Assigned(pool, u) \in [freeIDs : SUBSET UnitId, tempIDs : SUBSET UnitId]
           /\ Freed(pool, u) \in [freeIDs : SUBSET UnitId, tempIDs : SUBSET UnitId]
           /\ RecycleID(pool, u) \in [freeIDs : SUBSET UnitId, tempIDs : SUBSET UnitId]
  <1> DEFINE Pools == [freeIDs : SUBSET UnitId, tempIDs : SUBSET UnitId]
  <1>1. \A p \in Pools : RecycleIDs(p) \in Pools
    BY DEF RecycleIDs, Expand
  <1>2. [pool EXCEPT !.freeIDs = @ \ {u}] \in Pools
    OBVIOUS
  <1>3. [pool EXCEPT !.tempIDs = @ \cup {u}] \in Pools
    OBVIOUS
  <1>4. RecycleID(pool, u) \in Pools
    BY DEF RecycleID
  <1> QED  BY <1>1, <1>2, <1>3, <1>4 DEF Assigned, Freed

LEMMA CreateUnitInv ==
    ASSUME Inv, NEW u \in UnitId, NEW def \in Def, CreateUnit(u, def) PROVE Inv'
  <1>1. BridgeTypes' /\ Slots'
    BY QueueInv DEF CreateUnit
  <1>2. /\ pages \in 0..MaxPages /\ freePages \in Seq(Page) /\ MaxPages \in Nat
    BY SetAssumption DEF Inv, SimTypes
  <1>3. NextPage \in Page
    <2>1. CASE freePages = <<>>
      BY <1>2, <2>1 DEF NextPage, CreateUnit, Page
    <2>2. CASE freePages # <<>>
      BY <1>2, <2>2, FrontIs DEF NextPage
    <2> QED  BY <2>1, <2>2
  <1>4. /\ DOMAIN units' \subseteq UnitId
        /\ \A v \in DOMAIN units' : units'[v] \in [page : Page, def : Def]
    BY <1>3 DEF CreateUnit, Put, Inv, SimTypes
  <1>5. pages' \in 0..MaxPages /\ freePages' \in Seq(Page)
    <2>1. CASE freePages = <<>>
      BY <1>2, <1>3, <2>1 DEF CreateUnit, NextPage, Page
    <2>2. CASE freePages # <<>>
      BY <1>2, <2>2, FrontIs DEF CreateUnit
    <2> QED  BY <2>1, <2>2
  <1>6. idPool' \in [freeIDs : SUBSET UnitId, tempIDs : SUBSET UnitId]
    BY PoolTypes DEF CreateUnit, Inv, SimTypes
  <1>7. reusePages' \in ReusePages /\ DOMAIN features' \subseteq FeatureId \ spentFeatures'
    BY DEF CreateUnit, Inv, SimTypes
  <1> QED  BY <1>1, <1>4, <1>5, <1>6, <1>7 DEF Inv, SimTypes

LEMMA DeleteUnitInv ==
    ASSUME Inv, NEW u \in DOMAIN units,
           NEW wreck \in {{}} \cup {{f} : f \in NewFeatures}, NEW collect \in BOOLEAN,
           DeleteUnit(u, wreck, collect)
    PROVE  Inv'
  <1>1. BridgeTypes' /\ Slots'
    BY QueueInv DEF DeleteUnit
  <1>2. u \in UnitId /\ units[u].page \in Page
    BY DEF Inv, SimTypes
  <1>3. /\ DOMAIN units' \subseteq UnitId
        /\ \A v \in DOMAIN units' : units'[v] \in [page : Page, def : Def]
    BY DEF DeleteUnit, Restrict, Inv, SimTypes
  <1>4. idPool' \in [freeIDs : SUBSET UnitId, tempIDs : SUBSET UnitId]
    <2>1. Freed(idPool, u) \in [freeIDs : SUBSET UnitId, tempIDs : SUBSET UnitId]
      BY <1>2, PoolTypes DEF Inv, SimTypes
    <2>2. RecycleID(Freed(idPool, u), u) \in [freeIDs : SUBSET UnitId, tempIDs : SUBSET UnitId]
      BY <1>2, <2>1, PoolTypes
    <2> QED  BY <2>1, <2>2 DEF DeleteUnit
  <1>5. freePages' \in Seq(Page)
    BY <1>2 DEF DeleteUnit, Inv, SimTypes
  <1>6. DOMAIN features' \subseteq FeatureId \ spentFeatures'
    BY DEF DeleteUnit, NewFeatures, Inv, SimTypes
  <1>7. reusePages' \in ReusePages /\ pages' \in 0..MaxPages
    BY DEF DeleteUnit, Inv, SimTypes
  <1> QED  BY <1>1, <1>3, <1>4, <1>5, <1>6, <1>7 DEF Inv, SimTypes

LEMMA CreateFeatureInv ==
    ASSUME Inv, NEW f \in NewFeatures, CreateFeature(f) PROVE Inv'
  <1>1. BridgeTypes' /\ Slots'
    BY QueueInv DEF CreateFeature
  <1>2. DOMAIN features' \subseteq FeatureId \ spentFeatures'
    BY DEF CreateFeature, Put, NewFeatures, Inv, SimTypes
  <1> QED  BY <1>1, <1>2 DEF CreateFeature, memory, Inv, SimTypes

LEMMA DeleteFeatureInv ==
    ASSUME Inv, NEW f \in DOMAIN features, DeleteFeature(f) PROVE Inv'
  <1>1. BridgeTypes' /\ Slots'
    BY QueueInv DEF DeleteFeature
  <1>2. DOMAIN features' \subseteq FeatureId \ spentFeatures'
    BY DEF DeleteFeature, Restrict, Inv, SimTypes
  <1> QED  BY <1>1, <1>2 DEF DeleteFeature, memory, Inv, SimTypes

-----------------------------------------------------------------------------
LEMMA InitInv == Init => Inv
  <1> SUFFICES ASSUME Init PROVE Inv
    OBVIOUS
  <1>1. SimTypes
    BY SetAssumption DEF Init, SimTypes, Expand
  <1>2. 1 \in Places
    BY FS_CardinalityType, SetAssumption DEF Places
  <1>3. BridgeTypes
    BY <1>2 DEF Init, BridgeTypes
  <1>4. Slots
    BY NothingConsistent DEF Init, Slots
  <1> QED  BY <1>1, <1>3, <1>4 DEF Inv

LEMMA InvInductive == Inv /\ [Next]_vars => Inv'
  <1> SUFFICES ASSUME Inv, [Next]_vars PROVE Inv'
    OBVIOUS
  <1>1. ASSUME NEW u \in UnitId, NEW def \in Def, CreateUnit(u, def) PROVE Inv'
    BY <1>1, CreateUnitInv
  <1>2. ASSUME NEW u \in DOMAIN units,
               NEW wreck \in {{}} \cup {{f} : f \in NewFeatures},
               NEW collect \in BOOLEAN, DeleteUnit(u, wreck, collect)
        PROVE  Inv'
    BY <1>2, DeleteUnitInv
  <1>3. ASSUME NEW f \in NewFeatures, CreateFeature(f) PROVE Inv'
    BY <1>3, CreateFeatureInv
  <1>4. ASSUME NEW f \in DOMAIN features, DeleteFeature(f) PROVE Inv'
    BY <1>4, DeleteFeatureInv
  <1>5. CASE Enable
    <2>1. BridgeTypes' /\ Slots'
      BY <1>5, SlotsSame DEF Enable, Inv, BridgeTypes
    <2> QED  BY <1>5, <2>1, SimSame DEF Enable, Inv
  <1>6. CASE Disable
    BY <1>6, DisableInv, SimSame DEF Disable, Inv
  <1>7. CASE Prepare
    <2>1. BridgeTypes' /\ Slots'
      BY <1>7, SlotsSame DEF Prepare, Inv, BridgeTypes
    <2> QED  BY <1>7, <2>1, SimSame DEF Prepare, Inv
  <1>8. CASE ProcessEvent
    BY <1>8, EventInv, SimSame DEF ProcessEvent, Inv
  <1>9. CASE Sweep
    BY <1>9, SweepInv, SimSame DEF Sweep, Inv
  <1>10. CASE Update
    BY <1>10, UpdateInv, SimSame DEF Update, Inv
  <1>11. CASE UpdateFeatures
    BY <1>11, UpdateFeaturesInv, SimSame DEF UpdateFeatures, Inv
  <1>12. CASE UNCHANGED vars
    <2>1. BridgeTypes' /\ Slots'
      BY <1>12, SlotsSame DEF vars, Inv, BridgeTypes
    <2> QED  BY <1>12, <2>1, SimSame DEF vars, Inv
  <1> QED  BY <1>1, <1>2, <1>3, <1>4, <1>5, <1>6, <1>7, <1>8, <1>9, <1>10, <1>11,
              <1>12 DEF Next

LEMMA InvAlways == Spec => []Inv
  BY InitInv, InvInductive, PTL DEF Spec

(* Every variable keeps its type: in particular a slot's place is never      *)
(* beyond its list and no instance beyond the number of units and features.  *)
THEOREM TypeCorrect == Spec => []TypeOK
  <1>1. ASSUME Inv PROVE TypeOK
    <2>1. /\ DOMAIN slots \subseteq UnitId /\ DOMAIN featureSlots \subseteq FeatureId
          /\ activeUnitIds \in Seq(UnitId) /\ activeFeatureIds \in Seq(FeatureId)
          /\ \A u \in DOMAIN slots : slots[u] \in UnitSlots
          /\ \A f \in DOMAIN featureSlots : featureSlots[f] \in FeatureSlots
      BY <1>1 DEF Inv, Slots, Consistent, Table
    <2>2. \A u \in DOMAIN slots : UnitSlotOK(slots[u])
      BY <2>1 DEF UnitSlotOK, UnitSlots
    <2>3. \A f \in DOMAIN featureSlots : FeatureSlotOK(featureSlots[f])
      BY <2>1 DEF FeatureSlotOK, FeatureSlots
    <2>4. live \subseteq Instance
      <3>1. \A u \in DOMAIN slots : slots[u].instance \in Instance
        BY <2>1 DEF UnitSlots
      <3>2. \A f \in DOMAIN featureSlots : featureSlots[f].instance \in Instance
        BY <2>1 DEF FeatureSlots
      <3> QED  BY <1>1, <3>1, <3>2 DEF Inv, Slots, Consistent, Owned
    <2> QED  BY <1>1, <2>1, <2>2, <2>3, <2>4
             DEF TypeOK, Inv, SimTypes, BridgeTypes, Places
  <1> QED  BY <1>1, InvAlways, PTL

(* The slots and the active lists agree, whatever is removed from the middle.*)
THEOREM ListsAgree == Spec => []ActiveListsAgree
  <1>1. ASSUME Inv PROVE ActiveListsAgree
    <2>1. Cardinality(DOMAIN slots) = Len(activeUnitIds)
      BY <1>1, TableCounted, SetAssumption DEF Inv, Slots, Consistent
    <2>2. Cardinality(DOMAIN featureSlots) = Len(activeFeatureIds)
      BY <1>1, TableCounted, SetAssumption DEF Inv, Slots, Consistent
    <2> QED  BY <1>1, <2>1, <2>2
             DEF Inv, Slots, Consistent, Table, Placed, ActiveListsAgree, Agree
  <1> QED  BY <1>1, InvAlways, PTL

(* No instance of the renderer leaks or has two owners, and none is used     *)
(* after it was destroyed.                                                   *)
THEOREM InstancesHaveOneOwner == Spec => []InstancesOwned
  <1>1. ASSUME Inv PROVE InstancesOwned
    <2>1. IsFiniteSet(DOMAIN slots) /\ IsFiniteSet(DOMAIN featureSlots)
      BY <1>1, TableCounted, SetAssumption DEF Inv, Slots, Consistent
    <2>2. Cardinality(live) = Cardinality(DOMAIN slots) + Cardinality(DOMAIN featureSlots)
      BY <1>1, <2>1, OwnedCounted DEF Inv, Slots, Consistent
    <2> QED  BY <1>1, <2>2 DEF Inv, Slots, Consistent, Owned, InstancesOwned
  <1> QED  BY <1>1, InvAlways, PTL
=============================================================================
