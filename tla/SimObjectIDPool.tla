--------------------------- MODULE SimObjectIDPool ---------------------------
(***************************************************************************)
(* The pool of unit ids (rts/Sim/Misc/SimObjectIDPool).  A freed id        *)
(* normally waits in tempIDs until the free ids have run out; RecycleID    *)
(* makes one available at once.  The random order in which ids are handed  *)
(* out is abstracted to a free choice.                                     *)
(***************************************************************************)
EXTENDS FiniteSets

Expand(ids) == [freeIDs |-> ids, tempIDs |-> {}]
HasID(pool, uid) == uid \in pool.freeIDs

(* RecycleIDs, which every operation ends with when no id is free *)
RecycleIDs(pool) ==
    IF pool.freeIDs = {} THEN Expand(pool.tempIDs) ELSE pool

(* ExtractID, or ReserveID of an id that was asked for *)
Assigned(pool, uid) == RecycleIDs([pool EXCEPT !.freeIDs = @ \ {uid}])

Freed(pool, uid) == RecycleIDs([pool EXCEPT !.tempIDs = @ \cup {uid}])

RecycleID(pool, uid) ==
    IF uid \in pool.tempIDs
    THEN [freeIDs |-> pool.freeIDs \cup {uid}, tempIDs |-> pool.tempIDs \ {uid}]
    ELSE pool

=============================================================================
