-------------------------- MODULE MCAoe2UnitBridge --------------------------
(* Values of the constants of Aoe2UnitBridge for TLC. *)
EXTENDS Aoe2UnitBridge

CONSTANTS Corpses, OwnCorpses

(* Kind *)
MCKind == [f \in FeatureId |->
             IF f \in OwnCorpses THEN "ownCorpse"
             ELSE IF f \in Corpses THEN "corpse" ELSE "plain"]

(* The ids of units are interchangeable. *)
MCSymmetry == Permutations(UnitId)

=============================================================================
