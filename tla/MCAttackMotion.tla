--------------------------- MODULE MCAttackMotion ---------------------------
(* A first weapon with a salvo of two shots and a second weapon with one.    *)
EXTENDS AttackMotion

MCSalvoSize == [w \in {0, 1} |-> IF w = 0 THEN 2 ELSE 1]
MCSalvoWindup == [w \in {0, 1} |-> IF w = 0 THEN 1 ELSE 0]
MCSalvoDelay == [w \in {0, 1} |-> IF w = 0 THEN 1 ELSE 0]
MCReloadTime == [w \in {0, 1} |-> IF w = 0 THEN 3 ELSE 1]
=============================================================================
