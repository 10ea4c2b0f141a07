---------------------------- MODULE MCGameServer ----------------------------
(* Instance of GameServer for TLC.                                          *)
EXTENDS GameServer

(* The first player comes a second time.                                    *)
MCMaxPrograms == <<2, 1>>

=============================================================================
