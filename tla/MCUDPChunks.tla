----------------------------- MODULE MCUDPChunks -----------------------------
(* Values of the constants of UDPChunks for TLC. *)
EXTENDS UDPChunks

CONSTANTS ClientChunks, ServerChunks

(* MaxChunks *)
MCMaxChunks == [e \in {Client, Server} |->
                   IF e = Client THEN ClientChunks ELSE ServerChunks]

=============================================================================
