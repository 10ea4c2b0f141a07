--------------------------- MODULE MCUDPConnection ---------------------------
(* Values of the constants of UDPConnection for TLC. *)
EXTENDS UDPConnection

(* MaxChunks, Script and MsgLen: the client sends a message of two chunks, *)
(* one that is not valid and a short one; the server one short message.    *)
(* MaxChunks leaves room for all of their chunks.                          *)
MCMaxChunks == [e \in {Client, Server} |-> IF e = Client THEN 3 ELSE 2]
MCScript == [e \in {Client, Server} |->
                IF e = Client THEN <<"order", "broken", "chat">> ELSE <<"frame">>]
MCMsgLen == [m \in {"order", "broken", "chat", "frame"} |->
                CASE m = "order" -> 3 [] m = "broken" -> 0
                  [] m = "chat" -> 2 [] m = "frame" -> 1]

(* HeaderLen: the length of the order lies in its second and third byte,   *)
(* which is in the next chunk.                                             *)
MCHeaderLen == [m \in {"order", "broken", "chat", "frame"} |->
                CASE m = "order" -> 3 [] m = "chat" -> 2 [] OTHER -> 1]

=============================================================================
