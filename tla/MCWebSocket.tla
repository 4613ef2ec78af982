---------------------------- MODULE MCWebSocket ----------------------------
(* Instances of WebSocket for TLC: one endpoint against an arbitrary peer  *)
(* (server or client role), and a client and a server joined by their     *)
(* transports.                                                             *)
EXTENDS WebSocket

CONSTANTS cli, srv, ghost

(* The single endpoint's transport leads to a peer that is not modelled.  *)
AlonePeerOf(e) == ghost

(* cli and srv are each other's peers.                                    *)
PairPeerOf(e) == IF e = cli THEN srv ELSE cli

MCCloseCodes == {1000, 1001, 1005}

(* A frame the peer may write: well-formed, masked with key k when k > 0. *)
Wire(op, fin, p, code, k) ==
    LET f == MakeFrame(op, fin, p, code)
    IN IF k > 0 THEN SetMask(f, k) ELSE f

(* Every opcode, fin flag and payload (Binary only final), the close codes, and one *)
(* frame for each header or control-frame violation.                      *)
FramesKeyed(k, wrongK) ==
    { Wire(op, fin, p, NoCode, k) : op \in {"Continue", "Text"},
                                    fin \in BOOLEAN, p \in {0, 1} }
    \cup { Wire("Binary", TRUE, 0, NoCode, k) }
    \cup { Wire("Ping", TRUE, p, NoCode, k) : p \in {0, 1} }
    \cup { Wire("Close", TRUE, 0, c, k) : c \in MCCloseCodes \cup {NoCode, BadClose} }
    \cup { Wire(op, TRUE, 0, NoCode, k) : op \in {"Pong", "DataReserved", "ControlReserved"} }
    \cup { [Wire("Text", TRUE, 0, NoCode, k) EXCEPT !.rsv = TRUE],
           Wire("Text", TRUE, 0, NoCode, wrongK),
           [Wire("Ping", TRUE, 0, NoCode, k) EXCEPT !.big = TRUE],
           Wire("Ping", FALSE, 0, NoCode, k) }

(* Frames towards a server are masked (key 1); towards a client, not.     *)
ToServerFrames == FramesKeyed(1, 0)
ToClientFrames == FramesKeyed(0, 1)

=============================================================================
