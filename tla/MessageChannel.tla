--------------------------- MODULE MessageChannel ---------------------------
(***************************************************************************)
(* What a WebSocket connection promises its two callers, without frames,  *)
(* masks or control messages: each end writes messages; its peer reads    *)
(* them whole, in order, each once, for as long as the peer is open.      *)
(* An end stops being open once it closes or sees its peer close, and     *)
(* never opens again.  Writing is not restricted here.                    *)
(***************************************************************************)
EXTENDS Naturals, Sequences

CONSTANTS
    Ends,      \* the two ends of the connection
    Peer(_),   \* the end a given end talks to
    Msgs       \* the messages a caller may write

VARIABLES
    out,       \* out[e]: the messages e wrote, in order
    in,        \* in[e]:  the messages e read, in order
    open       \* open[e]: e still reads data messages

chanVars == <<out, in, open>>

Init ==
    /\ out = [e \in Ends |-> <<>>]
    /\ in = [e \in Ends |-> <<>>]
    /\ open = [e \in Ends |-> TRUE]

Write(e) ==
    /\ \E m \in Msgs : out' = [out EXCEPT ![e] = Append(@, m)]
    /\ UNCHANGED <<in, open>>

(* e reads the next message its peer wrote.                               *)
Read(e) ==
    /\ open[e]
    /\ Len(in[e]) < Len(out[Peer(e)])
    /\ in' = [in EXCEPT ![e] = Append(@, out[Peer(e)][Len(in[e]) + 1])]
    /\ UNCHANGED <<out, open>>

Close(e) ==
    /\ open[e]
    /\ open' = [open EXCEPT ![e] = FALSE]
    /\ UNCHANGED <<out, in>>

Next == \E e \in Ends : Write(e) \/ Read(e) \/ Close(e)

Spec == Init /\ [][Next]_chanVars

(* A message written to an open end that stays open is read.              *)
FairSpec == Spec /\ \A e \in Ends : WF_chanVars(Read(e))

=============================================================================
