----------------------------- MODULE WebSocket -----------------------------
(***************************************************************************)
(* The WebSocket endpoint of src/src/protocol/mod.rs: the read loop        *)
(* (read_message / read_message_frame), the control-frame handlers        *)
(* (do_close, do_ping, do_pong), write_message, close and the send path    *)
(* (send_pending / send_one_frame).  One copy of the state per endpoint;   *)
(* an endpoint's frames go to the inbound stream of PeerOf(e) when that    *)
(* peer is modelled, and otherwise an arbitrary peer may inject any frame  *)
(* of PeerFrames into the endpoint's inbound stream.                       *)
(*                                                                         *)
(* Frames are records whose payload is a small number; masking XORs it     *)
(* with the frame's key, as the frame codec does to the payload bytes.     *)
(***************************************************************************)
EXTENDS Integers, Sequences, SequencesExt, FiniteSets, Bitwise

CONSTANTS
    Clients,        \* endpoints created with Role::Client
    Servers,        \* endpoints created with Role::Server
    PeerOf(_),      \* the endpoint on the other side of e's transport
    Payloads,       \* payload values a caller may write
    MaskKeys,       \* mask keys a client may pick (set_mask)
    CloseCodes,     \* close status codes a peer may send
    PeerFrames,     \* frames an unmodelled peer may inject
    MaxWrites,      \* bound on write_message calls per endpoint
    MaxInject,      \* bound on frames injected by an unmodelled peer
    NonBlocking,    \* the stream returns WouldBlock instead of waiting
    None,           \* the Rust None
    NoCode,         \* a Close frame without a status code
    BadClose        \* a Close payload into_close rejects

Endpoints == Clients \cup Servers

ASSUME Clients \cap Servers = {}

VARIABLES
    wsState,     \* WebSocket.state
    incomplete,  \* WebSocket.incomplete
    sendQueue,   \* WebSocket.send_queue
    pong,        \* WebSocket.pong
    inbox,       \* frames in the transport towards e, not yet read
    eof,         \* the peer has closed e's transport
    pc,          \* where e's caller is: "idle", "flush" or "recv" in read_message
    err,         \* the error the last call returned (None if none)
    delivered,   \* messages read_message has returned, in order
    written,     \* messages passed to write_message, in order
    injected,    \* frames injected so far by the unmodelled peer
    log          \* e's history: frames read, frames written, close() calls

vars == <<wsState, incomplete, sendQueue, pong, inbox, eof, pc, err,
          delivered, written, injected, log>>

DataOps    == {"Continue", "Text", "Binary", "DataReserved"}
ControlOps == {"Close", "Ping", "Pong", "ControlReserved"}
MessageKinds == {"Text", "Binary"}

IsServer(e) == e \in Servers

(* WebSocketState::is_active.                                             *)
IsActive(e) == wsState[e] = "Active"
IsClient(e) == e \in Clients

(* Frame::message, Frame::pong and Frame::close of the frame module.      *)
MakeFrame(op, fin, payload, code) ==
    [op |-> op, fin |-> fin, rsv |-> FALSE, masked |-> FALSE, key |-> 0,
     big |-> FALSE, payload |-> payload, code |-> code]

(* CloseCode::is_allowed: 1000-1011 without 1004-1006, and 3000-4999.      *)
IsAllowed(code) ==
    \/ code \in (1000..1011) \ {1004, 1005, 1006}
    \/ code \in 3000..4999

(* frame.set_mask(): a fresh key; the codec XORs the payload with it.     *)
SetMask(f, k) == [f EXCEPT !.masked = TRUE, !.key = k, !.payload = @ ^^ k]

(* frame.remove_mask(): XOR with the key again and clear the flag.        *)
RemoveMask(f) == [f EXCEPT !.masked = FALSE, !.key = 0, !.payload = @ ^^ f.key]

Event(kind, f) == [ev |-> kind, frame |-> f]

-----------------------------------------------------------------------------
(* The send path.                                                          *)

(* send_one_frame applied to each frame of out: a client masks each frame *)
(* with its own key.  keys gives the key of every frame.                  *)
OnWire(e, out, keys) ==
    [i \in 1..Len(out) |-> IF IsClient(e) THEN SetMask(out[i], keys[i]) ELSE out[i]]

(* send_pending with the pong slot p and the queue q: the pong first,     *)
(* then the queue in FIFO order; both slots are empty afterwards.         *)
SendPending(e, p, q) ==
    LET out == (IF p = None THEN <<>> ELSE <<p>>) \o q
    IN \E keys \in [1..Len(out) -> MaskKeys] :
         LET wire == OnWire(e, out, keys)
         IN /\ pong' = [pong EXCEPT ![e] = None]
            /\ sendQueue' = [sendQueue EXCEPT ![e] = <<>>]
            /\ log' = [log EXCEPT ![e] = @ \o [i \in 1..Len(wire) |-> Event("send", wire[i])]]
            /\ inbox' = IF PeerOf(e) \in Endpoints
                        THEN [inbox EXCEPT ![PeerOf(e)] = @ \o wire]
                        ELSE inbox

-----------------------------------------------------------------------------
(* Validation of one received frame, in the order read_message_frame     *)
(* makes its checks; "none" when the frame passes.                        *)

HeaderError(e, f) ==
    IF f.rsv THEN "ReservedBits"
    ELSE IF IsServer(e) /\ ~f.masked THEN "UnmaskedFrame"
    ELSE IF IsClient(e) /\ f.masked THEN "MaskedFrame"
    ELSE "none"

(* Mutant: a server that reads the payload without remove_mask.         *)
UnmaskedNever(e, f) == f

Unmasked(e, f) == IF IsServer(e) THEN RemoveMask(f) ELSE f

ControlError(f) ==
    IF ~f.fin THEN "FragmentedControl"
    ELSE IF f.big THEN "ControlTooBig"
    ELSE IF f.op = "Close" /\ f.code = BadClose THEN "BadClosePayload"
    ELSE IF f.op = "ControlReserved" THEN "UnknownControl"
    ELSE "none"

DataError(e, f) ==
    IF f.op = "Continue"
    THEN IF incomplete[e] = None THEN "NothingToContinue" ELSE "none"
    ELSE IF incomplete[e] # None THEN "WaitingForFragments"
    ELSE IF f.op = "DataReserved" THEN "UnknownData"
    ELSE "none"

ReadError(e, f) ==
    LET g == Unmasked(e, f)
    IN IF HeaderError(e, f) # "none" THEN HeaderError(e, f)
       ELSE IF g.op \in ControlOps THEN ControlError(g)
       ELSE IF ~IsActive(e) THEN "none"
       ELSE DataError(e, g)

-----------------------------------------------------------------------------
(* The caller's operations.                                                *)

CallerMayUse(e) == pc[e] = "idle" /\ err[e] = None

(* read_message: each turn of its loop calls send_pending and then reads  *)
(* one frame.  This step is the call (from "idle") or the next turn after *)
(* a frame that gave no message (from "flush").                           *)
ReadLoopFlush(e) ==
    /\ \/ CallerMayUse(e)
       \/ pc[e] = "flush"
    /\ SendPending(e, pong[e], sendQueue[e])
    /\ pc' = [pc EXCEPT ![e] = "recv"]
    /\ UNCHANGED <<wsState, incomplete, eof, err, delivered, written, injected>>

(* write_message: one final data frame queued, then send_pending.         *)
WriteMessage(e) ==
    /\ CallerMayUse(e)
    /\ Len(written[e]) < MaxWrites
    /\ \E kind \in MessageKinds, p \in Payloads :
         /\ written' = [written EXCEPT ![e] = Append(@, [kind |-> kind, data |-> <<p>>])]
         /\ SendPending(e, pong[e], Append(sendQueue[e], MakeFrame(kind, TRUE, p, NoCode)))
    /\ UNCHANGED <<wsState, incomplete, eof, pc, err, delivered, injected>>

(* close: Active becomes ClosedByUs; nothing is queued (the code's TODO). *)
Close(e) ==
    /\ pc[e] = "idle"
    /\ wsState[e] = "Active"
    /\ wsState' = [wsState EXCEPT ![e] = "ClosedByUs"]
    /\ log' = [log EXCEPT ![e] = Append(@, Event("close", None))]
    /\ UNCHANGED <<incomplete, sendQueue, pong, inbox, eof, pc, err,
                   delivered, written, injected>>

-----------------------------------------------------------------------------
(* read_message_frame: the outcome of one frame that passed validation.   *)

(* Variables read_message_frame leaves alone.                             *)
Rest == <<eof, written, injected>>

(* The frame gave no message: the loop goes round to send_pending.        *)
NextTurn(e) == pc' = [pc EXCEPT ![e] = "flush"]

(* read_message returns msg.                                               *)
Deliver(e, msg) ==
    /\ delivered' = [delivered EXCEPT ![e] = Append(@, msg)]
    /\ pc' = [pc EXCEPT ![e] = "idle"]

(* do_close: an Active endpoint becomes ClosedByPeer and queues a reply:   *)
(* Normal for an allowed code, Protocol otherwise, no code for none.      *)
CloseReply(code) ==
    MakeFrame("Close", TRUE, 0,
              IF code = NoCode THEN NoCode
              ELSE IF IsAllowed(code) THEN 1000 ELSE 1002)

(* Mutant: a reply is queued for every Close, whatever the state.        *)
DoCloseAlwaysReply(e, g) ==
    /\ g.op = "Close"
    /\ wsState' = [wsState EXCEPT ![e] = IF @ = "Active" THEN "ClosedByPeer" ELSE @]
    /\ sendQueue' = [sendQueue EXCEPT ![e] = Append(@, CloseReply(g.code))]
    /\ NextTurn(e)
    /\ UNCHANGED <<incomplete, pong, delivered>>

DoClose(e, g) ==
    /\ g.op = "Close"
    /\ IF wsState[e] = "Active"
       THEN /\ wsState' = [wsState EXCEPT ![e] = "ClosedByPeer"]
            /\ sendQueue' = [sendQueue EXCEPT ![e] = Append(@, CloseReply(g.code))]
       ELSE UNCHANGED <<wsState, sendQueue>>
    /\ NextTurn(e)
    /\ UNCHANGED <<incomplete, pong, delivered>>

(* Mutant: pings answered also while closing.                           *)
DoPingWhileClosing(e, g) ==
    /\ g.op = "Ping"
    /\ pong' = [pong EXCEPT ![e] = MakeFrame("Pong", TRUE, g.payload, NoCode)]
    /\ NextTurn(e)
    /\ UNCHANGED <<wsState, incomplete, sendQueue, delivered>>

(* do_ping: the pong slot holds a Pong with the ping's payload.           *)
DoPing(e, g) ==
    /\ g.op = "Ping"
    /\ IsActive(e)
    /\ pong' = [pong EXCEPT ![e] = MakeFrame("Pong", TRUE, g.payload, NoCode)]
    /\ NextTurn(e)
    /\ UNCHANGED <<wsState, incomplete, sendQueue, delivered>>

(* Pings, pongs and data frames while closing: dropped.                   *)
Ignore(e, g) ==
    /\ g.op \in {"Ping", "Pong"} \cup DataOps
    /\ ~IsActive(e)
    /\ NextTurn(e)
    /\ UNCHANGED <<wsState, incomplete, sendQueue, pong, delivered>>

(* do_pong: an unsolicited or answering Pong is not checked.              *)
DoPong(e, g) ==
    /\ g.op = "Pong"
    /\ IsActive(e)
    /\ NextTurn(e)
    /\ UNCHANGED <<wsState, incomplete, sendQueue, pong, delivered>>

(* Mutant: the incomplete slot is not emptied when the message completes. *)
ContinueFrameKeepIncomplete(e, g) ==
    /\ g.op = "Continue"
    /\ IsActive(e)
    /\ LET msg == [incomplete[e] EXCEPT !.data = Append(@, g.payload)]
       IN IF g.fin
          THEN Deliver(e, msg) /\ UNCHANGED incomplete
          ELSE /\ incomplete' = [incomplete EXCEPT ![e] = msg]
               /\ NextTurn(e) /\ UNCHANGED delivered
    /\ UNCHANGED <<wsState, sendQueue, pong>>

(* A Continue frame extends the incomplete message; a final one completes *)
(* it and empties the slot.                                               *)
ContinueFrame(e, g) ==
    /\ g.op = "Continue"
    /\ IsActive(e)
    /\ LET msg == [incomplete[e] EXCEPT !.data = Append(@, g.payload)]
       IN IF g.fin
          THEN /\ incomplete' = [incomplete EXCEPT ![e] = None]
               /\ Deliver(e, msg)
          ELSE /\ incomplete' = [incomplete EXCEPT ![e] = msg]
               /\ NextTurn(e) /\ UNCHANGED delivered
    /\ UNCHANGED <<wsState, sendQueue, pong>>

(* Mutant: the first frame's payload is not added (m.extend dropped).    *)
StartFrameNoExtend(e, g) ==
    /\ g.op \in MessageKinds
    /\ IsActive(e)
    /\ LET msg == [kind |-> g.op, data |-> <<>>]
       IN IF g.fin
          THEN Deliver(e, msg) /\ UNCHANGED incomplete
          ELSE /\ incomplete' = [incomplete EXCEPT ![e] = msg]
               /\ NextTurn(e) /\ UNCHANGED delivered
    /\ UNCHANGED <<wsState, sendQueue, pong>>

(* Mutant: the fin flag is not consulted; every frame opens a message.  *)
StartFrameNeverFinal(e, g) ==
    /\ g.op \in MessageKinds
    /\ IsActive(e)
    /\ incomplete' = [incomplete EXCEPT ![e] = [kind |-> g.op, data |-> <<g.payload>>]]
    /\ NextTurn(e)
    /\ UNCHANGED <<wsState, sendQueue, pong, delivered>>

(* A Text or Binary frame starts a message; a final one is the message.   *)
StartFrame(e, g) ==
    /\ g.op \in MessageKinds
    /\ IsActive(e)
    /\ LET msg == [kind |-> g.op, data |-> <<g.payload>>]
       IN IF g.fin
          THEN Deliver(e, msg) /\ UNCHANGED incomplete
          ELSE /\ incomplete' = [incomplete EXCEPT ![e] = msg]
               /\ NextTurn(e) /\ UNCHANGED delivered
    /\ UNCHANGED <<wsState, sendQueue, pong>>

(* read_message_frame on the next frame of e's transport: validation,     *)
(* then dispatch on the opcode.  An error ends read_message.              *)
RecvFrame(e) ==
    /\ pc[e] = "recv"
    /\ inbox[e] # <<>>
    /\ LET f == Head(inbox[e])
           g == Unmasked(e, f)
       IN /\ inbox' = [inbox EXCEPT ![e] = Tail(@)]
          /\ log' = [log EXCEPT ![e] = Append(@, Event("recv", f))]
          /\ \/ /\ ReadError(e, f) # "none"
                /\ err' = [err EXCEPT ![e] = ReadError(e, f)]
                /\ pc' = [pc EXCEPT ![e] = "idle"]
                /\ UNCHANGED <<wsState, incomplete, sendQueue, pong, delivered>>
             \/ /\ ReadError(e, f) = "none"
                /\ UNCHANGED err
                /\ \/ DoClose(e, g)
                   \/ DoPing(e, g)
                   \/ Ignore(e, g)
                   \/ DoPong(e, g)
                   \/ ContinueFrame(e, g)
                   \/ StartFrame(e, g)
    /\ UNCHANGED Rest

(* read_frame returned None: the transport reached its end.               *)
RecvEof(e) ==
    /\ pc[e] = "recv"
    /\ inbox[e] = <<>>
    /\ eof[e]
    /\ err' = [err EXCEPT ![e] = "ResetWithoutClosing"]
    /\ pc' = [pc EXCEPT ![e] = "idle"]
    /\ UNCHANGED <<wsState, incomplete, sendQueue, pong, inbox, eof,
                   delivered, written, injected, log>>

(* read_frame on a non-blocking stream with nothing to read: the io error *)
(* WouldBlock ends read_message; the caller may call again later.         *)
RecvWouldBlock(e) ==
    /\ NonBlocking
    /\ pc[e] = "recv"
    /\ inbox[e] = <<>>
    /\ ~eof[e]
    /\ pc' = [pc EXCEPT ![e] = "idle"]
    /\ UNCHANGED <<wsState, incomplete, sendQueue, pong, inbox, eof, err,
                   delivered, written, injected, log>>

-----------------------------------------------------------------------------
(* The unmodelled peer: it writes any frame, or closes the transport.      *)

Inject(e) ==
    /\ PeerOf(e) \notin Endpoints
    /\ injected < MaxInject
    /\ ~eof[e]
    /\ \E f \in PeerFrames : inbox' = [inbox EXCEPT ![e] = Append(@, f)]
    /\ injected' = injected + 1
    /\ UNCHANGED <<wsState, incomplete, sendQueue, pong, eof, pc, err,
                   delivered, written, log>>

Disconnect(e) ==
    /\ PeerOf(e) \notin Endpoints
    /\ ~eof[e]
    /\ eof' = [eof EXCEPT ![e] = TRUE]
    /\ UNCHANGED <<wsState, incomplete, sendQueue, pong, inbox, pc, err,
                   delivered, written, injected, log>>

-----------------------------------------------------------------------------
(* from_raw_socket / from_frame_socket: Active, nothing pending.          *)
Init ==
    /\ wsState = [e \in Endpoints |-> "Active"]
    /\ incomplete = [e \in Endpoints |-> None]
    /\ sendQueue = [e \in Endpoints |-> <<>>]
    /\ pong = [e \in Endpoints |-> None]
    /\ inbox = [e \in Endpoints |-> <<>>]
    /\ eof = [e \in Endpoints |-> FALSE]
    /\ pc = [e \in Endpoints |-> "idle"]
    /\ err = [e \in Endpoints |-> None]
    /\ delivered = [e \in Endpoints |-> <<>>]
    /\ written = [e \in Endpoints |-> <<>>]
    /\ injected = 0
    /\ log = [e \in Endpoints |-> <<>>]

Next ==
    \E e \in Endpoints :
        \/ ReadLoopFlush(e)
        \/ RecvFrame(e)
        \/ RecvEof(e)
        \/ RecvWouldBlock(e)
        \/ WriteMessage(e)
        \/ Close(e)
        \/ Inject(e)
        \/ Disconnect(e)

Spec == Init /\ [][Next]_vars

-----------------------------------------------------------------------------
(* Properties.                                                             *)

Frame == [op: DataOps \cup ControlOps, fin: BOOLEAN, rsv: BOOLEAN,
          masked: BOOLEAN, key: {0} \cup MaskKeys, big: BOOLEAN,
          payload: Nat, code: CloseCodes \cup {NoCode, BadClose, 1000, 1002}]
Message == [kind: MessageKinds, data: Seq(Nat) \ {<<>>}]

TypeOK ==
    /\ wsState \in [Endpoints -> {"Active", "ClosedByUs", "ClosedByPeer"}]
    /\ incomplete \in [Endpoints -> Message \cup {None}]
    /\ sendQueue \in [Endpoints -> Seq(Frame)]
    /\ pong \in [Endpoints -> Frame \cup {None}]
    /\ inbox \in [Endpoints -> Seq(Frame)]
    /\ eof \in [Endpoints -> BOOLEAN]
    /\ pc \in [Endpoints -> {"idle", "flush", "recv"}]
    /\ delivered \in [Endpoints -> Seq(Message)]
    /\ written \in [Endpoints -> Seq(Message)]
    /\ injected \in 0..MaxInject

(* The frame as its sender built it: a client's frames are unmasked.      *)
Plain(f) == IF f.masked THEN RemoveMask(f) ELSE f

IsRecv(e, i, op) == log[e][i].ev = "recv" /\ log[e][i].frame.op = op
IsSent(e, i, op) == log[e][i].ev = "send" /\ log[e][i].frame.op = op

(* The first event after which e is no longer Active: a Close frame read  *)
(* or a call of close(); one past the end when there is none.             *)
ClosingIndex(e) ==
    LET closing == {i \in DOMAIN log[e] : IsRecv(e, i, "Close") \/ log[e][i].ev = "close"}
    IN IF closing = {} THEN Len(log[e]) + 1 ELSE Min(closing)

(* RFC 6455 5.4 as a reference: the data frames read while the connection *)
(* is open, cut after every final frame, give the messages in order.      *)
OpenData(e) ==
    LET idx == {i \in 1..(ClosingIndex(e) - 1) :
                   log[e][i].ev = "recv" /\ log[e][i].frame.op \in DataOps}
        s == SetToSortSeq(idx, <)
    IN [k \in 1..Len(s) |-> Plain(log[e][s[k]].frame)]

Assembled(d) ==
    LET ends == SetToSortSeq({i \in 1..Len(d) : d[i].fin}, <)
        first(j) == IF j = 1 THEN 1 ELSE ends[j - 1] + 1
    IN [j \in 1..Len(ends) |->
          [kind |-> d[first(j)].op,
           data |-> [k \in 1..(ends[j] - first(j) + 1) |-> d[first(j) + k - 1].payload]]]

(* read_message returns exactly the messages the peer's data frames form, *)
(* in order, until the connection fails: nothing is lost, joined to the   *)
(* wrong message, or delivered after a Close, across the incomplete slot  *)
(* and the closing states.                                                *)
DeliveredMatchesFrames ==
    \A e \in Endpoints :
        LET expected == Assembled(OpenData(e))
        IN /\ IsPrefix(delivered[e], expected)
           /\ err[e] = None => delivered[e] = expected

(* Every Pong sent (do_ping, then send_pending) carries the payload of    *)
(* the latest Ping read while Active, and answers it once.                *)
PongAnswersLatestPing ==
    \A e \in Endpoints : \A i \in DOMAIN log[e] :
        IsSent(e, i, "Pong") =>
          \E j \in 1..(i - 1) :
             /\ IsRecv(e, j, "Ping")
             /\ j < ClosingIndex(e)
             /\ Plain(log[e][j].frame).payload = Plain(log[e][i].frame).payload
             /\ \A k \in (j + 1)..(i - 1) : ~IsRecv(e, k, "Ping") /\ ~IsSent(e, k, "Pong")

(* The first Close e read while Active, when it sent a Close at i.       *)
AnsweredClose(e, i) ==
    LET c == ClosingIndex(e)
    IN /\ IsSent(e, i, "Close")
       /\ c < i
       /\ IsRecv(e, c, "Close")

(* Status codes as do_close answers them: none for none, Normal (1000)    *)
(* for any allowed code, Protocol (1002) for the others.                  *)
DoCloseCode(c) ==
    CASE c = NoCode -> NoCode [] IsAllowed(c) -> 1000 [] OTHER -> 1002

(* do_close: an endpoint sends at most one Close, only as the reply to    *)
(* the first Close it read while Active, with do_close's code for it;     *)
(* Closes read later, in either closing state, are not answered.          *)
CloseReplyMatches ==
    \A e \in Endpoints : \A i \in DOMAIN log[e] :
        IsSent(e, i, "Close") =>
          /\ AnsweredClose(e, i)
          /\ Plain(log[e][i].frame).code =
               DoCloseCode(Plain(log[e][ClosingIndex(e)].frame).code)
          /\ \A k \in (ClosingIndex(e) + 1)..Len(log[e]) :
               k # i => ~IsSent(e, k, "Close")

(* Spec 4.5 (Close): the reply mirrors an allowed code (the protocol-     *)
(* violation code 1002 for any other, no body for none).  do_close        *)
(* answers every allowed code with Normal.                                *)
CloseReplyMirrorsCode ==
    \A e \in Endpoints : \A i \in DOMAIN log[e] :
        AnsweredClose(e, i) =>
          LET c == Plain(log[e][ClosingIndex(e)].frame).code
          IN Plain(log[e][i].frame).code =
               (IF c = NoCode \/ IsAllowed(c) THEN c ELSE 1002)

(* The messages write_message may be given.                               *)
WritableMessages == [kind : MessageKinds, data : {<<p>> : p \in Payloads}]

(* The connection seen by its callers: written and delivered messages,    *)
(* and an end is open while Active.                                       *)
Chan == INSTANCE MessageChannel
          WITH Ends <- Endpoints, Peer <- PeerOf, Msgs <- WritableMessages,
               out <- written, in <- delivered,
               open <- [e \in Endpoints |-> wsState[e] = "Active"]

(* The endpoints implement the message channel: what one caller reads is  *)
(* the next message the other wrote, with the same kind and bytes through *)
(* masking and unmasking, one per read_message, and only while Active; no *)
(* endpoint returns to Active.                                              *)
ImplementsChannel == Chan!Spec

(* With callers that keep calling read_message, a message written to an   *)
(* endpoint that stays Active is read: write_message's send_pending puts  *)
(* it on the transport and no turn of the read loop gets stuck.           *)
ChannelDelivers == Chan!FairSpec

(* RFC 6455 5.5.1: after sending a Close frame an endpoint sends no more  *)
(* data frames.  write_message queues and sends a data frame whatever the *)
(* state, also after do_close queued and sent the reply.                  *)
NoDataAfterClose ==
    \A e \in Endpoints : \A i, j \in DOMAIN log[e] :
        (i < j /\ IsSent(e, i, "Close")) =>
            ~(log[e][j].ev = "send" /\ log[e][j].frame.op \in DataOps)

(* The closing handshake is complete for e when e has read a Close after  *)
(* calling close() or has read a Close and sent its reply.                *)
CloseHandshakeDone(e) ==
    \E i \in DOMAIN log[e] :
        /\ IsRecv(e, i, "Close")
        /\ \/ \E j \in 1..(i - 1) : log[e][j].ev = "close"
           \/ \E j \in (i + 1)..Len(log[e]) : IsSent(e, j, "Close")

(* The spec (section 7): the end of the transport after a completed close *)
(* handshake is ConnectionClosed, a clean termination, and not the error  *)
(* read_message_frame returns for a reset without closing handshake.      *)
CleanCloseNotError ==
    \A e \in Endpoints :
        CloseHandshakeDone(e) => err[e] # "ResetWithoutClosing"

(* Callers that keep calling read_message: once inside it, the loop goes  *)
(* on, and an idle caller calls it again.                                 *)
FairSpec ==
    /\ Spec
    /\ \A e \in Endpoints : WF_vars(ReadLoopFlush(e)) /\ WF_vars(RecvFrame(e))

(* Once either endpoint calls close(), the closing handshake ends: both   *)
(* endpoints leave Active.                                                *)
CloseCompletes ==
    \A e \in Endpoints :
        (wsState[e] = "ClosedByUs") ~> (\A x \in Endpoints : wsState[x] # "Active")

=============================================================================
