--------------------------- MODULE DeflateFrames ---------------------------
(***************************************************************************)
(* The frame path of permessage-deflate in src/src/extensions/deflate.rs:  *)
(* on_send_frame (compress a data frame, set rsv1, reset the deflator when *)
(* compress_reset) on one side, on_receive_frame (collect the fragments of *)
(* a compressed message, inflate, build the message, reset the inflator    *)
(* when decompress_reset) on the other.                                    *)
(*                                                                         *)
(* DEFLATE is modelled by what it does to the stream: a compressed payload *)
(* is a sequence of tokens, a literal value v >= 0 or a back-reference -d  *)
(* that copies the value d places back in the output seen since the last  *)
(* reset.  The compressor may pick either for a value it has seen; the     *)
(* inflater copies whatever its own history holds, and fails when the     *)
(* distance reaches before it.  A sender and a receiver whose resets       *)
(* disagree thus corrupt or fail, as the real codec does.  The window     *)
(* bits a codec was built with bound the distance: the compressor never   *)
(* reaches further back than its window, and the inflater fails on a      *)
(* distance beyond its own ("invalid distance too far back").  A window   *)
(* of 2^bits bytes is abstracted to a window of a few values.             *)
(***************************************************************************)
EXTENDS Integers, Sequences, SequencesExt, FiniteSets

CONSTANTS
    Values,          \* plain payload values (>= 0)
    MaxData,         \* longest message payload a sender writes
    MaxMessages,     \* bound on messages sent
    MaxFrames,       \* most frames a peer splits a message into
    Configs,         \* DeflateConfig of the two ends after negotiation
    SenderKinds,     \* "library" (on_send_frame) and/or "peer" (any RFC 7692 sender)
    Misframes,       \* how the peer may break RFC 6455 5.4: "leading" (first frame
                     \* Continue), "restart" (later frames Text/Binary)
    MaxMessageSize,  \* max_message_size, in values
    None

ASSUME \A v \in Values : v >= 0

MessageKinds == {"Text", "Binary"}

VARIABLES
    cfg,          \* [compressReset, decompressReset, fragmentsCapacity, fragmentsGrow,
                  \*  deflateWindow (sender's), inflateWindow (receiver's)]
    senderKind,   \* who sends towards the receiver
    sHist,        \* the deflator's history since its last reset
    wire,         \* frames in flight to the receiver
    fragments,    \* DeflateExt.fragments of the receiver
    plain,        \* the PlainTextExt's incomplete message of the receiver
    rHist,        \* the inflator's history since its last reset
    sent,         \* messages the sender wrote, in order
    delivered,    \* messages on_receive_frame returned, in order
    rErr,         \* the receiver's error, or None
    panicked,     \* the receiver hit a panic!
    inMessage,    \* RFC 6455 5.4 over the frames taken: a message is in progress
    misframed     \* a frame taken broke RFC 6455 5.4

vars == <<cfg, senderKind, sHist, wire, fragments, plain, rHist, sent,
          delivered, rErr, panicked, inMessage, misframed>>

-----------------------------------------------------------------------------
(* The codec.                                                              *)

(* Every way Compress, built with window w, may encode data after        *)
(* history h.                                                              *)
RECURSIVE Encodings(_, _, _)
Encodings(data, h, w) ==
    IF data = <<>> THEN {<<>>}
    ELSE LET v == Head(data)
             refs == {-d : d \in {d \in 1..Len(h) : d <= w /\ h[Len(h) - d + 1] = v}}
         IN { <<t>> \o rest : t \in {v} \cup refs,
                              rest \in Encodings(Tail(data), Append(h, v), w) }

(* Decompress, built with window w, of tokens after history h: the       *)
(* output, or ok = FALSE when a back-reference reaches before the history *)
(* or beyond the window.                                                   *)
RECURSIVE Inflate(_, _, _, _)
Inflate(tokens, h, out, w) ==
    IF tokens = <<>> THEN [ok |-> TRUE, out |-> out]
    ELSE LET t == Head(tokens)
             seen == h \o out
         IN IF t >= 0 THEN Inflate(Tail(tokens), h, Append(out, t), w)
            ELSE IF -t > Len(seen) \/ -t > w THEN [ok |-> FALSE, out |-> out]
            ELSE Inflate(Tail(tokens), h, Append(out, seen[Len(seen) + t + 1]), w)

-----------------------------------------------------------------------------
(* Frames and the sender.                                                  *)

Frame(op, fin, rsv1, payload) ==
    [op |-> op, fin |-> fin, rsv1 |-> rsv1, payload |-> payload]

(* Every cut of s into k consecutive, possibly empty, pieces.              *)
RECURSIVE Splits(_, _)
Splits(s, k) ==
    IF k = 1 THEN {<<s>>}
    ELSE UNION { { <<SubSeq(s, 1, i)>> \o r : r \in Splits(SubSeq(s, i + 1, Len(s)), k - 1) }
                 : i \in 0..Len(s) }

(* The frames of one message cut into pieces: the first frame carries op *)
(* (and rsv1 when compressed), the others carry later.                    *)
Fragmented(op, later, rsv1, pieces) ==
    [i \in 1..Len(pieces) |->
        Frame(IF i = 1 THEN op ELSE later, i = Len(pieces),
              rsv1 /\ i = 1, pieces[i])]

Messages == {[kind |-> k, data |-> d] : k \in MessageKinds,
                                         d \in BoundedSeq(Values, MaxData) \ {<<>>}}

(* Mutant: on_send_frame without the compress_reset branch.              *)
AfterCompressNoReset(data) == sHist \o data

(* The deflator after a message: reset when compress_reset.                *)
AfterCompress(data) == IF cfg.compressReset THEN <<>> ELSE sHist \o data

CanSend == senderKind # None /\ Len(sent) < MaxMessages

(* write_message of the library: one final data frame, which              *)
(* on_send_frame compresses, marks rsv1 and follows by the reset.          *)
OnSendFrame ==
    /\ senderKind = "library" /\ CanSend
    /\ \E m \in Messages : \E tokens \in Encodings(m.data, sHist, cfg.deflateWindow) :
          /\ wire' = Append(wire, Frame(m.kind, TRUE, TRUE, tokens))
          /\ sHist' = AfterCompress(m.data)
          /\ sent' = Append(sent, m)
    /\ UNCHANGED <<cfg, senderKind, fragments, plain, rHist, delivered, rErr,
                   panicked, inMessage, misframed>>

(* The opcode a peer puts on the first frame of a message of kind k.     *)
FirstOps(k) == {k} \cup (IF "leading" \in Misframes THEN {"Continue"} ELSE {})

(* The opcode a peer puts on the later frames of a message of kind k.     *)
LaterOps(k) == {"Continue"} \cup (IF "restart" \in Misframes THEN {k} ELSE {})

(* Another endpoint: it may send a message uncompressed, or compressed    *)
(* with the same context rules, and may split it into frames.             *)
PeerSend ==
    /\ senderKind = "peer" /\ CanSend
    /\ \E m \in Messages, k \in 1..MaxFrames, compress \in BOOLEAN :
       \E op \in FirstOps(m.kind), later \in LaterOps(m.kind) :
          IF compress
          THEN \E tokens \in Encodings(m.data, sHist, cfg.deflateWindow) :
                 \E pieces \in Splits(tokens, k) :
                   /\ wire' = wire \o Fragmented(op, later, TRUE, pieces)
                   /\ sHist' = AfterCompress(m.data)
                   /\ sent' = Append(sent, m)
          ELSE \E pieces \in Splits(m.data, k) :
                   /\ wire' = wire \o Fragmented(op, later, FALSE, pieces)
                   /\ sent' = Append(sent, m)
                   /\ UNCHANGED sHist
    /\ UNCHANGED <<cfg, senderKind, fragments, plain, rHist, delivered, rErr,
                   panicked, inMessage, misframed>>

-----------------------------------------------------------------------------
(* The receiver: on_receive_frame of DeflateExt with the extension enabled. *)

Deliver(m) == delivered' = Append(delivered, m)

(* IncompleteMessage::extend against max_message_size.                      *)
TooLong(data) == Len(data) > MaxMessageSize

(* PlainTextExt::on_receive_frame, the assembler of uncompressed frames.   *)
PlainReceive(f) ==
    /\ UNCHANGED <<fragments, rHist, panicked>>
    /\ IF f.op = "Continue"
       THEN IF plain = None
            THEN rErr' = "NothingToContinue" /\ UNCHANGED <<plain, delivered>>
            ELSE LET data == plain.data \o f.payload IN
                 IF TooLong(data) THEN rErr' = "MessageTooLong" /\ UNCHANGED <<plain, delivered>>
                 ELSE IF f.fin
                      THEN Deliver([kind |-> plain.kind, data |-> data]) /\ plain' = None
                           /\ UNCHANGED rErr
                      ELSE plain' = [plain EXCEPT !.data = data] /\ UNCHANGED <<rErr, delivered>>
       ELSE IF plain # None
            THEN rErr' = "ExpectedContinue" /\ UNCHANGED <<plain, delivered>>
            ELSE IF TooLong(f.payload) THEN rErr' = "MessageTooLong" /\ UNCHANGED <<plain, delivered>>
            ELSE IF f.fin
                 THEN Deliver([kind |-> f.op, data |-> f.payload]) /\ UNCHANGED <<plain, rErr>>
                 ELSE plain' = [kind |-> f.op, data |-> f.payload] /\ UNCHANGED <<rErr, delivered>>

(* Inflate tokens, then complete_message with opcode, then reset the       *)
(* inflator when decompress_reset.  An inflate error returns before the   *)
(* reset; complete_message panics on an opcode that is not Text/Binary.   *)
InflateAndComplete(tokens, opcode) ==
    LET r == Inflate(tokens, rHist, <<>>, cfg.inflateWindow) IN
    /\ UNCHANGED plain
    /\ IF ~r.ok
       THEN rErr' = "InflateError" /\ UNCHANGED <<rHist, delivered, panicked>>
       ELSE IF opcode \notin MessageKinds
       THEN panicked' = TRUE /\ UNCHANGED <<rHist, delivered, rErr>>
       ELSE /\ rHist' = IF cfg.decompressReset THEN <<>> ELSE rHist \o r.out
            /\ UNCHANGED panicked
            /\ IF TooLong(r.out)
               THEN rErr' = "DeflateError" /\ UNCHANGED delivered
               ELSE Deliver([kind |-> opcode, data |-> r.out]) /\ UNCHANGED rErr

(* Mutant: only rsv1 selects the compressed path.                         *)
CompressedRsvOnly(f) == f.rsv1

Compressed(f) == fragments # <<>> \/ f.rsv1

(* A non-final frame of a compressed message is pushed.                    *)
PushFragment(f) ==
    /\ Compressed(f) /\ ~f.fin
    /\ fragments' = Append(fragments, f)
    /\ UNCHANGED <<plain, rHist, delivered, rErr, panicked>>

(* Mutant: the final Continue frame inflated without replacing fragments. *)
FinalContinueKeepFragments(f) ==
    /\ Compressed(f) /\ f.fin /\ f.op = "Continue"
    /\ LET all == Append(fragments, f) IN
       /\ fragments' = all
       /\ InflateAndComplete(FlattenSeq([i \in 1..Len(all) |-> all[i].payload]), all[1].op)

(* The final Continue frame: the capacity check, the push, then the       *)
(* concatenated payloads are inflated under the first fragment's opcode.  *)
FinalContinue(f) ==
    /\ Compressed(f) /\ f.fin /\ f.op = "Continue"
    /\ IF ~cfg.fragmentsGrow /\ cfg.fragmentsCapacity = Len(fragments)
       THEN rErr' = "ExceededMaxFragments" /\ UNCHANGED <<fragments, plain, rHist, delivered, panicked>>
       ELSE LET all == Append(fragments, f) IN
            /\ fragments' = <<>>
            /\ InflateAndComplete(FlattenSeq([i \in 1..Len(all) |-> all[i].payload]), all[1].op)

(* A final Text/Binary frame with rsv1 is a single-frame compressed message. *)
FinalSingle(f) ==
    /\ Compressed(f) /\ f.fin /\ f.op # "Continue"
    /\ InflateAndComplete(f.payload, f.op)
    /\ UNCHANGED fragments

OnReceiveFrame ==
    /\ wire # <<>> /\ rErr = None /\ ~panicked
    /\ LET f == Head(wire) IN
         \/ ~Compressed(f) /\ PlainReceive(f)
         \/ PushFragment(f)
         \/ FinalContinue(f)
         \/ FinalSingle(f)
    /\ wire' = Tail(wire)
    /\ inMessage' = IF Head(wire).op = "Continue" THEN inMessage /\ ~Head(wire).fin
                    ELSE ~Head(wire).fin
    /\ misframed' = (misframed \/ ((Head(wire).op = "Continue") # inMessage))
    /\ UNCHANGED <<cfg, senderKind, sHist, sent>>

-----------------------------------------------------------------------------

Init ==
    /\ cfg \in Configs
    /\ senderKind \in SenderKinds
    /\ sHist = <<>> /\ rHist = <<>>
    /\ wire = <<>> /\ fragments = <<>> /\ plain = None
    /\ sent = <<>> /\ delivered = <<>>
    /\ rErr = None /\ panicked = FALSE
    /\ inMessage = FALSE /\ misframed = FALSE

Next == OnSendFrame \/ PeerSend \/ OnReceiveFrame

Spec == Init /\ [][Next]_vars


-----------------------------------------------------------------------------
(* Properties.                                                             *)

Token == Values \cup {-d : d \in 1..(MaxMessages * MaxData)}
FrameT == [op : MessageKinds \cup {"Continue"}, fin : BOOLEAN, rsv1 : BOOLEAN,
           payload : Seq(Token)]
Errors == {None, "NothingToContinue", "ExpectedContinue", "MessageTooLong",
           "InflateError", "DeflateError", "ExceededMaxFragments"}

(* Types; fragments never holds more than the non-final frames of one     *)
(* message, so on_receive_frame's replace empties it after each message.  *)
TypeOK ==
    /\ senderKind \in SenderKinds
    /\ sHist \in Seq(Values) /\ rHist \in Seq(Values)
    /\ wire \in Seq(FrameT)
    /\ fragments \in Seq(FrameT) /\ Len(fragments) <= MaxFrames - 1
    /\ plain \in {None} \cup [kind : MessageKinds, data : Seq(Values)]
    /\ sent \in Seq(Messages) /\ delivered \in Seq(Messages)
    /\ rErr \in Errors /\ panicked \in BOOLEAN
    /\ inMessage \in BOOLEAN /\ misframed \in BOOLEAN

(* Spec section 8, item 4: with the resets negotiation produces, every    *)
(* message the sender compressed (on_send_frame, or a fragmenting peer)   *)
(* comes out of on_receive_frame intact and in order, and no inflate or   *)
(* fragment error stops the receiver.                                     *)
RoundTrip ==
    /\ rErr = None /\ ~panicked
    /\ IsPrefix(delivered, sent)

(* Spec section 4.4: with fragments_grow false, exceeding                  *)
(* fragments_capacity is an error, so fragments never holds more frames   *)
(* than the capacity.                                                      *)
FragmentsBounded ==
    ~cfg.fragmentsGrow => Len(fragments) <= cfg.fragmentsCapacity

(* Spec section 4.5 (after RFC 6455 5.4): a Continue frame with no       *)
(* message in progress, or a Text/Binary frame while one is in progress,  *)
(* is a protocol error, and spec section 9 makes panics errors.  So once  *)
(* on_receive_frame has taken a frame that breaks the framing rules it    *)
(* has returned an error: it has not panicked, and has not gone on        *)
(* delivering messages.  The plain assembler does this; the compressed    *)
(* path panics on a leading Continue frame (complete_message) and         *)
(* decompresses a restarting Text frame on its own, keeping the pending   *)
(* fragments for the next message.                                        *)
FramingViolationFails == misframed => (rErr # None /\ ~panicked)


(* The receiver's caller keeps calling read_message, so every frame on   *)
(* the wire is handed to on_receive_frame.                                 *)
FairSpec == Spec /\ WF_vars(OnReceiveFrame)

(* The compressed stream seen by its callers: the sender's written        *)
(* messages and the receiver's returned ones, one direction only.          *)
Chan == INSTANCE MessageChannel
          WITH Ends <- {"sender", "receiver"},
               Peer <- LAMBDA e : IF e = "sender" THEN "receiver" ELSE "sender",
               Msgs <- Messages,
               out <- [e \in {"sender", "receiver"} |-> IF e = "sender" THEN sent ELSE <<>>],
               in <- [e \in {"sender", "receiver"} |-> IF e = "sender" THEN <<>> ELSE delivered],
               open <- [e \in {"sender", "receiver"} |-> TRUE]

(* on_send_frame and on_receive_frame implement the message channel with *)
(* a receiver that stays open: each message is returned once, whole, in  *)
(* order, and every message sent is eventually returned, across fragments *)
(* and the context resets negotiation produces.                           *)
DeflateImplementsChannel == Chan!FairSpec

=============================================================================
