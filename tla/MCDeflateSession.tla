-------------------------- MODULE MCDeflateSession --------------------------
(***************************************************************************)
(* Negotiation and the frame path composed: two ends of this library      *)
(* negotiate permessage-deflate (on_make_request, on_receive_request,      *)
(* on_response of DeflateNegotiation), and then one of them sends          *)
(* compressed messages to the other (on_send_frame, on_receive_frame of    *)
(* DeflateFrames).  The frame path starts in the state the handshake left  *)
(* behind: the sender's compress_reset and deflator window, the receiver's *)
(* decompress_reset and inflator window.                                   *)
(***************************************************************************)
EXTENDS DeflateFrames

CONSTANTS NoValue, NaN, Opaque

(* The operators of negotiation; its variables play no part in them.      *)
Neg == INSTANCE DeflateNegotiation
         WITH ServerConfigs <- {}, ClientConfigs <- {}, ForeignRequests <- {},
              phase <- "start", fromLib <- TRUE, clCfg <- None, srvCfg <- None,
              request <- <<>>, response <- None, srv <- None, cl <- None,
              srvResult <- None, clResult <- None

(* The DeflateConfig fields negotiation reads.                             *)
LibConfigs ==
    [maxWindowBits: {9, 12, 15},
     requestNoContextTakeover: BOOLEAN,
     acceptNoContextTakeover: BOOLEAN]

(* A window of 2^bits bytes, abstracted to a window of values that keeps  *)
(* their order: 9, 12 and 15 bits become 1, 2 and 3 values.               *)
WindowOf(bits) == IF bits <= 9 THEN 1 ELSE IF bits <= 12 THEN 2 ELSE 3

(* The frame path from the end whose DeflateExt is snd to the one whose   *)
(* DeflateExt is rcv.                                                      *)
Direction(snd, rcv) ==
    [compressReset |-> snd.compressReset, decompressReset |-> rcv.decompressReset,
     fragmentsCapacity |-> 2, fragmentsGrow |-> FALSE,
     deflateWindow |-> WindowOf(snd.deflateBits),
     inflateWindow |-> WindowOf(rcv.inflateBits)]

(* Every state of the two DeflateExts after a handshake in which both     *)
(* enabled compression, in both directions.                                *)
NegotiatedConfigs ==
    UNION { LET r1 == Neg!ServerHeaders(Neg!NewExt, <<Neg!ClientOffer(c)>>, s)
                r2 == Neg!OnResponseExt(Neg!NewExt, r1.response, c)
            IN IF /\ r1.result = "ok" /\ r1.ext.enabled
                  /\ r2.result = "ok" /\ r2.ext.enabled
               THEN {Direction(r2.ext, r1.ext), Direction(r1.ext, r2.ext)}
               ELSE {}
          : c \in LibConfigs, s \in LibConfigs }

=============================================================================
