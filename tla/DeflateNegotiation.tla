------------------------- MODULE DeflateNegotiation -------------------------
(***************************************************************************)
(* The permessage-deflate negotiation of src/src/extensions/deflate.rs:    *)
(* the client's offer (on_make_request), the server's choice               *)
(* (on_receive_request) and the client's reading of the server's answer    *)
(* (on_response).  A header value is a sequence of parameters, each a      *)
(* name and a value; the textual form (split on ';', trim, '=') is         *)
(* abstracted to that structure.  The request comes from a client of this  *)
(* library or from any other client.                                       *)
(*                                                                         *)
(* The state of a DeflateExt that negotiation touches is a record:         *)
(*   enabled          DeflateExt.enabled                                   *)
(*   compressReset    config.compress_reset   (reset deflator per message) *)
(*   decompressReset  config.decompress_reset (reset inflator per message) *)
(*   deflateBits      window bits the deflator was built with              *)
(*   inflateBits      window bits the inflator was built with              *)
(***************************************************************************)
EXTENDS Integers, Sequences, SequencesExt, FiniteSets

CONSTANTS
    ServerConfigs,    \* DeflateConfigs the server may be built with
    ClientConfigs,    \* DeflateConfigs a client of this library may use
    ForeignRequests,  \* requests (sequences of header values) of other clients
    NoValue,          \* a parameter written without "=value"
    NaN,              \* a value that does not parse as a u8
    Opaque,           \* a header value that is not visible ASCII (to_str fails)
    None

PMD  == "permessage-deflate"
SNCT == "server_no_context_takeover"
CNCT == "client_no_context_takeover"
SMWB == "server_max_window_bits"
CMWB == "client_max_window_bits"

P(name, val) == [name |-> name, val |-> val]

(* DeflateExt::new: Compress::new and Decompress::new use 15 window bits. *)
NewExt == [enabled |-> FALSE, compressReset |-> FALSE, decompressReset |-> FALSE,
           deflateBits |-> 15, inflateBits |-> 15]

HasName(params, name) == \E i \in DOMAIN params : params[i].name = name

(* str::parse::<u8>.                                                        *)
IsU8(v) == v # NaN /\ v \in 0..255

VARIABLES
    phase,     \* "start", "requested", "responded" or "done"
    fromLib,   \* the request was made by on_make_request of this library
    clCfg,     \* the client's DeflateConfig
    srvCfg,    \* the server's DeflateConfig
    request,   \* Sec-WebSocket-Extensions values of the request
    response,  \* the server's Sec-WebSocket-Extensions value, or None
    srv,       \* the server's DeflateExt
    cl,        \* the client's DeflateExt
    srvResult, \* what on_receive_request returned: "ok" or "err"
    clResult   \* what on_response returned: "ok" or "err"

vars == <<phase, fromLib, clCfg, srvCfg, request, response, srv, cl,
          srvResult, clResult>>

-----------------------------------------------------------------------------
(* Client: on_make_request.                                                *)

ClientOffer(cfg) ==
    <<P(PMD, NoValue)>>
    \o (IF cfg.maxWindowBits < 15
        THEN <<P(CMWB, cfg.maxWindowBits), P(SMWB, cfg.maxWindowBits)>>
        ELSE <<P(CMWB, NoValue)>>)
    \o (IF cfg.requestNoContextTakeover THEN <<P(SNCT, NoValue)>> ELSE <<>>)

-----------------------------------------------------------------------------
(* Server: on_receive_request.  acc is the DeflateExt state together with *)
(* the loop's locals: res (res_ext) and the seen-flags sT, cT, sMax, cMax. *)

(* decline: enabled is cleared; it removes a response header named        *)
(* "permessage-deflate", which no response has, and processing goes on.    *)
Decline(acc) == [acc EXCEPT !.enabled = FALSE]

Echo(acc, p) == [acc EXCEPT !.res = Append(@, p)]

ServerNoContextTakeover(acc, p, cfg) ==
    IF acc.sT THEN Decline(acc)
    ELSE IF cfg.acceptNoContextTakeover
         THEN Echo([acc EXCEPT !.sT = TRUE, !.compressReset = TRUE], p)
         ELSE [acc EXCEPT !.sT = TRUE]

ClientNoContextTakeover(acc, p) ==
    IF acc.cT THEN Decline(acc)
    ELSE Echo([acc EXCEPT !.cT = TRUE, !.decompressReset = TRUE], p)

(* Mutant: the range check starts at 8.                                 *)
ServerMaxWindowBitsFrom8(acc, p, cfg) ==
    IF acc.sMax THEN Decline(acc)
    ELSE LET a == [acc EXCEPT !.sMax = TRUE]
         IN IF p.val = NoValue THEN a
            ELSE IF IsU8(p.val) /\ p.val \in 8..15
                 THEN IF p.val < cfg.maxWindowBits
                      THEN Echo([a EXCEPT !.deflateBits = p.val], p)
                      ELSE a
                 ELSE Decline(a)

ServerMaxWindowBits(acc, p, cfg) ==
    IF acc.sMax THEN Decline(acc)
    ELSE LET a == [acc EXCEPT !.sMax = TRUE]
         IN IF p.val = NoValue THEN a
            ELSE IF IsU8(p.val) /\ p.val \in 9..15
                 THEN IF p.val < cfg.maxWindowBits
                      THEN Echo([a EXCEPT !.deflateBits = p.val], p)
                      ELSE a
                 ELSE Decline(a)

(* A value that is accepted is echoed; in every other case the loop falls *)
(* through to echo client_max_window_bits=<the server's max_window_bits>. *)
ClientMaxWindowBits(acc, p, cfg) ==
    IF acc.cMax THEN Decline(acc)
    ELSE LET a == [acc EXCEPT !.cMax = TRUE]
             echoMax(x) == Echo(x, P(CMWB, cfg.maxWindowBits))
         IN IF p.val = NoValue THEN echoMax(a)
            ELSE IF IsU8(p.val) /\ p.val \in 9..15
                 THEN IF p.val < cfg.maxWindowBits
                      THEN Echo([a EXCEPT !.inflateBits = p.val], p)
                      ELSE echoMax(a)
                 ELSE echoMax(Decline(a))

ServerParam(acc, p, cfg) ==
    CASE p.name = PMD  -> Echo(acc, p)
      [] p.name = SNCT -> ServerNoContextTakeover(acc, p, cfg)
      [] p.name = CNCT -> ClientNoContextTakeover(acc, p)
      [] p.name = SMWB -> ServerMaxWindowBits(acc, p, cfg)
      [] p.name = CMWB -> ClientMaxWindowBits(acc, p, cfg)
      [] OTHER         -> Decline(acc)

(* One header value: its parameters in order, then the additions after    *)
(* the loop; accepted is FALSE when the offer is skipped ("continue").    *)
ServerHeader(ext, h, cfg) ==
    LET a0 == ext @@ [res |-> <<>>, sT |-> FALSE, cT |-> FALSE, sMax |-> FALSE, cMax |-> FALSE]
        step(acc, p) == ServerParam(acc, p, cfg)
        a1 == FoldLeft(step, a0, h)
        a2 == IF ~HasName(a1.res, CNCT) /\ cfg.requestNoContextTakeover
              THEN Echo([a1 EXCEPT !.decompressReset = TRUE], P(CNCT, NoValue))
              ELSE a1
        a3 == IF ~HasName(a2.res, SMWB)
              THEN Echo(a2, P(SMWB, cfg.maxWindowBits))
              ELSE a2
    IN [ext |-> [f \in DOMAIN NewExt |-> a3[f]],
        res |-> a3.res,
        accepted |-> ~(~HasName(a3.res, CMWB) /\ cfg.maxWindowBits < 15)]

(* The loop over the request's header values: the first accepted offer   *)
(* is answered; a header that is not ASCII is an error; none: decline.    *)
RECURSIVE ServerHeaders(_, _, _)
ServerHeaders(ext, hs, cfg) ==
    IF hs = <<>>
    THEN [ext |-> Decline(ext), result |-> "ok", response |-> None]
    ELSE IF Head(hs) = Opaque
    THEN [ext |-> [ext EXCEPT !.enabled = FALSE], result |-> "err", response |-> None]
    ELSE LET r == ServerHeader(ext, Head(hs), cfg)
         IN IF r.accepted
            THEN [ext |-> [r.ext EXCEPT !.enabled = TRUE], result |-> "ok", response |-> r.res]
            ELSE ServerHeaders(r.ext, Tail(hs), cfg)

-----------------------------------------------------------------------------
(* Client: on_response.                                                    *)

(* parse_window_parameter: no value is None; 8 counts as 9; a value in    *)
(* 9..15 other than the configured maximum is Some(value).                 *)
ParseWindowParameter(v, cfg) ==
    IF v = NoValue THEN [err |-> FALSE, bits |-> None]
    ELSE IF ~IsU8(v) THEN [err |-> TRUE, bits |-> None]
    ELSE LET w == IF v = 8 THEN 9 ELSE v
         IN IF w \in 9..15
            THEN [err |-> FALSE, bits |-> IF w # cfg.maxWindowBits THEN w ELSE None]
            ELSE [err |-> TRUE, bits |-> None]

Fail(acc) == [acc EXCEPT !.err = TRUE]

(* Mutant: client_no_context_takeover accepted without resetting.       *)
ClientParamKeepContext(acc, p, cfg) ==
    IF acc.err THEN acc
    ELSE IF p.name \in {PMD, SNCT, CNCT, SMWB, CMWB} /\ acc.seen[p.name] THEN Fail(acc)
    ELSE LET a == [acc EXCEPT !.seen[p.name] = TRUE]
             w == ParseWindowParameter(p.val, cfg)
         IN CASE p.name = PMD  -> [a EXCEPT !.enabled = TRUE]
              [] p.name = SNCT -> [a EXCEPT !.decompressReset = TRUE]
              [] p.name = CNCT -> IF cfg.acceptNoContextTakeover THEN a ELSE Fail(a)
              [] p.name = SMWB -> IF w.err THEN Fail(a)
                                  ELSE IF w.bits = None THEN a
                                  ELSE [a EXCEPT !.deflateBits = w.bits]
              [] p.name = CMWB -> IF w.err THEN Fail(a)
                                  ELSE IF w.bits = None THEN a
                                  ELSE [a EXCEPT !.inflateBits = w.bits]
              [] OTHER         -> Fail(a)

(* One parameter of the server's answer; acc carries the seen-flags, a    *)
(* field per parameter name, and err once a parameter is refused.         *)
ClientParam(acc, p, cfg) ==
    IF acc.err THEN acc
    ELSE IF p.name \in {PMD, SNCT, CNCT, SMWB, CMWB} /\ acc.seen[p.name] THEN Fail(acc)
    ELSE LET a == [acc EXCEPT !.seen[p.name] = TRUE]
             w == ParseWindowParameter(p.val, cfg)
         IN CASE p.name = PMD  -> [a EXCEPT !.enabled = TRUE]
              [] p.name = SNCT -> [a EXCEPT !.decompressReset = TRUE]
              [] p.name = CNCT -> IF cfg.acceptNoContextTakeover
                                  THEN [a EXCEPT !.compressReset = TRUE]
                                  ELSE Fail(a)
              [] p.name = SMWB -> IF w.err THEN Fail(a)
                                  ELSE IF w.bits = None THEN a
                                  ELSE [a EXCEPT !.deflateBits = w.bits]
              [] p.name = CMWB -> IF w.err THEN Fail(a)
                                  ELSE IF w.bits = None THEN a
                                  ELSE [a EXCEPT !.inflateBits = w.bits]
              [] OTHER         -> Fail(a)

OnResponseExt(ext, resp, cfg) ==
    IF resp = None THEN [ext |-> ext, result |-> "ok"]
    ELSE LET a0 == ext @@ [err |-> FALSE,
                           seen |-> [n \in {PMD, SNCT, CNCT, SMWB, CMWB} |-> FALSE]]
             step(acc, p) == ClientParam(acc, p, cfg)
             a == FoldLeft(step, a0, resp)
         IN [ext |-> [f \in DOMAIN NewExt |-> a[f]],
             result |-> IF a.err THEN "err" ELSE "ok"]

-----------------------------------------------------------------------------
(* The handshake: the offer, the server's answer, the client's reading.   *)

Init ==
    /\ phase = "start"
    /\ fromLib \in BOOLEAN
    /\ clCfg \in ClientConfigs
    /\ srvCfg \in ServerConfigs
    /\ request = <<>>
    /\ response = None
    /\ srv = NewExt
    /\ cl = NewExt
    /\ srvResult = None
    /\ clResult = None

(* on_make_request of this library, or any request of another client.    *)
MakeRequest ==
    /\ phase = "start"
    /\ IF fromLib
       THEN request' = <<ClientOffer(clCfg)>>
       ELSE \E r \in ForeignRequests : request' = r
    /\ phase' = "requested"
    /\ UNCHANGED <<fromLib, clCfg, srvCfg, response, srv, cl, srvResult, clResult>>

OnReceiveRequest ==
    /\ phase = "requested"
    /\ LET r == ServerHeaders(srv, request, srvCfg)
       IN /\ srv' = r.ext
          /\ response' = r.response
          /\ srvResult' = r.result
    /\ phase' = "responded"
    /\ UNCHANGED <<fromLib, clCfg, srvCfg, request, cl, clResult>>

(* The client of this library reads the 101 response.                     *)
OnResponse ==
    /\ phase = "responded"
    /\ fromLib
    /\ srvResult = "ok"
    /\ LET r == OnResponseExt(cl, response, clCfg)
       IN /\ cl' = r.ext
          /\ clResult' = r.result
    /\ phase' = "done"
    /\ UNCHANGED <<fromLib, clCfg, srvCfg, request, response, srv, srvResult>>

Next == MakeRequest \/ OnReceiveRequest \/ OnResponse

Spec == Init /\ [][Next]_vars

-----------------------------------------------------------------------------
(* Properties.                                                             *)

Ext == [enabled: BOOLEAN, compressReset: BOOLEAN, decompressReset: BOOLEAN,
        deflateBits: 9..15, inflateBits: 9..15]

TypeOK ==
    /\ phase \in {"start", "requested", "responded", "done"}
    /\ srv \in Ext
    /\ cl \in Ext
    /\ srvResult \in {None, "ok", "err"}
    /\ clResult \in {None, "ok", "err"}

(* Both ends of this library agreed to compress.                          *)
BothEnabled ==
    /\ phase = "done" /\ srvResult = "ok" /\ clResult = "ok"
    /\ srv.enabled /\ cl.enabled

(* A receiver that drops its inflate window after each message only faces *)
(* a sender that drops its deflate window too: otherwise the sender's     *)
(* back-references point into history the receiver has thrown away.      *)
ResetAgreement ==
    BothEnabled =>
        /\ cl.decompressReset => srv.compressReset
        /\ srv.decompressReset => cl.compressReset

(* The value the answer gives a window parameter; 15 when it has none.    *)
Answered(name) ==
    IF \E i \in DOMAIN response : response[i].name = name /\ response[i].val # NoValue
    THEN LET i == CHOOSE i \in DOMAIN response : response[i].name = name
         IN response[i].val
    ELSE 15

(* RFC 7692 section 7: what a server that enabled compression does is     *)
(* what its answer tells the client: the answer is a permessage-deflate   *)
(* answer, the deflator keeps within server_max_window_bits, the inflator *)
(* takes client_max_window_bits, and the inflator is reset per message    *)
(* only if the answer asks the client for client_no_context_takeover.     *)
ServerResponseMatchesState ==
    (phase # "start" /\ phase # "requested" /\ srvResult = "ok" /\ srv.enabled) =>
        /\ response # None
        /\ response # <<>> /\ response[1].name = PMD
        /\ srv.deflateBits <= Answered(SMWB)
        /\ srv.inflateBits >= Answered(CMWB)
        /\ srv.decompressReset => HasName(response, CNCT)

=============================================================================
