# TLA+ models of tungstenite-rs

This directory holds TLA+ models of the WebSocket library in `src/`. Each module
is written from the Rust source, and `PROJECT.json` maps every modelled
definition to the lines it translates. TLC checks every model. A run marked
"violation" shows a real disagreement between the code and the specification
(`spec.md`, RFC 6455, RFC 7692).

## The system

| Part | Source | State | Operations |
|---|---|---|---|
| WebSocket endpoint | `src/src/protocol/mod.rs` | `state` (Active, ClosedByUs, ClosedByPeer), `incomplete` message, `send_queue`, `pong` slot, role | `read_message` (loop: `send_pending`, then `read_message_frame`), `write_message`, `close`, `do_close`, `do_ping`, `do_pong`, `send_pending`, `send_one_frame` |
| permessage-deflate negotiation | `src/src/extensions/deflate.rs` 49-506 | `enabled`, `config` (`compress_reset`, `decompress_reset`, window bits), deflator/inflator windows | `on_make_request` (client offer), `on_receive_request` (server answer, `decline`), `on_response` (client confirmation), `parse_window_parameter` |
| permessage-deflate frames | `src/src/extensions/deflate.rs` 508-727 | `fragments`, deflator and inflator history and windows | `on_send_frame`, `on_receive_frame`, `complete_message`, `Deflator::compress`, `Inflator::decompress` |
| Handshake request and reply | `src/src/handshake/server.rs` | none | `Request::reply`, `from_httparse` |
| Accept wrappers | `src/src/server.rs` | none | `accept`, `accept_hdr` |

**How the parts interact:**
- During the handshake, the two ends negotiate deflate. The result is the pair of reset flags and window bits that each end's frame path then uses. `MCDeflateSession` checks this hand-over.
- On the wire, two endpoints exchange frames over one FIFO transport per direction.
- The frame codec, masking and `IncompleteMessage` live in modules that are not under `src/`. The models use them only through `MakeFrame`, `SetMask`/`RemoveMask` (XOR of the payload with the key), `PlainReceive` and `TooLong`. These definitions are marked `spec_modelled`.

**The behaviours that make this code hard to test:**
- Two endpoints interleave reads and writes.
- Control frames arrive in the middle of a fragmented message.
- The close handshake can start from either side and can be cut by EOF.
- A non-blocking stream returns WouldBlock in the middle of the close handshake.
- Each deflate parameter can be accepted, declined or skipped, over several offers.
- The two ends can drift apart in their compression contexts.
- A peer can send any frame, including malformed fragment sequences.

## Modules

### `WebSocket.tla` (with `MCWebSocket.tla`)

**Constants:** the endpoints (`Clients` and `Servers`), `PeerOf`, small sets of payloads and mask keys, the close codes, the frames an adversary may send (`PeerFrames`), and the bounds `MaxWrites` and `MaxInject`.

**Variables:**
- Per endpoint: `wsState`, `incomplete`, `sendQueue` and `pong` mirror the struct's fields. `inbox` and `eof` model the transport.
- `pc` is where the caller is inside `read_message`: idle, about to flush, or about to read one frame.
- `err` is the error that ended the last call.
- `delivered` and `written` record messages.
- `log` records every frame received or sent and every `close()` call.

**Actions:**
- `ReadLoopFlush` is the `send_pending` step of `read_message`.
- `RecvFrame` is one `read_message_frame`:
  - validation first: `HeaderError`, `ControlError`, `DataError`;
  - then one of `DoClose`, `DoPing`, `DoPong`, `Ignore` (control and data frames while not active, as `is_active` decides), `ContinueFrame`, `StartFrame`.
- An invalid frame sets `err` and ends `read_message`. Since `CallerMayUse` requires `err = None`, the caller then stops calling, as spec.md ("Propagation policy") says it must.
- `RecvEof` handles `read_frame` returning `None`. `RecvWouldBlock` handles an io error from a non-blocking stream.
- `WriteMessage` queues one final frame and then calls `SendPending`.
- `Close` is `close()`.
- `SendPending` sends the pong first, then the queue. A client masks each frame with a key chosen by `\E`. Writes never fail in the model; see "Not modelled".

The peer is either another modelled endpoint (`PairPeerOf`) or an adversary. The adversary's `Inject` writes any frame of `PeerFrames`, well formed or not, and its `Disconnect` closes the transport.

### `DeflateNegotiation.tla` (with `MCDeflateNegotiation.tla`)

A header value is a sequence of extension offers. Each offer is a sequence of parameter records `P(name, value)`, where a value may be absent, a number, or `NaN` (text that does not parse).

- `ClientOffer` is `on_make_request`.
- `ServerHeaders` is `on_receive_request`. It is RECURSIVE over the header values and uses `FoldLeft` over each offer's parameters (`ServerParam`, with one operator per match arm). It then applies the additions after the loop (`ServerHeader`), the `continue` that skips an offer, `Decline`, and the final decline.
- `OnResponseExt` and `ClientParam` are `on_response`. `ParseWindowParameter` is `parse_window_parameter`.
- `Init` picks each side's `DeflateConfig` from small sets. It also chooses whether the request comes from this library's client or from a foreign client (`ForeignRequests`).

### `DeflateFrames.tla` (with `MCDeflateFrames.tla`)

DEFLATE is modelled by what it does to the stream.
- A compressed payload is a sequence of tokens. A token is either a literal value (≥ 0) or a back-reference `-d` to the value `d` places back in the output produced since the last reset.
- `Encodings` gives every way the compressor may encode a message.
- `Inflate` copies from the receiver's own history and fails when a reference reaches past it.

So if the two ends disagree about resets, decompression corrupts data or fails, as the real codec does.

**Actions:**
- `OnSendFrame` is `on_send_frame` (compress, set rsv1, reset when `compress_reset`).
- `PeerSend` is another RFC 7692 endpoint. It may send a message uncompressed, and may split it into up to `MaxFrames` frames. `Misframes` says how it may break RFC 6455 §5.4: `"leading"` puts a Continue opcode on the first frame, and `"restart"` puts the message's own opcode on a later frame. The ghost variables `inMessage` and `misframed` record whether the frames `on_receive_frame` has taken so far were framed correctly.
- `OnReceiveFrame` is `on_receive_frame`, one disjunct per branch:
  - `PlainReceive`: the plain assembler;
  - `PushFragment`: a non-final frame;
  - `FinalContinue`: the final Continue frame, with the capacity check and concatenation;
  - `FinalSingle`: a single-frame compressed message.
- `InflateAndComplete` holds the steps these branches share: `complete_message`, and the `decompress_reset` branch.

`Encodings` and `Inflate` take the window the codec was built with. The compressor never refers further back than its window. The inflater fails on a reference beyond its own window, as zlib does ("invalid distance too far back"). A window of 2^bits bytes is abstracted to a window of a few values, in the same order: 9, 12 and 15 bits become 1, 2 and 3 values.

### `MCDeflateSession.tla` (composition)

This module joins the two deflate modules. It instantiates `DeflateNegotiation` (`Neg == INSTANCE ... WITH`) only for its operators: `ClientOffer`, `ServerHeaders` and `OnResponseExt`. `NegotiatedConfigs` runs a whole handshake between two ends of this library, for every pair of `DeflateConfig`s. For each handshake where both ends enabled compression, `Direction` builds the frame path's configuration in each direction: the sender's `compress_reset` and deflator window, and the receiver's `decompress_reset` and inflator window. The frame path of `DeflateFrames` then starts from that state. So `Init` is a state that the two ends really reach after the handshake.

## Runs

| Run | Expect | Properties | What it shows |
|---|---|---|---|
| `ws_server` | pass | TypeOK, DeliveredMatchesFrames, PongAnswersLatestPing, CloseReplyMatches | A server fed any sequence of up to 3 client frames. The frames include valid and reserved opcodes, rsv bits, unmasked frames, oversized or fragmented pings, and close codes that are allowed (1000, 1001), not allowed (1005), absent or unparsable. The first invalid frame ends `read_message` with its error. The server returns exactly the messages rebuilt from the data frames it read while Active (`Assembled`), and a prefix of them once it fails. Each Pong answers a Ping read while Active, and only once. It sends at most one Close: the reply to the first Close it read while Active, with `do_close`'s code (`DoCloseCode`, written apart from `CloseReply` so that the check does not go through the definition it checks). |
| `ws_pair` | pass | ImplementsChannel, ChannelDelivers | A client and a server over FIFO transports, both writing (at most 2 messages each) and reading, on non-blocking streams. The pair implements `MessageChannel`: every message one end reads is the next one its peer wrote, intact, and only while it is Active (`ImplementsChannel`, a safety refinement). Under fair reading, every message written reaches a peer that stays Active (`ChannelDelivers`), so a WouldBlock in the middle of a read loses nothing. A read loop that never completes a message (the fin flag ignored) breaks `ChannelDelivers` but not the safety refinement. |
| `ws_data_after_close` | violation | NoDataAfterClose | The server reads a Close and sends its reply. Its read then returns WouldBlock, and `write_message` sends a data frame after the Close. |
| `ws_eof_after_close` | violation | CleanCloseNotError | The server replies to the peer's Close, and the peer closes the transport. `read_message` then returns "Connection reset without closing handshake" instead of ConnectionClosed. |
| `ws_close_handshake` | violation | CloseCompletes | Under fairness for both readers, a `close()` by the client never leads to the server leaving Active, because no Close frame is ever sent. |
| `ws_close_code` | violation | CloseReplyMirrorsCode | A server reads a Close with 1001 (Going Away), which is allowed, and replies with 1000 (Normal). Spec 4.5 says the reply mirrors an allowed code. RFC 6455 5.5.1 leaves the choice to the endpoint, so this is a divergence from the spec rather than from the RFC. |
| `neg_lib` | pass | TypeOK, ResetAgreement | For every pair of configurations, the server's `compress_reset` equals the client's `decompress_reset`, and the other way round, whenever both ends enable compression. The window bits stay in 9..15. |
| `session_windows` | violation | RoundTrip | Negotiation composed with the frame path (`MCDeflateSession`). Two ends of this library negotiate over every pair of configurations, and then one sends compressed messages. Client max 9, server max 12: the server rebuilds its inflator with 9 bits, while the client keeps the 15-bit deflator of `Deflator::new`, because `on_response` swaps the window parameters and ignores a value equal to its own maximum. The client's second message refers back further than the server's window, and inflating it fails. |
| `neg_response` | violation | ServerResponseMatchesState | A foreign header holding only `client_max_window_bits` is accepted: `on_receive_request` never checks that an offer names permessage-deflate. A server with max 9 answers `client_max_window_bits=9; server_max_window_bits=9` and sets `enabled`. Its response names no extension, and its deflator keeps the 15-bit window it did not announce. |
| `frames_roundtrip` | pass | TypeOK, RoundTrip, DeflateImplementsChannel | The sender is either this library or a peer that splits a message into up to 2 frames. The resets are every pair negotiation can produce (`decompressReset => compressReset`). Every message comes out of `on_receive_frame` intact and in order, with no error, and under fair receiving every message sent is returned: the frame path implements `MessageChannel` with liveness. |
| `frames_cap` | violation | FragmentsBounded | With `fragments_grow` false and capacity 2, a message of 4 frames pushes 3 fragments. The cap is checked only at the final frame, and with `==`. |
| `frames_misframing` | violation | FramingViolationFails | A peer that breaks the §5.4 fragment rules must get an error, never a panic and never a message. TLC finds a compressed Continue frame with no fragments pending reaching the `panic!` in `complete_message`. With only `"restart"` allowed it finds the second finding: a Text frame with rsv1 set leaves a fragment pending, and a final uncompressed Text frame is then delivered as a message while the stale fragment stays (`deflate.rs:571`). |

### Bounds

- **WebSocket, adversary runs:**
  - 3 injected frames: enough for a fragmented message with a control frame between its fragments, a Ping followed by a Ping, or a Close followed by a frame.
  - 1 write: enough to interleave a write with the close handshake.
  - Close codes 1000 and 1001 (allowed; 1001 is the one where mirroring and Normal differ), 1005 (not allowed), no code, and an unparsable payload.
  - Payloads `{0,1}`: two Pings can differ.
- **WebSocket, pair run:** 2 writes per side, so frames in flight in both directions overlap. One mask key: masking is XOR, and the unmasking mutant is caught with one key as with two; the second key only multiplied the state space of the liveness check.
- **DeflateNegotiation:** `max_window_bits` in {9, 12, 15}, each boolean flag, and window values {absent, 8, 9, 12, 16, NaN}. These include the boundaries 8, 9, 15 and 16 and a value that does not parse. Offers have up to 3 parameters, plus pairs of offers.
- **DeflateFrames:**
  - Values `{0,1}` and messages of 1–2 values, so a back-reference is possible within a message and across messages.
  - 2 messages, so context carries over from one message to the next.
  - Windows of 1–3 values. A message of 2 values after one of 2 values makes references at distance 1–3, so every window size matters. `frames_roundtrip` takes the window pairs (2,2), (2,3) and (3,3), where the deflator's window fits in the inflator's, so the compressor's window limit is exercised. `session_windows` takes the windows negotiation produces.
  - Up to 2 frames per message in `frames_roundtrip` and `frames_misframing`, so a message is fragmented and a misframed frame can follow a correct one. Up to 4 in `frames_cap`, so a message exceeds the capacity.
  - `frames_roundtrip` uses capacity 2 with `fragments_grow` false: with 2 frames the cap is never reached, so the roundtrip result holds for either value of the flag; the cap is the question of `frames_cap`.

### Fairness

`WebSocket!FairSpec` assumes weak fairness of `ReadLoopFlush` and `RecvFrame` for every endpoint: a caller that is inside `read_message` keeps reading. The code gives no other guarantee, so no fairness is assumed for writes, for `close()`, or for the peer.

`DeflateFrames!FairSpec` assumes weak fairness of `OnReceiveFrame`: the connection hands every data frame it reads to the extension, and its caller keeps calling `read_message`. Sending is not assumed fair.

### Refinement

`MessageChannel.tla` is the abstract promise of a connection: each end writes messages, and its peer reads them whole, in order and once, while it is open. Both concrete modules instantiate it with `INSTANCE ... WITH`:
- `WebSocket`: `out` is `written`, `in` is `delivered`, and an end is open while its `wsState` is Active. Frames, masks, control messages and the close handshake are stuttering steps of the channel.
- `DeflateFrames`: the sender's `out` is `sent`, the receiver's `in` is `delivered`, and compression, fragments and resets are hidden.

### Mutants

Every property of a passing run is broken by a plausible bug in a mapped definition. The list is in `PROJECT.json` "mutants". For example:
- a Continue frame that does not clear `incomplete`;
- a Ping answered while closing;
- a Text/Binary frame that never completes a message, whatever its fin flag;
- unmasking dropped;
- the `compress_reset` branch dropped;
- `fragments` not replaced after a message.

## Not modelled

- **Accept wrappers.** `server.rs` calls `ServerHandshake::start(...).handshake()`. `ServerHandshake`, `Callback` and `NoCallback` are not in the `handshake/server.rs` of this repository, which is an older, Request-only version. So the machine the wrappers drive is not here to model.
- **Handshake.** `handshake/server.rs` (`Request::reply`, `from_httparse`) and the wrappers in `server.rs` hold no state beyond one call. `from_httparse` has three guards (method GET, HTTP/1.1 or later, a key present) and `reply` computes Sec-WebSocket-Accept with SHA-1 and base64. The HTTP parser and the `ServerHandshake` machine that drives them are not under `src/`, and `spec.md` puts the parser out of scope. Nothing here interleaves, retries or persists, so a model would only restate the conversions that the spec's test vector checks.
- **Write failures.** `send_pending` takes the pong out of its slot and pops a frame before `send_one_frame` writes it. If `write_frame` fails, the `?` returns with that frame in neither slot. What becomes of it depends on the frame codec, which is not under `src/`. The spec says only that the error propagates and that only `close` is valid afterwards. The model's writes always succeed, so the hazard is listed in `PROJECT.json` without a property.
- **Pong coalescing.** The read loop calls `send_pending` after every frame, so the pong slot never holds a Pong that a later Ping could replace. `PongAnswersLatestPing` checks that each Pong answers a Ping read while Active, and answers it once; its "latest" part is true of every run because the slot is emptied before the next frame is read.
- **Frame codec.** The byte encoding of frames and UTF-8 validation are not modelled. A frame is a record, and a text payload is a value.
- **DEFLATE detail.** The compression level is not modelled: `Encodings` allows every encoding within the window, which covers every level. `DeflateExt::clone` builds fresh codecs. Nothing under `src/` clones an extension after negotiation, so it is not modelled.
- **Composition with the endpoint.** The endpoint module uses the old `mod.rs`, which rejects every rsv bit and never calls the extension. So the deflate modules are not composed with `WebSocket`. Negotiation and the frame path are composed (`MCDeflateSession`).

## Plan for later work

1. Compose the deflate frame path with an endpoint, once an endpoint that calls the extension is under `src/`.
2. Model the handshake machine, if `handshake/` ever holds the `ServerHandshake` that `server.rs` uses.
