--------------------------- MODULE MCDeflateFrames ---------------------------
(* Instantiates DeflateFrames for TLC.                                      *)
EXTENDS DeflateFrames

(* The (compress_reset, decompress_reset) pairs on_receive_request and    *)
(* on_response agree on (ResetAgreement of DeflateNegotiation): the       *)
(* receiver never resets when its sender keeps context.                   *)
(* Window sizes are drawn from windows; the deflator's window fits in    *)
(* the inflator's, as when both ends keep to the negotiated bits.         *)
AgreedConfigs(caps, grows, windows) ==
    {c \in [compressReset : BOOLEAN, decompressReset : BOOLEAN,
            fragmentsCapacity : caps, fragmentsGrow : grows,
            deflateWindow : windows, inflateWindow : windows] :
        /\ c.decompressReset => c.compressReset
        /\ c.deflateWindow <= c.inflateWindow}

PassConfigs == AgreedConfigs({2}, {FALSE}, {2, 3})
CapConfigs == AgreedConfigs({2}, {FALSE}, {3})


====
