------------------------ MODULE MCDeflateNegotiation ------------------------
(* Configurations and requests for DeflateNegotiation.                    *)
EXTENDS DeflateNegotiation

(* DeflateConfig fields negotiation reads, over the values that change    *)
(* its course: a small, a middle and the default window.                  *)
Configs ==
    [maxWindowBits: {9, 12, 15},
     requestNoContextTakeover: BOOLEAN,
     acceptNoContextTakeover: BOOLEAN]

(* Parameters another client may write: every name, window values below,  *)
(* at and above the range, one that does not parse, and an unknown name.  *)
Params ==
    {P(PMD, NoValue), P(SNCT, NoValue), P(CNCT, NoValue), P("x-unknown", NoValue)}
    \cup {P(n, v) : n \in {SMWB, CMWB}, v \in {NoValue, 8, 9, 12, 16, NaN}}

(* Single offers of up to three parameters starting with the extension    *)
(* name or not, and two offers one after the other.                       *)
OneHeader == { <<h>> : h \in BoundedSeq(Params, 3) }

Alternatives ==
    { <<P(PMD, NoValue), P(CNCT, NoValue)>>,
      <<P(PMD, NoValue), P(SNCT, NoValue)>>,
      <<P(PMD, NoValue), P(SMWB, 9)>>,
      <<P(PMD, NoValue), P(CMWB, NoValue)>>,
      <<P(PMD, NoValue), P(CMWB, 9)>>,
      <<P("x-unknown", NoValue)>>,
      Opaque }

TwoHeaders == { <<a, b>> : a, b \in Alternatives }

MCForeignRequests == OneHeader \cup TwoHeaders \cup {<<>>}

=============================================================================
