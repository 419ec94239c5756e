-------------------------- MODULE MCEnvelopeReader --------------------------
(* All bodies of at most MaxFrames frames with payloads of the given lengths. *)
EXTENDS EnvelopeReader

CONSTANTS MaxFrames, Lengths

\* Where n frames may start, and the last of them end.
Layouts(m) ==
    {s \in [1..(m + 1) -> 0..(m * (HeaderSize + 2))] :
        /\ s[1] = 0
        /\ \A k \in 1..m : s[k + 1] \in {s[k] + HeaderSize + l : l \in Lengths}}

BodiesOf(m) ==
    UNION {{[n |-> m, kinds |-> ks, starts |-> s, total |-> t] :
               ks \in [1..m -> Kinds], t \in 0..s[m + 1]} : s \in Layouts(m)}

MCBodies == UNION {BodiesOf(m) : m \in 0..MaxFrames}
=============================================================================
