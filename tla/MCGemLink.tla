------------------------------ MODULE MCGemLink ------------------------------
(* Link partners for GemLink, and Resolve against what it is to compute.   *)
EXTENDS GemLink

MCPartners == { {<<2, "full">>, <<1, "full">>, <<0, "half">>},
                {<<1, "half">>, <<0, "full">>}, {<<0, "half">>} }

Faster(m, n) == m[1] > n[1] \/ (m[1] = n[1] /\ m[2] = "full")

\* Resolve gives the best mode of every partner, in the order of IEEE 802.3.
ASSUME ResolvesBest ==
  \A s \in SUBSET Modes \ {{}} :
    /\ Resolve(s) \in s
    /\ \A m \in s \ {Resolve(s)} : Faster(Resolve(s), m)
=============================================================================
