--------------------------- MODULE MCInferencePool ---------------------------
(* Three requests to two profiles.  With room for one entry every second     *)
(* profile evicts the first; entries that left the map take a third object.  *)
EXTENDS InferencePool, TLC

CONSTANTS r1, r2, r3, p1, p2, e1, e2, e3, none

MCRequests == {r1, r2, r3}
MCProfiles == {p1, p2}
MCObjects == {e1, e2, e3}

\* Entry is e1: the other objects are alike.
MCSymmetry == Permutations(MCRequests) \cup Permutations(MCProfiles) \cup Permutations({e2, e3})

==============================================================================
