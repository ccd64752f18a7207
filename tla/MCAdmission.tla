----------------------------- MODULE MCAdmission -----------------------------
(* Small instances of Admission: four requests, one or two permits and a   *)
(* queue of up to two.                                                     *)
EXTENDS Admission, TLC

CONSTANTS r1, r2, r3, r4

MCRequests == {r1, r2, r3, r4}
MCSymmetry == Permutations(MCRequests)

\* One configuration.
MCOneLimit == {[activeMax |-> 2, queueMax |-> 2]}

\* An operator narrows, widens and empties the gate while requests are in it.
MCManyLimits == {[activeMax |-> 1, queueMax |-> 2],
                 [activeMax |-> 2, queueMax |-> 1],
                 [activeMax |-> 3, queueMax |-> 0]}
==============================================================================
