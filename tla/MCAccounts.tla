----------------------------- MODULE MCAccounts -----------------------------
(***************************************************************************)
(* A sign-in of each caller may be repeated, as the device flow does.      *)
(* `scope` keeps the interleavings apart: one account with refreshes and a *)
(* crash, or three accounts that contend for two places.                   *)
(***************************************************************************)
EXTENDS Accounts

CONSTANTS a1, a2, a3, s1, s2, r1, f1, nobody

MCOneAccount == {a1}
MCThreeAccounts == {a1, a2, a3}
MCSignIns == {s1, s2}

VARIABLE scope

Within ==
  IF scope = "one account" THEN \A p \in Callers : call'[p].account \in {a1, nobody}
  ELSE /\ crashes' = 0 /\ \A p \in {r1, f1} : call'[p].at = "idle"
       /\ \A a \in Accounts : row'[a].gen <= 1
       /\ \A p \in Callers : ~call'[p].aborted

ScopedInit == Init /\ scope \in {"one account", "three accounts"}
ScopedNext == Next /\ Within /\ UNCHANGED scope

ScopedSpec == ScopedInit /\ [][ScopedNext]_<<vars, scope>> /\ Fairness

=============================================================================
