----------------------------- MODULE AccountProofs -----------------------------
(***************************************************************************)
(* Proofs about the accounts and their credentials: whatever crashes and   *)
(* fails between the writes of the table and of the file, the secrets      *)
(* follow the rows, for all accounts, callers, generations, capacities and *)
(* numbers of crashes.  And about the preferred model of an account        *)
(* (ModelPreferences, the last part), for all models, operations, sign-ins *)
(* and invalidations of the catalogue.                                     *)
(*                                                                         *)
(* The invariant of Accounts says which lanes each caller holds and what   *)
(* it may rely on while it holds them: that is what makes the value it     *)
(* read before an await still right after it.                              *)
(***************************************************************************)
EXTENDS Accounts, ModelPreferences, QueueLemmas, FiniteSetTheorems, TLAPS

\* The points at which a sign-in or a removal has the lifecycle lane, and at which
\* a caller has the generation lane of its account.
LifePoints == {"life", "gen", "put", "committed", "removing", "erased"}
GenPoints == {"gen", "put", "committed", "removing", "erased", "network"}

\* The lanes a caller holds are those its place says.
Holds(p) ==
  /\ lifecycle = p <=> p \notin Refreshes /\ call[p].at \in LifePoints
  /\ \A a \in Accounts : generation[a] = p <=> call[p].at \in GenPoints /\ Account(p) = a

\* A caller is only where its operation goes, the turn is with the one between
\* two writes, and nobody is anywhere before the start is over.
Placed(p) ==
  /\ call[p].at \in {"put", "committed", "cleanup"} => p \in SignIns
  /\ call[p].at \in {"removing", "erased"} => p \in Removals
  /\ call[p].at \in {"bound", "network"} => p \in Refreshes
  /\ call[p].at = "life" => p \notin Refreshes
  /\ turn = p <=> call[p].at \in {"committed", "removing"}
  /\ mode = "starting" => call[p].at = "idle"

\* There is room for the account to be active.
Admissible(a) == row[a].state = "active" \/ Cardinality(ActiveAccounts) < MaxAuthenticated

\* What a caller has noted or read is still so.
Knows(p) ==
  /\ p \in Refreshes /\ call[p].at # "idle" =>
       Noted(p) \in Generations /\ Noted(p) <= row[Account(p)].gen
  /\ call[p].at = "network" =>
       /\ row[Account(p)].state # "removed"
       /\ row[Account(p)].state = "active" /\ row[Account(p)].gen = Noted(p) =>
            call[p].secret = signedIn[Account(p)]
  /\ call[p].at = "put" =>
       /\ Noted(p) \in Generations /\ Noted(p) = row[Account(p)].gen + 1
       /\ store[Account(p)][Noted(p)] = p
       /\ Admissible(Account(p))
  /\ call[p].at \in {"removing", "erased"} => row[Account(p)].state = "removing"
  /\ call[p].at = "erased" => \A g \in Generations : store[Account(p)][g] = Nobody

Sound(p) == Holds(p) /\ Placed(p) /\ Knows(p)

Row == [state : RowStates, gen : Nat, rev : Nat]
CallRecord == [at : Points, account : Accounts \cup {Nobody}, noted : Nat,
               secret : Secrets, aborted : BOOLEAN]

\* What survives a crash, and what does not, have their types.
DataOK ==
  /\ row \in [Accounts -> Row] /\ \A a \in Accounts : row[a].gen <= MaxGeneration
  /\ default \in Accounts \cup {Nobody}
  /\ store \in [Accounts -> [Generations -> Secrets]]
  /\ signedIn \in [Accounts -> Secrets]
CallsOK ==
  /\ mode \in {"starting", "serving"}
  /\ call \in [Callers -> CallRecord]
  /\ \A p \in Callers : call[p].at = "idle" <=> call[p].account = Nobody
  /\ lifecycle \in Callers \cup {Nobody}
  /\ generation \in [Accounts -> Callers \cup {Nobody}]
  /\ turn \in Callers \cup {Nobody}
  /\ crashes \in 0..MaxCrashes

AccountsInv ==
  DataOK /\ CallsOK /\ SecretsFollowRows /\ \A p \in Callers : Sound(p)

\* The type invariant is part of it.
LEMMA InvTypeOK == AccountsInv => TypeOK
<1> SUFFICES ASSUME AccountsInv PROVE TypeOK
  OBVIOUS
<1>1. ASSUME NEW p \in Callers, p = lifecycle \/ \E a \in Accounts : p = generation[a]
      PROVE  call[p].at # "idle"
  BY <1>1 DEF AccountsInv, Sound, Holds, LifePoints, GenPoints
<1> QED BY <1>1 DEF AccountsInv, DataOK, CallsOK, TypeOK, Row, CallRecord

------------------------------------------------------------------------------
(* What a step does to the caller that takes it. *)

\* Nobody's call but the caller's changes.
Only(p) == \A q \in Callers : q # p => call'[q] = call[q]

LEMMA GoesTo ==
  ASSUME CallsOK, NEW p \in Callers, NEW point \in Points, point # "idle",
         call[p].at # "idle", Goes(p, point)
  PROVE  /\ call' \in [Callers -> CallRecord] /\ Only(p)
         /\ \A q \in Callers : call'[q].at = "idle" <=> call'[q].account = Nobody
         /\ call'[p].at = point /\ Account(p)' = Account(p) /\ Noted(p)' = Noted(p)
         /\ call'[p].secret = call[p].secret /\ Aborted(p)' = Aborted(p)
<1>1. call'[p] = [call[p] EXCEPT !.at = point] /\ Only(p)
  BY DEF CallsOK, Goes, Only
<1>2. call[p] \in CallRecord
  BY DEF CallsOK
<1>3. /\ call'[p] \in CallRecord
      /\ call'[p].at = point /\ call'[p].account = call[p].account
      /\ call'[p].noted = call[p].noted /\ call'[p].secret = call[p].secret
      /\ call'[p].aborted = call[p].aborted
  BY <1>1, <1>2 DEF CallRecord
<1>4. call' \in [Callers -> CallRecord]
  BY <1>1, <1>3 DEF CallsOK, Goes, Only
<1>5. call[p].account # Nobody
  BY DEF CallsOK
<1>6. \A q \in Callers : call'[q].at = "idle" <=> call'[q].account = Nobody
  <2> SUFFICES ASSUME NEW q \in Callers
               PROVE  call'[q].at = "idle" <=> call'[q].account = Nobody
    OBVIOUS
  <2>1. CASE q = p
    BY <2>1, <1>3, <1>5
  <2>2. CASE q # p
    BY <2>2, <1>1 DEF CallsOK, Only
  <2> QED BY <2>1, <2>2
<1> QED BY <1>1, <1>3, <1>4, <1>6 DEF Account, Noted, Aborted

LEMMA EndsCall ==
  ASSUME CallsOK, NEW p \in Callers, Ends(p)
  PROVE  /\ call' \in [Callers -> CallRecord] /\ Only(p)
         /\ \A q \in Callers : call'[q].at = "idle" <=> call'[q].account = Nobody
         /\ call'[p].at = "idle"
<1>1. /\ NoCall \in CallRecord /\ NoCall.at = "idle" /\ NoCall.account = Nobody
  BY DEF NoCall, CallRecord, Points, Secrets
<1>2. call'[p] = NoCall /\ Only(p) /\ call' \in [Callers -> CallRecord]
  BY <1>1 DEF CallsOK, Ends, Only
<1> QED BY <1>1, <1>2 DEF CallsOK, Only

\* A new call of an idle caller, at its first point.
LEMMA BeginsCall ==
  ASSUME CallsOK, NEW p \in Callers, NEW a \in Accounts, NEW n \in Nat,
         NEW point \in Points, point # "idle",
         call' = [call EXCEPT ![p] = [NoCall EXCEPT !.at = point, !.account = a, !.noted = n]]
  PROVE  /\ call' \in [Callers -> CallRecord] /\ Only(p)
         /\ \A q \in Callers : call'[q].at = "idle" <=> call'[q].account = Nobody
         /\ call'[p].at = point /\ Account(p)' = a /\ Noted(p)' = n
<1> DEFINE c == [NoCall EXCEPT !.at = point, !.account = a, !.noted = n]
<1>1. c \in CallRecord /\ c.at = point /\ c.account = a /\ c.noted = n
  BY DEF NoCall, CallRecord, Secrets
<1> HIDE DEF c
<1>2. call'[p] = c /\ Only(p) /\ call' \in [Callers -> CallRecord]
  BY <1>1 DEF CallsOK, Only, c
<1>3. a # Nobody
  BY CallersAssumption
<1> QED BY <1>1, <1>2, <1>3 DEF CallsOK, Only, Account, Noted

\* A caller leaves its lanes: nobody else's change hands.
LEMMA LeavesLanes ==
  ASSUME CallsOK, \A q \in Callers : Holds(q),
         NEW p \in Callers, Leaves(p), Only(p),
         call'[p].at \notin LifePoints \cup GenPoints
  PROVE  /\ \A q \in Callers : Holds(q)'
         /\ lifecycle' \in Callers \cup {Nobody}
         /\ generation' \in [Accounts -> Callers \cup {Nobody}]
<1>0. Nobody \notin Callers
  BY CallersAssumption
<1>1. /\ lifecycle' \in Callers \cup {Nobody}
      /\ generation' \in [Accounts -> Callers \cup {Nobody}]
      /\ lifecycle' # p /\ \A a \in Accounts : generation'[a] # p
      /\ \A q \in Callers : q # p =>
           /\ lifecycle' = q <=> lifecycle = q
           /\ \A a \in Accounts : generation'[a] = q <=> generation[a] = q
  BY <1>0 DEF CallsOK, Leaves
<1>2. Holds(p)'
  BY <1>1 DEF Holds
<1>3. ASSUME NEW q \in Callers, q # p PROVE Holds(q)'
  BY <1>1, <1>3 DEF Holds, Only, Account
<1> QED BY <1>1, <1>2, <1>3

\* A caller moves between points with the same lanes.
LEMMA KeepsLanes ==
  ASSUME \A q \in Callers : Holds(q),
         NEW p \in Callers, UNCHANGED lanes, Only(p),
         p \notin Refreshes => (call'[p].at \in LifePoints <=> call[p].at \in LifePoints),
         call'[p].at \in GenPoints <=> call[p].at \in GenPoints,
         call[p].at \in GenPoints => Account(p)' = Account(p)
  PROVE  \A q \in Callers : Holds(q)'
<1>1. Holds(p)'
  BY DEF Holds, lanes
<1>2. ASSUME NEW q \in Callers, q # p PROVE Holds(q)'
  BY <1>2 DEF Holds, Only, Account, lanes
<1> QED BY <1>1, <1>2

------------------------------------------------------------------------------
(* Steps that write neither the table nor the file. *)

LEMMA QuietStep ==
  ASSUME AccountsInv, NEW p \in Callers,
         UNCHANGED <<tables, store, mode, turn, crashes>>,
         call' \in [Callers -> CallRecord], Only(p),
         \A q \in Callers : call'[q].at = "idle" <=> call'[q].account = Nobody,
         \A q \in Callers : Holds(q)',
         lifecycle' \in Callers \cup {Nobody},
         generation' \in [Accounts -> Callers \cup {Nobody}],
         Placed(p)', Knows(p)'
  PROVE  AccountsInv'
<1>1. DataOK' /\ CallsOK'
  BY DEF AccountsInv, DataOK, CallsOK, tables
<1>2. SecretsFollowRows'
  BY DEF AccountsInv, SecretsFollowRows, ActiveHasItsSecret, RemovedIsErased, WithinCapacity,
         ActiveAccounts, tables
<1>3. ASSUME NEW q \in Callers, q # p PROVE Placed(q)' /\ Knows(q)'
  <2>1. call'[q] = call[q] /\ Account(q)' = Account(q) /\ Noted(q)' = Noted(q)
    BY <1>3 DEF Only, Account, Noted
  <2>2. Admissible(Account(q))' <=> Admissible(Account(q))
    BY <2>1 DEF Admissible, ActiveAccounts, tables
  <2>3. Placed(q) /\ Knows(q)
    BY DEF AccountsInv, Sound
  <2>4. Placed(q)'
    BY <2>1, <2>3 DEF Placed
  <2>5. Knows(q)'
    BY <2>1, <2>2, <2>3 DEF Knows, tables
  <2> QED BY <2>4, <2>5
<1> QED BY <1>1, <1>2, <1>3 DEF AccountsInv, Sound

\* A caller that returns or throws without a write.
LEMMA ReturnsQuietly ==
  ASSUME AccountsInv, NEW p \in Callers, Returns(p), turn = Nobody,
         UNCHANGED <<tables, store, mode, turn, crashes>>
  PROVE  AccountsInv'
<1>1. CallsOK /\ \A q \in Callers : Holds(q)
  BY DEF AccountsInv, Sound
<1>2. /\ call' \in [Callers -> CallRecord] /\ Only(p)
      /\ \A q \in Callers : call'[q].at = "idle" <=> call'[q].account = Nobody
      /\ call'[p].at = "idle"
  BY <1>1, EndsCall DEF Returns
<1>3. /\ \A q \in Callers : Holds(q)'
      /\ lifecycle' \in Callers \cup {Nobody}
      /\ generation' \in [Accounts -> Callers \cup {Nobody}]
  BY <1>1, <1>2, LeavesLanes DEF Returns, LifePoints, GenPoints
<1>4. Placed(p)' /\ Knows(p)'
  BY <1>2, CallersAssumption DEF Placed, Knows
<1> QED BY <1>2, <1>3, <1>4, QuietStep

\* What the points say of a caller that may take its next step.
LEMMA FreeCaller ==
  ASSUME AccountsInv, NEW p \in Callers, Free
  PROVE  /\ CallsOK /\ DataOK /\ SecretsFollowRows
         /\ \A q \in Callers : Holds(q) /\ Placed(q) /\ Knows(q)
         /\ call[p].at \notin {"committed", "removing"}
         /\ turn = Nobody /\ Nobody \notin Callers /\ mode # "starting"
         /\ call[p].at # "idle" => Account(p) \in Accounts
<1>1. CallsOK /\ DataOK /\ SecretsFollowRows /\ \A q \in Callers : Holds(q) /\ Placed(q) /\ Knows(q)
  BY DEF AccountsInv, Sound
<1>2. turn = Nobody /\ Nobody \notin Callers /\ mode # "starting"
  BY CallersAssumption DEF Free
<1>3. call[p].at # "idle" => Account(p) \in Accounts
  BY <1>1 DEF CallsOK, CallRecord, Account
<1> QED BY <1>1, <1>2, <1>3 DEF Placed

LEMMA CallInv ==
  ASSUME AccountsInv, NEW p \in Callers, NEW a \in Accounts, Call(p, a) \/ Bind(p, a)
  PROVE  AccountsInv'
<1>0. Free /\ call[p].at = "idle" /\ UNCHANGED <<tables, store, mode, lanes, turn, crashes>>
  BY DEF Call, Bind, At
<1>1. /\ CallsOK /\ DataOK /\ ActiveHasItsSecret
      /\ \A q \in Callers : Holds(q) /\ Placed(q)
      /\ turn = Nobody /\ Nobody \notin Callers /\ mode # "starting"
  BY <1>0, FreeCaller DEF SecretsFollowRows
<1>2. PICK n \in Nat, point \in {"asked", "bound"} :
        /\ call' = [call EXCEPT ![p] = [NoCall EXCEPT !.at = point, !.account = a, !.noted = n]]
        /\ point = "asked" => p \in SignIns \cup Removals
        /\ point = "bound" => /\ p \in Refreshes /\ n = row[a].gen
                              /\ row[a].gen \in Generations
  <2>1. row[a].rev \in Nat /\ row[a].gen \in Nat
    BY <1>1 DEF DataOK, Row
  <2>2. CASE Call(p, a)
    BY <2>1, <2>2 DEF Call
  <2>3. CASE Bind(p, a)
    <3>1. row[a].gen \in Generations
      BY <2>3, <1>1 DEF Bind, ActiveHasItsSecret
    <3> QED BY <2>1, <2>3, <3>1 DEF Bind
  <2> QED BY <2>2, <2>3
<1>3. /\ call' \in [Callers -> CallRecord] /\ Only(p)
      /\ \A q \in Callers : call'[q].at = "idle" <=> call'[q].account = Nobody
      /\ call'[p].at = point /\ Account(p)' = a /\ Noted(p)' = n
  BY <1>1, <1>2, BeginsCall DEF Points
<1>4. \A q \in Callers : Holds(q)'
  BY <1>0, <1>1, <1>3, KeepsLanes DEF LifePoints, GenPoints
<1>5. Placed(p)' /\ Knows(p)'
  <2>1. row[a].gen \in Nat
    BY <1>1 DEF DataOK, Row
  <2> QED BY <2>1, <1>0, <1>1, <1>2, <1>3, CallersAssumption DEF Placed, Knows, tables
<1> QED BY <1>0, <1>1, <1>3, <1>4, <1>5, QuietStep DEF CallsOK, lanes

LEMMA EnterLifecycleInv ==
  ASSUME AccountsInv, NEW p \in Callers, EnterLifecycle(p)
  PROVE  AccountsInv'
<1>0. /\ Free /\ call[p].at = "asked" /\ p \notin Refreshes
      /\ lifecycle = Nobody /\ lifecycle' = p /\ Goes(p, "life")
      /\ UNCHANGED <<tables, store, mode, generation, turn, crashes>>
  BY CallersAssumption DEF EnterLifecycle, At
<1>1. /\ CallsOK /\ turn = Nobody /\ Nobody \notin Callers /\ mode # "starting"
      /\ \A q \in Callers : Holds(q)
  BY <1>0, FreeCaller
<1>2. /\ call' \in [Callers -> CallRecord] /\ Only(p)
      /\ \A q \in Callers : call'[q].at = "idle" <=> call'[q].account = Nobody
      /\ call'[p].at = "life" /\ Account(p)' = Account(p) /\ Noted(p)' = Noted(p)
  BY <1>0, <1>1, GoesTo DEF Points
<1>3. Holds(p)'
  BY <1>0, <1>1, <1>2 DEF Holds, LifePoints, GenPoints
<1>4. ASSUME NEW q \in Callers, q # p PROVE Holds(q)'
  BY <1>0, <1>1, <1>2, <1>4 DEF Holds, Only, Account
<1>5. Placed(p)' /\ Knows(p)'
  BY <1>0, <1>1, <1>2 DEF Placed, Knows
<1> QED BY <1>0, <1>1, <1>2, <1>3, <1>4, <1>5, QuietStep DEF CallsOK

LEMMA EnterGenerationInv ==
  ASSUME AccountsInv, NEW p \in Callers, EnterGeneration(p)
  PROVE  AccountsInv'
<1>0. /\ Free /\ call[p].at = IF p \in Refreshes THEN "asked" ELSE "life"
      /\ generation[Account(p)] = Nobody
      /\ generation' = [generation EXCEPT ![Account(p)] = p]
      /\ Goes(p, "gen")
      /\ UNCHANGED <<tables, store, mode, lifecycle, turn, crashes>>
  BY DEF EnterGeneration, At
<1>1. /\ CallsOK /\ turn = Nobody /\ Nobody \notin Callers /\ mode # "starting"
      /\ \A q \in Callers : Holds(q) /\ Knows(q)
      /\ Account(p) \in Accounts
  BY <1>0, FreeCaller
<1>2. /\ call' \in [Callers -> CallRecord] /\ Only(p)
      /\ \A q \in Callers : call'[q].at = "idle" <=> call'[q].account = Nobody
      /\ call'[p].at = "gen" /\ Account(p)' = Account(p) /\ Noted(p)' = Noted(p)
  BY <1>0, <1>1, GoesTo DEF Points
<1>3. PICK a \in Accounts : a = Account(p)
  BY <1>1
<1>4. \A b \in Accounts : generation'[b] = IF b = a THEN p ELSE generation[b]
  BY <1>0, <1>1, <1>3 DEF CallsOK
<1>5. Holds(p)'
  <2>1. call[p].at \notin GenPoints
    BY <1>0 DEF GenPoints
  <2>2. \A b \in Accounts : generation[b] # p
    BY <1>1, <2>1 DEF Holds
  <2>3. lifecycle = p <=> p \notin Refreshes
    BY <1>0, <1>1 DEF Holds, LifePoints
  <2> QED BY <2>2, <2>3, <1>0, <1>2, <1>3, <1>4 DEF Holds, LifePoints, GenPoints
<1>6. ASSUME NEW q \in Callers, q # p PROVE Holds(q)'
  <2>1. ~(call[q].at \in GenPoints /\ Account(q) = a)
    BY <1>0, <1>1, <1>3 DEF Holds
  <2>2. call'[q] = call[q] /\ Account(q)' = Account(q)
    BY <1>2, <1>6 DEF Only, Account
  <2> QED BY <2>1, <2>2, <1>0, <1>1, <1>4, <1>6 DEF Holds
<1>7. Placed(p)' /\ Knows(p)'
  BY <1>0, <1>1, <1>2 DEF Placed, Knows, tables
<1>8. generation' \in [Accounts -> Callers \cup {Nobody}]
  BY <1>0, <1>1 DEF CallsOK
<1> QED BY <1>0, <1>1, <1>2, <1>5, <1>6, <1>7, <1>8, QuietStep DEF CallsOK

LEMMA AbortInv ==
  ASSUME AccountsInv, NEW p \in Callers, Abort(p)
  PROVE  AccountsInv'
<1>0. /\ Free /\ call[p].at # "idle" /\ call' = [call EXCEPT ![p].aborted = TRUE]
      /\ UNCHANGED <<tables, store, mode, lanes, turn, crashes>>
  BY DEF Abort
<1>1. /\ CallsOK /\ \A q \in Callers : Holds(q) /\ Placed(q) /\ Knows(q)
  BY <1>0, FreeCaller
<1>2. call'[p] = [call[p] EXCEPT !.aborted = TRUE] /\ Only(p) /\ call[p] \in CallRecord
  BY <1>0, <1>1 DEF CallsOK, Only
<1>3. /\ call'[p] \in CallRecord /\ call'[p].at = call[p].at /\ Account(p)' = Account(p)
      /\ Noted(p)' = Noted(p) /\ call'[p].secret = call[p].secret
  BY <1>2 DEF CallRecord, Account, Noted
<1>4. call' \in [Callers -> CallRecord]
  BY <1>0, <1>1, <1>2, <1>3 DEF CallsOK, Only
<1>5. \A q \in Callers : call'[q].at = call[q].at /\ Account(q)' = Account(q)
  BY <1>2, <1>3 DEF Only, Account
<1>6. \A q \in Callers : call'[q].at = "idle" <=> call'[q].account = Nobody
  BY <1>1, <1>5 DEF CallsOK, Account
<1>7. \A q \in Callers : Holds(q)'
  BY <1>0, <1>1, <1>5 DEF Holds, lanes
<1>8. Placed(p)'
  BY <1>0, <1>1, <1>3 DEF Placed
<1>9. Knows(p)'
  BY <1>0, <1>1, <1>3 DEF Knows, tables, Admissible, ActiveAccounts
<1> QED BY <1>0, <1>1, <1>2, <1>4, <1>6, <1>7, <1>8, <1>9, QuietStep DEF CallsOK, lanes

LEMMA RefreshWaitsInv ==
  ASSUME AccountsInv, NEW p \in Callers, RefreshAsks(p) \/ RefreshReads(p)
  PROVE  AccountsInv'
<1>0. /\ Free /\ UNCHANGED <<tables, store, mode, turn, crashes>>
      /\ call[p].at \in {"bound", "gen"} /\ p \in Refreshes
  <2>1. CASE RefreshAsks(p)
    <3>1. Free /\ call[p].at = "bound"
      BY <2>1 DEF RefreshAsks, At
    <3>2. p \in Refreshes
      BY <3>1, FreeCaller DEF Placed
    <3> QED BY <2>1, <3>1, <3>2 DEF RefreshAsks
  <2>2. CASE RefreshReads(p)
    BY <2>2 DEF RefreshReads, InLanes, At
  <2> QED BY <2>1, <2>2
<1>1. /\ CallsOK /\ DataOK /\ SecretsFollowRows /\ turn = Nobody
      /\ Nobody \notin Callers /\ mode # "starting"
      /\ \A q \in Callers : Holds(q) /\ Knows(q)
      /\ Account(p) \in Accounts
  BY <1>0, FreeCaller
<1>2. CASE Returns(p)
  BY <1>0, <1>1, <1>2, ReturnsQuietly
<1>3. CASE UNCHANGED lanes /\ Ends(p) /\ call[p].at = "bound"
  <2>1. /\ call' \in [Callers -> CallRecord] /\ Only(p)
        /\ \A q \in Callers : call'[q].at = "idle" <=> call'[q].account = Nobody
        /\ call'[p].at = "idle"
    BY <1>1, <1>3, EndsCall
  <2>2. \A q \in Callers : Holds(q)'
    BY <1>0, <1>1, <1>3, <2>1, KeepsLanes DEF GenPoints
  <2>3. Placed(p)' /\ Knows(p)'
    BY <1>0, <1>1, <2>1 DEF Placed, Knows
  <2> QED BY <1>0, <1>1, <1>3, <2>1, <2>2, <2>3, QuietStep DEF CallsOK, lanes
<1>4. CASE UNCHANGED lanes /\ Goes(p, "asked") /\ call[p].at = "bound"
  <2>1. /\ call' \in [Callers -> CallRecord] /\ Only(p)
        /\ \A q \in Callers : call'[q].at = "idle" <=> call'[q].account = Nobody
        /\ call'[p].at = "asked" /\ Account(p)' = Account(p) /\ Noted(p)' = Noted(p)
    BY <1>0, <1>1, <1>4, GoesTo DEF Points
  <2>2. \A q \in Callers : Holds(q)'
    BY <1>0, <1>1, <1>4, <2>1, KeepsLanes DEF GenPoints
  <2>3. Placed(p)' /\ Knows(p)'
    BY <1>0, <1>1, <2>1 DEF Placed, Knows, tables
  <2> QED BY <1>0, <1>1, <1>4, <2>1, <2>2, <2>3, QuietStep DEF CallsOK, lanes
<1>5. CASE /\ UNCHANGED lanes /\ call[p].at = "gen" /\ Present(p)
           /\ call' = [call EXCEPT ![p].at = "network",
                                   ![p].secret = store[Account(p)][Noted(p)]]
  <2>1. PICK a \in Accounts, g \in Generations, s \in Secrets :
          /\ a = Account(p) /\ g = Noted(p) /\ s = store[a][g] /\ s # Nobody
          /\ g <= row[a].gen
    <3>1. Noted(p) \in Generations /\ Noted(p) <= row[Account(p)].gen
      BY <1>0, <1>1 DEF Knows
    <3>2. store[Account(p)][Noted(p)] \in Secrets
      BY <1>1, <3>1 DEF DataOK
    <3> QED BY <1>1, <1>5, <3>1, <3>2 DEF Present
  <2>2. call[p] \in CallRecord /\ Only(p)
        /\ call'[p] = [call[p] EXCEPT !.at = "network", !.secret = s]
    BY <1>1, <1>5, <2>1 DEF CallsOK, Only
  <2>3. /\ call'[p] \in CallRecord /\ call'[p].at = "network" /\ call'[p].secret = s
        /\ Account(p)' = a /\ Noted(p)' = g
    BY <2>1, <2>2 DEF CallRecord, Points, Account, Noted
  <2>4. call' \in [Callers -> CallRecord]
    BY <1>1, <1>5, <2>2, <2>3 DEF CallsOK, Only
  <2>5. \A q \in Callers : call'[q].at = "idle" <=> call'[q].account = Nobody
    <3>1. a # Nobody
      BY CallersAssumption
    <3>2. call'[p].at # "idle" /\ call'[p].account # Nobody
      BY <3>1, <2>3 DEF Account
    <3>3. ASSUME NEW q \in Callers, q # p PROVE call'[q].at = "idle" <=> call'[q].account = Nobody
      <4>1. call'[q] = call[q]
        BY <2>2, <3>3 DEF Only
      <4>2. call[q].at = "idle" <=> call[q].account = Nobody
        BY <1>1 DEF CallsOK
      <4> QED BY <4>1, <4>2
    <3> QED BY <3>2, <3>3
  <2>6. \A q \in Callers : Holds(q)'
    BY <1>0, <1>1, <1>5, <2>1, <2>2, <2>3, KeepsLanes DEF GenPoints
  <2>7. Placed(p)'
    BY <1>0, <1>1, <2>3 DEF Placed
  <2>8. Knows(p)'
    <3>1. row[a].state # "removed"
      BY <1>1, <2>1 DEF SecretsFollowRows, RemovedIsErased
    <3>2. row[a].state = "active" /\ row[a].gen = g => s = signedIn[a]
      BY <1>1, <2>1 DEF SecretsFollowRows, ActiveHasItsSecret
    <3> QED BY <1>0, <2>1, <2>3, <3>1, <3>2 DEF Knows, tables
  <2> QED BY <1>0, <1>1, <1>5, <2>2, <2>4, <2>5, <2>6, <2>7, <2>8, QuietStep DEF CallsOK, lanes
<1>6. CASE RefreshAsks(p)
  BY <1>3, <1>4, <1>6 DEF RefreshAsks, At
<1>7. CASE RefreshReads(p)
  BY <1>2, <1>5, <1>7 DEF RefreshReads, InLanes, At
<1> QED BY <1>6, <1>7

------------------------------------------------------------------------------
(* What the writes leave to the others. *)

\* Only one sign-in or removal is inside the lifecycle lane, and only one caller
\* inside an account's generation lane.
LEMMA OthersOutside ==
  ASSUME AccountsInv, NEW p \in Callers, NEW q \in Callers, q # p
  PROVE  /\ lifecycle \in {p, Nobody} =>
              call[q].at \notin {"life", "put", "committed", "removing", "erased"}
         /\ call[p].at \in GenPoints /\ call[q].at \in GenPoints => Account(q) # Account(p)
<1>1. Holds(q) /\ Placed(q) /\ Holds(p) /\ Nobody \notin Callers
  BY CallersAssumption DEF AccountsInv, Sound
<1>2. lifecycle \in {p, Nobody} =>
        call[q].at \notin {"life", "put", "committed", "removing", "erased"}
  BY <1>1, CallersAssumption DEF Holds, Placed, LifePoints
<1>3. ASSUME call[p].at \in GenPoints, call[q].at \in GenPoints, Account(q) = Account(p)
      PROVE  FALSE
  <2>1. Account(p) \in Accounts
    BY <1>3 DEF AccountsInv, CallsOK, CallRecord, Account, GenPoints
  <2> QED BY <1>1, <1>3, <2>1 DEF Holds
<1> QED BY <1>2, <1>3

\* A write under a generation lane leaves what the other callers know.
LEMMA OthersKnow ==
  ASSUME AccountsInv, NEW p \in Callers, NEW a \in Accounts, a = Account(p),
         call[p].at \in GenPoints, Only(p),
         \A b \in Accounts : b # a => /\ row'[b] = row[b] /\ signedIn'[b] = signedIn[b]
                                      /\ store'[b] = store[b],
         row'[a].gen >= row[a].gen, row'[a].gen \in Nat,
         lifecycle = p \/ UNCHANGED row
  PROVE  \A q \in Callers : q # p => Knows(q)'
<1> SUFFICES ASSUME NEW q \in Callers, q # p PROVE Knows(q)'
  OBVIOUS
<1>1. call'[q] = call[q] /\ Account(q)' = Account(q) /\ Noted(q)' = Noted(q)
  BY DEF Only, Account, Noted
<1>2. Knows(q) /\ (call[q].at # "idle" => Account(q) \in Accounts)
  BY DEF AccountsInv, Sound, CallsOK, CallRecord, Account
<1>3. PICK b : b = Account(q)
  OBVIOUS
<1>4. CASE call[q].at \in GenPoints
  <2>1. b \in Accounts /\ b # a
    BY <1>2, <1>3, <1>4, OthersOutside DEF GenPoints
  <2>2. row'[b] = row[b] /\ signedIn'[b] = signedIn[b] /\ store'[b] = store[b]
    BY <2>1
  <2>3. call[q].at = "put" => (Admissible(b) => Admissible(b)')
    <3>1. call[q].at = "put" => UNCHANGED row
      BY OthersOutside
    <3> QED BY <3>1 DEF Admissible, ActiveAccounts
  <2> QED BY <1>1, <1>2, <1>3, <2>2, <2>3 DEF Knows
<1>5. CASE call[q].at \notin GenPoints
  <2>1. \A c \in Accounts : \A n \in Nat : n <= row[c].gen => n <= row'[c].gen
    <3> SUFFICES ASSUME NEW c \in Accounts, NEW n \in Nat, n <= row[c].gen
                 PROVE  n <= row'[c].gen
      OBVIOUS
    <3>1. row[a].gen \in Nat
      BY DEF AccountsInv, DataOK, Row
    <3>2. CASE c = a
      BY <3>1, <3>2
    <3>3. CASE c # a
      BY <3>3
    <3> QED BY <3>2, <3>3
  <2>2. Noted(q) \in Generations => Noted(q) \in Nat
    BY BoundsAssumption DEF Generations
  <2>3. q \in Refreshes /\ call[q].at # "idle" =>
          Noted(q) \in Generations /\ Noted(q) <= row'[b].gen
    BY <1>2, <1>3, <2>1, <2>2 DEF Knows
  <2> QED BY <1>1, <1>3, <1>5, <2>3 DEF Knows, GenPoints
<1> QED BY <1>4, <1>5

\* The others stay where they are.
LEMMA OthersPlaced ==
  ASSUME AccountsInv, NEW p \in Callers, Only(p), UNCHANGED mode,
         turn \in {p, Nobody}, turn' \in {p, Nobody}
  PROVE  \A q \in Callers : q # p => Placed(q)'
BY CallersAssumption DEF AccountsInv, Sound, Placed, Only

\* prune() takes nothing an active account refers to, and brings nothing back.
LEMMA PrunedData ==
  ASSUME AccountsInv, store' \in {store, Pruned(row)}, UNCHANGED tables
  PROVE  /\ DataOK' /\ SecretsFollowRows'
         /\ \A a \in Accounts, g \in Generations : store'[a][g] \in {store[a][g], Nobody}
<1>0. DataOK /\ SecretsFollowRows
  BY DEF AccountsInv
<1>1. \A a \in Accounts, g \in Generations :
        /\ store'[a][g] \in {store[a][g], Nobody}
        /\ Referenced(row, a, g) => store'[a][g] = store[a][g]
  BY DEF Pruned
<1>2. store' \in [Accounts -> [Generations -> Secrets]]
  BY <1>0 DEF DataOK, Pruned, Secrets
<1>3. DataOK'
  BY <1>0, <1>2 DEF DataOK, tables
<1>4. ActiveHasItsSecret'
  BY <1>0, <1>1 DEF SecretsFollowRows, ActiveHasItsSecret, Referenced, tables
<1>5. RemovedIsErased'
  BY <1>0, <1>1 DEF SecretsFollowRows, RemovedIsErased, tables
<1>6. WithinCapacity'
  BY <1>0 DEF SecretsFollowRows, WithinCapacity, ActiveAccounts, tables
<1> QED BY <1>1, <1>3, <1>4, <1>5, <1>6 DEF SecretsFollowRows

\* Nobody who has written a secret and not yet committed it loses it to a prune.
LEMMA PruneIsKnown ==
  ASSUME AccountsInv, store' \in {store, Pruned(row)}, UNCHANGED tables,
         NEW q \in Callers, call'[q] = call[q], call[q].at # "put"
  PROVE  Knows(q)'
<1>1. \A a \in Accounts, g \in Generations : store'[a][g] \in {store[a][g], Nobody}
  BY PrunedData
<1>2. Account(q)' = Account(q) /\ Noted(q)' = Noted(q)
  BY DEF Account, Noted
<1>3. Knows(q) /\ (call[q].at # "idle" => Account(q) \in Accounts)
  BY DEF AccountsInv, Sound, CallsOK, CallRecord, Account
<1>4. call[q].at = "erased" => \A g \in Generations : store'[Account(q)][g] = Nobody
  BY <1>1, <1>3 DEF Knows
<1> QED BY <1>2, <1>3, <1>4 DEF Knows, tables

\* The parts of the invariant after a step of one caller.
LEMMA CallerStep ==
  ASSUME AccountsInv, NEW p \in Callers, UNCHANGED <<mode, crashes>>,
         call' \in [Callers -> CallRecord], Only(p),
         \A q \in Callers : call'[q].at = "idle" <=> call'[q].account = Nobody,
         \A q \in Callers : Holds(q)',
         lifecycle' \in Callers \cup {Nobody},
         generation' \in [Accounts -> Callers \cup {Nobody}],
         turn \in {p, Nobody}, turn' \in {p, Nobody}, Placed(p)',
         DataOK', SecretsFollowRows', \A q \in Callers : Knows(q)'
  PROVE  AccountsInv'
<1>1. CallsOK'
  BY DEF AccountsInv, CallsOK
<1>2. \A q \in Callers : Placed(q)'
  BY OthersPlaced
<1> QED BY <1>1, <1>2 DEF AccountsInv, Sound

\* One secret of the file is replaced, or the write has failed.
LEMMA SecretPut ==
  ASSUME store \in [Accounts -> [Generations -> Secrets]],
         NEW a \in Accounts, NEW g \in Generations, NEW s \in Secrets,
         store' \in {store, WithSecret(a, g, s)}
  PROVE  /\ \A b \in Accounts : b # a => store'[b] = store[b]
         /\ \A n \in Generations : n # g => store'[a][n] = store[a][n]
         /\ store'[a][g] \in {store[a][g], s}
         /\ store' \in [Accounts -> [Generations -> Secrets]]
<1>1. CASE store' = store
  BY <1>1
<1>2. CASE store' = WithSecret(a, g, s)
  <2>1. store[a] \in [Generations -> Secrets]
    OBVIOUS
  <2>2. store' = [store EXCEPT ![a] = [store[a] EXCEPT ![g] = s]]
    BY <1>2 DEF WithSecret
  <2>3. [store[a] EXCEPT ![g] = s] \in [Generations -> Secrets]
    BY <2>1
  <2>4. store'[a] = [store[a] EXCEPT ![g] = s]
    BY <2>2
  <2>5. store' \in [Accounts -> [Generations -> Secrets]]
    BY <2>2, <2>3
  <2>6. \A b \in Accounts : b # a => store'[b] = store[b]
    BY <2>2
  <2> QED BY <2>1, <2>4, <2>5, <2>6
<1> QED BY <1>1, <1>2

------------------------------------------------------------------------------
(* upsertAuthenticated() *)

LEMMA SignInPutInv ==
  ASSUME AccountsInv, NEW p \in Callers, SignInPut(p)
  PROVE  AccountsInv'
<1>0. /\ Free /\ call[p].at = "gen" /\ p \in SignIns /\ ~Aborted(p) /\ ~SignInRefused(p)
      /\ UNCHANGED <<tables, mode, turn, crashes>>
  BY DEF SignInPut, InLanes, At
<1>1. /\ CallsOK /\ DataOK /\ SecretsFollowRows /\ turn = Nobody
      /\ Nobody \notin Callers /\ mode # "starting"
      /\ \A q \in Callers : Holds(q)
      /\ Account(p) \in Accounts
  BY <1>0, FreeCaller
<1>2. PICK a \in Accounts, g \in Nat : a = Account(p) /\ g = row[a].gen + 1
  BY <1>1 DEF DataOK, Row
<1>3. /\ g \in Generations /\ g \in Nat /\ row[a].gen \in Nat
      /\ \/ /\ store' = WithSecret(a, g, p) /\ UNCHANGED lanes
            /\ call' = [call EXCEPT ![p].at = "put", ![p].noted = g]
         \/ store' \in {store, WithSecret(a, g, p)} /\ Returns(p)
  <2>1. row[a].gen \in Nat
    BY <1>1 DEF DataOK, Row
  <2> QED BY <1>2, <2>1, BoundsAssumption DEF SignInPut, Written, WriteFails, Generations
<1>4. Admissible(a)
  <2>1. Cardinality(ActiveAccounts) \in Nat
    <3>1. ActiveAccounts \in SUBSET Accounts
      BY DEF ActiveAccounts
    <3>2. IsFiniteSet(ActiveAccounts)
      BY <3>1, AccountsAssumption, FS_Subset
    <3> QED BY <3>2, FS_CardinalityType
  <2> QED BY <2>1, <1>0, <1>2, BoundsAssumption DEF SignInRefused, InLanes, At, Admissible
<1>5. /\ \A b \in Accounts : b # a => store'[b] = store[b]
      /\ \A n \in Generations : n # g => store'[a][n] = store[a][n]
      /\ store' \in [Accounts -> [Generations -> Secrets]]
  BY <1>0, <1>1, <1>3, SecretPut DEF DataOK, Secrets
<1>6. DataOK'
  BY <1>0, <1>1, <1>5 DEF DataOK, tables
<1>7. SecretsFollowRows'
  <2>1. ActiveHasItsSecret'
    BY <1>0, <1>1, <1>2, <1>3, <1>5 DEF SecretsFollowRows, ActiveHasItsSecret, tables
  <2>2. RemovedIsErased'
    <3>1. \A n \in Generations : n <= row[a].gen => n # g
      BY <1>2, <1>3
    <3> QED BY <3>1, <1>0, <1>1, <1>5 DEF SecretsFollowRows, RemovedIsErased, tables
  <2>3. WithinCapacity'
    BY <1>0, <1>1 DEF SecretsFollowRows, WithinCapacity, ActiveAccounts, tables
  <2> QED BY <2>1, <2>2, <2>3 DEF SecretsFollowRows
<1>8. \A q \in Callers : Only(p) /\ q # p => Knows(q)'
  BY <1>0, <1>2, <1>3, <1>5, OthersKnow DEF tables, GenPoints
<1>9. CASE store' = WithSecret(a, g, p) /\ UNCHANGED lanes
           /\ call' = [call EXCEPT ![p].at = "put", ![p].noted = g]
  <2>1. /\ call'[p] = [call[p] EXCEPT !.at = "put", !.noted = g]
        /\ Only(p) /\ call[p] \in CallRecord
    BY <1>1, <1>9 DEF CallsOK, Only
  <2>2. call'[p] \in CallRecord /\ call'[p].at = "put" /\ Account(p)' = a /\ Noted(p)' = g
    BY <2>1, <1>2, <1>3 DEF CallRecord, Points, Account, Noted
  <2>3. call' \in [Callers -> CallRecord]
    BY <2>1, <2>2, <1>1, <1>9 DEF CallsOK, Only
  <2>4. \A q \in Callers : call'[q].at = "idle" <=> call'[q].account = Nobody
    <3>1. a # Nobody
      BY CallersAssumption
    <3>2. call'[p].at # "idle" /\ call'[p].account # Nobody
      BY <3>1, <2>2 DEF Account
    <3>3. ASSUME NEW q \in Callers, q # p PROVE call'[q].at = "idle" <=> call'[q].account = Nobody
      <4>1. call'[q] = call[q]
        BY <2>1, <3>3 DEF Only
      <4>2. call[q].at = "idle" <=> call[q].account = Nobody
        BY <1>1 DEF CallsOK
      <4> QED BY <4>1, <4>2
    <3> QED BY <3>2, <3>3
  <2>5. \A q \in Callers : Holds(q)'
    BY <1>0, <1>1, <1>2, <1>9, <2>1, <2>2, KeepsLanes DEF LifePoints, GenPoints
  <2>6. Placed(p)'
    BY <1>0, <1>1, <2>2, CallersAssumption DEF Placed
  <2>7. store'[a][g] = p
    BY <1>1, <1>3, <1>9 DEF DataOK, WithSecret
  <2>8. Knows(p)'
    <3>1. p \notin Refreshes
      BY <1>0, CallersAssumption
    <3>2. Admissible(a)'
      BY <1>0, <1>4 DEF Admissible, ActiveAccounts, tables
    <3> QED BY <3>1, <3>2, <2>2, <2>7, <1>0, <1>2, <1>3 DEF Knows, tables
  <2> QED BY <1>0, <1>1, <1>6, <1>7, <1>8, <1>9, <2>1, <2>3, <2>4, <2>5, <2>6, <2>8, CallerStep
          DEF CallsOK, lanes
<1>10. CASE Returns(p)
  <2>1. /\ call' \in [Callers -> CallRecord] /\ Only(p)
        /\ \A q \in Callers : call'[q].at = "idle" <=> call'[q].account = Nobody
        /\ call'[p].at = "idle"
    BY <1>1, <1>10, EndsCall DEF Returns
  <2>2. /\ \A q \in Callers : Holds(q)'
        /\ lifecycle' \in Callers \cup {Nobody}
        /\ generation' \in [Accounts -> Callers \cup {Nobody}]
    BY <1>1, <1>10, <2>1, LeavesLanes DEF Returns, LifePoints, GenPoints
  <2>3. Placed(p)' /\ Knows(p)'
    BY <2>1, <1>0, <1>1 DEF Placed, Knows
  <2> QED BY <1>0, <1>1, <1>6, <1>7, <1>8, <2>1, <2>2, <2>3, CallerStep
<1> QED BY <1>3, <1>9, <1>10

LEMMA SignInCommitInv ==
  ASSUME AccountsInv, NEW p \in Callers, SignInCommit(p)
  PROVE  AccountsInv'
<1>0. /\ Free /\ call[p].at = "put" /\ Goes(p, "committed") /\ turn' = p
      /\ UNCHANGED <<store, mode, lanes, crashes>>
  BY DEF SignInCommit, At
<1>1. /\ CallsOK /\ DataOK /\ SecretsFollowRows /\ turn = Nobody
      /\ Nobody \notin Callers /\ mode # "starting"
      /\ \A q \in Callers : Holds(q)
      /\ Placed(p) /\ Knows(p) /\ Account(p) \in Accounts
  BY <1>0, FreeCaller
<1>2. PICK a \in Accounts, g \in Generations :
        /\ a = Account(p) /\ g = Noted(p) /\ g = row[a].gen + 1 /\ store[a][g] = p
        /\ Admissible(a) /\ p \in SignIns
  BY <1>0, <1>1 DEF Knows, Placed
<1>3. /\ row' = [row EXCEPT ![a] = [state |-> "active", gen |-> g, rev |-> row[a].rev + 1]]
      /\ default' \in {default, a}
      /\ signedIn' = [signedIn EXCEPT ![a] = p]
  BY <1>2 DEF SignInCommit, Activated
<1>4. /\ row[a].gen \in Nat /\ row[a].rev \in Nat /\ g \in Nat /\ g <= MaxGeneration
  BY <1>1, BoundsAssumption DEF DataOK, Row, Generations
<1>5. /\ row'[a] = [state |-> "active", gen |-> g, rev |-> row[a].rev + 1]
      /\ signedIn'[a] = p
      /\ \A b \in Accounts : b # a => row'[b] = row[b] /\ signedIn'[b] = signedIn[b]
  BY <1>1, <1>3 DEF DataOK
<1>6. row'[a] \in Row /\ row'[a].state = "active" /\ row'[a].gen = g
  BY <1>4, <1>5 DEF Row, RowStates
<1>7. DataOK'
  <2>1. row' \in [Accounts -> Row] /\ \A b \in Accounts : row'[b].gen <= MaxGeneration
    BY <1>1, <1>3, <1>4, <1>5, <1>6 DEF DataOK
  <2> QED BY <2>1, <1>0, <1>1, <1>2, <1>3 DEF DataOK, Secrets
<1>8. SecretsFollowRows'
  <2>1. ActiveHasItsSecret'
    BY <1>0, <1>1, <1>2, <1>5, <1>6 DEF SecretsFollowRows, ActiveHasItsSecret
  <2>2. RemovedIsErased'
    BY <1>0, <1>1, <1>5, <1>6 DEF SecretsFollowRows, RemovedIsErased
  <2>3. WithinCapacity'
    <3>1. ActiveAccounts' = ActiveAccounts \cup {a}
      BY <1>5, <1>6 DEF ActiveAccounts
    <3>2. ActiveAccounts \in SUBSET Accounts
      BY DEF ActiveAccounts
    <3>3. IsFiniteSet(ActiveAccounts)
      BY <3>2, AccountsAssumption, FS_Subset
    <3>4. /\ Cardinality(ActiveAccounts) \in Nat
          /\ Cardinality(ActiveAccounts \cup {a}) =
               IF a \in ActiveAccounts THEN Cardinality(ActiveAccounts)
                                       ELSE Cardinality(ActiveAccounts) + 1
      BY <3>3, FS_CardinalityType, FS_AddElement
    <3>5. a \in ActiveAccounts <=> row[a].state = "active"
      BY DEF ActiveAccounts
    <3>6. Cardinality(ActiveAccounts) <= MaxAuthenticated
      BY <1>1 DEF SecretsFollowRows, WithinCapacity
    <3>7. Cardinality(ActiveAccounts') <= MaxAuthenticated
      BY <3>1, <3>4, <3>5, <3>6, <1>2, BoundsAssumption DEF Admissible
    <3> QED BY <3>7 DEF WithinCapacity
  <2> QED BY <2>1, <2>2, <2>3 DEF SecretsFollowRows
<1>9. /\ call' \in [Callers -> CallRecord] /\ Only(p)
      /\ \A q \in Callers : call'[q].at = "idle" <=> call'[q].account = Nobody
      /\ call'[p].at = "committed" /\ Account(p)' = Account(p) /\ Noted(p)' = Noted(p)
  BY <1>0, <1>1, GoesTo DEF Points
<1>10. \A q \in Callers : Holds(q)'
  BY <1>0, <1>1, <1>9, KeepsLanes DEF LifePoints, GenPoints
<1>11. Placed(p)'
  BY <1>0, <1>1, <1>2, <1>9, CallersAssumption DEF Placed
<1>12. Knows(p)'
  BY <1>2, <1>9, CallersAssumption DEF Knows
<1>13. ASSUME NEW q \in Callers, q # p PROVE Knows(q)'
  <2>1. lifecycle = p
    BY <1>0, <1>1, <1>2, CallersAssumption DEF Holds, LifePoints
  <2>2. row'[a].gen \in Nat /\ row'[a].gen >= row[a].gen
    BY <1>2, <1>4, <1>6
  <2> QED BY <2>1, <2>2, <1>0, <1>2, <1>5, <1>9, <1>13, OthersKnow DEF GenPoints
<1> QED BY <1>0, <1>1, <1>7, <1>8, <1>9, <1>10, <1>11, <1>12, <1>13, CallerStep DEF CallsOK, lanes

\* The prunes of a sign-in: after a failed transaction, after the activation, and
\* in a cleanup that is retried.
LEMMA SignInPrunesInv ==
  ASSUME AccountsInv, NEW p \in Callers,
         SignInRollback(p) \/ SignInPrune(p) \/ RetryCleanup(p)
  PROVE  AccountsInv'
<1>0. /\ store' \in {store, Pruned(row)} /\ UNCHANGED <<tables, mode, crashes>>
      /\ call[p].at \in {"put", "committed", "cleanup"}
      /\ turn \in {p, Nobody} /\ turn' = Nobody
  BY DEF SignInRollback, SignInPrune, RetryCleanup, Written, WriteFails, At, Free
<1>1. /\ CallsOK /\ \A q \in Callers : Holds(q)
      /\ Placed(p) /\ Knows(p) /\ Nobody \notin Callers
  BY CallersAssumption DEF AccountsInv, Sound
<1>2. p \in SignIns /\ p \notin Refreshes /\ mode # "starting"
  BY <1>0, <1>1, CallersAssumption DEF Placed
<1>3. lifecycle \in {p, Nobody}
  <2>1. CASE call[p].at \in {"put", "committed"}
    BY <2>1, <1>1, <1>2 DEF Holds, LifePoints
  <2>2. CASE RetryCleanup(p)
    BY <2>2 DEF RetryCleanup
  <2> QED BY <2>1, <2>2 DEF SignInRollback, SignInPrune, At
<1>4. ASSUME NEW q \in Callers, q # p, Only(p) PROVE Knows(q)'
  <2>1. call[q].at # "put" /\ call'[q] = call[q]
    BY <1>3, <1>4, OthersOutside DEF Only
  <2> QED BY <2>1, <1>0, PruneIsKnown
<1>5. DataOK' /\ SecretsFollowRows'
  BY <1>0, PrunedData
<1>6. CASE Leaves(p) /\ Ends(p)
  <2>1. /\ call' \in [Callers -> CallRecord] /\ Only(p)
        /\ \A q \in Callers : call'[q].at = "idle" <=> call'[q].account = Nobody
        /\ call'[p].at = "idle"
    BY <1>1, <1>6, EndsCall
  <2>2. /\ \A q \in Callers : Holds(q)'
        /\ lifecycle' \in Callers \cup {Nobody}
        /\ generation' \in [Accounts -> Callers \cup {Nobody}]
    BY <1>1, <1>6, <2>1, LeavesLanes DEF LifePoints, GenPoints
  <2>3. Placed(p)' /\ Knows(p)'
    BY <2>1, <1>0, <1>1 DEF Placed, Knows
  <2> QED BY <1>0, <1>4, <1>5, <2>1, <2>2, <2>3, CallerStep
<1>7. CASE Leaves(p) /\ Goes(p, "cleanup")
  <2>1. /\ call' \in [Callers -> CallRecord] /\ Only(p)
        /\ \A q \in Callers : call'[q].at = "idle" <=> call'[q].account = Nobody
        /\ call'[p].at = "cleanup"
    BY <1>0, <1>1, <1>7, GoesTo DEF Points
  <2>2. /\ \A q \in Callers : Holds(q)'
        /\ lifecycle' \in Callers \cup {Nobody}
        /\ generation' \in [Accounts -> Callers \cup {Nobody}]
    BY <1>1, <1>7, <2>1, LeavesLanes DEF LifePoints, GenPoints
  <2>3. Placed(p)' /\ Knows(p)'
    BY <2>1, <1>0, <1>1, <1>2 DEF Placed, Knows
  <2> QED BY <1>0, <1>4, <1>5, <2>1, <2>2, <2>3, CallerStep
<1>8. CASE UNCHANGED lanes /\ Ends(p) /\ call[p].at = "cleanup"
  <2>1. /\ call' \in [Callers -> CallRecord] /\ Only(p)
        /\ \A q \in Callers : call'[q].at = "idle" <=> call'[q].account = Nobody
        /\ call'[p].at = "idle"
    BY <1>1, <1>8, EndsCall
  <2>2. \A q \in Callers : Holds(q)'
    BY <1>1, <1>8, <2>1, KeepsLanes DEF LifePoints, GenPoints
  <2>3. Placed(p)' /\ Knows(p)'
    BY <2>1, <1>0, <1>1 DEF Placed, Knows
  <2> QED BY <1>0, <1>1, <1>4, <1>5, <1>8, <2>1, <2>2, <2>3, CallerStep DEF CallsOK, lanes
<1>9. CASE UNCHANGED <<lanes, call>> /\ call[p].at = "cleanup"
  <2>1. Only(p) /\ \A q \in Callers : call'[q] = call[q]
    BY <1>9 DEF Only
  <2>2. \A q \in Callers : Holds(q)'
    BY <1>1, <1>9 DEF Holds, Account, lanes
  <2>3. Placed(p)'
    BY <1>0, <1>1, <1>9 DEF Placed
  <2>4. Knows(p)'
    BY <1>0, <1>9, <2>1, PruneIsKnown
  <2> QED BY <1>0, <1>1, <1>4, <1>5, <1>9, <2>1, <2>2, <2>3, <2>4, CallerStep DEF CallsOK, lanes
<1>10. CASE SignInRollback(p)
  BY <1>6, <1>10 DEF SignInRollback, Returns
<1>11. CASE SignInPrune(p)
  BY <1>6, <1>7, <1>11 DEF SignInPrune
<1>12. CASE RetryCleanup(p)
  BY <1>8, <1>9, <1>12 DEF RetryCleanup, At
<1> QED BY <1>10, <1>11, <1>12

\* A caller that returns or throws after a write.
LEMMA ReturnsAfterWrite ==
  ASSUME AccountsInv, NEW p \in Callers, Returns(p), UNCHANGED <<mode, crashes>>,
         turn \in {p, Nobody}, turn' = Nobody,
         DataOK', SecretsFollowRows', \A q \in Callers : Only(p) /\ q # p => Knows(q)'
  PROVE  AccountsInv'
<1>1. CallsOK /\ (\A q \in Callers : Holds(q)) /\ Nobody \notin Callers
  BY CallersAssumption DEF AccountsInv, Sound
<1>2. /\ call' \in [Callers -> CallRecord] /\ Only(p)
      /\ \A q \in Callers : call'[q].at = "idle" <=> call'[q].account = Nobody
      /\ call'[p].at = "idle"
  BY <1>1, EndsCall DEF Returns
<1>3. /\ \A q \in Callers : Holds(q)'
      /\ lifecycle' \in Callers \cup {Nobody}
      /\ generation' \in [Accounts -> Callers \cup {Nobody}]
  BY <1>1, <1>2, LeavesLanes DEF Returns, LifePoints, GenPoints
<1>4. Placed(p)' /\ Knows(p)'
  BY <1>1, <1>2 DEF Placed, Knows
<1> QED BY <1>2, <1>3, <1>4, CallerStep

------------------------------------------------------------------------------
(* remove() *)

LEMMA RemoveBeginInv ==
  ASSUME AccountsInv, NEW p \in Callers, RemoveBegin(p)
  PROVE  AccountsInv'
<1>0. /\ Free /\ call[p].at = "gen" /\ p \in Removals /\ ~RemoveRefused(p)
      /\ Goes(p, "removing") /\ turn' = p
      /\ UNCHANGED <<signedIn, store, mode, lanes, crashes>>
  BY DEF RemoveBegin, InLanes, At
<1>1. /\ CallsOK /\ DataOK /\ SecretsFollowRows /\ turn = Nobody
      /\ Nobody \notin Callers /\ mode # "starting"
      /\ \A q \in Callers : Holds(q)
      /\ Account(p) \in Accounts
  BY <1>0, FreeCaller
<1>2. PICK a \in Accounts : a = Account(p)
  BY <1>1
<1>3. row[a].state \in {"active", "removing"} /\ row[a] \in Row
  <2>1. row[a] \in Row
    BY <1>1 DEF DataOK
  <2>2. row[a].state \notin {"absent", "removed"}
    BY <1>0, <1>2 DEF RemoveRefused, RemoveBegin
  <2> QED BY <2>1, <2>2 DEF Row, RowStates
<1>4. /\ row'[a] \in Row /\ row'[a].state = "removing" /\ row'[a].gen = row[a].gen
      /\ \A b \in Accounts : b # a => row'[b] = row[b]
      /\ row' \in [Accounts -> Row] /\ default' \in {default, Nobody}
  <2>1. CASE row[a].state = "active"
    <3>1. /\ row' = [row EXCEPT ![a].state = "removing", ![a].rev = @ + 1]
          /\ default' \in {default, Nobody}
      BY <1>2, <2>1 DEF RemoveBegin
    <3>2. row'[a] = [row[a] EXCEPT !.state = "removing", !.rev = @ + 1]
      BY <3>1, <1>1 DEF DataOK
    <3>3. row'[a] \in Row /\ row'[a].state = "removing" /\ row'[a].gen = row[a].gen
      <4>1. row[a].gen \in Nat /\ row[a].rev + 1 \in Nat
        BY <1>3 DEF Row
      <4>2. row'[a] = [state |-> "removing", gen |-> row[a].gen, rev |-> row[a].rev + 1]
        BY <3>2, <1>3 DEF Row
      <4> QED BY <4>1, <4>2 DEF Row, RowStates
    <3>4. /\ \A b \in Accounts : b # a => row'[b] = row[b]
          /\ row' \in [Accounts -> Row]
      BY <3>1, <3>2, <3>3, <1>1 DEF DataOK
    <3> QED BY <3>1, <3>3, <3>4
  <2>2. CASE row[a].state # "active"
    <3>1. UNCHANGED <<row, default>>
      BY <1>2, <2>2 DEF RemoveBegin
    <3> QED BY <3>1, <2>2, <1>1, <1>3 DEF DataOK
  <2> QED BY <2>1, <2>2
<1>5. DataOK'
  BY <1>0, <1>1, <1>4 DEF DataOK
<1>6. SecretsFollowRows'
  <2>1. ActiveHasItsSecret'
    BY <1>0, <1>1, <1>4 DEF SecretsFollowRows, ActiveHasItsSecret
  <2>2. RemovedIsErased'
    BY <1>0, <1>1, <1>4 DEF SecretsFollowRows, RemovedIsErased
  <2>3. WithinCapacity'
    <3>1. ActiveAccounts' \in SUBSET ActiveAccounts /\ ActiveAccounts \in SUBSET Accounts
      BY <1>4 DEF ActiveAccounts
    <3>2. IsFiniteSet(ActiveAccounts)
      BY <3>1, AccountsAssumption, FS_Subset
    <3>3. /\ IsFiniteSet(ActiveAccounts')
          /\ Cardinality(ActiveAccounts') <= Cardinality(ActiveAccounts)
      BY <3>1, <3>2, FS_Subset
    <3>4. Cardinality(ActiveAccounts) \in Nat /\ Cardinality(ActiveAccounts') \in Nat
      BY <3>2, <3>3, FS_CardinalityType
    <3>5. Cardinality(ActiveAccounts) <= MaxAuthenticated
      BY <1>1 DEF SecretsFollowRows, WithinCapacity
    <3>6. Cardinality(ActiveAccounts') <= MaxAuthenticated
      BY <3>3, <3>4, <3>5, BoundsAssumption
    <3> QED BY <3>6 DEF WithinCapacity
  <2> QED BY <2>1, <2>2, <2>3 DEF SecretsFollowRows
<1>7. /\ call' \in [Callers -> CallRecord] /\ Only(p)
      /\ \A q \in Callers : call'[q].at = "idle" <=> call'[q].account = Nobody
      /\ call'[p].at = "removing" /\ Account(p)' = Account(p) /\ Noted(p)' = Noted(p)
  BY <1>0, <1>1, GoesTo DEF Points
<1>8. \A q \in Callers : Holds(q)'
  BY <1>0, <1>1, <1>7, KeepsLanes DEF LifePoints, GenPoints
<1>9. Placed(p)'
  BY <1>0, <1>1, <1>7, CallersAssumption DEF Placed
<1>10. Knows(p)'
  BY <1>0, <1>2, <1>4, <1>7, CallersAssumption DEF Knows
<1>11. ASSUME NEW q \in Callers, q # p PROVE Knows(q)'
  <2>1. lifecycle = p
    BY <1>0, <1>1, CallersAssumption DEF Holds, LifePoints
  <2>2. row'[a].gen \in Nat /\ row'[a].gen >= row[a].gen
    BY <1>3, <1>4 DEF Row
  <2> QED BY <2>1, <2>2, <1>0, <1>2, <1>4, <1>7, <1>11, OthersKnow DEF GenPoints
<1> QED BY <1>0, <1>1, <1>5, <1>6, <1>7, <1>8, <1>9, <1>10, <1>11, CallerStep DEF CallsOK, lanes

\* The file without an account, or the write has failed.
LEMMA AccountErased ==
  ASSUME store \in [Accounts -> [Generations -> Secrets]],
         NEW a \in Accounts, store' \in {store, WithoutAccount(a)}
  PROVE  /\ \A b \in Accounts : b # a => store'[b] = store[b]
         /\ \A g \in Generations : store'[a][g] \in {store[a][g], Nobody}
         /\ store' = WithoutAccount(a) => \A g \in Generations : store'[a][g] = Nobody
         /\ store' \in [Accounts -> [Generations -> Secrets]]
<1>1. CASE store' = store
  <2>1. store' = WithoutAccount(a) => store'[a] = [g \in Generations |-> Nobody]
    BY DEF WithoutAccount
  <2> QED BY <1>1, <2>1
<1>2. CASE store' = WithoutAccount(a)
  <2>1. store'[a] = [g \in Generations |-> Nobody]
    BY <1>2 DEF WithoutAccount
  <2> QED BY <1>2, <2>1 DEF WithoutAccount, Secrets
<1> QED BY <1>1, <1>2

\* Erasing an account that is being removed takes no secret that is referred to.
LEMMA ErasedData ==
  ASSUME AccountsInv, NEW a \in Accounts, row[a].state = "removing",
         store' \in {store, WithoutAccount(a)}, UNCHANGED tables
  PROVE  DataOK' /\ SecretsFollowRows'
<1>0. DataOK /\ SecretsFollowRows
  BY DEF AccountsInv
<1>1. /\ \A b \in Accounts : b # a => store'[b] = store[b]
      /\ store' \in [Accounts -> [Generations -> Secrets]]
  BY <1>0, AccountErased DEF DataOK
<1>2. DataOK'
  BY <1>0, <1>1 DEF DataOK, tables
<1>3. ActiveHasItsSecret'
  BY <1>0, <1>1 DEF SecretsFollowRows, ActiveHasItsSecret, tables
<1>4. RemovedIsErased'
  BY <1>0, <1>1 DEF SecretsFollowRows, RemovedIsErased, tables
<1>5. WithinCapacity'
  BY <1>0 DEF SecretsFollowRows, WithinCapacity, ActiveAccounts, tables
<1> QED BY <1>2, <1>3, <1>4, <1>5 DEF SecretsFollowRows

LEMMA RemoveCredentialsInv ==
  ASSUME AccountsInv, NEW p \in Callers, RemoveCredentials(p)
  PROVE  AccountsInv'
<1>0. /\ turn = p /\ call[p].at = "removing" /\ turn' = Nobody
      /\ UNCHANGED <<tables, mode, crashes>>
  BY DEF RemoveCredentials
<1>1. /\ CallsOK /\ DataOK /\ Nobody \notin Callers
      /\ \A q \in Callers : Holds(q) /\ Placed(q) /\ Knows(q)
      /\ Account(p) \in Accounts
  <2>1. CallsOK /\ DataOK /\ \A q \in Callers : Holds(q) /\ Placed(q) /\ Knows(q)
    BY DEF AccountsInv, Sound
  <2>2. Account(p) \in Accounts
    BY <1>0, <2>1 DEF CallsOK, CallRecord, Account
  <2> QED BY <2>1, <2>2, CallersAssumption
<1>2. PICK a \in Accounts : a = Account(p) /\ row[a].state = "removing"
  BY <1>0, <1>1 DEF Knows
<1>3. /\ store' \in {store, WithoutAccount(a)}
      /\ \/ store' = WithoutAccount(a) /\ Goes(p, "erased") /\ UNCHANGED lanes
         \/ Returns(p)
  BY <1>2 DEF RemoveCredentials, Written, WriteFails
<1>4. /\ \A b \in Accounts : b # a => store'[b] = store[b]
      /\ store' = WithoutAccount(a) => \A g \in Generations : store'[a][g] = Nobody
  BY <1>1, <1>3, AccountErased DEF DataOK
<1>5. DataOK' /\ SecretsFollowRows'
  BY <1>0, <1>2, <1>3, ErasedData
<1>6. ASSUME NEW q \in Callers, q # p, Only(p) PROVE Knows(q)'
  <2>1. row[a].gen \in Nat
    BY <1>1 DEF DataOK, Row
  <2> QED BY <2>1, <1>0, <1>2, <1>4, <1>6, OthersKnow DEF tables, GenPoints
<1>7. CASE Returns(p)
  BY <1>0, <1>5, <1>6, <1>7, ReturnsAfterWrite
<1>8. CASE store' = WithoutAccount(a) /\ Goes(p, "erased") /\ UNCHANGED lanes
  <2>1. /\ call' \in [Callers -> CallRecord] /\ Only(p)
        /\ \A q \in Callers : call'[q].at = "idle" <=> call'[q].account = Nobody
        /\ call'[p].at = "erased" /\ Account(p)' = Account(p) /\ Noted(p)' = Noted(p)
    BY <1>0, <1>1, <1>8, GoesTo DEF Points
  <2>2. \A q \in Callers : Holds(q)'
    BY <1>0, <1>1, <1>8, <2>1, KeepsLanes DEF LifePoints, GenPoints
  <2>3. Placed(p)'
    BY <1>0, <1>1, <2>1, CallersAssumption DEF Placed
  <2>4. Knows(p)'
    <3>1. p \notin Refreshes
      BY <1>0, <1>1, CallersAssumption DEF Placed
    <3> QED BY <3>1, <1>0, <1>2, <1>4, <1>8, <2>1 DEF Knows, tables
  <2> QED BY <1>0, <1>1, <1>5, <1>6, <1>8, <2>1, <2>2, <2>3, <2>4, CallerStep DEF CallsOK, lanes
<1> QED BY <1>3, <1>7, <1>8

\* The row of an account whose secrets are gone becomes that of a removed one.
LEMMA RemovedData ==
  ASSUME AccountsInv, NEW a \in Accounts, row[a].state = "removing",
         \A g \in Generations : store[a][g] = Nobody,
         row' = Removed(a), UNCHANGED <<default, signedIn, store>>
  PROVE  /\ DataOK' /\ SecretsFollowRows'
         /\ row'[a].gen = row[a].gen /\ row[a].gen \in Nat
         /\ \A b \in Accounts : b # a => row'[b] = row[b]
<1>0. DataOK /\ SecretsFollowRows /\ row[a] \in Row
  BY DEF AccountsInv, DataOK
<1>1. row[a].gen \in Nat /\ row[a].rev + 1 \in Nat
  BY <1>0 DEF Row
<1>2. row'[a] = [state |-> "removed", gen |-> row[a].gen, rev |-> row[a].rev + 1]
  <2>1. row'[a] = [row[a] EXCEPT !.state = "removed", !.rev = @ + 1]
    BY <1>0 DEF DataOK, Removed
  <2> QED BY <2>1, <1>0 DEF Row
<1>3. row'[a] \in Row /\ row'[a].state = "removed" /\ row'[a].gen = row[a].gen
  BY <1>1, <1>2 DEF Row, RowStates
<1>4. /\ \A b \in Accounts : b # a => row'[b] = row[b]
      /\ row' \in [Accounts -> Row]
  BY <1>0, <1>3 DEF DataOK, Removed
<1>5. DataOK'
  BY <1>0, <1>3, <1>4 DEF DataOK
<1>6. ActiveHasItsSecret'
  BY <1>0, <1>3, <1>4 DEF SecretsFollowRows, ActiveHasItsSecret
<1>7. RemovedIsErased'
  BY <1>0, <1>3, <1>4 DEF SecretsFollowRows, RemovedIsErased
<1>8. WithinCapacity'
  <2>1. ActiveAccounts' = ActiveAccounts
    BY <1>3, <1>4 DEF ActiveAccounts
  <2> QED BY <2>1, <1>0 DEF SecretsFollowRows, WithinCapacity
<1> QED BY <1>1, <1>3, <1>4, <1>5, <1>6, <1>7, <1>8 DEF SecretsFollowRows

LEMMA RemoveFinishInv ==
  ASSUME AccountsInv, NEW p \in Callers, RemoveFinish(p)
  PROVE  AccountsInv'
<1>0. /\ Free /\ call[p].at = "erased" /\ Returns(p)
      /\ UNCHANGED <<default, signedIn, store, mode, turn, crashes>>
  BY DEF RemoveFinish, At
<1>1. /\ CallsOK /\ DataOK /\ SecretsFollowRows /\ turn = Nobody
      /\ Holds(p) /\ Placed(p) /\ Knows(p) /\ Account(p) \in Accounts
  BY <1>0, FreeCaller
<1>2. PICK a \in Accounts :
        /\ a = Account(p) /\ row[a].state = "removing"
        /\ \A g \in Generations : store[a][g] = Nobody
        /\ row' = Removed(a) \/ UNCHANGED row
  BY <1>0, <1>1 DEF Knows, RemoveFinish
<1>3. lifecycle = p
  BY <1>0, <1>1, CallersAssumption DEF Holds, Placed, LifePoints
<1>4. CASE UNCHANGED row
  BY <1>0, <1>1, <1>4, ReturnsQuietly DEF tables
<1>5. CASE row' = Removed(a)
  <2>1. /\ DataOK' /\ SecretsFollowRows'
        /\ row'[a].gen = row[a].gen /\ row[a].gen \in Nat
        /\ \A b \in Accounts : b # a => row'[b] = row[b]
    BY <1>0, <1>2, <1>5, RemovedData
  <2>2. ASSUME NEW q \in Callers, q # p, Only(p) PROVE Knows(q)'
    BY <1>0, <1>2, <1>3, <2>1, <2>2, OthersKnow DEF GenPoints
  <2> QED BY <1>0, <1>1, <2>1, <2>2, ReturnsAfterWrite
<1> QED BY <1>2, <1>4, <1>5

------------------------------------------------------------------------------
(* getValidToken() *)

\* The token goes to the generation that was read, while its account is still
\* there; if that generation is the account's, it is the secret signed in with.
LEMMA RefreshStoresInv ==
  ASSUME AccountsInv, NEW p \in Callers, RefreshStores(p)
  PROVE  AccountsInv'
<1>0. /\ Free /\ call[p].at = "network" /\ Returns(p)
      /\ UNCHANGED <<tables, mode, turn, crashes>>
  BY DEF RefreshStores, At
<1>1. /\ CallsOK /\ DataOK /\ SecretsFollowRows /\ turn = Nobody
      /\ Placed(p) /\ Knows(p) /\ Account(p) \in Accounts
  BY <1>0, FreeCaller
<1>2. PICK a \in Accounts, g \in Generations, s \in Secrets :
        /\ a = Account(p) /\ g = Noted(p) /\ s = call[p].secret
        /\ row[a].state # "removed"
        /\ row[a].state = "active" /\ row[a].gen = g => s = signedIn[a]
  <2>1. p \in Refreshes /\ call[p].secret \in Secrets
    BY <1>0, <1>1 DEF Placed, CallsOK, CallRecord
  <2> QED BY <2>1, <1>0, <1>1 DEF Knows
<1>3. store' \in {store, WithSecret(a, g, s)}
  BY <1>2 DEF RefreshStores, Written, WriteFails
<1>4. /\ \A b \in Accounts : b # a => store'[b] = store[b]
      /\ \A n \in Generations : n # g => store'[a][n] = store[a][n]
      /\ store'[a][g] \in {store[a][g], s}
      /\ store' \in [Accounts -> [Generations -> Secrets]]
  BY <1>1, <1>3, SecretPut DEF DataOK
<1>5. DataOK'
  BY <1>0, <1>1, <1>4 DEF DataOK, tables
<1>6. SecretsFollowRows'
  <2>1. ActiveHasItsSecret'
    BY <1>0, <1>1, <1>2, <1>4 DEF SecretsFollowRows, ActiveHasItsSecret, tables
  <2>2. RemovedIsErased'
    BY <1>0, <1>1, <1>2, <1>4 DEF SecretsFollowRows, RemovedIsErased, tables
  <2>3. WithinCapacity'
    BY <1>0, <1>1 DEF SecretsFollowRows, WithinCapacity, ActiveAccounts, tables
  <2> QED BY <2>1, <2>2, <2>3 DEF SecretsFollowRows
<1>7. ASSUME NEW q \in Callers, q # p, Only(p) PROVE Knows(q)'
  <2>1. row[a].gen \in Nat
    BY <1>1 DEF DataOK, Row
  <2> QED BY <2>1, <1>0, <1>2, <1>4, <1>7, OthersKnow DEF tables, GenPoints
<1> QED BY <1>0, <1>1, <1>5, <1>6, <1>7, ReturnsAfterWrite

------------------------------------------------------------------------------
(* Crash, and reconcile() at the next start *)

\* Of a call nothing is left after a crash.
LEMMA CrashInv ==
  ASSUME AccountsInv, Crash
  PROVE  AccountsInv'
<1>0. /\ NoCall \in CallRecord /\ NoCall.at = "idle" /\ NoCall.account = Nobody
      /\ Nobody \notin Callers
  BY CallersAssumption DEF NoCall, CallRecord, Points, Secrets
<1>1. DataOK' /\ SecretsFollowRows'
  BY DEF AccountsInv, DataOK, Crash, tables, SecretsFollowRows, ActiveHasItsSecret,
         RemovedIsErased, WithinCapacity, ActiveAccounts
<1>2. call' \in [Callers -> CallRecord] /\ \A p \in Callers : call'[p] = NoCall
  BY <1>0 DEF Crash
<1>3. CallsOK'
  <2>1. crashes' \in 0..MaxCrashes
    BY BoundsAssumption DEF AccountsInv, CallsOK, Crash
  <2> QED BY <2>1, <1>0, <1>2 DEF Crash, CallsOK
<1>4. \A p \in Callers : Sound(p)'
  BY <1>0, <1>2 DEF Crash, Sound, Holds, Placed, Knows, LifePoints, GenPoints
<1> QED BY <1>1, <1>3, <1>4 DEF AccountsInv

\* Nobody is in a call while the process starts.
LEMMA StartStep ==
  ASSUME AccountsInv, mode = "starting", mode' \in {"starting", "serving"},
         UNCHANGED <<call, lanes, turn, crashes>>, DataOK', SecretsFollowRows'
  PROVE  AccountsInv'
<1>1. CallsOK'
  BY DEF AccountsInv, CallsOK, lanes
<1>2. ASSUME NEW p \in Callers PROVE Sound(p)'
  <2>1. Holds(p) /\ Placed(p) /\ call[p].at = "idle"
    BY DEF AccountsInv, Sound, Placed
  <2>2. Holds(p)'
    BY <2>1 DEF Holds, Account, lanes
  <2>3. Placed(p)' /\ Knows(p)'
    BY <2>1 DEF Placed, Knows
  <2> QED BY <2>2, <2>3 DEF Sound
<1> QED BY <1>1, <1>2 DEF AccountsInv

LEMMA ReconcileInv ==
  ASSUME AccountsInv, Reconcile
  PROVE  AccountsInv'
<1>1. CASE ReconcilePrune
  BY <1>1, PrunedData, StartStep DEF ReconcilePrune, Written
<1>2. ASSUME NEW a \in Accounts, ReconcileCredentials(a) PROVE AccountsInv'
  BY <1>2, ErasedData, StartStep DEF ReconcileCredentials, Written
<1>3. ASSUME NEW a \in Accounts, ReconcileRow(a) PROVE AccountsInv'
  <2>1. \A g \in Generations : store[a][g] = Nobody
    BY <1>3 DEF ReconcileRow
  <2> QED BY <2>1, <1>3, RemovedData, StartStep DEF ReconcileRow
<1> QED BY <1>1, <1>2, <1>3 DEF Reconcile

------------------------------------------------------------------------------
(* use() changes the preference and nothing else. *)

LEMMA UseInv ==
  ASSUME AccountsInv, NEW a \in Accounts, Use(a)
  PROVE  AccountsInv'
<1>1. DataOK' /\ CallsOK'
  BY DEF AccountsInv, DataOK, CallsOK, Use, lanes
<1>2. SecretsFollowRows'
  BY DEF AccountsInv, Use, SecretsFollowRows, ActiveHasItsSecret, RemovedIsErased,
         WithinCapacity, ActiveAccounts
<1>3. \A p \in Callers : Sound(p)'
  BY DEF AccountsInv, Use, lanes, Sound, Holds, Placed, Knows, Account, Noted, Admissible,
         ActiveAccounts
<1> QED BY <1>1, <1>2, <1>3 DEF AccountsInv

------------------------------------------------------------------------------
(* The specification. *)

LEMMA InitInv == Init => AccountsInv
<1> SUFFICES ASSUME Init PROVE AccountsInv
  OBVIOUS
<1>0. /\ NoCall \in CallRecord /\ NoCall.at = "idle" /\ NoCall.account = Nobody
      /\ Nobody \notin Callers
  BY CallersAssumption DEF NoCall, CallRecord, Points, Secrets
<1>1. DataOK
  BY BoundsAssumption DEF Init, DataOK, Row, RowStates, Secrets
<1>2. call \in [Callers -> CallRecord] /\ \A p \in Callers : call[p] = NoCall
  BY <1>0 DEF Init
<1>3. CallsOK
  BY <1>0, <1>2, BoundsAssumption DEF Init, CallsOK
<1>4. SecretsFollowRows
  <2>1. ActiveAccounts = {}
    BY DEF Init, ActiveAccounts
  <2>2. WithinCapacity
    BY <2>1, FS_EmptySet, BoundsAssumption DEF WithinCapacity
  <2> QED BY <2>2 DEF Init, SecretsFollowRows, ActiveHasItsSecret, RemovedIsErased
<1>5. \A p \in Callers : Sound(p)
  BY <1>0, <1>2 DEF Init, Sound, Holds, Placed, Knows, LifePoints, GenPoints
<1> QED BY <1>1, <1>3, <1>4, <1>5 DEF AccountsInv

LEMMA NextInv == AccountsInv /\ [Next]_vars => AccountsInv'
<1> SUFFICES ASSUME AccountsInv, [Next]_vars PROVE AccountsInv'
  OBVIOUS
<1>1. ASSUME NEW p \in Callers, SignInStep(p) PROVE AccountsInv'
  <2>1. CASE SignInThrows(p) \/ SignInAborted(p)
    <3>1. /\ Returns(p) /\ turn = Nobody
          /\ UNCHANGED <<tables, store, mode, turn, crashes>>
      BY <2>1 DEF SignInThrows, SignInRefused, InLanes, SignInAborted, At, Free
    <3> QED BY <3>1, ReturnsQuietly
  <2>2. CASE SignInPut(p)
    BY <2>2, SignInPutInv
  <2>3. CASE SignInCommit(p)
    BY <2>3, SignInCommitInv
  <2>4. CASE SignInRollback(p) \/ SignInPrune(p) \/ RetryCleanup(p)
    BY <2>4, SignInPrunesInv
  <2> QED BY <1>1, <2>1, <2>2, <2>3, <2>4 DEF SignInStep
<1>2. ASSUME NEW p \in Callers, RemoveStep(p) PROVE AccountsInv'
  <2>1. CASE RemoveThrows(p)
    <3>1. /\ Returns(p) /\ turn = Nobody
          /\ UNCHANGED <<tables, store, mode, turn, crashes>>
      BY <2>1 DEF RemoveThrows, RemoveRefused, InLanes, At, Free
    <3> QED BY <3>1, ReturnsQuietly
  <2> QED BY <1>2, <2>1, RemoveBeginInv, RemoveCredentialsInv, RemoveFinishInv DEF RemoveStep
<1>3. ASSUME NEW p \in Callers, RefreshStep(p) PROVE AccountsInv'
  BY <1>3, RefreshWaitsInv, RefreshStoresInv DEF RefreshStep
<1>4. ASSUME NEW p \in Callers, LaneStep(p) PROVE AccountsInv'
  <2>1. CASE AbortedAtTheLanes(p)
    <3>1. /\ Returns(p) /\ turn = Nobody
          /\ UNCHANGED <<tables, store, mode, turn, crashes>>
      BY <2>1 DEF AbortedAtTheLanes, At, Free
    <3> QED BY <3>1, ReturnsQuietly
  <2> QED BY <1>4, <2>1, EnterLifecycleInv, EnterGenerationInv DEF LaneStep
<1>5. CASE UNCHANGED vars
  <2>1. DataOK' /\ CallsOK'
    BY <1>5 DEF AccountsInv, DataOK, CallsOK, vars, tables, lanes
  <2>2. SecretsFollowRows'
    BY <1>5 DEF AccountsInv, vars, tables, SecretsFollowRows, ActiveHasItsSecret,
       RemovedIsErased, WithinCapacity, ActiveAccounts
  <2>3. \A p \in Callers : Sound(p)'
    BY <1>5, SMTT(30) DEF AccountsInv, vars, tables, lanes, Sound, Holds, Placed, Knows, Account,
       Noted, Admissible, ActiveAccounts
  <2> QED BY <2>1, <2>2, <2>3 DEF AccountsInv
<1> QED BY <1>1, <1>2, <1>3, <1>4, <1>5, AbortInv, CallInv, UseInv, ReconcileInv, CrashInv
        DEF Next

\* Whatever the callers, crashes and failed writes: the lanes, the turn and what
\* each caller has noted are as AccountsInv says, so upsertAuthenticated(),
\* remove() and getValidToken() act on what is still so after their awaits.
THEOREM AccountsCorrect == Spec => []AccountsInv
BY InitInv, NextInv, PTL DEF Spec

\* An active account finds in credentials.json the secret it was activated with,
\* a removed one has left none there, and sign-ins side by side do not get past
\* accounts.maxAuthenticated.
THEOREM SecretsSafe == Spec => []SecretsFollowRows
<1>1. AccountsInv => SecretsFollowRows
  BY DEF AccountsInv
<1> QED BY <1>1, AccountsCorrect, PTL

\* Every variable keeps its type, and only callers in a call hold lanes.
THEOREM AccountsTyped == Spec => []TypeOK
BY InvTypeOK, AccountsCorrect, PTL

------------------------------------------------------------------------------
(* The preferred model of an account: what is cached, seen and in the lane. *)

Snapshots == [generation : Nat, credential : Nat, models : SUBSET Models]
Mutations == {"refresh", "set"}
Working == {"load", "fetching", "rebind"}

IsRequest(r) ==
  r = [at |-> r.at, kind |-> r.kind, model |-> r.model, credential |-> r.credential,
       observed |-> r.observed, seen |-> r.seen, fetch |-> r.fetch]

\* Who has a place in the lane.
HasPlace(r) == r.at \in {"waiting", "gaveup"} \/ (r.kind \in Mutations /\ r.at \in Working)

PreferenceTypes ==
  /\ listing \in SUBSET Models /\ holder.credential \in Nat
  /\ cached = [generation |-> cached.generation, credential |-> cached.credential, entry |-> cached.entry]
  /\ cached.generation \in Nat /\ cached.credential \in Nat /\ cached.entry \in Snapshots \cup {Unset}
  /\ fetches \in SUBSET [generation : Nat, credential : Nat]
  /\ preference # Unset => preference = [model |-> preference.model, valid |-> preference.valid, revision |-> preference.revision]
  /\ operation = [o \in Operations |-> operation[o]]
  /\ \A o \in Operations : IsRequest(operation[o]) /\ operation[o].credential \in Nat

\* What is under way, cached and seen was asked for no later than now; the entry
\* is what a current catalogue says, and while a current one is fetched there is none.
Dated(x) == x.generation <= cached.generation /\ x.credential <= cached.credential

CacheIsSound ==
  /\ cached.entry # Unset => cached.entry.generation = cached.generation /\ cached.entry.credential <= cached.credential
  /\ \A f \in fetches : /\ Dated(f)
                        /\ IsCurrent(f) => cached.entry = Unset \/ cached.entry.credential # cached.credential

SeenIsDated(r) ==
  r.at = "rebind" => /\ r.seen \in Snapshots /\ Dated(r.seen)
                     /\ IsCurrent(r.seen) => cached.entry = r.seen

\* The lane holds those who wait, work or gave up waiting, once each; whoever
\* works has only those ahead who gave up.
LaneIsSound ==
  /\ lane \in Seq(Operations) /\ IsInjective(lane)
  /\ \A o \in Operations : /\ o \in ToSet(lane) <=> HasPlace(operation[o])
                           /\ operation[o].at = "waiting" => operation[o].kind \in Mutations
  /\ \A i, j \in 1..Len(lane) : j < i /\ operation[lane[i]].at \in Working => operation[lane[j]].at = "gaveup"

PreferenceInv ==
  PreferenceTypes /\ CacheIsSound /\ (\A o \in Operations : SeenIsDated(operation[o])) /\ LaneIsSound

------------------------------------------------------------------------------
LEMMA FieldChanges ==
  ASSUME NEW r, IsRequest(r), NEW x
  PROVE  /\ IsRequest([r EXCEPT !.at = x]) /\ IsRequest([r EXCEPT !.kind = x]) /\ IsRequest([r EXCEPT !.model = x])
         /\ IsRequest([r EXCEPT !.credential = x]) /\ IsRequest([r EXCEPT !.observed = x])
         /\ IsRequest([r EXCEPT !.seen = x]) /\ IsRequest([r EXCEPT !.fetch = x])
BY DEF IsRequest

\* The changes of a request that the actions make.
MovedTo(r, x) == [r EXCEPT !.at = x]
Fetching(r, x, y) == [r EXCEPT !.fetch = y, !.at = x]
Sees(r, x, y) == [r EXCEPT !.seen = y, !.at = x]
Answered(r, x, y, z) == [r EXCEPT !.fetch = z, !.seen = y, !.at = x]
Bound(r, x, y) == [r EXCEPT !.at = x, !.credential = y]
Observing(r, x, y, z) == [r EXCEPT !.at = x, !.credential = y, !.observed = z]
Reconciling(c, b) == [IdleOperation EXCEPT !.at = "load", !.kind = "reconcile", !.credential = c, !.observed = b]
Choose(c, m) == [IdleOperation EXCEPT !.at = "load", !.kind = "choose", !.model = m, !.credential = c]
Mutation(k, m, b) == [IdleOperation EXCEPT !.at = "waiting", !.kind = k, !.model = m, !.observed = b]

LEMMA RequestAt ==
  ASSUME NEW r, IsRequest(r), NEW x
  PROVE  IsRequest(MovedTo(r, x)) /\ MovedTo(r, x).at = x /\ MovedTo(r, x).kind = r.kind /\ MovedTo(r, x).credential = r.credential /\ MovedTo(r, x).seen = r.seen
<1> DEFINE n == [r EXCEPT !.at = x]
<1>3. IsRequest(n)
  BY FieldChanges
<1>4. n.at = x /\ n.kind = r.kind /\ n.credential = r.credential /\ n.seen = r.seen
  BY DEF IsRequest
<1> QED BY <1>3, <1>4 DEF MovedTo

LEMMA RequestFetches ==
  ASSUME NEW r, IsRequest(r), NEW x, NEW y
  PROVE  IsRequest(Fetching(r, x, y)) /\ Fetching(r, x, y).at = x /\ Fetching(r, x, y).kind = r.kind /\ Fetching(r, x, y).credential = r.credential
<1> DEFINE n == [r EXCEPT !.fetch = y, !.at = x]
<1>2. n = [[r EXCEPT !.fetch = y] EXCEPT !.at = x]
  OBVIOUS
<1>3. IsRequest(n)
  BY <1>2, FieldChanges
<1>4. n.at = x /\ n.kind = r.kind /\ n.credential = r.credential
  BY DEF IsRequest
<1> QED BY <1>3, <1>4 DEF Fetching

LEMMA RequestSees ==
  ASSUME NEW r, IsRequest(r), NEW x, NEW y
  PROVE  IsRequest(Sees(r, x, y)) /\ Sees(r, x, y).at = x /\ Sees(r, x, y).kind = r.kind /\ Sees(r, x, y).credential = r.credential /\ Sees(r, x, y).seen = y
<1> DEFINE n == [r EXCEPT !.seen = y, !.at = x]
<1>2. n = [[r EXCEPT !.seen = y] EXCEPT !.at = x]
  OBVIOUS
<1>3. IsRequest(n)
  BY <1>2, FieldChanges
<1>4. n.at = x /\ n.kind = r.kind /\ n.credential = r.credential /\ n.seen = y
  BY DEF IsRequest
<1> QED BY <1>3, <1>4 DEF Sees

LEMMA RequestFetched ==
  ASSUME NEW r, IsRequest(r), NEW x, NEW y, NEW z
  PROVE  IsRequest(Answered(r, x, y, z)) /\ Answered(r, x, y, z).at = x /\ Answered(r, x, y, z).kind = r.kind /\ Answered(r, x, y, z).credential = r.credential /\ Answered(r, x, y, z).seen = y
<1> DEFINE n == [r EXCEPT !.fetch = z, !.seen = y, !.at = x]
<1>2. n = [[[r EXCEPT !.fetch = z] EXCEPT !.seen = y] EXCEPT !.at = x]
  OBVIOUS
<1>3. IsRequest(n)
  BY <1>2, FieldChanges
<1>4. n.at = x /\ n.kind = r.kind /\ n.credential = r.credential /\ n.seen = y
  BY DEF IsRequest
<1> QED BY <1>3, <1>4 DEF Answered

LEMMA RequestBinds ==
  ASSUME NEW r, IsRequest(r), NEW x, NEW y
  PROVE  IsRequest(Bound(r, x, y)) /\ Bound(r, x, y).at = x /\ Bound(r, x, y).kind = r.kind /\ Bound(r, x, y).credential = y
<1> DEFINE n == [r EXCEPT !.at = x, !.credential = y]
<1>2. n = [[r EXCEPT !.at = x] EXCEPT !.credential = y]
  OBVIOUS
<1>3. IsRequest(n)
  BY <1>2, FieldChanges
<1>4. n.at = x /\ n.kind = r.kind /\ n.credential = y
  BY DEF IsRequest
<1> QED BY <1>3, <1>4 DEF Bound

LEMMA RequestObserves ==
  ASSUME NEW r, IsRequest(r), NEW x, NEW y, NEW z
  PROVE  IsRequest(Observing(r, x, y, z)) /\ Observing(r, x, y, z).at = x /\ Observing(r, x, y, z).kind = r.kind /\ Observing(r, x, y, z).credential = y
<1> DEFINE n == [r EXCEPT !.at = x, !.credential = y, !.observed = z]
<1>2. n = [[[r EXCEPT !.at = x] EXCEPT !.credential = y] EXCEPT !.observed = z]
  OBVIOUS
<1>3. IsRequest(n)
  BY <1>2, FieldChanges
<1>4. n.at = x /\ n.kind = r.kind /\ n.credential = y
  BY DEF IsRequest
<1> QED BY <1>3, <1>4 DEF Observing

LEMMA IdleRequest ==
  /\ IsRequest(IdleOperation) /\ IdleOperation.at = "idle" /\ IdleOperation.credential \in Nat
  /\ LET n == [IdleOperation EXCEPT !.at = "gaveup"]
     IN  IsRequest(n) /\ n.at = "gaveup" /\ n.credential \in Nat
<1>1. IsRequest(IdleOperation) /\ IdleOperation.at = "idle" /\ IdleOperation.credential \in Nat
  BY DEF IsRequest, IdleOperation
<1>2. LET n == [IdleOperation EXCEPT !.at = "gaveup"]
      IN  IsRequest(n) /\ n.at = "gaveup" /\ n.credential \in Nat
  BY DEF IsRequest, IdleOperation
<1> QED BY <1>1, <1>2

LEMMA ReconcileRequest ==
  ASSUME NEW c, NEW b
  PROVE  IsRequest(Reconciling(c, b)) /\ Reconciling(c, b).at = "load" /\ Reconciling(c, b).kind = "reconcile" /\ Reconciling(c, b).credential = c
<1> DEFINE n == [IdleOperation EXCEPT !.at = "load", !.kind = "reconcile", !.credential = c, !.observed = b]
<1>1. IsRequest(IdleOperation)
  BY IdleRequest
<1>2. n = [[[[IdleOperation EXCEPT !.at = "load"] EXCEPT !.kind = "reconcile"] EXCEPT !.credential = c] EXCEPT !.observed = b]
  OBVIOUS
<1>3. IsRequest(n)
  BY <1>1, <1>2, FieldChanges
<1>4. n.at = "load" /\ n.kind = "reconcile" /\ n.credential = c
  BY DEF IdleOperation
<1> QED BY <1>3, <1>4 DEF Reconciling

LEMMA ChooseRequest ==
  ASSUME NEW c, NEW m
  PROVE  IsRequest(Choose(c, m)) /\ Choose(c, m).at = "load" /\ Choose(c, m).kind = "choose" /\ Choose(c, m).credential = c
<1> DEFINE n == [IdleOperation EXCEPT !.at = "load", !.kind = "choose", !.model = m, !.credential = c]
<1>1. IsRequest(IdleOperation)
  BY IdleRequest
<1>2. n = [[[[IdleOperation EXCEPT !.at = "load"] EXCEPT !.kind = "choose"] EXCEPT !.model = m] EXCEPT !.credential = c]
  OBVIOUS
<1>3. IsRequest(n)
  BY <1>1, <1>2, FieldChanges
<1>4. n.at = "load" /\ n.kind = "choose" /\ n.credential = c
  BY DEF IdleOperation
<1> QED BY <1>3, <1>4 DEF Choose

LEMMA MutationRequest ==
  ASSUME NEW k, NEW m, NEW b
  PROVE  IsRequest(Mutation(k, m, b)) /\ Mutation(k, m, b).at = "waiting" /\ Mutation(k, m, b).kind = k /\ Mutation(k, m, b).credential = 0
<1> DEFINE n == [IdleOperation EXCEPT !.at = "waiting", !.kind = k, !.model = m, !.observed = b]
<1>1. IsRequest(IdleOperation)
  BY IdleRequest
<1>2. n = [[[[IdleOperation EXCEPT !.at = "waiting"] EXCEPT !.kind = k] EXCEPT !.model = m] EXCEPT !.observed = b]
  OBVIOUS
<1>3. IsRequest(n)
  BY <1>1, <1>2, FieldChanges
<1>4. n.at = "waiting" /\ n.kind = k /\ n.credential = 0
  BY DEF IdleOperation
<1> QED BY <1>3, <1>4 DEF Mutation

\* One operation goes on.
LEMMA OperationGoes ==
  ASSUME PreferenceTypes, NEW o \in Operations, NEW r, IsRequest(r), r.credential \in Nat, Advance(o, r)
  PROVE  /\ operation' = [p \in Operations |-> operation'[p]]
         /\ \A p \in Operations : IsRequest(operation'[p]) /\ operation'[p].credential \in Nat
         /\ operation'[o] = r /\ \A p \in Operations \ {o} : operation'[p] = operation[p]
<1>1. operation' = [p \in Operations |-> IF p = o THEN r ELSE operation[p]]
  BY DEF Advance, PreferenceTypes
<1> QED BY <1>1 DEF PreferenceTypes

------------------------------------------------------------------------------
(* The cache. *)

\* No catalogue comes or is seen.
LEMMA CacheStays ==
  ASSUME CacheIsSound, \A p \in Operations : SeenIsDated(operation[p]), cached' = cached, fetches' \subseteq fetches,
         \A p \in Operations : operation'[p] = operation[p] \/ operation'[p].at # "rebind"
  PROVE  CacheIsSound' /\ \A p \in Operations : SeenIsDated(operation[p])'
<1>1. CacheIsSound'
  BY DEF CacheIsSound, Dated, IsCurrent
<1>2. ASSUME NEW p \in Operations PROVE SeenIsDated(operation[p])'
  <2>1. CASE operation'[p] = operation[p]
    BY <2>1 DEF SeenIsDated, Dated, IsCurrent
  <2>2. CASE operation'[p].at # "rebind"
    BY <2>2 DEF SeenIsDated
  <2> QED BY <2>1, <2>2
<1> QED BY <1>1, <1>2

\* The catalogues are invalidated.
LEMMA CacheInvalidated ==
  ASSUME PreferenceTypes, CacheIsSound, \A p \in Operations : SeenIsDated(operation[p]),
         cached' = [cached EXCEPT !.generation = @ + 1, !.entry = Unset], fetches' = fetches,
         \A p \in Operations : operation'[p] = operation[p] \/ operation'[p].at # "rebind"
  PROVE  /\ cached' = [generation |-> cached'.generation, credential |-> cached'.credential, entry |-> cached'.entry]
         /\ cached'.generation \in Nat /\ cached'.credential \in Nat /\ cached'.entry \in Snapshots \cup {Unset}
         /\ CacheIsSound' /\ \A p \in Operations : SeenIsDated(operation[p])'
<1>1. cached' = [generation |-> cached.generation + 1, credential |-> cached.credential, entry |-> Unset]
  BY DEF PreferenceTypes
<1>2. /\ cached'.generation = cached.generation + 1 /\ cached'.credential = cached.credential /\ cached'.entry = Unset
      /\ cached.generation \in Nat /\ cached.credential \in Nat /\ cached'.generation \in Nat
  BY <1>1 DEF PreferenceTypes
<1>3. ASSUME NEW x, x.generation \in Nat, Dated(x) PROVE Dated(x)' /\ ~IsCurrent(x)'
  BY <1>2, <1>3 DEF Dated, IsCurrent
<1>4. \A f \in fetches : f.generation \in Nat
  BY DEF PreferenceTypes
<1>5. CacheIsSound'
  BY <1>2, <1>3, <1>4 DEF CacheIsSound
<1>6. ASSUME NEW p \in Operations PROVE SeenIsDated(operation[p])'
  <2>1. CASE operation'[p] = operation[p]
    <3>1. ASSUME operation[p].at = "rebind"
          PROVE  operation[p].seen \in Snapshots /\ Dated(operation[p].seen) /\ operation[p].seen.generation \in Nat
      BY <3>1 DEF SeenIsDated, Snapshots
    <3> QED BY <1>3, <2>1, <3>1 DEF SeenIsDated
  <2>2. CASE operation'[p].at # "rebind"
    BY <2>2 DEF SeenIsDated
  <2> QED BY <2>1, <2>2
<1> QED BY <1>1, <1>2, <1>5, <1>6

------------------------------------------------------------------------------
(* The lane. *)

LEMMA LaneStays ==
  ASSUME LaneIsSound, lane' = lane,
         \A p \in Operations : /\ HasPlace(operation'[p]) <=> HasPlace(operation[p])
                               /\ operation'[p].at = "waiting" => operation'[p].kind \in Mutations
                               /\ operation[p].at = "gaveup" => operation'[p].at = "gaveup",
         \A i, j \in 1..Len(lane) : j < i /\ operation'[lane[i]].at \in Working /\ operation[lane[i]].at \notin Working
                                      => operation[lane[j]].at = "gaveup"
  PROVE  LaneIsSound'
<1>1. \A i \in 1..Len(lane) : lane[i] \in Operations
  BY ElementOfSeq DEF LaneIsSound
<1>2. ASSUME NEW i \in 1..Len(lane), NEW j \in 1..Len(lane), j < i, operation'[lane[i]].at \in Working
      PROVE  operation'[lane[j]].at = "gaveup"
  <2>1. operation[lane[j]].at = "gaveup"
    BY <1>2 DEF LaneIsSound
  <2> QED BY <1>1, <2>1
<1>3. lane \in Seq(Operations) /\ IsInjective(lane)
  BY DEF LaneIsSound
<1>4. \A p \in Operations : p \in ToSet(lane) <=> HasPlace(operation'[p])
  BY DEF LaneIsSound
<1> QED BY <1>2, <1>3, <1>4 DEF LaneIsSound

\* A place is left: those behind it move up.
LEMMA LaneMovesUp ==
  ASSUME LaneIsSound, NEW k \in 1..Len(lane), lane' = RemoveAt(lane, k),
         ~HasPlace(operation'[lane[k]]), operation'[lane[k]].at # "waiting",
         \A p \in Operations \ {lane[k]} : operation'[p] = operation[p]
  PROVE  LaneIsSound'
<1>1. /\ lane' \in Seq(Operations) /\ ToSet(lane') = ToSet(lane) \ {lane[k]} /\ IsInjective(lane') /\ Len(lane') = Len(lane) - 1
      /\ lane \in Seq(Operations) /\ IsInjective(lane)
  BY RemoveAtQueue DEF LaneIsSound
<1>2. \A j \in 1..(Len(lane) - 1) : lane'[j] = IF j < k THEN lane[j] ELSE lane[j+1]
  BY <1>1, RemoveAtPlace
<1>3. Len(lane) \in Nat /\ k \in Int
  BY <1>1, LenProperties
<1> DEFINE old(j) == IF j < k THEN j ELSE j + 1
<1>4. ASSUME NEW j \in 1..Len(lane') PROVE old(j) \in 1..Len(lane) /\ old(j) # k /\ lane'[j] = lane[old(j)]
  <2>1. j \in 1..(Len(lane) - 1) /\ j \in Int
    BY <1>1
  <2>2. lane'[j] = lane[old(j)]
    BY <1>2, <2>1
  <2>3. old(j) \in 1..Len(lane) /\ old(j) # k
    BY <1>3, <2>1
  <2> QED BY <2>2, <2>3
<1>5. \A i, j \in 1..Len(lane') : j < i => old(j) < old(i)
  <2>1. ASSUME NEW i \in Int, NEW j \in Int, j < i PROVE old(j) < old(i)
    BY <1>3, <2>1
  <2> QED BY <2>1
<1> HIDE DEF old
<1>6. ASSUME NEW i \in 1..Len(lane') PROVE operation'[lane'[i]] = operation[lane[old(i)]]
  <2>1. lane[old(i)] # lane[k] /\ lane[old(i)] \in Operations
    <3>1. old(i) \in DOMAIN lane /\ k \in DOMAIN lane /\ lane[old(i)] \in Operations
      BY <1>1, <1>4, LenProperties, ElementOfSeq
    <3> QED BY <1>1, <1>4, <3>1 DEF IsInjective
  <2> QED BY <1>4, <2>1
<1>7. ASSUME NEW i \in 1..Len(lane'), NEW j \in 1..Len(lane'), j < i, operation'[lane'[i]].at \in Working
      PROVE  operation'[lane'[j]].at = "gaveup"
  BY <1>4, <1>5, <1>6, <1>7 DEF LaneIsSound
<1>8. \A p \in Operations : /\ p \in ToSet(lane') <=> HasPlace(operation'[p])
                            /\ operation'[p].at = "waiting" => operation'[p].kind \in Mutations
  BY <1>1 DEF LaneIsSound
<1> QED BY <1>1, <1>7, <1>8 DEF LaneIsSound

\* Whoever works leaves.
LEMMA WorkerLeaves ==
  ASSUME PreferenceTypes, LaneIsSound, NEW o \in Operations, operation[o].at \in Working,
         Advance(o, IdleOperation), lane' = Left(o)
  PROVE  LaneIsSound'
<1>0. IsRequest(IdleOperation) /\ IdleOperation.at = "idle" /\ IdleOperation.credential \in Nat
  BY IdleRequest
<1>1. operation'[o].at = "idle" /\ \A p \in Operations \ {o} : operation'[p] = operation[p]
  BY <1>0, OperationGoes
<1>2. ~HasPlace(operation'[o]) /\ operation'[o].at # "waiting"
  BY <1>1 DEF HasPlace, Working
<1>3. CASE operation[o].kind \in Mutations
  <2>1. o \in ToSet(lane)
    BY <1>3 DEF LaneIsSound, HasPlace
  <2>2. PICK k \in 1..Len(lane) : lane[k] = o
    BY <2>1, LenProperties DEF LaneIsSound, ToSet
  <2>3. lane' = RemoveAt(lane, k)
    BY <1>3, <2>2, RemoveFirstIsRemoveAt DEF Left, Mutations, LaneIsSound
  <2> QED BY <1>1, <1>2, <2>2, <2>3, LaneMovesUp
<1>4. CASE operation[o].kind \notin Mutations
  <2>1. lane' = lane /\ ~HasPlace(operation[o])
    BY <1>4 DEF Left, Mutations, HasPlace, Working
  <2>2. \A i \in 1..Len(lane) : lane[i] \in Operations
    BY ElementOfSeq DEF LaneIsSound
  <2>3. operation[o].at # "gaveup"
    BY DEF Working
  <2>4. \A p \in Operations : /\ HasPlace(operation'[p]) <=> HasPlace(operation[p])
                              /\ operation'[p].at = "waiting" => operation'[p].kind \in Mutations
                              /\ operation[p].at = "gaveup" => operation'[p].at = "gaveup"
                              /\ operation'[p].at \in Working => operation[p].at \in Working
    BY <1>1, <1>2, <2>1, <2>3 DEF LaneIsSound
  <2> QED BY <2>1, <2>2, <2>4, LaneStays
<1> QED BY <1>3, <1>4

------------------------------------------------------------------------------
(* Every action keeps the invariant. *)

\* A reader begins, outside the lane.
LEMMA NewReaderKept ==
  ASSUME PreferenceTypes, CacheIsSound, LaneIsSound, \A p \in Operations : SeenIsDated(operation[p]),
         NEW o \in Operations, operation[o].at = "idle", NEW r, IsRequest(r), r.at = "load",
         r.kind \in {"reconcile", "choose"}, r.credential \in Nat, Advance(o, r),
         UNCHANGED <<listing, holder, cached, fetches, preference, lane>>
  PROVE  PreferenceInv'
<1>1. /\ operation' = [p \in Operations |-> operation'[p]]
      /\ \A p \in Operations : IsRequest(operation'[p]) /\ operation'[p].credential \in Nat
      /\ operation'[o] = r /\ \A p \in Operations \ {o} : operation'[p] = operation[p]
  BY OperationGoes
<1>2. PreferenceTypes'
  BY <1>1 DEF PreferenceTypes
<1>3. \A p \in Operations : operation'[p] = operation[p] \/ operation'[p].at # "rebind"
  BY <1>1
<1>4. CacheIsSound' /\ \A p \in Operations : SeenIsDated(operation[p])'
  BY <1>3, CacheStays
<1>5. ~HasPlace(operation[o]) /\ ~HasPlace(r)
  BY DEF HasPlace, Working, Mutations
<1>6. \A p \in Operations : /\ HasPlace(operation'[p]) <=> HasPlace(operation[p])
                            /\ operation'[p].at = "waiting" => operation'[p].kind \in Mutations
                            /\ operation[p].at = "gaveup" => operation'[p].at = "gaveup"
  BY <1>1, <1>5 DEF LaneIsSound
<1>7. \A i \in 1..Len(lane) : lane[i] \in Operations /\ lane[i] # o
  <2>1. \A i \in 1..Len(lane) : lane[i] \in ToSet(lane) /\ lane[i] \in Operations
    BY ElementOfSeq, LenProperties DEF LaneIsSound, ToSet
  <2> QED BY <1>5, <2>1 DEF LaneIsSound
<1>8. \A i, j \in 1..Len(lane) : j < i /\ operation'[lane[i]].at \in Working /\ operation[lane[i]].at \notin Working
                                  => operation[lane[j]].at = "gaveup"
  BY <1>1, <1>7
<1>9. LaneIsSound'
  BY <1>6, <1>8, LaneStays
<1> QED BY <1>2, <1>4, <1>9 DEF PreferenceInv

LEMMA BeginReconcileKept == ASSUME PreferenceInv, NEW o \in Operations, BeginReconcile(o) PROVE PreferenceInv'
<1>1. PICK b \in {Unset, IF preference = Unset THEN Unset ELSE preference.revision} :
        Advance(o, Reconciling(holder.credential, b))
  BY DEF BeginReconcile, Reconciling
<1> DEFINE r == Reconciling(holder.credential, b)
<1>2. IsRequest(r) /\ r.at = "load" /\ r.kind = "reconcile" /\ r.credential \in Nat
  <2>1. IsRequest(r) /\ r.at = "load" /\ r.kind = "reconcile" /\ r.credential = holder.credential
    BY ReconcileRequest
  <2> HIDE DEF r
  <2> QED BY <2>1 DEF PreferenceInv, PreferenceTypes
<1> HIDE DEF r
<1>3. /\ operation[o].at = "idle" /\ UNCHANGED <<listing, holder, cached, fetches, preference, lane>>
      /\ PreferenceTypes /\ CacheIsSound /\ LaneIsSound /\ \A p \in Operations : SeenIsDated(operation[p])
  BY DEF BeginReconcile, PreferenceInv
<1>4. Advance(o, r)
  BY <1>1 DEF r
<1> QED BY <1>2, <1>3, <1>4, NewReaderKept

LEMMA BeginChooseKept == ASSUME PreferenceInv, NEW o \in Operations, NEW m, BeginChoose(o, m) PROVE PreferenceInv'
<1> DEFINE r == Choose(holder.credential, m)
<1>2. IsRequest(r) /\ r.at = "load" /\ r.kind = "choose" /\ r.credential \in Nat
  <2>1. IsRequest(r) /\ r.at = "load" /\ r.kind = "choose" /\ r.credential = holder.credential
    BY ChooseRequest
  <2> HIDE DEF r
  <2> QED BY <2>1 DEF PreferenceInv, PreferenceTypes
<1>3. /\ operation[o].at = "idle" /\ UNCHANGED <<listing, holder, cached, fetches, preference, lane>>
      /\ PreferenceTypes /\ CacheIsSound /\ LaneIsSound /\ \A p \in Operations : SeenIsDated(operation[p])
      /\ Advance(o, r)
  BY DEF BeginChoose, PreferenceInv, Choose
<1> HIDE DEF r
<1> QED BY <1>2, <1>3, NewReaderKept

LEMMA BeginMutationKept ==
  ASSUME PreferenceInv, NEW o \in Operations, NEW kind \in Mutations, NEW m, BeginMutation(o, kind, m)
  PROVE  PreferenceInv'
<1> DEFINE r == Mutation(kind, m, Revision(preference))
<1>1. IsRequest(r) /\ r.at = "waiting" /\ r.kind = kind /\ r.credential \in Nat
  <2>1. IsRequest(r) /\ r.at = "waiting" /\ r.kind = kind /\ r.credential = 0
    BY MutationRequest
  <2> HIDE DEF r
  <2> QED BY <2>1
<1>2. /\ operation[o].at = "idle" /\ UNCHANGED <<listing, holder, cached, fetches, preference>>
      /\ lane' = Append(lane, o) /\ Advance(o, r)
      /\ PreferenceTypes /\ CacheIsSound /\ LaneIsSound /\ \A p \in Operations : SeenIsDated(operation[p])
  BY DEF BeginMutation, Join, PreferenceInv, Mutation
<1> HIDE DEF r
<1>3. /\ operation' = [p \in Operations |-> operation'[p]]
      /\ \A p \in Operations : IsRequest(operation'[p]) /\ operation'[p].credential \in Nat
      /\ operation'[o] = r /\ \A p \in Operations \ {o} : operation'[p] = operation[p]
  BY <1>1, <1>2, OperationGoes
<1>4. PreferenceTypes'
  BY <1>2, <1>3 DEF PreferenceTypes
<1>5. \A p \in Operations : operation'[p] = operation[p] \/ operation'[p].at # "rebind"
  BY <1>1, <1>3
<1>6. CacheIsSound' /\ \A p \in Operations : SeenIsDated(operation[p])'
  BY <1>2, <1>5, CacheStays
<1>7. ~HasPlace(operation[o]) /\ HasPlace(r) /\ r.kind \in Mutations
  BY <1>1, <1>2 DEF HasPlace, Working
<1>8. /\ lane \in Seq(Operations) /\ IsInjective(lane) /\ o \notin ToSet(lane) /\ Len(lane) \in Nat
      /\ lane' \in Seq(Operations) /\ IsInjective(lane') /\ ToSet(lane') = ToSet(lane) \cup {o} /\ Len(lane') = Len(lane) + 1
  BY <1>2, <1>7, AppendQueue, LenProperties DEF LaneIsSound
<1>9. lane'[Len(lane) + 1] = o /\ \A i \in 1..Len(lane) : lane'[i] = lane[i] /\ lane[i] \in Operations /\ lane[i] # o
  <2>1. \A i \in 1..Len(lane) : lane[i] \in ToSet(lane) /\ lane[i] \in Operations
    BY <1>8, ElementOfSeq, LenProperties DEF ToSet
  <2> QED BY <1>2, <1>8, <2>1, AppendProperties
<1>10. ASSUME NEW i \in 1..Len(lane'), NEW j \in 1..Len(lane'), j < i, operation'[lane'[i]].at \in Working
       PROVE  operation'[lane'[j]].at = "gaveup"
  <2>1. i # Len(lane) + 1
    BY <1>1, <1>3, <1>9, <1>10 DEF Working
  <2>2. i \in 1..Len(lane) /\ j \in 1..Len(lane)
    BY <1>8, <1>10, <2>1
  <2>3. operation'[lane'[i]] = operation[lane[i]] /\ operation'[lane'[j]] = operation[lane[j]]
    BY <1>3, <1>9, <2>2
  <2> QED BY <1>2, <1>10, <2>2, <2>3 DEF LaneIsSound
<1>11. \A p \in Operations : /\ p \in ToSet(lane') <=> HasPlace(operation'[p])
                             /\ operation'[p].at = "waiting" => operation'[p].kind \in Mutations
  BY <1>2, <1>3, <1>7, <1>8 DEF LaneIsSound
<1>12. LaneIsSound'
  BY <1>8, <1>10, <1>11 DEF LaneIsSound
<1> QED BY <1>4, <1>6, <1>12 DEF PreferenceInv

\* Its turn: those ahead in the lane have left or given up.
LEMMA TurnKept == ASSUME PreferenceInv, NEW o \in Operations, Turn(o) PROVE PreferenceInv'
<1>1. /\ operation[o].at = "waiting"
      /\ \A i \in DOMAIN lane : lane[i] = o => \A j \in 1..(i - 1) : operation[lane[j]].at \in {"idle", "gaveup"}
      /\ UNCHANGED <<listing, holder, fetches, preference, lane>>
      /\ PreferenceTypes /\ CacheIsSound /\ LaneIsSound /\ \A p \in Operations : SeenIsDated(operation[p])
      /\ IsRequest(operation[o]) /\ holder.credential \in Nat
  BY DEF Turn, PreferenceInv, PreferenceTypes
<1>2. PICK r : /\ IsRequest(r) /\ r.at = "load" /\ r.kind = operation[o].kind /\ r.credential \in Nat /\ Advance(o, r)
               /\ cached' \in {cached, [cached EXCEPT !.generation = @ + 1, !.entry = Unset]}
  <2>1. CASE operation[o].kind = "refresh"
    <3> DEFINE r == Observing(operation[o], "load", holder.credential, IF preference = Unset THEN Unset ELSE preference.revision)
    <3>1. IsRequest(r) /\ r.at = "load" /\ r.kind = operation[o].kind /\ r.credential = holder.credential
      BY <1>1, RequestObserves
    <3>2. Advance(o, r) /\ cached' = [cached EXCEPT !.generation = @ + 1, !.entry = Unset]
      BY <2>1 DEF Turn, Observing
    <3> HIDE DEF r
    <3> QED BY <1>1, <3>1, <3>2
  <2>2. CASE operation[o].kind # "refresh"
    <3> DEFINE r == Bound(operation[o], "load", holder.credential)
    <3>1. IsRequest(r) /\ r.at = "load" /\ r.kind = operation[o].kind /\ r.credential = holder.credential
      BY <1>1, RequestBinds
    <3>2. Advance(o, r) /\ cached' = cached
      BY <2>2 DEF Turn, Bound
    <3> HIDE DEF r
    <3> QED BY <1>1, <3>1, <3>2
  <2> QED BY <2>1, <2>2
<1>3. /\ operation' = [p \in Operations |-> operation'[p]]
      /\ \A p \in Operations : IsRequest(operation'[p]) /\ operation'[p].credential \in Nat
      /\ operation'[o] = r /\ \A p \in Operations \ {o} : operation'[p] = operation[p]
  BY <1>1, <1>2, OperationGoes
<1>4. \A p \in Operations : operation'[p] = operation[p] \/ operation'[p].at # "rebind"
  BY <1>2, <1>3
<1>5. PreferenceTypes' /\ CacheIsSound' /\ \A p \in Operations : SeenIsDated(operation[p])'
  <2>1. CASE cached' = cached
    <3>1. CacheIsSound' /\ \A p \in Operations : SeenIsDated(operation[p])'
      BY <1>1, <1>4, <2>1, CacheStays
    <3> QED BY <1>1, <1>3, <2>1, <3>1 DEF PreferenceTypes
  <2>2. CASE cached' = [cached EXCEPT !.generation = @ + 1, !.entry = Unset]
    <3>1. /\ cached' = [generation |-> cached'.generation, credential |-> cached'.credential, entry |-> cached'.entry]
          /\ cached'.generation \in Nat /\ cached'.credential \in Nat /\ cached'.entry \in Snapshots \cup {Unset}
          /\ CacheIsSound' /\ \A p \in Operations : SeenIsDated(operation[p])'
      BY <1>1, <1>4, <2>2, CacheInvalidated
    <3> QED BY <1>1, <1>3, <3>1 DEF PreferenceTypes
  <2> QED BY <1>2, <2>1, <2>2
<1>6. operation[o].kind \in Mutations /\ HasPlace(operation[o]) /\ HasPlace(r)
  BY <1>1, <1>2 DEF LaneIsSound, HasPlace, Working
<1>7. \A p \in Operations : /\ HasPlace(operation'[p]) <=> HasPlace(operation[p])
                            /\ operation'[p].at = "waiting" => operation'[p].kind \in Mutations
                            /\ operation[p].at = "gaveup" => operation'[p].at = "gaveup"
  BY <1>1, <1>2, <1>3, <1>6 DEF LaneIsSound
<1>8. ASSUME NEW i \in 1..Len(lane), NEW j \in 1..Len(lane), j < i,
             operation'[lane[i]].at \in Working, operation[lane[i]].at \notin Working
      PROVE  operation[lane[j]].at = "gaveup"
  <2>1. lane \in Seq(Operations) /\ Len(lane) \in Nat /\ DOMAIN lane = 1..Len(lane)
    BY <1>1, LenProperties DEF LaneIsSound
  <2>2. lane[i] \in Operations /\ lane[j] \in Operations /\ lane[j] \in ToSet(lane)
    BY <2>1, ElementOfSeq DEF ToSet
  <2>3. lane[i] = o
    BY <1>3, <1>8, <2>2
  <2>4. j \in 1..(i - 1)
    BY <1>8, <2>1
  <2>5. operation[lane[j]].at \in {"idle", "gaveup"}
    BY <1>1, <2>1, <2>3, <2>4
  <2>6. HasPlace(operation[lane[j]])
    BY <1>1, <2>2 DEF LaneIsSound
  <2> QED BY <2>5, <2>6 DEF HasPlace, Working
<1>9. LaneIsSound'
  BY <1>1, <1>7, <1>8, LaneStays
<1> QED BY <1>5, <1>9 DEF PreferenceInv

\* An operation that works goes on working; nobody's place changes.
LEMMA WorkerStays ==
  ASSUME LaneIsSound, lane' = lane, NEW o \in Operations, operation[o].at \in Working,
         operation'[o].at \in Working, operation'[o].kind = operation[o].kind,
         \A p \in Operations \ {o} : operation'[p] = operation[p]
  PROVE  LaneIsSound'
<1>1. \A p \in Operations : /\ HasPlace(operation'[p]) <=> HasPlace(operation[p])
                            /\ operation'[p].at = "waiting" => operation'[p].kind \in Mutations
                            /\ operation[p].at = "gaveup" => operation'[p].at = "gaveup"
                            /\ operation'[p].at \in Working => operation[p].at \in Working
  <2>1. operation[o].at \notin {"waiting", "gaveup"} /\ operation'[o].at \notin {"waiting", "gaveup"}
    BY DEF Working
  <2>2. HasPlace(operation'[o]) <=> HasPlace(operation[o])
    BY <2>1 DEF HasPlace
  <2> QED BY <2>1, <2>2 DEF LaneIsSound
<1>2. \A i \in 1..Len(lane) : lane[i] \in Operations
  BY ElementOfSeq DEF LaneIsSound
<1> QED BY <1>1, <1>2, LaneStays

LEMMA LoadKept == ASSUME PreferenceInv, NEW o \in Operations, Load(o) PROVE PreferenceInv'
<1> DEFINE newest == IF operation[o].credential > cached.credential THEN operation[o].credential ELSE cached.credential
           key == [generation |-> cached.generation, credential |-> operation[o].credential]
           hit == cached.entry # Unset /\ cached.entry.credential = operation[o].credential
<1>1. /\ operation[o].at = "load" /\ cached' = [cached EXCEPT !.credential = newest]
      /\ UNCHANGED <<listing, holder, preference, lane>>
      /\ hit => Advance(o, Sees(operation[o], "rebind", cached.entry)) /\ fetches' = fetches
      /\ ~hit => Advance(o, Fetching(operation[o], "fetching", key)) /\ fetches' = fetches \cup {key}
  BY DEF Load, Sees, Fetching
<1>2. /\ PreferenceTypes /\ CacheIsSound /\ LaneIsSound /\ \A p \in Operations : SeenIsDated(operation[p])
      /\ IsRequest(operation[o]) /\ operation[o].credential \in Nat /\ cached.credential \in Nat /\ cached.generation \in Nat
  BY DEF PreferenceInv, PreferenceTypes
<1>3. newest \in Nat /\ cached.credential <= newest /\ operation[o].credential <= newest
      /\ (newest = cached.credential \/ newest = operation[o].credential)
  BY <1>2
<1> HIDE DEF newest
<1>4. /\ cached' = [generation |-> cached.generation, credential |-> newest, entry |-> cached.entry]
      /\ cached'.generation = cached.generation /\ cached'.credential = newest /\ cached'.entry = cached.entry
  BY <1>1, <1>2 DEF PreferenceTypes
<1>5. PICK k \in [generation : Nat, credential : Nat] :
        k = key /\ k.generation = cached.generation /\ k.credential = operation[o].credential
  <2>1. key \in [generation : Nat, credential : Nat] /\ key.generation = cached.generation
        /\ key.credential = operation[o].credential
    BY <1>2
  <2> HIDE DEF key
  <2> QED BY <2>1
<1> HIDE DEF key
<1>6. PICK r : /\ IsRequest(r) /\ r.kind = operation[o].kind /\ r.credential = operation[o].credential /\ Advance(o, r)
               /\ hit => r.at = "rebind" /\ r.seen = cached.entry
               /\ ~hit => r.at = "fetching"
  <2>1. CASE hit
    <3>1. Advance(o, Sees(operation[o], "rebind", cached.entry))
      BY <1>1, <2>1
    <3> QED BY <1>2, <2>1, <3>1, RequestSees
  <2>2. CASE ~hit
    <3>1. Advance(o, Fetching(operation[o], "fetching", key))
      BY <1>1, <2>2
    <3> QED BY <1>2, <2>2, <3>1, RequestFetches
  <2> QED BY <2>1, <2>2
<1>7. /\ operation' = [p \in Operations |-> operation'[p]]
      /\ \A p \in Operations : IsRequest(operation'[p]) /\ operation'[p].credential \in Nat
      /\ operation'[o] = r /\ \A p \in Operations \ {o} : operation'[p] = operation[p]
  BY <1>2, <1>6, OperationGoes
<1>8. PreferenceTypes'
  BY <1>1, <1>2, <1>3, <1>4, <1>5, <1>7 DEF PreferenceTypes
<1>9. ASSUME NEW x, x.generation \in Nat, x.credential \in Nat, Dated(x)
      PROVE  Dated(x)' /\ (IsCurrent(x)' => newest = cached.credential /\ IsCurrent(x))
  BY <1>2, <1>3, <1>4, <1>9 DEF Dated, IsCurrent
<1>10. CacheIsSound'
  <2>1. cached.entry # Unset => cached.entry.credential \in Nat
    BY <1>2 DEF PreferenceTypes, Snapshots
  <2>2. cached'.entry # Unset => cached'.entry.generation = cached'.generation /\ cached'.entry.credential <= cached'.credential
    BY <1>2, <1>3, <1>4, <2>1 DEF CacheIsSound
  <2>3. ASSUME NEW f \in fetches
        PROVE  Dated(f)' /\ (IsCurrent(f)' => cached'.entry = Unset \/ cached'.entry.credential # cached'.credential)
    <3>1. f.generation \in Nat /\ f.credential \in Nat
      BY <1>2 DEF PreferenceTypes
    <3> QED BY <1>2, <1>4, <1>9, <3>1 DEF CacheIsSound
  <2>4. ASSUME ~hit
        PROVE  Dated(k)' /\ (IsCurrent(k)' => cached'.entry = Unset \/ cached'.entry.credential # cached'.credential)
    <3>1. Dated(k)'
      BY <1>2, <1>3, <1>4, <1>5 DEF Dated
    <3>2. IsCurrent(k)' => cached'.credential = operation[o].credential
      BY <1>4, <1>5 DEF IsCurrent
    <3> QED BY <1>4, <2>4, <3>1, <3>2
  <2> QED BY <1>1, <1>5, <2>2, <2>3, <2>4 DEF CacheIsSound
<1>11. ASSUME NEW p \in Operations PROVE SeenIsDated(operation[p])'
  <2>1. CASE p # o
    <3>1. ASSUME operation[p].at = "rebind"
          PROVE  /\ operation[p].seen \in Snapshots /\ Dated(operation[p].seen)
                 /\ operation[p].seen.generation \in Nat /\ operation[p].seen.credential \in Nat
                 /\ IsCurrent(operation[p].seen) => cached.entry = operation[p].seen
      BY <1>2, <3>1 DEF SeenIsDated, Snapshots
    <3> QED BY <1>4, <1>7, <1>9, <2>1, <3>1 DEF SeenIsDated
  <2>2. CASE p = o /\ hit
    <3>1. cached.entry \in Snapshots /\ cached.entry.generation = cached.generation
          /\ cached.entry.credential <= cached.credential /\ cached.entry.credential \in Nat
      BY <1>2, <2>2 DEF PreferenceTypes, CacheIsSound, Snapshots
    <3>2. Dated(cached.entry)'
      BY <1>2, <1>3, <1>4, <3>1 DEF Dated
    <3> QED BY <1>4, <1>6, <1>7, <2>2, <3>1, <3>2 DEF SeenIsDated
  <2>3. CASE p = o /\ ~hit
    BY <1>6, <1>7, <2>3 DEF SeenIsDated
  <2> QED BY <2>1, <2>2, <2>3
<1>12. LaneIsSound'
  <2>1. operation[o].at \in Working /\ operation'[o].at \in Working /\ operation'[o].kind = operation[o].kind
    BY <1>1, <1>6, <1>7 DEF Working
  <2> QED BY <1>1, <1>2, <1>7, <2>1, WorkerStays
<1> QED BY <1>8, <1>10, <1>11, <1>12 DEF PreferenceInv

LEMMA FetchedKept == ASSUME PreferenceInv, NEW f \in fetches, Fetched(f) PROVE PreferenceInv'
<1> DEFINE snapshot == [generation |-> f.generation, credential |-> f.credential, models |-> listing]
           Waits(p) == operation[p].at = "fetching" /\ operation[p].fetch = f
<1>1. /\ fetches' = fetches \ {f} /\ UNCHANGED <<listing, holder, preference, lane>>
      /\ cached' = [cached EXCEPT !.entry = IF IsCurrent(snapshot) THEN snapshot ELSE @]
      /\ operation' = [p \in Operations |-> IF Waits(p) THEN Answered(operation[p], "rebind", snapshot, Unset) ELSE operation[p]]
  BY DEF Fetched, Answered
<1>2. /\ PreferenceTypes /\ CacheIsSound /\ LaneIsSound /\ \A p \in Operations : SeenIsDated(operation[p])
      /\ cached.credential \in Nat /\ cached.generation \in Nat /\ f \in [generation : Nat, credential : Nat]
      /\ fetches \in SUBSET [generation : Nat, credential : Nat]
  BY DEF PreferenceInv, PreferenceTypes
<1>3. snapshot \in Snapshots /\ snapshot.generation = f.generation /\ snapshot.credential = f.credential
  BY <1>2 DEF PreferenceTypes, Snapshots
<1> HIDE DEF snapshot
<1>4. /\ cached' = [generation |-> cached.generation, credential |-> cached.credential,
                    entry |-> IF IsCurrent(snapshot) THEN snapshot ELSE cached.entry]
      /\ cached'.generation = cached.generation /\ cached'.credential = cached.credential
      /\ IsCurrent(snapshot) => cached'.entry = snapshot
      /\ ~IsCurrent(snapshot) => cached'.entry = cached.entry
  BY <1>1, <1>2 DEF PreferenceTypes
<1>5. ASSUME NEW p \in Operations
      PROVE  /\ ~Waits(p) => operation'[p] = operation[p]
             /\ Waits(p) => /\ operation'[p].at = "rebind" /\ operation'[p].seen = snapshot
                            /\ operation'[p].kind = operation[p].kind
             /\ IsRequest(operation'[p]) /\ operation'[p].credential \in Nat
  <2>1. IsRequest(operation[p]) /\ operation[p].credential \in Nat
    BY <1>2 DEF PreferenceTypes
  <2>2. operation'[p] = IF Waits(p) THEN Answered(operation[p], "rebind", snapshot, Unset) ELSE operation[p]
    BY <1>1
  <2>3. CASE Waits(p)
    <3>1. operation'[p] = Answered(operation[p], "rebind", snapshot, Unset)
      BY <2>2, <2>3
    <3> QED BY <2>1, <2>3, <3>1, RequestFetched
  <2>4. CASE ~Waits(p)
    BY <2>1, <2>2, <2>4
  <2> QED BY <2>3, <2>4
<1>6. PreferenceTypes'
  <2>1. operation' = [p \in Operations |-> operation'[p]]
    BY <1>1
  <2>2. cached'.entry \in Snapshots \cup {Unset}
    BY <1>2, <1>3, <1>4 DEF PreferenceTypes
  <2>3. cached' = [generation |-> cached'.generation, credential |-> cached'.credential, entry |-> cached'.entry]
    BY <1>4
  <2> QED BY <1>1, <1>2, <1>4, <1>5, <2>1, <2>2, <2>3 DEF PreferenceTypes
<1>7. \A x : (Dated(x)' <=> Dated(x)) /\ (IsCurrent(x)' <=> IsCurrent(x))
  BY <1>4 DEF Dated, IsCurrent
<1>8. Dated(snapshot) /\ (IsCurrent(snapshot) <=> IsCurrent(f))
      /\ (IsCurrent(f) => cached.entry = Unset \/ cached.entry.credential # cached.credential)
  BY <1>2, <1>3 DEF CacheIsSound, Dated, IsCurrent
<1>9. CacheIsSound'
  <2>1. cached'.entry # Unset => cached'.entry.generation = cached'.generation /\ cached'.entry.credential <= cached'.credential
    BY <1>2, <1>4, <1>8 DEF CacheIsSound, IsCurrent, Dated
  <2>2. ASSUME NEW g \in fetches \ {f}
        PROVE  Dated(g) /\ (IsCurrent(g) => cached'.entry = Unset \/ cached'.entry.credential # cached'.credential)
    <3>1. Dated(g) /\ (IsCurrent(g) => cached.entry = Unset \/ cached.entry.credential # cached.credential)
      BY <1>2 DEF CacheIsSound
    <3>2. g \in [generation : Nat, credential : Nat]
      BY <1>2
    <3>3. ASSUME IsCurrent(g), IsCurrent(f) PROVE g = f
      BY <1>2, <3>2, <3>3 DEF IsCurrent
    <3> QED BY <1>4, <1>8, <3>1, <3>3
  <2> QED BY <1>1, <1>7, <2>1, <2>2 DEF CacheIsSound
<1>10. ASSUME NEW p \in Operations PROVE SeenIsDated(operation[p])'
  <2>1. CASE Waits(p)
    BY <1>3, <1>4, <1>5, <1>7, <1>8, <2>1 DEF SeenIsDated
  <2>2. CASE ~Waits(p)
    <3>1. ASSUME operation[p].at = "rebind"
          PROVE  /\ operation[p].seen \in Snapshots /\ Dated(operation[p].seen)
                 /\ IsCurrent(operation[p].seen) => cached'.entry = operation[p].seen
      <4>1. /\ operation[p].seen \in Snapshots /\ Dated(operation[p].seen)
            /\ IsCurrent(operation[p].seen) => cached.entry = operation[p].seen
        BY <1>2, <3>1 DEF SeenIsDated
      <4>2. operation[p].seen # Unset
        BY <4>1, PreferencesAssumption DEF Snapshots
      <4>3. ASSUME IsCurrent(operation[p].seen) PROVE ~IsCurrent(snapshot)
        BY <1>8, <4>1, <4>2, <4>3 DEF IsCurrent
      <4> QED BY <1>4, <4>1, <4>3
    <3> QED BY <1>5, <1>7, <2>2, <3>1 DEF SeenIsDated
  <2> QED BY <2>1, <2>2
<1>11. LaneIsSound'
  <2>1. ASSUME NEW p \in Operations
        PROVE  /\ HasPlace(operation'[p]) <=> HasPlace(operation[p])
               /\ operation'[p].at = "waiting" => operation'[p].kind \in Mutations
               /\ operation[p].at = "gaveup" => operation'[p].at = "gaveup"
               /\ operation'[p].at \in Working => operation[p].at \in Working
    <3>1. CASE Waits(p)
      BY <1>5, <3>1 DEF HasPlace, Working
    <3>2. CASE ~Waits(p)
      BY <1>2, <1>5, <3>2 DEF LaneIsSound
    <3> QED BY <3>1, <3>2
  <2>2. \A i \in 1..Len(lane) : lane[i] \in Operations
    BY <1>2, ElementOfSeq DEF LaneIsSound
  <2> QED BY <1>1, <1>2, <2>1, <2>2, LaneStays
<1> QED BY <1>6, <1>9, <1>10, <1>11 DEF PreferenceInv

\* A worker is done, and leaves the preference in form.
LEMMA WorkerDoneKept ==
  ASSUME PreferenceInv, NEW o \in Operations, operation[o].at \in Working,
         Advance(o, IdleOperation), lane' = Left(o), fetches' \subseteq fetches, UNCHANGED <<listing, holder, cached>>,
         preference' # Unset => preference' = [model |-> preference'.model, valid |-> preference'.valid, revision |-> preference'.revision]
  PROVE  PreferenceInv'
<1>1. PreferenceTypes /\ CacheIsSound /\ LaneIsSound /\ \A p \in Operations : SeenIsDated(operation[p])
  BY DEF PreferenceInv
<1>2. IsRequest(IdleOperation) /\ IdleOperation.at = "idle" /\ IdleOperation.credential \in Nat
  BY IdleRequest
<1>3. /\ operation' = [p \in Operations |-> operation'[p]]
      /\ \A p \in Operations : IsRequest(operation'[p]) /\ operation'[p].credential \in Nat
      /\ operation'[o] = IdleOperation /\ \A p \in Operations \ {o} : operation'[p] = operation[p]
  BY <1>1, <1>2, OperationGoes
<1>4. PreferenceTypes'
  BY <1>1, <1>3 DEF PreferenceTypes
<1>5. \A p \in Operations : operation'[p] = operation[p] \/ operation'[p].at # "rebind"
  BY <1>2, <1>3
<1>6. CacheIsSound' /\ \A p \in Operations : SeenIsDated(operation[p])'
  BY <1>1, <1>5, CacheStays
<1>7. LaneIsSound'
  BY <1>1, WorkerLeaves
<1> QED BY <1>4, <1>6, <1>7 DEF PreferenceInv

LEMMA GiveUpKept == ASSUME PreferenceInv, NEW o \in Operations, GiveUp(o) PROVE PreferenceInv'
<1>1. /\ operation[o].at \in Working /\ Advance(o, IdleOperation) /\ lane' = Left(o) /\ fetches' \subseteq fetches
      /\ UNCHANGED <<listing, holder, cached, preference>>
  BY DEF GiveUp, Working
<1>2. preference' # Unset => preference' = [model |-> preference'.model, valid |-> preference'.valid, revision |-> preference'.revision]
  BY <1>1 DEF PreferenceInv, PreferenceTypes
<1> QED BY <1>1, <1>2, WorkerDoneKept

\* What an operation that ends makes of the preference.
LEMMA AppliedIsFormed ==
  ASSUME PreferenceInv, NEW o \in Operations, FinishOperation(o)
  PROVE  /\ preference' # Unset => preference' = [model |-> preference'.model, valid |-> preference'.valid, revision |-> preference'.revision]
         /\ ChoiceFollowsTheCatalogue
<1> DEFINE r == operation[o]
<1>1. /\ r.at = "rebind" /\ preference' = IF Applies(r) THEN Applied(r) ELSE preference
      /\ preference # Unset => preference = [model |-> preference.model, valid |-> preference.valid, revision |-> preference.revision]
  BY DEF FinishOperation, PreferenceInv, PreferenceTypes
<1>2. r.seen \in Snapshots /\ (IsCurrent(r.seen) => cached.entry = r.seen)
  BY <1>1 DEF PreferenceInv, SeenIsDated
<1>3. Applies(r) => cached.entry = r.seen /\ cached.entry # Unset
  BY <1>2, PreferencesAssumption DEF Applies, Snapshots
<1> HIDE DEF r
<1>4. CASE preference' = preference
  BY <1>1, <1>4 DEF ChoiceFollowsTheCatalogue
<1>5. CASE preference' # preference
  <2>1. Applies(r) /\ preference' = Applied(r) /\ cached.entry = r.seen /\ cached.entry # Unset
    BY <1>1, <1>3, <1>5
  <2>2. CASE preference' = MarkInvalidIfMissing(preference, r.seen.models, r.observed)
    <3>1. preference # Unset /\ preference.model \notin r.seen.models
          /\ preference' = [preference EXCEPT !.valid = FALSE, !.revision = @ + 1]
      BY <1>5, <2>2 DEF MarkInvalidIfMissing
    <3>2. preference' = [model |-> preference.model, valid |-> FALSE, revision |-> preference.revision + 1]
      BY <1>1, <3>1
    <3> QED BY <2>1, <3>1, <3>2 DEF ChoiceFollowsTheCatalogue
  <2>3. CASE r.model \in r.seen.models /\ \E x : preference' = SetPreference(r.model, x)
    <3>1. PICK x : preference' = [model |-> r.model, valid |-> TRUE, revision |-> x + 1]
      BY <2>3 DEF SetPreference
    <3> QED BY <2>1, <2>3, <3>1 DEF ChoiceFollowsTheCatalogue
  <2> QED BY <1>5, <2>1, <2>2, <2>3 DEF Applied
<1> QED BY <1>4, <1>5

LEMMA FinishOperationKept == ASSUME PreferenceInv, NEW o \in Operations, FinishOperation(o) PROVE PreferenceInv'
<1>1. /\ operation[o].at \in Working /\ Advance(o, IdleOperation) /\ lane' = Left(o) /\ fetches' \subseteq fetches
      /\ UNCHANGED <<listing, holder, cached>>
  BY DEF FinishOperation, Working
<1> QED BY <1>1, AppliedIsFormed, WorkerDoneKept

LEMMA GiveUpWaitingKept == ASSUME PreferenceInv, NEW o \in Operations, GiveUpWaiting(o) PROVE PreferenceInv'
<1>1. /\ PreferenceTypes /\ CacheIsSound /\ LaneIsSound /\ \A p \in Operations : SeenIsDated(operation[p])
      /\ operation[o].at = "waiting" /\ UNCHANGED <<listing, holder, cached, fetches, preference, lane>>
  BY DEF GiveUpWaiting, PreferenceInv
<1>2. PICK r : IsRequest(r) /\ r.at = "gaveup" /\ r.credential \in Nat /\ Advance(o, r)
  BY IdleRequest DEF GiveUpWaiting
<1>3. /\ operation' = [p \in Operations |-> operation'[p]]
      /\ \A p \in Operations : IsRequest(operation'[p]) /\ operation'[p].credential \in Nat
      /\ operation'[o] = r /\ \A p \in Operations \ {o} : operation'[p] = operation[p]
  BY <1>1, <1>2, OperationGoes
<1>4. PreferenceTypes'
  BY <1>1, <1>3 DEF PreferenceTypes
<1>5. \A p \in Operations : operation'[p] = operation[p] \/ operation'[p].at # "rebind"
  BY <1>2, <1>3
<1>6. CacheIsSound' /\ \A p \in Operations : SeenIsDated(operation[p])'
  BY <1>1, <1>5, CacheStays
<1>7. HasPlace(operation[o]) /\ HasPlace(r)
  BY <1>1, <1>2 DEF HasPlace
<1>8. \A p \in Operations : /\ HasPlace(operation'[p]) <=> HasPlace(operation[p])
                            /\ operation'[p].at = "waiting" => operation'[p].kind \in Mutations
                            /\ operation[p].at = "gaveup" => operation'[p].at = "gaveup"
                            /\ operation'[p].at \in Working => operation[p].at \in Working
  BY <1>1, <1>2, <1>3, <1>7 DEF LaneIsSound, Working
<1>9. \A i \in 1..Len(lane) : lane[i] \in Operations
  BY <1>1, ElementOfSeq DEF LaneIsSound
<1>10. LaneIsSound'
  BY <1>1, <1>8, <1>9, LaneStays
<1> QED BY <1>4, <1>6, <1>10 DEF PreferenceInv

LEMMA ForgottenKept == ASSUME PreferenceInv, NEW o \in Operations, Forgotten(o) PROVE PreferenceInv'
<1>1. /\ PreferenceTypes /\ CacheIsSound /\ LaneIsSound /\ \A p \in Operations : SeenIsDated(operation[p])
      /\ lane # <<>> /\ Head(lane) = o /\ lane' = Tail(lane) /\ Advance(o, IdleOperation)
      /\ UNCHANGED <<listing, holder, cached, fetches, preference>>
  BY DEF Forgotten, PreferenceInv
<1>2. IsRequest(IdleOperation) /\ IdleOperation.at = "idle" /\ IdleOperation.credential \in Nat
  BY IdleRequest
<1>3. /\ operation' = [p \in Operations |-> operation'[p]]
      /\ \A p \in Operations : IsRequest(operation'[p]) /\ operation'[p].credential \in Nat
      /\ operation'[o] = IdleOperation /\ \A p \in Operations \ {o} : operation'[p] = operation[p]
  BY <1>1, <1>2, OperationGoes
<1>4. PreferenceTypes'
  BY <1>1, <1>3 DEF PreferenceTypes
<1>5. \A p \in Operations : operation'[p] = operation[p] \/ operation'[p].at # "rebind"
  BY <1>2, <1>3
<1>6. CacheIsSound' /\ \A p \in Operations : SeenIsDated(operation[p])'
  BY <1>1, <1>5, CacheStays
<1>7. ~HasPlace(operation'[o]) /\ operation'[o].at # "waiting"
  BY <1>2, <1>3 DEF HasPlace, Working
<1>8. /\ lane' \in Seq(Operations) /\ ToSet(lane') = ToSet(lane) \ {o} /\ IsInjective(lane') /\ Len(lane') = Len(lane) - 1
      /\ lane \in Seq(Operations) /\ Len(lane) \in Nat
  BY <1>1, TailQueue, LenProperties DEF LaneIsSound
<1>9. \A i \in 1..Len(lane') : lane'[i] = lane[i + 1] /\ lane'[i] # o /\ lane'[i] \in Operations
  <2>1. ASSUME NEW i \in 1..Len(lane') PROVE lane'[i] = lane[i + 1]
    BY <1>1, <1>8
  <2>2. ASSUME NEW i \in 1..Len(lane') PROVE lane'[i] \in ToSet(lane') /\ lane'[i] \in Operations
    BY <1>8, LenProperties, ElementOfSeq DEF ToSet
  <2> QED BY <1>8, <2>1, <2>2
<1>10. ASSUME NEW i \in 1..Len(lane'), NEW j \in 1..Len(lane'), j < i, operation'[lane'[i]].at \in Working
       PROVE  operation'[lane'[j]].at = "gaveup"
  <2>1. i + 1 \in 1..Len(lane) /\ j + 1 \in 1..Len(lane) /\ j + 1 < i + 1
    BY <1>8, <1>10
  <2>2. operation[lane[i + 1]].at \in Working
    BY <1>3, <1>9, <1>10
  <2>3. operation[lane[j + 1]].at = "gaveup"
    BY <1>1, <2>1, <2>2 DEF LaneIsSound
  <2> QED BY <1>3, <1>9, <2>3
<1>11. \A p \in Operations : /\ p \in ToSet(lane') <=> HasPlace(operation'[p])
                             /\ operation'[p].at = "waiting" => operation'[p].kind \in Mutations
  BY <1>1, <1>3, <1>7, <1>8 DEF LaneIsSound
<1>12. LaneIsSound'
  BY <1>8, <1>10, <1>11 DEF LaneIsSound
<1> QED BY <1>4, <1>6, <1>12 DEF PreferenceInv

\* Nobody's place changes when the operations do not.
LEMMA LaneUntouched ==
  ASSUME LaneIsSound, UNCHANGED <<lane, operation>>
  PROVE  LaneIsSound'
BY DEF LaneIsSound, HasPlace

\* The account signs out or in: the catalogues are invalidated.
LEMMA InvalidatedKept ==
  ASSUME PreferenceInv, cached' = [cached EXCEPT !.generation = @ + 1, !.entry = Unset], holder'.credential \in Nat,
         preference' \in {preference, Unset}, UNCHANGED <<listing, fetches, lane, operation>>
  PROVE  PreferenceInv'
<1>1. PreferenceTypes /\ CacheIsSound /\ LaneIsSound /\ \A p \in Operations : SeenIsDated(operation[p])
  BY DEF PreferenceInv
<1>2. /\ cached' = [generation |-> cached'.generation, credential |-> cached'.credential, entry |-> cached'.entry]
      /\ cached'.generation \in Nat /\ cached'.credential \in Nat /\ cached'.entry \in Snapshots \cup {Unset}
      /\ CacheIsSound' /\ \A p \in Operations : SeenIsDated(operation[p])'
  BY <1>1, CacheInvalidated
<1>3. PreferenceTypes'
  BY <1>1, <1>2 DEF PreferenceTypes
<1> QED BY <1>1, <1>2, <1>3, LaneUntouched DEF PreferenceInv

LEMMA SignOutKept == ASSUME PreferenceInv, SignOut PROVE PreferenceInv'
<1>1. holder' = [holder EXCEPT !.active = FALSE] /\ holder.credential \in Nat
  BY DEF SignOut, PreferenceInv, PreferenceTypes
<1>2. holder'.credential \in Nat
  BY <1>1
<1> QED BY <1>2, InvalidatedKept DEF SignOut

LEMMA SignInKept == ASSUME PreferenceInv, SignIn PROVE PreferenceInv'
<1>1. holder' = [active |-> TRUE, credential |-> holder.credential + 1] /\ holder.credential \in Nat
  BY DEF SignIn, PreferenceInv, PreferenceTypes
<1>2. holder'.credential \in Nat
  BY <1>1
<1> QED BY <1>2, InvalidatedKept DEF SignIn

LEMMA RelistKept == ASSUME PreferenceInv, NEW models \in SUBSET Models, Relist(models) PROVE PreferenceInv'
<1>1. /\ PreferenceTypes /\ CacheIsSound /\ LaneIsSound /\ \A p \in Operations : SeenIsDated(operation[p])
      /\ listing' = models /\ UNCHANGED <<holder, cached, fetches, preference, lane, operation>>
  BY DEF Relist, PreferenceInv
<1>2. PreferenceTypes'
  BY <1>1 DEF PreferenceTypes
<1>3. CacheIsSound' /\ \A p \in Operations : SeenIsDated(operation[p])'
  BY <1>1, CacheStays
<1> QED BY <1>1, <1>2, <1>3, LaneUntouched DEF PreferenceInv

LEMMA PreferencesStart == PreferencesInit => PreferenceInv
<1> SUFFICES ASSUME PreferencesInit PROVE PreferenceInv
  OBVIOUS
<1>1. IsRequest(IdleOperation) /\ IdleOperation.at = "idle" /\ IdleOperation.credential \in Nat
  BY IdleRequest
<1>2. \A p \in Operations : operation[p] = IdleOperation
  BY DEF PreferencesInit
<1>3. PreferenceTypes
  BY <1>1, <1>2 DEF PreferencesInit, PreferenceTypes
<1>4. CacheIsSound /\ \A p \in Operations : SeenIsDated(operation[p])
  BY <1>1, <1>2 DEF PreferencesInit, CacheIsSound, SeenIsDated
<1>5. LaneIsSound
  <2>1. lane = <<>> /\ lane \in Seq(Operations) /\ ToSet(lane) = {} /\ IsInjective(lane) /\ 1..Len(lane) = {}
    BY EmptyQueue DEF PreferencesInit
  <2>2. \A p \in Operations : ~HasPlace(operation[p])
    BY <1>1, <1>2 DEF HasPlace, Working
  <2> QED BY <1>1, <1>2, <2>1, <2>2 DEF LaneIsSound
<1> QED BY <1>3, <1>4, <1>5 DEF PreferenceInv

LEMMA PreferencesNextKept == PreferenceInv /\ [PreferencesNext]_preferenceVars => PreferenceInv'
<1> SUFFICES ASSUME PreferenceInv, [PreferencesNext]_preferenceVars PROVE PreferenceInv'
  OBVIOUS
<1>1. ASSUME NEW o \in Operations, BeginReconcile(o) \/ Turn(o) \/ Load(o) \/ GiveUp(o) PROVE PreferenceInv'
  BY <1>1, BeginReconcileKept, TurnKept, LoadKept, GiveUpKept
<1>2. ASSUME NEW o \in Operations, GiveUpWaiting(o) \/ Forgotten(o) \/ FinishOperation(o) PROVE PreferenceInv'
  BY <1>2, GiveUpWaitingKept, ForgottenKept, FinishOperationKept
<1>3. ASSUME NEW o \in Operations, NEW m \in Models, BeginChoose(o, m) PROVE PreferenceInv'
  BY <1>3, BeginChooseKept
<1>4. ASSUME NEW o \in Operations, NEW kind \in Mutations, NEW m, BeginMutation(o, kind, m) PROVE PreferenceInv'
  BY <1>4, BeginMutationKept
<1>5. ASSUME NEW f \in fetches, Fetched(f) PROVE PreferenceInv'
  BY <1>5, FetchedKept
<1>6. ASSUME NEW models \in SUBSET Models, Relist(models) PROVE PreferenceInv'
  BY <1>6, RelistKept
<1>7. CASE SignOut \/ SignIn
  BY <1>7, SignOutKept, SignInKept
<1>8. CASE UNCHANGED preferenceVars
  <2>1. UNCHANGED <<listing, holder, cached, fetches, preference, lane, operation>>
    BY <1>8 DEF preferenceVars
  <2> QED BY <2>1 DEF PreferenceInv, PreferenceTypes, CacheIsSound, SeenIsDated, Dated, IsCurrent, LaneIsSound, HasPlace
<1> QED BY <1>1, <1>2, <1>3, <1>4, <1>5, <1>6, <1>7, <1>8 DEF PreferencesNext, Mutations

------------------------------------------------------------------------------
LEMMA OneWorks == PreferenceInv => OneMutationAtATime
<1> SUFFICES ASSUME PreferenceInv PROVE OneMutationAtATime
  OBVIOUS
<1> DEFINE W == {o \in Operations : operation[o].kind \in Mutations /\ operation[o].at \in Working}
<1>1. ASSUME NEW p \in W, NEW q \in W PROVE p = q
  <2>1. /\ lane \in Seq(Operations) /\ DOMAIN lane = 1..Len(lane) /\ Len(lane) \in Nat
        /\ p \in ToSet(lane) /\ q \in ToSet(lane)
    BY LenProperties DEF PreferenceInv, LaneIsSound, HasPlace
  <2>2. PICK i \in 1..Len(lane), j \in 1..Len(lane) : lane[i] = p /\ lane[j] = q
    BY <2>1 DEF ToSet
  <2>3. ~(j < i) /\ ~(i < j)
    BY <2>2 DEF PreferenceInv, LaneIsSound, Working
  <2>4. i = j
    BY <2>1, <2>3
  <2> QED BY <2>2, <2>4
<1>2. Cardinality(W) <= 1
  <2>1. CASE W = {}
    BY <2>1, FS_EmptySet
  <2>2. CASE W # {}
    <3>1. PICK p \in W : TRUE
      BY <2>2
    <3>2. W = {p}
      BY <1>1, <3>1
    <3> HIDE DEF W
    <3>3. Cardinality({p}) = 1
      BY FS_Singleton
    <3> QED BY <3>2, <3>3
  <2> QED BY <2>1, <2>2
<1> QED BY <1>2 DEF OneMutationAtATime, Mutations, Working

LEMMA ChoiceFollows ==
  ASSUME PreferenceInv, [PreferencesNext]_preferenceVars
  PROVE  ChoiceFollowsTheCatalogue
<1>1. ASSUME NEW o \in Operations, FinishOperation(o) PROVE ChoiceFollowsTheCatalogue
  BY <1>1, AppliedIsFormed
<1>2. ASSUME preference' = preference \/ preference' = Unset PROVE ChoiceFollowsTheCatalogue
  BY <1>2 DEF ChoiceFollowsTheCatalogue
<1>3. (\E o \in Operations : FinishOperation(o)) \/ preference' = preference \/ preference' = Unset
  BY DEF PreferencesNext, preferenceVars, BeginReconcile, Turn, Load, GiveUp, GiveUpWaiting, Forgotten, BeginChoose,
         BeginMutation, Fetched, SignOut, SignIn, Relist
<1> QED BY <1>1, <1>2, <1>3

\* For any operations, models, bounds and interleaving: whenever the stored preference changes to
\* another one, a catalogue is cached that is current at that moment, and the choice is valid exactly
\* if that catalogue lists its model (preferred.ts 61-84, admin/api.ts 502-521); and no two of the
\* console's changes of one account's models are ever under way at once, whoever gives up waiting
\* (admin/api.ts 675-698).
THEOREM PreferencesSound == PreferencesSpec => PreferencesAreSound
<1>1. PreferenceInv /\ [PreferencesNext]_preferenceVars => [ChoiceFollowsTheCatalogue /\ OneMutationAtATime']_preferenceVars
  <2> SUFFICES ASSUME PreferenceInv, [PreferencesNext]_preferenceVars
               PROVE  ChoiceFollowsTheCatalogue /\ OneMutationAtATime'
    OBVIOUS
  <2>1. PreferenceInv'
    BY PreferencesNextKept
  <2>2. PreferenceInv' => OneMutationAtATime'
    BY OneWorks, PTL
  <2> QED BY <2>1, <2>2, ChoiceFollows
<1> QED BY <1>1, PreferencesStart, PreferencesNextKept, PTL DEF PreferencesSpec, PreferencesAreSound

================================================================================
