------------------------------- MODULE Accounts -------------------------------
(***************************************************************************)
(* Accounts and their credentials: accounts/account_directory.ts over the  *)
(* accounts table, accounts/credential_store.ts over credentials.json, and *)
(* getValidToken of copilot/token_refresh.ts, in a process that may crash. *)
(*                                                                         *)
(* The table and the file are written one after the other, never together. *)
(* The lanes of AccountCoordinator appear as their abstract promise: one   *)
(* holder at a time.  An action is what runs between two awaits, except    *)
(* that a run which writes twice is split, because a crash may come        *)
(* between the writes: "turn" then keeps every other operation out.        *)
(***************************************************************************)
EXTENDS Naturals, FiniteSets

CONSTANTS
  Accounts,           \* the identities that sign in
  SignIns,            \* callers of upsertAuthenticated, each with its secret
  Removals,           \* callers of remove
  Refreshes,          \* callers of getValidToken
  Nobody,             \* no caller, no secret, no account
  MaxAuthenticated,   \* accounts.maxAuthenticated
  MaxGeneration,      \* bound on the credential generations of an account
  MaxCrashes,         \* bound on the crashes of a behaviour
  Faults              \* may a write of the file or of the table fail?

Callers == SignIns \cup Removals \cup Refreshes
Generations == 1..MaxGeneration
Secrets == SignIns \cup {Nobody}

ASSUME CallersAssumption ==
  /\ SignIns \cap Removals = {} /\ SignIns \cap Refreshes = {}
  /\ Removals \cap Refreshes = {}
  /\ Nobody \notin Callers \cup Accounts
ASSUME BoundsAssumption ==
  /\ MaxAuthenticated \in Nat /\ MaxGeneration \in Nat /\ MaxCrashes \in Nat
  /\ Faults \in BOOLEAN
ASSUME AccountsAssumption == IsFiniteSet(Accounts)

VARIABLES
  row,          \* accounts: [state, gen, rev] of each account
  default,      \* gateway_preferences.default_account_id
  store,        \* credentials.json: the secret of each generation
  signedIn,     \* history: whose secret the account was last activated with
  mode,         \* "starting" until reconcile() has returned, then "serving"
  call,         \* the call each caller is in: where it is, its account, what it
                \* noted (the expected revision; the bound or new generation),
                \* the secret it has read, and whether its signal is aborted
  lifecycle,    \* the holder of the lifecycle lane
  generation,   \* the holder of each generation lane
  turn,         \* the caller in the middle of a run without awaits
  crashes       \* crashes so far

tables == <<row, default, signedIn>>
lanes  == <<lifecycle, generation>>
vars == <<tables, store, mode, call, lanes, turn, crashes>>

RowStates == {"absent", "active", "removing", "removed"}
Points == {"idle", "asked", "life", "gen", "put", "committed", "cleanup",
           "removing", "erased", "bound", "network"}

TypeOK ==
  /\ row \in [Accounts -> [state : RowStates, gen : Nat, rev : Nat]]
  /\ \A a \in Accounts : row[a].gen <= MaxGeneration
  /\ default \in Accounts \cup {Nobody}
  /\ store \in [Accounts -> [Generations -> Secrets]]
  /\ signedIn \in [Accounts -> Secrets]
  /\ mode \in {"starting", "serving"}
  /\ call \in [Callers -> [at : Points, account : Accounts \cup {Nobody}, noted : Nat,
                           secret : Secrets, aborted : BOOLEAN]]
  /\ \A p \in Callers : call[p].at = "idle" <=> call[p].account = Nobody
  /\ lifecycle \in Callers \cup {Nobody}
  /\ generation \in [Accounts -> Callers \cup {Nobody}]
  /\ \A p \in Callers : p = lifecycle \/ (\E a \in Accounts : p = generation[a])
                        => call[p].at # "idle"
  /\ turn \in Callers \cup {Nobody}
  /\ crashes \in 0..MaxCrashes

NoCall == [at |-> "idle", account |-> Nobody, noted |-> 0, secret |-> Nobody, aborted |-> FALSE]

Init ==
  /\ row = [a \in Accounts |-> [state |-> "absent", gen |-> 0, rev |-> 0]]
  /\ default = Nobody
  /\ store = [a \in Accounts |-> [g \in Generations |-> Nobody]]
  /\ signedIn = [a \in Accounts |-> Nobody]
  /\ mode = "starting"
  /\ call = [p \in Callers |-> NoCall]
  /\ lifecycle = Nobody
  /\ generation = [a \in Accounts |-> Nobody]
  /\ turn = Nobody
  /\ crashes = 0

------------------------------------------------------------------------------
(* The credential file *)

\* updateDocument() replaces the file by a rename.  It may fail before it, and
\* after it when the directory cannot be synced: the new file stands, and the
\* writer is told that it failed.
Written(file) == store' = file
WriteFails(file) == Faults /\ store' \in {store, file}

WithSecret(a, g, s) == [store EXCEPT ![a][g] = s]
WithoutAccount(a) == [store EXCEPT ![a] = [g \in Generations |-> Nobody]]

\* activeCredentialReferences()
Referenced(rows, a, g) == rows[a].state = "active" /\ rows[a].gen = g

\* prune(): only the generations of active accounts stay.
Pruned(rows) ==
  [a \in Accounts |-> [g \in Generations |->
     IF Referenced(rows, a, g) THEN store[a][g] ELSE Nobody]]

------------------------------------------------------------------------------
(* Calls and lanes *)

Free == turn = Nobody /\ mode = "serving"
At(p, point) == Free /\ call[p].at = point
Account(p) == call[p].account
Noted(p) == call[p].noted
Aborted(p) == call[p].aborted

Goes(p, point) == call' = [call EXCEPT ![p].at = point]
Ends(p) == call' = [call EXCEPT ![p] = NoCall]

\* The call returns or throws, and its lanes are handed on.
Leaves(p) ==
  /\ lifecycle' = IF lifecycle = p THEN Nobody ELSE lifecycle
  /\ generation' = [a \in Accounts |-> IF generation[a] = p THEN Nobody ELSE generation[a]]

Returns(p) == Ends(p) /\ Leaves(p)

Call(p, a) ==
  /\ At(p, "idle") /\ p \in SignIns \cup Removals
  /\ call' = [call EXCEPT ![p] = [NoCall EXCEPT !.at = "asked", !.account = a, !.noted = row[a].rev]]
  /\ UNCHANGED <<tables, store, mode, lanes, turn, crashes>>

EnterLifecycle(p) ==
  /\ At(p, "asked") /\ p \in SignIns \cup Removals
  /\ lifecycle = Nobody /\ ~Aborted(p)
  /\ lifecycle' = p
  /\ Goes(p, "life")
  /\ UNCHANGED <<tables, store, mode, generation, turn, crashes>>

\* Defect: refreshes do not take the generation lane.
EnterGeneration_RefreshesDoNot(p) ==
  /\ At(p, IF p \in Refreshes THEN "asked" ELSE "life")
  /\ ~Aborted(p)
  /\ p \in Refreshes \/ generation[Account(p)] = Nobody
  /\ generation' = IF p \in Refreshes THEN generation ELSE [generation EXCEPT ![Account(p)] = p]
  /\ Goes(p, "gen")
  /\ UNCHANGED <<tables, store, mode, lifecycle, turn, crashes>>

EnterGeneration(p) ==
  /\ At(p, IF p \in Refreshes THEN "asked" ELSE "life")
  /\ generation[Account(p)] = Nobody /\ ~Aborted(p)
  /\ generation' = [generation EXCEPT ![Account(p)] = p]
  /\ Goes(p, "gen")
  /\ UNCHANGED <<tables, store, mode, lifecycle, turn, crashes>>

\* An aborted caller leaves the queue of the lane it waits for, and one that is
\* admitted is sent away by the first throwIfAborted().
AbortedAtTheLanes(p) ==
  /\ Aborted(p)
  /\ At(p, "asked") \/ At(p, "life") \/ At(p, "gen")
  /\ Returns(p)
  /\ UNCHANGED <<tables, store, mode, turn, crashes>>

Abort(p) ==
  /\ Free /\ call[p].at # "idle" /\ ~Aborted(p)
  /\ call' = [call EXCEPT ![p].aborted = TRUE]
  /\ UNCHANGED <<tables, store, mode, lanes, turn, crashes>>

InLanes(p, callers) == p \in callers /\ At(p, "gen") /\ ~Aborted(p)

------------------------------------------------------------------------------
(* upsertAuthenticated() *)

ActiveAccounts == {a \in Accounts : row[a].state = "active"}

SignInRefused(p) ==
  /\ InLanes(p, SignIns)
  /\ LET r == row[Account(p)]
     IN \/ r.state = "removing"
        \/ r.state # "active" /\ Cardinality(ActiveAccounts) >= MaxAuthenticated

SignInThrows(p) ==
  /\ SignInRefused(p)
  /\ Returns(p)
  /\ UNCHANGED <<tables, store, mode, turn, crashes>>

\* The secret is written as the next generation, before the account refers to it.
SignInPut(p) ==
  /\ InLanes(p, SignIns) /\ ~SignInRefused(p)
  /\ LET a == Account(p)  g == row[a].gen + 1
     IN /\ g <= MaxGeneration
        /\ \/ /\ Written(WithSecret(a, g, p)) /\ UNCHANGED lanes
              /\ call' = [call EXCEPT ![p].at = "put", ![p].noted = g]
           \/ WriteFails(WithSecret(a, g, p)) /\ Returns(p)
  /\ UNCHANGED <<tables, mode, turn, crashes>>

\* Aborted meanwhile: the prune that follows is given the aborted signal, and
\* throws before it touches the file.
SignInAborted(p) ==
  /\ At(p, "put") /\ Aborted(p)
  /\ Returns(p)
  /\ UNCHANGED <<tables, store, mode, turn, crashes>>

Activated(a, g) == [row EXCEPT ![a] = [state |-> "active", gen |-> g, rev |-> row[a].rev + 1]]

\* The transaction: the account refers to its new generation, and becomes the
\* default if there is none.
SignInCommit(p) ==
  /\ At(p, "put") /\ ~Aborted(p)
  /\ LET a == Account(p)
     IN /\ row' = Activated(a, Noted(p))
        /\ default' = IF default = Nobody THEN a ELSE default
        /\ signedIn' = [signedIn EXCEPT ![a] = p]
  /\ Goes(p, "committed")
  /\ turn' = p
  /\ UNCHANGED <<store, mode, lanes, crashes>>

\* The transaction fails: what was written is pruned, if that works.
SignInRollback(p) ==
  /\ Faults /\ At(p, "put") /\ ~Aborted(p)
  /\ Written(Pruned(row)) \/ WriteFails(Pruned(row))
  /\ Returns(p)
  /\ UNCHANGED <<tables, mode, turn, crashes>>

\* The same run prunes the generations before.  If that fails the account is
\* active all the same, and the caller is given a cleanup to retry.
SignInPrune(p) ==
  /\ turn = p /\ call[p].at = "committed"
  /\ turn' = Nobody
  /\ Leaves(p)
  /\ \/ Written(Pruned(row)) /\ Ends(p)
     \/ WriteFails(Pruned(row)) /\ Goes(p, "cleanup")
  /\ UNCHANGED <<tables, mode, crashes>>

\* retryCleanup() takes the lifecycle lane, but no generation lane.
RetryCleanup(p) ==
  /\ At(p, "cleanup") /\ lifecycle = Nobody
  /\ \/ ~Aborted(p) /\ Written(Pruned(row)) /\ Ends(p)
     \/ ~Aborted(p) /\ WriteFails(Pruned(row)) /\ UNCHANGED call
     \/ UNCHANGED store /\ Ends(p)
  /\ UNCHANGED <<tables, mode, lanes, turn, crashes>>

------------------------------------------------------------------------------
(* remove() *)

\* Not found, changed since the caller read it, or removed already.
RemoveRefused(p) ==
  /\ InLanes(p, Removals)
  /\ LET r == row[Account(p)]
     IN r.state \in {"absent", "removed"} \/ r.rev # Noted(p)

RemoveThrows(p) ==
  /\ RemoveRefused(p) \/ (InLanes(p, Removals) /\ Faults)
  /\ Returns(p)
  /\ UNCHANGED <<tables, store, mode, turn, crashes>>

\* The account stops being active, and stops being the default, in one transaction.
RemoveBegin(p) ==
  /\ InLanes(p, Removals) /\ ~RemoveRefused(p)
  /\ LET a == Account(p)
     IN IF row[a].state = "active"
        THEN /\ row' = [row EXCEPT ![a].state = "removing", ![a].rev = @ + 1]
             /\ default' = IF default = a THEN Nobody ELSE default
        ELSE UNCHANGED <<row, default>>
  /\ Goes(p, "removing")
  /\ turn' = p
  /\ UNCHANGED <<signedIn, store, mode, lanes, crashes>>

\* removeAccount() in the same run.
RemoveCredentials(p) ==
  /\ turn = p /\ call[p].at = "removing"
  /\ turn' = Nobody
  /\ LET file == WithoutAccount(Account(p))
     IN \/ Written(file) /\ Goes(p, "erased") /\ UNCHANGED lanes
        \/ WriteFails(file) /\ Returns(p)
  /\ UNCHANGED <<tables, mode, crashes>>

Removed(a) == [row EXCEPT ![a].state = "removed", ![a].rev = @ + 1]

RemoveFinish(p) ==
  /\ At(p, "erased")
  /\ \/ ~Aborted(p) /\ row' = Removed(Account(p))
     \/ (Aborted(p) \/ Faults) /\ UNCHANGED row
  /\ Returns(p)
  /\ UNCHANGED <<default, signedIn, store, mode, turn, crashes>>

------------------------------------------------------------------------------
(* use() *)

\* The preference moves to an active account.
Use(a) ==
  /\ Free /\ row[a].state = "active" /\ default # a
  /\ default' = a
  /\ UNCHANGED <<row, signedIn, store, mode, call, lanes, turn, crashes>>

------------------------------------------------------------------------------
(* getValidToken() *)

\* A request binds an account, and asks for a token of the generation it read.
Bind(p, a) ==
  /\ At(p, "idle") /\ p \in Refreshes
  /\ row[a].state = "active"
  /\ call' = [call EXCEPT ![p] = [NoCall EXCEPT !.at = "bound", !.account = a, !.noted = row[a].gen]]
  /\ UNCHANGED <<tables, store, mode, lanes, turn, crashes>>

Present(p) == store[Account(p)][Noted(p)] # Nobody

RefreshAsks(p) ==
  /\ At(p, "bound")
  /\ IF Present(p) /\ ~Aborted(p) THEN Goes(p, "asked") ELSE Ends(p)
  /\ UNCHANGED <<tables, store, mode, lanes, turn, crashes>>

\* In the lane the credential is read again: it may be gone, or fresh enough.
RefreshReads(p) ==
  /\ InLanes(p, Refreshes)
  /\ \/ /\ Present(p) /\ UNCHANGED lanes
        /\ call' = [call EXCEPT ![p].at = "network", ![p].secret = store[Account(p)][Noted(p)]]
     \/ Returns(p)
  /\ UNCHANGED <<tables, store, mode, turn, crashes>>

\* The token arrives and is stored with the generation that was read, or it
\* does not arrive.
RefreshStores(p) ==
  /\ At(p, "network")
  /\ LET file == WithSecret(Account(p), Noted(p), call[p].secret)
     IN \/ ~Aborted(p) /\ Written(file)
        \/ ~Aborted(p) /\ WriteFails(file)
        \/ UNCHANGED store
  /\ Returns(p)
  /\ UNCHANGED <<tables, mode, turn, crashes>>

------------------------------------------------------------------------------
(* Crash, and reconcile() at the next start *)

\* Only the table and the file survive.  A start that fails is a crash too.
Crash ==
  /\ crashes < MaxCrashes
  /\ crashes' = crashes + 1
  /\ mode' = "starting"
  /\ call' = [p \in Callers |-> NoCall]
  /\ lifecycle' = Nobody
  /\ generation' = [a \in Accounts |-> Nobody]
  /\ turn' = Nobody
  /\ UNCHANGED <<tables, store>>

\* A removal that was interrupted is taken up: its credentials, then its row.
ReconcileCredentials(a) ==
  /\ mode = "starting" /\ row[a].state = "removing"
  /\ Written(WithoutAccount(a))
  /\ UNCHANGED <<tables, mode, call, lanes, turn, crashes>>

ReconcileRow(a) ==
  /\ mode = "starting" /\ row[a].state = "removing"
  /\ store[a] = [g \in Generations |-> Nobody]
  /\ row' = Removed(a)
  /\ UNCHANGED <<default, signedIn, store, mode, call, lanes, turn, crashes>>

\* Defect: the start does not wait for the removals it takes up.
ReconcilePrune_Early ==
  /\ mode = "starting"
  /\ Written(Pruned(row))
  /\ mode' = "serving"
  /\ UNCHANGED <<tables, call, lanes, turn, crashes>>

\* When none is left, the file is pruned and requests are served.
ReconcilePrune ==
  /\ mode = "starting"
  /\ \A a \in Accounts : row[a].state # "removing"
  /\ Written(Pruned(row))
  /\ mode' = "serving"
  /\ UNCHANGED <<tables, call, lanes, turn, crashes>>

------------------------------------------------------------------------------
SignInStep(p) ==
  \/ SignInThrows(p) \/ SignInPut(p) \/ SignInAborted(p) \/ SignInCommit(p)
  \/ SignInRollback(p) \/ SignInPrune(p) \/ RetryCleanup(p)
RemoveStep(p) ==
  RemoveThrows(p) \/ RemoveBegin(p) \/ RemoveCredentials(p) \/ RemoveFinish(p)
RefreshStep(p) == RefreshAsks(p) \/ RefreshReads(p) \/ RefreshStores(p)
LaneStep(p) == EnterLifecycle(p) \/ EnterGeneration(p) \/ AbortedAtTheLanes(p)
Reconcile == ReconcilePrune \/ \E a \in Accounts : ReconcileCredentials(a) \/ ReconcileRow(a)

Next ==
  \/ \E p \in Callers : \/ SignInStep(p) \/ RemoveStep(p) \/ RefreshStep(p)
                        \/ LaneStep(p) \/ Abort(p)
                        \/ \E a \in Accounts : Call(p, a) \/ Bind(p, a)
  \/ \E a \in Accounts : Use(a)
  \/ Reconcile
  \/ Crash

\* reconcile() runs on once the process has started; a crash may still come.
Fairness == WF_vars(Reconcile)

Spec == Init /\ [][Next]_vars
FairSpec == Spec /\ Fairness

------------------------------------------------------------------------------
(* Safety *)

\* Whatever crashes and fails, in whatever order the table and the file were
\* written: an active account refers to a generation that is in the file, and
\* the file holds there the secret the account was activated with.
ActiveHasItsSecret ==
  \A a \in Accounts : row[a].state = "active" =>
    /\ row[a].gen \in Generations
    /\ signedIn[a] \in SignIns
    /\ store[a][row[a].gen] = signedIn[a]

\* A removed account has no secret left that it ever referred to, and none
\* comes back through a refresh that began before the removal.
RemovedIsErased ==
  \A a \in Accounts : row[a].state = "removed" =>
    \A g \in Generations : g <= row[a].gen => store[a][g] = Nobody

\* Sign-ins that run side by side do not get past the capacity together.
WithinCapacity == Cardinality(ActiveAccounts) <= MaxAuthenticated

\* What the rows promise: the file holds the secrets they refer to and nothing of
\* an account that is removed, and there are no more of them than are allowed.
SecretsFollowRows == ActiveHasItsSecret /\ RemovedIsErased /\ WithinCapacity

\* While no call is running, the file holds no secret but those of the active
\* accounts: an activation that is given up takes back what it wrote.
NoOrphanSecret ==
  mode = "serving" /\ (\A p \in Callers : call[p].at = "idle") =>
    \A a \in Accounts : \A g \in Generations :
      store[a][g] # Nobody => Referenced(row, a, g)

------------------------------------------------------------------------------
(* Action properties *)

\* A generation that a later sign-in has replaced, and that is gone from the
\* file, is not brought back by a refresh.
OldGenerationsStayGone ==
  [][\A a \in Accounts : \A g \in Generations :
       g < row[a].gen /\ store[a][g] = Nobody => store'[a][g] = Nobody]_vars

------------------------------------------------------------------------------
(* Liveness *)

\* A removal that a crash interrupted is finished by the next start.
RemovalsFinish ==
  \A a \in Accounts :
    mode = "starting" /\ row[a].state = "removing" ~> row[a].state = "removed"

===============================================================================
