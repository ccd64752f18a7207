-------------------------- MODULE ModelPreferences --------------------------
(***************************************************************************)
(* The preferred model of an account and everything that may change it     *)
(* while catalogues are fetched: requests and listings that reconcile it    *)
(* with the catalogue they loaded (protocols/model_catalog/preferred.ts),   *)
(* the console's refresh and choice (admin/api.ts), the command line's      *)
(* choice (cli/commands/dispatcher.ts), and the removal and sign-in of the  *)
(* account.  The catalogue cache is the one of copilot/model_catalog.ts.    *)
(***************************************************************************)
EXTENDS Integers, Sequences, FiniteSets, SequencesExt

CONSTANTS Models, Operations,
          Unset,           \* no such thing
          MAX_GENERATION,  \* bound: invalidations of the catalogue
          MAX_CREDENTIAL,  \* bound: sign-ins of the account
          MAX_REVISION     \* bound: revisions of the preference

\* Unset is neither a model nor a catalogue.
ASSUME PreferencesAssumption ==
    /\ Unset \notin Models
    /\ Unset \notin [generation : Nat, credential : Nat, models : SUBSET Models]

VARIABLES
    listing,      \* the models the upstream lists
    holder,       \* the account: active, and its credential generation
    cached,       \* the cache: generation, newest credential asked for, entry
    fetches,      \* fetches under way
    preference,   \* the stored preference
    lane,         \* the console's changes of models, in order
    operation     \* what each operation has got to

preferenceVars == <<listing, holder, cached, fetches, preference, lane, operation>>

IdleOperation == [at |-> "idle", kind |-> Unset, model |-> Unset, credential |-> 0, observed |-> Unset, seen |-> Unset, fetch |-> Unset]

PreferencesInit ==
    /\ listing \in SUBSET Models
    /\ holder = [active |-> TRUE, credential |-> 1]
    /\ cached = [generation |-> 0, credential |-> 0, entry |-> Unset]
    /\ fetches = {}
    /\ preference = Unset
    /\ lane = <<>>
    /\ operation = [o \in Operations |-> IdleOperation]

Revision(p) == IF p = Unset THEN 0 ELSE p.revision

Advance(o, r) == operation' = [operation EXCEPT ![o] = r]

(***************************************************************************)
(* The store.                                                              *)
(***************************************************************************)
\* Defect: the generations of the catalogue and the credential are not compared.
IsCurrent_Any(snapshot) == TRUE

IsCurrent(snapshot) == snapshot.generation = cached.generation /\ snapshot.credential = cached.credential

\* An observer that saw another revision, or no preference, changes nothing.
MarkInvalidIfMissing(p, models, expected) ==
    IF p = Unset \/ p.model \in models \/ expected # p.revision \/ ~p.valid THEN p
    ELSE [p EXCEPT !.valid = FALSE, !.revision = @ + 1]

SetPreference(model, expected) == [model |-> model, valid |-> TRUE, revision |-> expected + 1]

(***************************************************************************)
(* Beginning an operation: the account is bound; a reader notes the         *)
(* preference it sees.  A request for a named model notes none.             *)
(***************************************************************************)
BeginReconcile(o) ==
    /\ operation[o].at = "idle" /\ holder.active
    /\ \E observed \in {Unset, IF preference = Unset THEN Unset ELSE preference.revision} :
           Advance(o, [IdleOperation EXCEPT !.at = "load", !.kind = "reconcile", !.credential = holder.credential, !.observed = observed])
    /\ UNCHANGED <<listing, holder, cached, fetches, preference, lane>>

BeginChoose(o, m) ==
    /\ operation[o].at = "idle" /\ holder.active
    /\ Advance(o, [IdleOperation EXCEPT !.at = "load", !.kind = "choose", !.model = m, !.credential = holder.credential])
    /\ UNCHANGED <<listing, holder, cached, fetches, preference, lane>>

\* withModelMutation: the console's changes of one account's models wait for one another.
Join(o) == Append(lane, o)

BeginMutation(o, kind, m) ==
    /\ operation[o].at = "idle"
    /\ kind = "set" <=> m # Unset
    /\ lane' = Join(o)
    /\ Advance(o, [IdleOperation EXCEPT !.at = "waiting", !.kind = kind, !.model = m, !.observed = Revision(preference)])
    /\ UNCHANGED <<listing, holder, cached, fetches, preference>>

\* Its turn: everyone ahead has left or has given up.
Turn(o) ==
    /\ operation[o].at = "waiting"
    /\ \A i \in DOMAIN lane : lane[i] = o => \A j \in 1..(i - 1) : operation[lane[j]].at \in {"idle", "gaveup"}
    /\ holder.active
    /\ operation[o].kind = "refresh" => cached.generation < MAX_GENERATION
    /\ IF operation[o].kind = "refresh"
       THEN /\ cached' = [cached EXCEPT !.generation = @ + 1, !.entry = Unset]
            /\ Advance(o, [operation[o] EXCEPT !.at = "load", !.credential = holder.credential,
                               !.observed = IF preference = Unset THEN Unset ELSE preference.revision])
       ELSE /\ Advance(o, [operation[o] EXCEPT !.at = "load", !.credential = holder.credential])
            /\ UNCHANGED cached
    /\ UNCHANGED <<listing, holder, fetches, preference, lane>>

(***************************************************************************)
(* CopilotModelCatalog.get: a hit, or a fetch shared by everyone who asks   *)
(* for the same generation with the same credential.                        *)
(***************************************************************************)
Load(o) ==
    /\ operation[o].at = "load"
    /\ LET r == operation[o]
           newest == IF r.credential > cached.credential THEN r.credential ELSE cached.credential
           key == [generation |-> cached.generation, credential |-> r.credential]
       IN /\ cached' = [cached EXCEPT !.credential = newest]
          /\ IF cached.entry # Unset /\ cached.entry.credential = r.credential
             THEN Advance(o, [r EXCEPT !.seen = cached.entry, !.at = "rebind"]) /\ UNCHANGED fetches
             ELSE Advance(o, [r EXCEPT !.fetch = key, !.at = "fetching"]) /\ fetches' = fetches \cup {key}
    /\ UNCHANGED <<listing, holder, preference, lane>>

Fetched(f) ==
    /\ f \in fetches
    /\ fetches' = fetches \ {f}
    /\ LET snapshot == [generation |-> f.generation, credential |-> f.credential, models |-> listing]
       IN /\ cached' = [cached EXCEPT !.entry = IF IsCurrent(snapshot) THEN snapshot ELSE @]
          /\ operation' = [o \in Operations |->
                 IF operation[o].at = "fetching" /\ operation[o].fetch = f
                 THEN [operation[o] EXCEPT !.fetch = Unset, !.seen = snapshot, !.at = "rebind"] ELSE operation[o]]
    /\ UNCHANGED <<listing, holder, preference, lane>>

Left(o) == IF operation[o].kind \in {"refresh", "set"} THEN RemoveFirst(lane, o) ELSE lane

\* A fetch fails, or its caller gives up: the last one to leave aborts it.
GiveUp(o) ==
    /\ operation[o].at \in {"load", "fetching", "rebind"}
    /\ Advance(o, IdleOperation) /\ lane' = Left(o)
    /\ fetches' = {f \in fetches : \E p \in Operations \ {o} : operation[p].at = "fetching" /\ operation[p].fetch = f}
    /\ UNCHANGED <<listing, holder, cached, preference>>

\* A caller that gives up in the queue keeps its place until those ahead have left.
GiveUpWaiting(o) ==
    /\ operation[o].at = "waiting"
    /\ Advance(o, [IdleOperation EXCEPT !.at = "gaveup"])
    /\ UNCHANGED <<listing, holder, cached, fetches, preference, lane>>

Forgotten(o) ==
    /\ operation[o].at = "gaveup" /\ lane # <<>> /\ Head(lane) = o
    /\ Advance(o, IdleOperation) /\ lane' = Tail(lane)
    /\ UNCHANGED <<listing, holder, cached, fetches, preference>>

(***************************************************************************)
(* The account is bound again, and what was fetched is applied if it is     *)
(* still the current catalogue of the same credential.                      *)
(***************************************************************************)
Applies(r) == holder.active /\ holder.credential = r.credential /\ IsCurrent(r.seen)

Applied(r) ==
    IF r.kind \in {"reconcile", "refresh"} THEN MarkInvalidIfMissing(preference, r.seen.models, r.observed)
    ELSE IF r.model \notin r.seen.models THEN preference
    ELSE IF r.kind = "choose" THEN SetPreference(r.model, Revision(preference))
    ELSE IF r.observed = Revision(preference) THEN SetPreference(r.model, r.observed) ELSE preference

FinishOperation(o) ==
    /\ operation[o].at = "rebind"
    /\ preference' = IF Applies(operation[o]) THEN Applied(operation[o]) ELSE preference
    /\ Revision(preference') <= MAX_REVISION
    /\ Advance(o, IdleOperation) /\ lane' = Left(o)
    /\ UNCHANGED <<listing, holder, cached, fetches>>

(***************************************************************************)
(* The surroundings.                                                       *)
(***************************************************************************)
SignOut ==
    /\ holder.active /\ cached.generation < MAX_GENERATION
    /\ holder' = [holder EXCEPT !.active = FALSE]
    /\ preference' = Unset
    /\ cached' = [cached EXCEPT !.generation = @ + 1, !.entry = Unset]
    /\ UNCHANGED <<listing, fetches, lane, operation>>

SignIn ==
    /\ holder.credential < MAX_CREDENTIAL /\ cached.generation < MAX_GENERATION
    /\ holder' = [active |-> TRUE, credential |-> holder.credential + 1]
    /\ cached' = [cached EXCEPT !.generation = @ + 1, !.entry = Unset]
    /\ UNCHANGED <<listing, fetches, preference, lane, operation>>

Relist(models) ==
    /\ models # listing
    /\ listing' = models
    /\ UNCHANGED <<holder, cached, fetches, preference, lane, operation>>

PreferencesNext ==
    \/ \E o \in Operations :
           \/ BeginReconcile(o) \/ Turn(o) \/ Load(o) \/ GiveUp(o) \/ GiveUpWaiting(o) \/ Forgotten(o) \/ FinishOperation(o)
           \/ \E m \in Models : BeginChoose(o, m)
           \/ \E kind \in {"refresh", "set"}, m \in Models \cup {Unset} : BeginMutation(o, kind, m)
    \/ \E f \in fetches : Fetched(f)
    \/ SignOut \/ SignIn \/ \E models \in SUBSET Models : Relist(models)

PreferencesSpec == PreferencesInit /\ [][PreferencesNext]_preferenceVars

(***************************************************************************)
(* Properties.                                                             *)
(***************************************************************************)

\* A choice is declared invalid only when the catalogue that is current at that moment lacks its
\* model: neither a catalogue fetched before an invalidation or for older credentials, nor an
\* observer that saw an older choice, can undo it (preferred.ts 61-84, model_preferences.ts 72-98,
\* admin/api.ts 502-521).  And a choice is only ever made from the current catalogue.
ChoiceFollowsTheCatalogue ==
    preference' # preference /\ preference' # Unset =>
        /\ cached.entry # Unset
        /\ preference'.valid <=> preference'.model \in cached.entry.models

\* The console's changes of the models never overlap, whoever gives up while waiting
\* (admin/api.ts 675-698).
OneMutationAtATime ==
    Cardinality({o \in Operations : operation[o].kind \in {"refresh", "set"} /\ operation[o].at \in {"load", "fetching", "rebind"}}) <= 1

\* Both, in every step (preferred.ts 61-84, admin/api.ts 675-698).
PreferencesAreSound == [][ChoiceFollowsTheCatalogue /\ OneMutationAtATime']_preferenceVars

=============================================================================
