----------------------------- MODULE InferencePool -----------------------------
(***************************************************************************)
(* The connection pools of the inference transport:                        *)
(* BoundedInferencePoolRegistry and InferencePoolEntry in                  *)
(* copilot/inference_pool.ts.  The registry keeps one entry per connection *)
(* profile and at most MaxEntries of them, the draining ones included; an  *)
(* entry hands out the slots of one dispatcher, which it creates on first  *)
(* use and closes when it is evicted.                                      *)
(*                                                                         *)
(* An action is what runs between two awaits.  acquire() awaits entryFor() *)
(* before it takes a slot, and the slot before it asks for the dispatcher: *)
(* "found" and "granted" are those gaps.  Which idle entry was used least  *)
(* recently is left open.                                                  *)
(***************************************************************************)
EXTENDS Naturals, Sequences, FiniteSets, SequencesExt

CONSTANTS
  Requests,       \* callers of acquire(); a caller may come again
  Profiles,       \* the connection profiles: origin and connect timeout
  Objects,        \* the entry objects that may exist at once
  None,           \* no entry
  MaxEntries,     \* limits.maxEntries
  Connections,    \* limits.connectionsPerEntry
  MaxWaiters,     \* limits.maxWaitersPerEntry
  Entry           \* any one of the entry objects: the one EntriesAreFair is about

ASSUME LimitsAssumption ==
  /\ MaxEntries \in Nat \ {0} /\ Connections \in Nat \ {0} /\ MaxWaiters \in Nat
ASSUME ObjectsAssumption ==
  /\ None \notin Objects /\ Entry \in Objects
  /\ IsFiniteSet(Objects) /\ IsFiniteSet(Requests)

VARIABLES
  registry,     \* "open", "closing" from close() on, "closed" once it returns
  entries,      \* the registry's map from profiles to entries
  draining,     \* the entries that are being drained
  evicted,      \* those of them that beginDraining() drains, with a grace of their own
  active,       \* each entry's slots in use
  waiters,      \* each entry's queue
  shut,         \* the entries whose closed flag is set
  forced,       \* the entries that were force-closed
  failed,       \* each entry's failedInitialization
  timer,        \* the entries whose idle timer is armed
  dispatcher,   \* the dispatcher each entry created
  req           \* where each request is, with its profile and entry

entryVars == <<active, waiters, shut, forced, failed, timer, dispatcher>>
vars == <<registry, entries, draining, evicted, entryVars, req>>

Points == {"idle", "retry", "evicting", "found", "waiting", "granted", "starting",
           "created", "uncreated", "leased"}
Slotted == {"granted", "starting", "created", "uncreated", "leased"}
InEntry == {"evicting", "found", "waiting"} \cup Slotted

TypeOK ==
  /\ registry \in {"open", "closing", "closed"}
  /\ entries \in [Profiles -> Objects \cup {None}]
  /\ draining \subseteq Objects /\ evicted \subseteq draining
  /\ active \in [Objects -> 0..Connections]
  /\ waiters \in [Objects -> Seq(Requests)]
  /\ \A e \in Objects : Len(waiters[e]) <= MaxWaiters
  /\ shut \subseteq Objects /\ forced \subseteq shut /\ failed \subseteq Objects
  /\ timer \subseteq Objects
  /\ dispatcher \in [Objects -> {"none", "creating", "open", "gone"}]
  /\ req \in [Requests -> [at : Points, profile : Profiles \cup {None}, entry : Objects \cup {None}]]
  /\ \A r \in Requests : req[r].entry # None <=> req[r].at \in InEntry

Outside == [at |-> "idle", profile |-> None, entry |-> None]

Init ==
  /\ registry = "open"
  /\ entries = [p \in Profiles |-> None]
  /\ draining = {} /\ evicted = {}
  /\ active = [e \in Objects |-> 0]
  /\ waiters = [e \in Objects |-> <<>>]
  /\ shut = {} /\ forced = {} /\ failed = {} /\ timer = {}
  /\ dispatcher = [e \in Objects |-> "none"]
  /\ req = [r \in Requests |-> Outside]

------------------------------------------------------------------------------
Mapped == {entries[p] : p \in Profiles} \ {None}
At(r, point) == req[r].at = point
EntryOf(r) == req[r].entry

Goes(r, point) == [req EXCEPT ![r].at = point]
Leaves(r) == [req EXCEPT ![r] = Outside]

\* The getter InferencePoolEntry.idle
Idle(e) == active[e] = 0 /\ waiters[e] = <<>> /\ dispatcher[e] # "creating"

\* The map without the entry.
Without(e) == [p \in Profiles |-> IF entries[p] = e THEN None ELSE entries[p]]

\* rejectWaiters(): whoever waits in one of the entries is sent away.
Rejected(es, rs) ==
  [r \in Requests |-> IF rs[r].at = "waiting" /\ rs[r].entry \in es THEN Outside ELSE rs[r]]

\* InferencePoolEntry.close(), up to its first await.
ShutEntries(es) ==
  /\ shut' = shut \cup es
  /\ timer' = timer \ es
  /\ waiters' = [e \in Objects |-> IF e \in es THEN <<>> ELSE waiters[e]]

\* An object that nobody refers to: a new entry.
Unused == Objects \ (Mapped \cup draining \cup {req[r].entry : r \in Requests}
                     \cup {e \in Objects : dispatcher[e] \in {"creating", "open"}})

------------------------------------------------------------------------------
(* entryFor() *)

Asks(r, p) ==
  /\ \/ At(r, "idle")
     \/ At(r, "retry") /\ req[r].profile = p
  /\ registry = "open"

FindExisting(r, p) ==
  /\ Asks(r, p)
  /\ entries[p] # None
  /\ timer' = timer \ {entries[p]}
  /\ req' = [req EXCEPT ![r] = [at |-> "found", profile |-> p, entry |-> entries[p]]]
  /\ UNCHANGED <<registry, entries, draining, evicted, active, waiters, shut, forced, failed, dispatcher>>

FindNew(r, p) ==
  /\ Asks(r, p)
  /\ entries[p] = None
  /\ Cardinality(Mapped) + Cardinality(draining) < MaxEntries
  /\ \E e \in Unused :
       /\ entries' = [entries EXCEPT ![p] = e]
       /\ req' = [req EXCEPT ![r] = [at |-> "found", profile |-> p, entry |-> e]]
       /\ shut' = shut \ {e} /\ forced' = forced \ {e} /\ failed' = failed \ {e}
       /\ timer' = timer \ {e}
       /\ dispatcher' = [dispatcher EXCEPT ![e] = "none"]
  /\ UNCHANGED <<registry, draining, evicted, active, waiters>>

\* Defect: an entry is evicted although requests wait in it.
FindEvicts_Busy(r, p) ==
  /\ Asks(r, p)
  /\ entries[p] = None
  /\ Cardinality(Mapped) + Cardinality(draining) >= MaxEntries
  /\ \E e \in Mapped :
       /\ entries' = Without(e)
       /\ draining' = draining \cup {e} /\ evicted' = evicted \cup {e}
       /\ ShutEntries({e})
       /\ req' = [Rejected({e}, req) EXCEPT ![r] = [at |-> "evicting", profile |-> p, entry |-> e]]
  /\ UNCHANGED <<registry, active, forced, failed, dispatcher>>

\* The pool is full: an idle entry is taken out of the map and drained.
FindEvicts(r, p) ==
  /\ Asks(r, p)
  /\ entries[p] = None
  /\ Cardinality(Mapped) + Cardinality(draining) >= MaxEntries
  /\ \E e \in Mapped :
       /\ Idle(e)
       /\ entries' = Without(e)
       /\ draining' = draining \cup {e} /\ evicted' = evicted \cup {e}
       /\ ShutEntries({e})
       /\ req' = [req EXCEPT ![r] = [at |-> "evicting", profile |-> p, entry |-> e]]
  /\ UNCHANGED <<registry, active, forced, failed, dispatcher>>

\* It is full of entries in use, or the registry closed meanwhile, or the
\* request is aborted.
FindFails(r) ==
  /\ At(r, "retry")
  /\ req' = Leaves(r)
  /\ UNCHANGED <<registry, entries, draining, evicted, entryVars>>

------------------------------------------------------------------------------
(* Slots *)

TakeSlot(r) ==
  /\ At(r, "found")
  /\ EntryOf(r) \notin shut
  /\ active[EntryOf(r)] < Connections
  /\ active' = [active EXCEPT ![EntryOf(r)] = @ + 1]
  /\ timer' = timer \ {EntryOf(r)}
  /\ req' = Goes(r, "granted")
  /\ UNCHANGED <<registry, entries, draining, evicted, waiters, shut, forced, failed, dispatcher>>

WaitForSlot(r) ==
  /\ At(r, "found")
  /\ EntryOf(r) \notin shut
  /\ active[EntryOf(r)] = Connections
  /\ Len(waiters[EntryOf(r)]) < MaxWaiters
  /\ waiters' = [waiters EXCEPT ![EntryOf(r)] = Append(@, r)]
  /\ timer' = timer \ {EntryOf(r)}
  /\ req' = Goes(r, "waiting")
  /\ UNCHANGED <<registry, entries, draining, evicted, active, shut, forced, failed, dispatcher>>

\* The request is aborted, the entry was closed since it was found, or its queue
\* is full.
SlotRefused(r) ==
  /\ At(r, "found")
  /\ req' = Leaves(r)
  /\ UNCHANGED <<registry, entries, draining, evicted, entryVars>>

\* The abort or the timer of a waiter.
GiveUpWaiting(r) ==
  /\ At(r, "waiting")
  /\ waiters' = [waiters EXCEPT ![EntryOf(r)] = RemoveFirst(@, r)]
  /\ req' = Leaves(r)
  /\ UNCHANGED <<registry, entries, draining, evicted, active, shut, forced, failed, timer, dispatcher>>

\* The timer of an entry that has become idle is armed.
ArmIfIdle(e) ==
  timer' = IF active'[e] = 0 /\ waiters'[e] = <<>> /\ dispatcher'[e] # "creating" /\ e \notin shut
           THEN timer \cup {e} ELSE timer

\* Defect: the newest waiter is woken first.
GiveBack_WakesNewest(r) ==
  LET e == EntryOf(r)
  IN IF waiters[e] = <<>>
     THEN /\ active' = [active EXCEPT ![e] = @ - 1]
          /\ req' = Leaves(r)
          /\ UNCHANGED waiters
     ELSE /\ waiters' = [waiters EXCEPT ![e] = Front(@)]
          /\ req' = [Leaves(r) EXCEPT ![Last(waiters[e])].at = "granted"]
          /\ UNCHANGED active

\* release(): the slot goes to the first waiter, or back to the entry.
GiveBack(r) ==
  LET e == EntryOf(r)
  IN IF waiters[e] = <<>>
     THEN /\ active' = [active EXCEPT ![e] = @ - 1]
          /\ req' = Leaves(r)
          /\ UNCHANGED waiters
     ELSE /\ waiters' = [waiters EXCEPT ![e] = Tail(@)]
          /\ req' = [Leaves(r) EXCEPT ![Head(waiters[e])].at = "granted"]
          /\ UNCHANGED active

\* The holder of the lease is done with its response.
Release(r) ==
  /\ At(r, "leased")
  /\ GiveBack(r)
  /\ UNCHANGED <<registry, entries, draining, evicted, shut, forced, failed, dispatcher>>
  /\ ArmIfIdle(EntryOf(r))

------------------------------------------------------------------------------
(* The dispatcher *)

\* acquire()'s catch: the slot is given back, and an entry whose dispatcher could
\* not be created leaves the map.
FailsWithSlot(r) ==
  /\ GiveBack(r)
  /\ entries' = IF EntryOf(r) \in failed THEN Without(EntryOf(r)) ELSE entries
  /\ UNCHANGED <<registry, draining, evicted, shut, forced, failed, dispatcher>>
  /\ ArmIfIdle(EntryOf(r))

GetDispatcherRefused(r) ==
  /\ At(r, "granted") /\ EntryOf(r) \in shut
  /\ FailsWithSlot(r)

GetDispatcherReady(r) ==
  /\ At(r, "granted") /\ EntryOf(r) \notin shut
  /\ dispatcher[EntryOf(r)] = "open"
  /\ req' = Goes(r, "leased")
  /\ UNCHANGED <<registry, entries, draining, evicted, entryVars>>

\* The first to ask starts the creation, the others join it.
GetDispatcherStarts(r) ==
  /\ At(r, "granted") /\ EntryOf(r) \notin shut
  /\ dispatcher[EntryOf(r)] # "open"
  /\ dispatcher' = [dispatcher EXCEPT ![EntryOf(r)] = "creating"]
  /\ req' = Goes(r, "starting")
  /\ UNCHANGED <<registry, entries, draining, evicted, active, waiters, shut, forced, failed, timer>>

\* The shared promise settles for everybody who waits for it.
Settled(e, point) ==
  [r \in Requests |-> IF req[r].at = "starting" /\ req[r].entry = e
                      THEN [req[r] EXCEPT !.at = point] ELSE req[r]]

\* Created; a forced close destroys it at once.
CreateSucceeds(e) ==
  /\ dispatcher[e] = "creating"
  /\ dispatcher' = [dispatcher EXCEPT ![e] = IF e \in forced THEN "gone" ELSE "open"]
  /\ failed' = failed \ {e}
  /\ req' = Settled(e, "created")
  /\ UNCHANGED <<registry, entries, draining, evicted, active, waiters, shut, forced>>
  /\ ArmIfIdle(e)

CreateFails(e) ==
  /\ dispatcher[e] = "creating"
  /\ dispatcher' = [dispatcher EXCEPT ![e] = "none"]
  /\ failed' = failed \cup {e}
  /\ req' = Settled(e, "uncreated")
  /\ UNCHANGED <<registry, entries, draining, evicted, active, waiters, shut, forced>>
  /\ ArmIfIdle(e)

\* The dispatcher is there; closed is looked at once more.
Obtain(r) ==
  /\ At(r, "created")
  /\ \/ EntryOf(r) \notin shut /\ req' = Goes(r, "leased")
        /\ UNCHANGED <<registry, entries, draining, evicted, entryVars>>
     \/ EntryOf(r) \in shut /\ FailsWithSlot(r)

\* The creation failed, or the abort or the deadline came first.
ObtainFails(r) ==
  /\ At(r, "uncreated") \/ At(r, "starting")
  /\ FailsWithSlot(r)

------------------------------------------------------------------------------
(* Draining *)

\* The idle timer fires; an entry that is no longer in the map stays as it is.
IdleEviction(e) ==
  /\ e \in timer
  /\ IF registry = "open" /\ e \in Mapped /\ Idle(e)
     THEN /\ entries' = Without(e)
          /\ draining' = draining \cup {e} /\ evicted' = evicted \cup {e}
          /\ ShutEntries({e})
     ELSE timer' = timer \ {e} /\ UNCHANGED <<entries, draining, evicted, shut, waiters>>
  /\ UNCHANGED <<registry, active, forced, failed, dispatcher, req>>

\* Whoever evicted the entry goes round the loop again, or is timed out.
Evicted(e, drained) ==
  [r \in Requests |->
     IF req[r].at = "evicting" /\ req[r].entry = e
     THEN IF drained THEN [req[r] EXCEPT !.at = "retry", !.entry = None] ELSE Outside
     ELSE req[r]]

\* dispatcher.close() returns: nothing of the entry is left.
Drained(e) ==
  /\ e \in draining \ forced /\ dispatcher[e] # "creating"
  /\ dispatcher' = [dispatcher EXCEPT ![e] = "gone"]
  /\ draining' = draining \ {e} /\ evicted' = evicted \ {e}
  /\ req' = Evicted(e, TRUE)
  /\ UNCHANGED <<registry, entries, active, waiters, shut, forced, failed, timer>>

\* Destroyed now, or as soon as it is there.
Destroyed(es) ==
  dispatcher' = [e \in Objects |->
                   IF e \in es /\ dispatcher[e] # "creating" THEN "gone" ELSE dispatcher[e]]

\* The close of an evicted entry fails or exceeds its grace: it is forced, and
\* the entry goes on draining until that is done.
DrainForced(e) ==
  /\ e \in evicted \ forced
  /\ forced' = forced \cup {e}
  /\ Destroyed({e})
  /\ req' = Evicted(e, FALSE)
  /\ UNCHANGED <<registry, entries, draining, evicted, active, waiters, shut, failed, timer>>

ForcedIsGone(e) ==
  /\ e \in draining \cap forced /\ dispatcher[e] # "creating"
  /\ draining' = draining \ {e} /\ evicted' = evicted \ {e}
  /\ UNCHANGED <<registry, entries, entryVars, req>>

\* close(): every entry is drained, those in use included.
CloseRegistry ==
  /\ registry = "open"
  /\ registry' = "closing"
  /\ entries' = [p \in Profiles |-> None]
  /\ draining' = draining \cup Mapped
  /\ ShutEntries(Mapped)
  /\ req' = Rejected(Mapped, req)
  /\ UNCHANGED <<evicted, active, forced, failed, dispatcher>>

\* Everything is drained in time.  If the close of a dispatcher fails close()
\* throws, and its entry stays with the registry until forceClose().
CloseReturns ==
  /\ registry = "closing" /\ draining = {}
  /\ registry' = "closed"
  /\ UNCHANGED <<entries, draining, evicted, entryVars, req>>

\* forceClose(), or the end of the grace of close().
ForceClose ==
  /\ registry # "closed"
  /\ registry' = "closed"
  /\ LET es == Mapped \cup draining
     IN /\ entries' = [p \in Profiles |-> None]
        /\ draining' = {} /\ evicted' = {}
        /\ ShutEntries(es)
        /\ forced' = forced \cup es
        /\ Destroyed(es)
        /\ req' = [r \in Requests |->
             IF req[r].at = "evicting" THEN Outside ELSE Rejected(es, req)[r]]
  /\ UNCHANGED <<active, failed>>

------------------------------------------------------------------------------
RequestStep(r) ==
  \/ FindFails(r) \/ TakeSlot(r) \/ WaitForSlot(r) \/ SlotRefused(r) \/ GiveUpWaiting(r)
  \/ GetDispatcherRefused(r) \/ GetDispatcherReady(r) \/ GetDispatcherStarts(r)
  \/ Obtain(r) \/ ObtainFails(r)
FindStep(r, p) == FindExisting(r, p) \/ FindNew(r, p) \/ FindEvicts(r, p)
EntryStep(e) ==
  CreateSucceeds(e) \/ CreateFails(e) \/ IdleEviction(e) \/ Drained(e)
  \/ DrainForced(e) \/ ForcedIsGone(e)

Next ==
  \/ \E r \in Requests : \/ RequestStep(r) \/ Release(r)
                         \/ \E p \in Profiles : FindStep(r, p)
  \/ \E e \in Objects : EntryStep(e)
  \/ CloseRegistry \/ CloseReturns \/ ForceClose

Spec == Init /\ [][Next]_vars

------------------------------------------------------------------------------
(* Safety *)

Slots(e) == {r \in Requests : req[r].at \in Slotted /\ req[r].entry = e}

\* Every slot that is counted has an owner that will give it back, in entries of
\* the map, in draining ones and in those that left the map.
SlotsAreOwned == \A e \in Objects : active[e] = Cardinality(Slots(e))

\* Nobody waits in a closed entry or beside a free slot: a release will reach it.
WaitersCanBeWoken ==
  \A e \in Objects :
    /\ waiters[e] # <<>> => e \notin shut /\ active[e] = Connections
    /\ ToSet(waiters[e]) = {r \in Requests : req[r].at = "waiting" /\ req[r].entry = e}

\* Entries that were replaced count until their connections are gone.
EntriesAreBounded == Cardinality(Mapped) + Cardinality(draining) <= MaxEntries

\* Eviction never takes the dispatcher from a request that has it or waits for
\* it: only close() does.
LeasesAreLive ==
  registry = "open" =>
    \A r \in Requests : req[r].at \in {"starting", "created", "leased"} =>
      EntryOf(r) \notin shut /\ dispatcher[EntryOf(r)] \in {"creating", "open"}

\* When close() or forceClose() has returned, no dispatcher is left open.
ClosedLeavesNothing == registry = "closed" => \A e \in Objects : dispatcher[e] # "open"

\* Slots, waiters and entries together, for every order of requests, evictions,
\* failing factories and close() (inference_pool.ts:93, :173, :184, :396).
SlotsAndEntriesAreSafe == SlotsAreOwned /\ WaitersCanBeWoken /\ EntriesAreBounded /\ LeasesAreLive

------------------------------------------------------------------------------
(* The entry, through all the entries it is in turn, implements PermitPool. *)

Pool == INSTANCE PermitPool
  WITH Users <- Requests, Permits <- Connections, QueueMax <- MaxWaiters,
       granted <- Slots(Entry), queue <- waiters[Entry]

\* An entry hands out its slots like the abstract pool: first come, first served,
\* and directly from the one that leaves to the one that waits
\* (inference_pool.ts:286-330, :388-411).
EntriesAreFair == Pool!Spec

===============================================================================
