------------------------------- MODULE Daemon -------------------------------
(***************************************************************************)
(* The daemon's life cycle on one data directory, across processes:        *)
(* daemons that take daemon.lock and publish daemon.json                   *)
(* (daemon/identity_file.ts, daemon/runtime.ts), and commands that start,  *)
(* stop and inspect them (daemon/controller.ts) one at a time under the    *)
(* operation lease (daemon/operation_lease.ts).  Any process may die       *)
(* between two steps; its files stay.  File checks and the unlink that     *)
(* follows them are separate steps: other processes run in between.        *)
(* A process id may be reused once its process is dead.                    *)
(***************************************************************************)
EXTENDS Naturals, FiniteSets

CONSTANTS Managed, Foreground, \* daemons that a start spawns, daemons run by hand
          Commands,            \* command line processes, one command each
          Nobody

Daemons == Managed \cup Foreground

ASSUME DaemonAssumption == Nobody \notin Daemons \cup Commands

VARIABLES daemon,   \* per daemon: its process and where it is in acquire() and after
          found,    \* the owner of the lock a starting daemon examines
          lock,     \* daemon.lock: its creator and whether the owner is written
          identity, \* daemon.json: the daemon it names
          asked,    \* daemons asked to stop
          reused,   \* dead processes whose id now names another process
          command,  \* per command: operation, step, identity read, child, result
          lease,    \* the command that holds the operation database's lock
          leaseOwner     \* daemon.operation.owner.json: who, and held or released

daemonVars == <<daemon, found, lock, identity, asked, reused, command, lease, leaseOwner>>

NoLock == [by |-> Nobody, written |-> FALSE]
FreshCommand == [op |-> "none", pc |-> "idle", saw |-> Nobody, child |-> Nobody, result |-> "none", spared |-> FALSE]

DaemonInit ==
    /\ daemon = [d \in Daemons |-> "unborn"] /\ found = [d \in Daemons |-> Nobody]
    /\ lock = NoLock /\ identity = Nobody /\ asked = {} /\ reused = {}
    /\ command = [c \in Commands |-> FreshCommand]
    /\ lease = Nobody /\ leaseOwner = [by |-> Nobody, state |-> "released"]

Alive(d) == daemon[d] \notin {"unborn", "dead"}

-----------------------------------------------------------------------------
(* A daemon process: acquire(), serve, cleanup(), release() *)

DaemonStep(d, from, to) == daemon[d] = from /\ daemon' = [daemon EXCEPT ![d] = to]
OwnFiles == UNCHANGED <<asked, reused, command, lease, leaseOwner>>

RunForeground(d) ==
    /\ d \in Foreground /\ DaemonStep(d, "unborn", "begin")
    /\ UNCHANGED <<found, lock, identity>> /\ OwnFiles

\* createExclusiveLock(): a lock in the way is examined first; one whose owner
\* is not written yet cannot be decoded.
FindLock(d) ==
    /\ \/ lock = NoLock /\ DaemonStep(d, "begin", "creating") /\ UNCHANGED found
       \/ lock # NoLock /\ ~lock.written /\ DaemonStep(d, "begin", "dead") /\ UNCHANGED found
       \/ lock # NoLock /\ lock.written /\ DaemonStep(d, "begin", "proving") /\ found' = [found EXCEPT ![d] = lock.by]
    /\ UNCHANGED <<lock, identity>> /\ OwnFiles

\* recoverDeadLock(): the owner must be dead and the lock still the one read.
RecoverDeadLock(d) ==
    /\ daemon[d] = "proving"
    /\ LET removable == ~Alive(found[d]) /\ lock = [by |-> found[d], written |-> TRUE]
       IN DaemonStep(d, "proving", IF removable THEN "unlinking" ELSE "dead")
    /\ found' = [found EXCEPT ![d] = Nobody] /\ UNCHANGED <<lock, identity>> /\ OwnFiles

RemoveLockIfUnchanged(d) ==
    /\ DaemonStep(d, "unlinking", IF lock = NoLock THEN "dead" ELSE "creating")
    /\ lock' = NoLock /\ UNCHANGED <<found, identity>> /\ OwnFiles

CreateExclusiveLock(d) ==
    /\ \/ lock = NoLock /\ DaemonStep(d, "creating", "writing") /\ lock' = [by |-> d, written |-> FALSE]
       \/ lock # NoLock /\ DaemonStep(d, "creating", "dead") /\ UNCHANGED lock
    /\ UNCHANGED <<found, identity>> /\ OwnFiles

\* The owner goes into the file that was opened; the path is checked after it.
WriteLock(d) ==
    /\ DaemonStep(d, "writing", IF lock = NoLock THEN "dead" ELSE "held")
    /\ lock' = IF lock.by = d THEN [by |-> d, written |-> TRUE] ELSE lock
    /\ UNCHANGED <<found, identity>> /\ OwnFiles

\* releaseLock(): only the lock of this lease.
ReleasedLock(d) == IF lock.by = d THEN NoLock ELSE lock

\* Defect: an identity in the way is overwritten.
Publish_Overwrites(d) ==
    /\ DaemonStep(d, "held", "serving") /\ identity' = d
    /\ UNCHANGED <<lock, found>> /\ OwnFiles

\* publish(): an identity in the way, or linked first, is a conflict.
PublishIdentity(d) ==
    /\ \/ identity = Nobody /\ DaemonStep(d, "held", "serving") /\ identity' = d /\ UNCHANGED lock
       \/ identity # Nobody /\ DaemonStep(d, "held", "dead") /\ lock' = ReleasedLock(d) /\ UNCHANGED identity
    /\ UNCHANGED found /\ OwnFiles

\* A stop, a signal or a failure: the gateway closes, then cleanup() and
\* release(), then the process ends.
StopServing(d) ==
    /\ DaemonStep(d, "serving", "cleaning") /\ UNCHANGED <<found, lock, identity>> /\ OwnFiles

CleanupOwned(d) ==
    /\ DaemonStep(d, "cleaning", "releasing") /\ identity' = IF identity = d THEN Nobody ELSE identity
    /\ UNCHANGED <<found, lock>> /\ OwnFiles

ReleaseLock(d) ==
    /\ DaemonStep(d, "releasing", "dead") /\ lock' = ReleasedLock(d)
    /\ UNCHANGED <<found, identity>> /\ OwnFiles

Crash(d) ==
    /\ Alive(d) /\ daemon' = [daemon EXCEPT ![d] = "dead"] /\ found' = [found EXCEPT ![d] = Nobody]
    /\ UNCHANGED <<lock, identity>> /\ OwnFiles

ReuseId(p) ==
    /\ p \notin reused /\ reused' = reused \cup {p}
    /\ \/ p \in Daemons /\ daemon[p] = "dead"
       \/ p \in Commands /\ command[p].pc = "dead" /\ leaseOwner = [by |-> p, state |-> "held"]
    /\ UNCHANGED <<daemon, found, lock, identity, asked, command, lease, leaseOwner>>

-----------------------------------------------------------------------------
(* A command under the operation lease *)

Goes(c, pc) == command' = [command EXCEPT ![c].pc = pc]
At(c, pc) == command[c].pc = pc
Same == UNCHANGED <<found, asked, reused>>

\* terminateProcessIfMatching()
Killed(d) == daemon' = [daemon EXCEPT ![d] = "dead"]


\* What a command does with the outcome of its operation: restart() goes on to
\* a start once the daemon is stopped, and polls an unreachable one first.
After(cmd, result) ==
    CASE cmd.op \in {"restart", "settle"} /\ result = "stopped" -> [FreshCommand EXCEPT !.op = "start", !.pc = "reading"]
      [] cmd.op = "restart" /\ result = "unreachable" -> [FreshCommand EXCEPT !.op = "settle", !.pc = "polling"]
      [] OTHER -> [cmd EXCEPT !.pc = "release", !.result = result]

Ends(c, result) == command' = [command EXCEPT ![c] = After(@, result)]

Run(c, op) ==
    /\ At(c, "idle") /\ command' = [command EXCEPT ![c].op = op, ![c].pc = "leasing"]
    /\ UNCHANGED <<daemon, lock, identity, lease, leaseOwner>> /\ Same

\* BEGIN EXCLUSIVE, polled until it succeeds.
AcquireLease(c) ==
    /\ At(c, "leasing") /\ lease = Nobody /\ lease' = c /\ Goes(c, "verifying")
    /\ UNCHANGED <<daemon, lock, identity, leaseOwner>> /\ Same

\* verifyPreviousOwner(), publishOwner(): an owner that still holds the lease
\* must be dead, and its id unused.
Busy(c) == command[c].pc \notin {"idle", "done", "dead"}

VerifyPreviousOwner(c) ==
    /\ At(c, "verifying")
    /\ IF leaseOwner.state = "held" /\ (Busy(leaseOwner.by) \/ leaseOwner.by \in reused)
       THEN command' = [command EXCEPT ![c].pc = "done", ![c].result = "error"] /\ lease' = Nobody /\ UNCHANGED leaseOwner
       ELSE leaseOwner' = [by |-> c, state |-> "held"] /\ Goes(c, "reading") /\ UNCHANGED lease
    /\ UNCHANGED <<daemon, lock, identity>> /\ Same

\* inspectWithinLane(): the identity, then its process, then the process's answer.
Concludes(c, state) ==
    LET cmd == command[c]
    IN CASE state \in {"stopped", "stale"} /\ cmd.op = "start" /\ cmd.child = Nobody -> Goes(c, "spawning")
         [] state # "running" /\ cmd.child # Nobody -> Goes(c, "polling")
         [] state = "unreachable" /\ cmd.op = "settle" -> Goes(c, "polling")
         [] state = "running" /\ cmd.op \in {"stop", "restart"} /\ cmd.saw \in Managed -> Goes(c, "asking")
         [] state = "stale" /\ cmd.op # "start" -> Ends(c, "stopped")
         [] state = "running" /\ cmd.op \in {"stop", "restart"} /\ cmd.saw \notin Managed -> Ends(c, "conflict")
         [] OTHER -> Ends(c, state)

ReadIdentity(c) ==
    /\ At(c, "reading")
    /\ IF identity = Nobody THEN Concludes(c, "stopped")
       ELSE command' = [command EXCEPT ![c].saw = identity, ![c].pc = "probing"]
    /\ UNCHANGED <<daemon, lock, identity, lease, leaseOwner>> /\ Same

ProbeProcess(c) ==
    /\ At(c, "probing")
    /\ \/ Concludes(c, "conflict") \* the probe fails, or the id names another process
       \/ Alive(command[c].saw) /\ (Concludes(c, IF daemon[command[c].saw] = "serving" THEN "running" ELSE "unreachable")
                                      \/ Concludes(c, "unreachable"))
       \/ daemon[command[c].saw] = "dead" /\ command[c].saw \notin reused /\ Goes(c, "removing")
    /\ UNCHANGED <<daemon, lock, identity, lease, leaseOwner>> /\ Same

\* remove(): the identity is still the one read, a lock is that dead owner's.
RemovalEnds(c, ok) ==
    CASE command[c].pc \in {"removing", "unlocking", "unlinking"} ->
           IF ok THEN Concludes(c, "stale") ELSE Concludes(c, "conflict")
      [] OTHER -> Ends(c, command[c].result)

RemoveIdentity(c) ==
    LET saw == command[c].saw
    IN /\ At(c, "removing")
       /\ IF identity # saw \/ (lock # NoLock /\ lock # [by |-> saw, written |-> TRUE]) THEN RemovalEnds(c, FALSE)
          ELSE Goes(c, IF lock = NoLock THEN "unlinking" ELSE "unlocking")
       /\ UNCHANGED <<daemon, lock, identity, lease, leaseOwner>> /\ Same

UnlockDead(c) ==
    /\ At(c, "unlocking") /\ lock' = NoLock
    /\ IF lock = NoLock THEN RemovalEnds(c, FALSE) ELSE Goes(c, "unlinking")
    /\ UNCHANGED <<daemon, identity, lease, leaseOwner>> /\ Same

UnlinkIdentity(c) ==
    /\ At(c, "unlinking") /\ RemovalEnds(c, identity = command[c].saw)
    /\ identity' = IF identity = command[c].saw THEN Nobody ELSE identity
    /\ UNCHANGED <<daemon, lock, lease, leaseOwner>> /\ Same

-----------------------------------------------------------------------------
(* start and stop *)

SpawnDaemon(c) ==
    /\ At(c, "spawning")
    /\ \E d \in Managed : /\ DaemonStep(d, "unborn", "begin")
                          /\ command' = [command EXCEPT ![c].pc = "polling", ![c].child = d]
    /\ UNCHANGED <<lock, identity, lease, leaseOwner>> /\ Same

\* The start polls until its deadline, or the caller's interruption, then
\* kills the child if it still is the process it spawned.
PollStart(c) ==
    /\ At(c, "polling")
    /\ \/ Goes(c, "reading")
       \/ IF command[c].child # Nobody THEN Goes(c, "failing") ELSE Ends(c, "unreachable")
    /\ UNCHANGED <<daemon, lock, identity, lease, leaseOwner>> /\ Same

CleanupFailedStart(c) ==
    LET d == command[c].child
    IN /\ At(c, "failing")
       /\ \/ /\ Killed(d) /\ UNCHANGED identity
             /\ command' = [command EXCEPT ![c].pc = "tidying", ![c].saw = d, ![c].result = "unreachable"]
          \/ /\ Alive(d) /\ UNCHANGED <<daemon, identity>> \* the termination failed
             /\ command' = [command EXCEPT ![c].pc = "release", ![c].spared = TRUE, ![c].result = "unreachable"]
       /\ UNCHANGED <<lock, lease, leaseOwner>> /\ Same

\* POST stop, which may get lost; the daemon has its time to go away.
AskToStop(c) ==
    /\ At(c, "asking")
    /\ \/ asked' = asked \cup {command[c].saw} /\ Goes(c, "grace")
       \/ UNCHANGED asked /\ (Goes(c, "grace") \/ Ends(c, "unreachable"))
    /\ UNCHANGED <<daemon, found, lock, identity, reused, lease, leaseOwner>>

WaitForExit(c) ==
    LET d == command[c].saw
    IN /\ At(c, "grace")
       /\ \/ daemon[d] = "dead" /\ d \notin reused /\ command' = [command EXCEPT ![c].pc = "tidying", ![c].result = "stopped"]
          \/ daemon[d] = "dead" /\ d \in reused /\ Ends(c, "conflict")
          \/ Alive(d) /\ Goes(c, "terminating")
       /\ UNCHANGED <<daemon, lock, identity, lease, leaseOwner>> /\ Same

\* terminate() kills the matching process; when it cannot, the daemon counts
\* as stopped only if its identity is gone.
Terminate(c) ==
    LET d == command[c].saw
    IN /\ At(c, "terminating")
       /\ \/ /\ Killed(d)
             /\ command' = [command EXCEPT ![c].pc = "tidying", ![c].result = "stopped"]
          \/ Alive(d) /\ UNCHANGED daemon /\ Ends(c, IF identity = Nobody THEN "stopped" ELSE "unreachable")
       /\ UNCHANGED <<lock, identity, lease, leaseOwner>> /\ Same

\* remove() once more, its answer ignored.
TidyUp(c) ==
    LET saw == command[c].saw
        gone == identity = saw /\ lock \in {NoLock, [by |-> saw, written |-> TRUE]} /\ ~Alive(saw)
    IN /\ At(c, "tidying") /\ Ends(c, command[c].result)
       /\ identity' = IF gone THEN Nobody ELSE identity
       /\ lock' = IF gone THEN NoLock ELSE lock
       /\ UNCHANGED <<daemon, lease, leaseOwner>> /\ Same

\* Defect: the lock of the database stays when the owner cannot be published.
ReleaseLease_OnlyOnSuccess(c) ==
    /\ At(c, "release") /\ Goes(c, "done")
    /\ \/ leaseOwner' = [by |-> c, state |-> "released"] /\ lease' = Nobody
       \/ UNCHANGED <<leaseOwner, lease>>
    /\ UNCHANGED <<daemon, lock, identity>> /\ Same

\* release(): the owner is published as released unless that fails; the lock
\* of the database goes in any case.
ReleaseLease(c) ==
    /\ At(c, "release") /\ Goes(c, "done") /\ lease' = Nobody
    /\ leaseOwner' \in {leaseOwner, [by |-> c, state |-> "released"]}
    /\ UNCHANGED <<daemon, lock, identity>> /\ Same

\* The system takes back the lock of a database whose process died.
CommandDies(c) ==
    /\ Busy(c) /\ command' = [command EXCEPT ![c] = [FreshCommand EXCEPT !.pc = "dead"]]
    /\ lease' = IF lease = c THEN Nobody ELSE lease
    /\ UNCHANGED <<daemon, lock, identity, leaseOwner>> /\ Same

DaemonProgress(d) ==
    \/ FindLock(d) \/ RecoverDeadLock(d) \/ RemoveLockIfUnchanged(d) \/ CreateExclusiveLock(d) \/ WriteLock(d)
    \/ PublishIdentity(d) \/ CleanupOwned(d) \/ ReleaseLock(d) \/ (d \in asked /\ StopServing(d))

CommandProgress(c) ==
    \/ AcquireLease(c) \/ VerifyPreviousOwner(c) \/ ReadIdentity(c) \/ ProbeProcess(c) \/ RemoveIdentity(c)
    \/ UnlockDead(c) \/ UnlinkIdentity(c) \/ SpawnDaemon(c) \/ CleanupFailedStart(c) \/ AskToStop(c)
    \/ WaitForExit(c) \/ Terminate(c) \/ TidyUp(c) \/ ReleaseLease(c)

DaemonNext ==
    \/ \E d \in Daemons : RunForeground(d) \/ DaemonProgress(d) \/ StopServing(d) \/ Crash(d)
    \/ \E p \in Daemons \cup Commands : ReuseId(p)
    \/ \E c \in Commands : (\E op \in {"start", "stop", "restart"} : Run(c, op)) \/ PollStart(c) \/ CommandProgress(c) \/ CommandDies(c)

DaemonSpec == DaemonInit /\ [][DaemonNext]_daemonVars

\* Processes run; a start's deadline comes, so polling does not go on for ever,
\* and a lease that becomes free again and again is got at last.
Patience(c) == (At(c, "polling") /\ PollStart(c) /\ command'[c].pc # "reading") \/ AcquireLease(c)

DaemonFairness ==
    \A c \in Commands : /\ WF_daemonVars(CommandProgress(c)) /\ WF_daemonVars(PollStart(c))
                        /\ SF_daemonVars(Patience(c))

-----------------------------------------------------------------------------
\* Only one daemon serves a data directory, and daemon.json names it, although
\* starters that find a dead daemon's lock at once may remove each other's new
\* lock (identity_file.ts:235): nobody replaces or removes the identity of a
\* live daemon.
ServingIsPublished ==
    \A d \in Daemons : daemon[d] = "serving" => identity = d

\* A stop that answers "stopped" has ended the daemon it found, also after lost
\* requests, a late exit, a failed kill or a reused process id (controller.ts:407).
StoppedDoesNotServe ==
    \A c \in Commands : command[c].op = "stop" /\ command[c].result = "stopped"
                           => command[c].saw = Nobody \/ daemon[command[c].saw] # "serving"

\* A failed start leaves no daemon behind that it could still kill (controller.ts:474).
NoOrphan ==
    \A c \in Commands : command[c].op = "start" /\ command[c].result = "unreachable" /\ command[c].child # Nobody
                           => command[c].spared \/ daemon[command[c].child] = "dead"

\* Every command ends, although commands wait for each other's lease and any
\* of them may die holding it (operation_lease.ts:188, :436).
CommandsEnd ==
    \A c \in Commands : Busy(c) ~> ~Busy(c)

\* What start and stop answer agrees with the processes: one daemon serves and is
\* the one the files name, a stopped one is dead, a failed start leaves none
\* (identity_file.ts:235, controller.ts:407, :474).
CommandsTellTheTruth == ServingIsPublished /\ StoppedDoesNotServe /\ NoOrphan

=============================================================================
