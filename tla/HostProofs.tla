----------------------------- MODULE HostProofs -----------------------------
(***************************************************************************)
(* Proofs about what watches and runs the gateway on its host.             *)
(*                                                                         *)
(* The daemon (daemon/controller.ts, identity_file.ts): what a start or a  *)
(* stop command answers is true of the processes, whatever dies.           *)
(*                                                                         *)
(* What is recorded (telemetry/performance.ts, telemetry/diagnostics.ts,   *)
(* telemetry/recorder.ts, daemon/logger.ts): transitions follow the        *)
(* measured windows; diagnostic records, usage and events are accounted    *)
(* for; rotation of the log survives a crash at any step with the lines it *)
(* was to keep.                                                            *)
(*                                                                         *)
(* The agents' files (agents/manager.ts): an application interrupted at    *)
(* any step can be taken up again, and what it took away is kept.          *)
(***************************************************************************)
EXTENDS Daemon, Telemetry, PerformanceWindows, Diagnostics, LogFiles, Agents, QueueLemmas

------------------------------------------------------------------------------
(* The daemon and its commands.  A daemon that has published its identity   *)
(* only goes on to its end, so that what a command read of it stays useful; *)
(* what a command is about to do or to answer is justified by what it read. *)

Stages == {"unborn", "begin", "proving", "unlinking", "creating", "writing", "held", "serving", "cleaning",
           "releasing", "dead"}
HasServed(procs, d) == procs[d] \in {"serving", "cleaning", "releasing", "dead"}
HasEnded(procs, d) == procs[d] \in {"cleaning", "releasing", "dead"}
IsDead(procs, d) == procs[d] = "dead"

\* Daemons only go on.
Onward(procs, later) ==
  \A d \in Daemons : /\ HasServed(procs, d) => HasServed(later, d)
                     /\ HasEnded(procs, d) => HasEnded(later, d)
                     /\ IsDead(procs, d) => IsDead(later, d)

Results == {"none", "stopped", "stale", "running", "unreachable", "conflict", "error"}
CommandState ==
  [op : {"none", "start", "stop", "restart", "settle"},
   pc : {"idle", "leasing", "verifying", "reading", "probing", "removing", "unlocking", "unlinking", "spawning",
         "polling", "failing", "tidying", "asking", "grace", "terminating", "release", "done", "dead"},
   saw : Daemons \cup {Nobody}, child : Daemons \cup {Nobody}, result : Results, spared : BOOLEAN]

\* Where a command is says what it has read and what it does it with.
Placed(cmd) ==
  /\ cmd.pc = "idle" => cmd = FreshCommand
  /\ cmd.pc \in {"probing", "removing", "unlocking", "unlinking", "tidying", "asking", "grace", "terminating"}
       => cmd.saw # Nobody
  /\ cmd.op = "stop" /\ cmd.pc \in {"leasing", "verifying", "reading"} => cmd.saw = Nobody
  /\ cmd.op = "stop" => cmd.pc \notin {"spawning", "polling", "failing"}
  /\ cmd.pc \in {"asking", "grace", "terminating"} => cmd.op \in {"stop", "restart"}
  /\ cmd.pc = "spawning" => cmd.op = "start" /\ cmd.child = Nobody
  /\ cmd.pc = "failing" => cmd.child # Nobody
  /\ cmd.child # Nobody => cmd.op = "start"
  /\ cmd.result # "none" => cmd.pc \in {"tidying", "release", "done"}

\* What it knows of the processes, and what it answers, is so.
Honest(cmd, procs) ==
  /\ cmd.saw # Nobody => HasServed(procs, cmd.saw)
  /\ cmd.pc \in {"removing", "unlocking", "unlinking", "tidying"} => IsDead(procs, cmd.saw)
  /\ cmd.op = "stop" /\ cmd.result = "stopped" => cmd.saw = Nobody \/ HasEnded(procs, cmd.saw)
  /\ cmd.op = "start" /\ cmd.result = "unreachable" /\ cmd.child # Nobody
       => cmd.spared \/ IsDead(procs, cmd.child)

Sound(cmd, procs) == cmd \in CommandState /\ Placed(cmd) /\ Honest(cmd, procs)

IdentityNamesServer == identity # Nobody => HasServed(daemon, identity)

DaemonInv ==
  /\ daemon \in [Daemons -> Stages] /\ identity \in Daemons \cup {Nobody}
  /\ ServingIsPublished /\ IdentityNamesServer
  /\ DOMAIN command = Commands /\ command = [c \in Commands |-> command[c]]
  /\ \A c \in Commands : Sound(command[c], daemon)

-----------------------------------------------------------------------------
\* What a command knows stays so, since daemons only go on.
LEMMA SoundStays ==
  ASSUME NEW cmd, NEW procs, NEW later, Sound(cmd, procs), Onward(procs, later)
  PROVE  Sound(cmd, later)
BY DEF Sound, Honest, Onward, CommandState, Placed

\* A command that goes on, and daemons that do.
LEMMA CommandMoves ==
  ASSUME DaemonInv, NEW c \in Commands, NEW cmd, command' = [command EXCEPT ![c] = cmd],
         Onward(daemon, daemon'), Sound(cmd, daemon')
  PROVE  /\ DOMAIN command' = Commands /\ command' = [k \in Commands |-> command'[k]]
         /\ \A k \in Commands : Sound(command'[k], daemon')
<1>1. \A k \in Commands : Sound(command[k], daemon')
  BY SoundStays DEF DaemonInv
<1>2. command' = [k \in Commands |-> IF k = c THEN cmd ELSE command[k]]
  BY DEF DaemonInv
<1> QED BY <1>1, <1>2

\* Daemons stay as they are.
LEMMA OnwardRefl == Onward(daemon, daemon)
BY DEF Onward

\* The outcome of an operation is answered, or a restart goes on with it.
LEMMA AfterSound ==
  ASSUME NEW cmd, NEW procs, NEW result \in Results, Sound(cmd, procs),
         cmd.op = "stop" /\ result = "stopped" => cmd.saw = Nobody \/ HasEnded(procs, cmd.saw),
         cmd.op = "start" /\ result = "unreachable" /\ cmd.child # Nobody => cmd.spared \/ IsDead(procs, cmd.child)
  PROVE  Sound(After(cmd, result), procs)
<1>1. CASE cmd.op \in {"restart", "settle"} /\ result = "stopped"
  <2>1. After(cmd, result) = [FreshCommand EXCEPT !.op = "start", !.pc = "reading"]
    BY <1>1 DEF After
  <2> QED BY <2>1 DEF FreshCommand, Sound, CommandState, Results, Placed, Honest
<1>2. CASE cmd.op = "restart" /\ result = "unreachable"
  <2>1. After(cmd, result) = [FreshCommand EXCEPT !.op = "settle", !.pc = "polling"]
    BY <1>2 DEF After
  <2> QED BY <2>1 DEF FreshCommand, Sound, CommandState, Results, Placed, Honest
<1>3. CASE /\ ~(cmd.op \in {"restart", "settle"} /\ result = "stopped")
           /\ ~(cmd.op = "restart" /\ result = "unreachable")
  <2>1. After(cmd, result) = [cmd EXCEPT !.pc = "release", !.result = result]
    BY <1>3 DEF After
  <2> DEFINE new == [cmd EXCEPT !.pc = "release", !.result = result]
  <2>2. /\ new.op = cmd.op /\ new.pc = "release" /\ new.saw = cmd.saw /\ new.child = cmd.child
        /\ new.result = result /\ new.spared = cmd.spared /\ new \in CommandState
    BY DEF Sound, CommandState
  <2> HIDE DEF new
  <2>3. Placed(new) /\ Honest(new, procs)
    BY <2>2 DEF Sound, Placed, Honest
  <2> QED BY <2>1, <2>2, <2>3 DEF Sound, new
<1> QED BY <1>1, <1>2, <1>3

\* A command that changes its step only.
LEMMA GoesSound ==
  ASSUME NEW cmd, NEW procs, NEW pc, Sound(cmd, procs), [cmd EXCEPT !.pc = pc] \in CommandState,
         Placed([cmd EXCEPT !.pc = pc]),
         pc \in {"removing", "unlocking", "unlinking", "tidying"} => IsDead(procs, cmd.saw)
  PROVE  Sound([cmd EXCEPT !.pc = pc], procs)
<1> DEFINE new == [cmd EXCEPT !.pc = pc]
<1>1. /\ new.op = cmd.op /\ new.pc = pc /\ new.saw = cmd.saw /\ new.child = cmd.child
      /\ new.result = cmd.result /\ new.spared = cmd.spared
  BY DEF Sound, CommandState
<1> HIDE DEF new
<1>2. Honest(new, procs)
  BY <1>1 DEF Sound, Honest
<1> QED BY <1>2 DEF Sound, new

\* Its step changes: what Goes says.
LEMMA GoesMoves ==
  ASSUME NEW c \in Commands, NEW pc, Goes(c, pc)
  PROVE  command' = [command EXCEPT ![c] = [command[c] EXCEPT !.pc = pc]]
BY DEF Goes

LEMMA EndsMoves ==
  ASSUME NEW c \in Commands, NEW result, Ends(c, result)
  PROVE  command' = [command EXCEPT ![c] = After(command[c], result)]
BY DEF Ends

\* What a command concludes from an inspection.
LEMMA ConcludesSound ==
  ASSUME DaemonInv, NEW c \in Commands, NEW verdict \in Results \ {"none", "error"},
         command[c].pc \in {"reading", "probing", "removing", "unlocking", "unlinking"},
         verdict = "stopped" => command[c].pc = "reading",
         verdict = "running" => command[c].pc = "probing",
         verdict = "stale" => command[c].saw # Nobody /\ IsDead(daemon, command[c].saw),
         Concludes(c, verdict)
  PROVE  \E cmd : command' = [command EXCEPT ![c] = cmd] /\ Sound(cmd, daemon)
<1> DEFINE old == command[c]
<1>1. Sound(old, daemon)
  BY DEF DaemonInv
<1>g. ASSUME NEW pc \in {"spawning", "polling", "asking"}, Goes(c, pc), Placed([old EXCEPT !.pc = pc])
      PROVE  \E cmd : command' = [command EXCEPT ![c] = cmd] /\ Sound(cmd, daemon)
  <2>1. [old EXCEPT !.pc = pc] \in CommandState
    BY <1>1 DEF Sound, CommandState
  <2>2. Sound([old EXCEPT !.pc = pc], daemon)
    BY <1>1, <1>g, <2>1, GoesSound
  <2> QED BY <1>g, <2>2, GoesMoves
<1>e. ASSUME NEW result \in Results, Ends(c, result),
             old.op = "stop" /\ result = "stopped" => old.saw = Nobody \/ HasEnded(daemon, old.saw),
             old.op = "start" /\ result = "unreachable" /\ old.child # Nobody => old.spared \/ IsDead(daemon, old.child)
      PROVE  \E cmd : command' = [command EXCEPT ![c] = cmd] /\ Sound(cmd, daemon)
  <2>1. Sound(After(old, result), daemon)
    BY <1>1, <1>e, AfterSound
  <2> QED BY <1>e, <2>1, EndsMoves
<1>2. /\ old \in CommandState /\ Placed(old) /\ old.result = "none"
  BY <1>1 DEF Sound, Placed
<1>p. \A pc : LET new == [old EXCEPT !.pc = pc]
              IN  /\ new.op = old.op /\ new.pc = pc /\ new.saw = old.saw /\ new.child = old.child
                  /\ new.result = old.result /\ new.spared = old.spared
  BY <1>2 DEF CommandState
<1>3. CASE verdict \in {"stopped", "stale"} /\ old.op = "start" /\ old.child = Nobody
  <2>1. Goes(c, "spawning")
    BY <1>3 DEF Concludes
  <2>2. Placed([old EXCEPT !.pc = "spawning"])
    BY <1>3, <1>2, <1>p DEF Placed
  <2> QED BY <1>g, <2>1, <2>2
<1>4. CASE ~(verdict \in {"stopped", "stale"} /\ old.op = "start" /\ old.child = Nobody)
  <2>1. CASE (verdict # "running" /\ old.child # Nobody) \/ (verdict = "unreachable" /\ old.op = "settle")
    <3>1. Goes(c, "polling")
      BY <1>4, <2>1, <1>2 DEF Concludes, Placed
    <3>2. Placed([old EXCEPT !.pc = "polling"])
      BY <2>1, <1>2, <1>p DEF Placed
    <3> QED BY <1>g, <3>1, <3>2
  <2>2. CASE verdict = "running" /\ old.op \in {"stop", "restart"} /\ old.saw \in Managed
    <3>1. Goes(c, "asking")
      BY <2>2 DEF Concludes
    <3>2. Placed([old EXCEPT !.pc = "asking"])
      BY <2>2, <1>2, <1>p, DaemonAssumption DEF Placed, Daemons
    <3> QED BY <1>g, <3>1, <3>2
  <2>3. CASE /\ ~((verdict # "running" /\ old.child # Nobody) \/ (verdict = "unreachable" /\ old.op = "settle"))
             /\ ~(verdict = "running" /\ old.op \in {"stop", "restart"} /\ old.saw \in Managed)
    <3>1. \E result \in {"stopped", "conflict", verdict} :
            /\ Ends(c, result)
            /\ result = "stopped" => verdict = "stopped" \/ (verdict = "stale" /\ old.op # "start")
            /\ result = "unreachable" => verdict = "unreachable"
      <4>1. CASE verdict = "stale" /\ old.op # "start"
        <5>1. Ends(c, "stopped")
          BY <4>1, <1>4, <2>3 DEF Concludes
        <5> QED BY <4>1, <5>1
      <4>2. CASE verdict = "running" /\ old.op \in {"stop", "restart"} /\ old.saw \notin Managed
        <5>1. Ends(c, "conflict")
          BY <4>2, <1>4, <2>3 DEF Concludes
        <5> QED BY <5>1
      <4>3. CASE /\ ~(verdict = "stale" /\ old.op # "start")
                 /\ ~(verdict = "running" /\ old.op \in {"stop", "restart"} /\ old.saw \notin Managed)
        <5>1. Ends(c, verdict)
          BY <4>3, <1>4, <2>3 DEF Concludes
        <5> QED BY <4>3, <5>1
      <4> QED BY <4>1, <4>2, <4>3
    <3>2. PICK result \in {"stopped", "conflict", verdict} :
            /\ Ends(c, result)
            /\ result = "stopped" => verdict = "stopped" \/ (verdict = "stale" /\ old.op # "start")
            /\ result = "unreachable" => verdict = "unreachable"
      BY <3>1
    <3>3. old.op = "stop" /\ result = "stopped" => old.saw = Nobody \/ HasEnded(daemon, old.saw)
      BY <3>2, <1>2 DEF Placed, HasEnded, IsDead
    <3>4. result = "unreachable" => old.child = Nobody
      BY <3>2, <2>3
    <3>5. result \in Results
      BY <3>2 DEF Results
    <3> QED BY <1>e, <3>2, <3>3, <3>4, <3>5
  <2> QED BY <2>1, <2>2, <2>3
<1> QED BY <1>3, <1>4

-----------------------------------------------------------------------------
\* A daemon goes from one of its steps to another.
Later(from, to) ==
  /\ from \in {"serving", "cleaning", "releasing", "dead"} => to \in {"serving", "cleaning", "releasing", "dead"}
  /\ from \in {"cleaning", "releasing", "dead"} => to \in {"cleaning", "releasing", "dead"}
  /\ from = "dead" => to = "dead"

LEMMA StepIsOnward ==
  ASSUME DaemonInv, NEW d \in Daemons, NEW to \in Stages, Later(daemon[d], to), daemon' = [daemon EXCEPT ![d] = to]
  PROVE  /\ daemon' \in [Daemons -> Stages] /\ Onward(daemon, daemon')
         /\ \A e \in Daemons : daemon'[e] = IF e = d THEN to ELSE daemon[e]
<1>1. \A e \in Daemons : daemon'[e] = IF e = d THEN to ELSE daemon[e]
  BY DEF DaemonInv
<1> QED BY <1>1 DEF DaemonInv, Onward, Later, HasServed, HasEnded, IsDead

\* The commands look on while the daemons go on.
LEMMA CommandsStay ==
  ASSUME DaemonInv, Onward(daemon, daemon'), UNCHANGED command
  PROVE  /\ DOMAIN command' = Commands /\ command' = [k \in Commands |-> command'[k]]
         /\ \A k \in Commands : Sound(command'[k], daemon')
BY SoundStays DEF DaemonInv

\* A step of a daemon that neither publishes nor removes an identity.
LEMMA QuietStep ==
  ASSUME DaemonInv, NEW d \in Daemons, NEW to \in Stages \ {"serving"}, Later(daemon[d], to),
         daemon' = [daemon EXCEPT ![d] = to], UNCHANGED <<identity, command>>
  PROVE  DaemonInv'
<1>1. /\ daemon' \in [Daemons -> Stages] /\ Onward(daemon, daemon')
      /\ \A e \in Daemons : daemon'[e] = IF e = d THEN to ELSE daemon[e]
  BY StepIsOnward
<1>2. ServingIsPublished'
  BY <1>1 DEF DaemonInv, ServingIsPublished
<1>3. IdentityNamesServer'
  BY <1>1 DEF DaemonInv, IdentityNamesServer, Onward
<1> QED BY <1>1, <1>2, <1>3, CommandsStay DEF DaemonInv

LEMMA DaemonGoesOn ==
  ASSUME DaemonInv, NEW d \in Daemons, DaemonProgress(d) \/ RunForeground(d) \/ StopServing(d) \/ Crash(d)
  PROVE  DaemonInv'
<1>q. ASSUME NEW from, NEW to \in Stages \ {"serving"}, DaemonStep(d, from, to), Later(from, to), UNCHANGED <<identity, command>>
      PROVE  DaemonInv'
  BY <1>q, QuietStep DEF DaemonStep
<1>1. CASE RunForeground(d)
  BY <1>1, <1>q DEF RunForeground, Later, Stages, OwnFiles
<1>2. CASE FindLock(d)
  <2>1. \E to \in {"creating", "dead", "proving"} : DaemonStep(d, "begin", to)
    BY <1>2 DEF FindLock
  <2> QED BY <1>2, <2>1, <1>q DEF FindLock, Later, Stages, OwnFiles
<1>3. CASE RecoverDeadLock(d)
  <2>1. \E to \in {"unlinking", "dead"} : DaemonStep(d, "proving", to)
    BY <1>3 DEF RecoverDeadLock
  <2> QED BY <1>3, <2>1, <1>q DEF RecoverDeadLock, Later, Stages, OwnFiles
<1>4. CASE RemoveLockIfUnchanged(d)
  <2>1. \E to \in {"creating", "dead"} : DaemonStep(d, "unlinking", to)
    BY <1>4 DEF RemoveLockIfUnchanged
  <2> QED BY <1>4, <2>1, <1>q DEF RemoveLockIfUnchanged, Later, Stages, OwnFiles
<1>5. CASE CreateExclusiveLock(d)
  <2>1. \E to \in {"writing", "dead"} : DaemonStep(d, "creating", to)
    BY <1>5 DEF CreateExclusiveLock
  <2> QED BY <1>5, <2>1, <1>q DEF CreateExclusiveLock, Later, Stages, OwnFiles
<1>6. CASE WriteLock(d)
  <2>1. \E to \in {"held", "dead"} : DaemonStep(d, "writing", to)
    BY <1>6 DEF WriteLock
  <2> QED BY <1>6, <2>1, <1>q DEF WriteLock, Later, Stages, OwnFiles
<1>7. CASE PublishIdentity(d)
  <2>1. CASE identity # Nobody
    BY <1>7, <2>1, <1>q DEF PublishIdentity, Later, Stages, OwnFiles
  <2>2. CASE identity = Nobody
    <3>1. DaemonStep(d, "held", "serving") /\ identity' = d /\ UNCHANGED command
      BY <1>7, <2>2 DEF PublishIdentity, OwnFiles
    <3>2. /\ daemon' \in [Daemons -> Stages] /\ Onward(daemon, daemon')
          /\ \A e \in Daemons : daemon'[e] = IF e = d THEN "serving" ELSE daemon[e]
      BY <3>1, StepIsOnward DEF DaemonStep, Later, Stages
    <3>3. \A e \in Daemons : daemon[e] # "serving"
      BY <2>2, DaemonAssumption DEF DaemonInv, ServingIsPublished
    <3>4. ServingIsPublished'
      BY <3>1, <3>2, <3>3 DEF ServingIsPublished
    <3>5. IdentityNamesServer'
      BY <3>1, <3>2 DEF IdentityNamesServer, HasServed
    <3> QED BY <3>1, <3>2, <3>4, <3>5, CommandsStay DEF DaemonInv
  <2> QED BY <2>1, <2>2
<1>8. CASE CleanupOwned(d)
  <2>1. DaemonStep(d, "cleaning", "releasing") /\ UNCHANGED command
    BY <1>8 DEF CleanupOwned, OwnFiles
  <2>2. /\ daemon' \in [Daemons -> Stages] /\ Onward(daemon, daemon')
        /\ \A e \in Daemons : daemon'[e] = IF e = d THEN "releasing" ELSE daemon[e]
    BY <2>1, StepIsOnward DEF DaemonStep, Later, Stages
  <2>3. identity' \in {identity, Nobody} /\ (identity' # identity => identity = d) /\ daemon[d] = "cleaning"
    BY <1>8 DEF CleanupOwned, DaemonStep
  <2>4. ServingIsPublished'
    BY <2>2, <2>3 DEF DaemonInv, ServingIsPublished
  <2>5. IdentityNamesServer'
    BY <2>2, <2>3 DEF DaemonInv, IdentityNamesServer, Onward
  <2> QED BY <2>1, <2>2, <2>3, <2>4, <2>5, CommandsStay DEF DaemonInv
<1>9. CASE ReleaseLock(d)
  BY <1>9, <1>q DEF ReleaseLock, Later, Stages, OwnFiles
<1>10. CASE StopServing(d)
  BY <1>10, <1>q DEF StopServing, Later, Stages, OwnFiles
<1>11. CASE Crash(d)
  BY <1>11, QuietStep DEF Crash, Later, Stages, OwnFiles
<1> QED BY <1>1, <1>2, <1>3, <1>4, <1>5, <1>6, <1>7, <1>8, <1>9, <1>10, <1>11 DEF DaemonProgress

-----------------------------------------------------------------------------
\* A step of a command that leaves the daemons and their identity alone.
LEMMA QuietCommand ==
  ASSUME DaemonInv, NEW c \in Commands, UNCHANGED <<daemon, identity>>,
         \E cmd : command' = [command EXCEPT ![c] = cmd] /\ Sound(cmd, daemon)
  PROVE  DaemonInv'
<1>1. PICK cmd : command' = [command EXCEPT ![c] = cmd] /\ Sound(cmd, daemon)
  OBVIOUS
<1>2. Sound(cmd, daemon') /\ Onward(daemon, daemon')
  BY <1>1, OnwardRefl
<1>3. /\ DOMAIN command' = Commands /\ command' = [k \in Commands |-> command'[k]]
      /\ \A k \in Commands : Sound(command'[k], daemon')
  BY <1>1, <1>2, CommandMoves
<1> QED BY <1>3 DEF DaemonInv, ServingIsPublished, IdentityNamesServer

\* It changes its step only.
LEMMA QuietGoes ==
  ASSUME DaemonInv, NEW c \in Commands, NEW pc, Goes(c, pc), [command[c] EXCEPT !.pc = pc] \in CommandState,
         Placed([command[c] EXCEPT !.pc = pc]),
         pc \in {"removing", "unlocking", "unlinking", "tidying"} => IsDead(daemon, command[c].saw)
  PROVE  \E cmd : command' = [command EXCEPT ![c] = cmd] /\ Sound(cmd, daemon)
<1>1. Sound(command[c], daemon)
  BY DEF DaemonInv
<1>2. Sound([command[c] EXCEPT !.pc = pc], daemon)
  BY <1>1, GoesSound
<1> QED BY <1>2, GoesMoves

LEMMA EndsSound ==
  ASSUME DaemonInv, NEW c \in Commands, NEW result \in Results, Ends(c, result),
         command[c].op = "stop" /\ result = "stopped" => command[c].saw = Nobody \/ HasEnded(daemon, command[c].saw),
         command[c].op = "start" /\ result = "unreachable" /\ command[c].child # Nobody
           => command[c].spared \/ IsDead(daemon, command[c].child)
  PROVE  \E cmd : command' = [command EXCEPT ![c] = cmd] /\ Sound(cmd, daemon)
<1>1. Sound(command[c], daemon)
  BY DEF DaemonInv
<1>2. Sound(After(command[c], result), daemon)
  BY <1>1, AfterSound
<1> QED BY <1>2, EndsMoves

\* What a command's fields are once its step has changed.
LEMMA OnlyStep ==
  ASSUME NEW cmd \in CommandState, NEW pc
  PROVE  LET new == [cmd EXCEPT !.pc = pc]
         IN  /\ new.op = cmd.op /\ new.pc = pc /\ new.saw = cmd.saw /\ new.child = cmd.child
             /\ new.result = cmd.result /\ new.spared = cmd.spared
BY DEF CommandState

LEMMA Stepping ==
  ASSUME NEW cmd \in CommandState,
         NEW pc \in {"leasing", "verifying", "reading", "probing", "removing", "unlocking", "unlinking", "spawning",
                     "polling", "failing", "tidying", "asking", "grace", "terminating", "release", "done", "dead"}
  PROVE  [cmd EXCEPT !.pc = pc] \in CommandState
BY DEF CommandState

LEMMA RunMoves ==
  ASSUME NEW c, NEW op, NEW pc, command' = [command EXCEPT ![c].op = op, ![c].pc = pc]
  PROVE  command' = [command EXCEPT ![c] = [command[c] EXCEPT !.op = op, !.pc = pc]]
OBVIOUS

LEMMA RunFields ==
  ASSUME NEW cmd \in CommandState, NEW op \in {"start", "stop", "restart"}
  PROVE  LET new == [cmd EXCEPT !.op = op, !.pc = "leasing"]
         IN  /\ new.op = op /\ new.pc = "leasing" /\ new.saw = cmd.saw /\ new.child = cmd.child
             /\ new.result = cmd.result /\ new.spared = cmd.spared /\ new \in CommandState
BY DEF CommandState

\* The lease, the identity and the process it names.
LEMMA LeaseSteps ==
  ASSUME DaemonInv, NEW c \in Commands,
         \/ \E op \in {"start", "stop", "restart"} : Run(c, op)
         \/ AcquireLease(c) \/ VerifyPreviousOwner(c) \/ ReleaseLease(c) \/ CommandDies(c)
  PROVE  DaemonInv'
<1>1. Sound(command[c], daemon) /\ command[c] \in CommandState /\ Placed(command[c])
  BY DEF DaemonInv, Sound
<1>2. ASSUME NEW op \in {"start", "stop", "restart"}, Run(c, op)
      PROVE  DaemonInv'
  <2> DEFINE cmd == [command[c] EXCEPT !.op = op, !.pc = "leasing"]
  <2>1. command[c] = FreshCommand
    BY <1>1, <1>2 DEF Run, At, Placed
  <2>a. command' = [command EXCEPT ![c].op = op, ![c].pc = "leasing"]
    BY <1>2 DEF Run
  <2>2. command' = [command EXCEPT ![c] = cmd]
    BY <2>a, RunMoves
  <2>b. command[c].saw = Nobody /\ command[c].child = Nobody /\ command[c].result = "none" /\ command[c].spared = FALSE
    BY <2>1 DEF FreshCommand
  <2>c. /\ cmd.op = op /\ cmd.pc = "leasing" /\ cmd.saw = Nobody /\ cmd.child = Nobody /\ cmd.result = "none"
        /\ cmd.spared = FALSE /\ cmd \in CommandState
    BY <1>1, <2>b, RunFields
  <2> HIDE DEF cmd
  <2>3. Sound(cmd, daemon)
    BY <2>c DEF Sound, Placed, Honest
  <2>4. UNCHANGED <<daemon, identity>>
    BY <1>2 DEF Run
  <2> QED BY <2>2, <2>3, <2>4, QuietCommand
<1>3. CASE AcquireLease(c)
  <2>1. UNCHANGED <<daemon, identity>> /\ Goes(c, "verifying") /\ command[c].pc = "leasing"
    BY <1>3 DEF AcquireLease, At
  <2>2. Placed([command[c] EXCEPT !.pc = "verifying"])
    BY <1>1, <2>1, OnlyStep DEF Placed
  <2> QED BY <1>1, <2>1, <2>2, Stepping, QuietGoes, QuietCommand
<1>4. CASE VerifyPreviousOwner(c)
  <2>1. UNCHANGED <<daemon, identity>> /\ command[c].pc = "verifying"
    BY <1>4 DEF VerifyPreviousOwner, At
  <2>2. CASE Goes(c, "reading")
    <3>1. Placed([command[c] EXCEPT !.pc = "reading"])
      BY <1>1, <2>1, OnlyStep DEF Placed
    <3> QED BY <1>1, <2>1, <2>2, <3>1, Stepping, QuietGoes, QuietCommand
  <2>3. CASE command' = [command EXCEPT ![c].pc = "done", ![c].result = "error"]
    <3> DEFINE cmd == [command[c] EXCEPT !.pc = "done", !.result = "error"]
    <3>1. command' = [command EXCEPT ![c] = cmd]
      BY <2>3
    <3>2. /\ cmd.op = command[c].op /\ cmd.pc = "done" /\ cmd.saw = command[c].saw /\ cmd.child = command[c].child
          /\ cmd.result = "error" /\ cmd.spared = command[c].spared /\ cmd \in CommandState
      BY <1>1, ZenonT(60) DEF CommandState, Results
    <3> HIDE DEF cmd
    <3>3. Sound(cmd, daemon)
      BY <1>1, <2>1, <3>2 DEF Sound, Placed, Honest
    <3> QED BY <2>1, <3>1, <3>3, QuietCommand
  <2> QED BY <1>4, <2>2, <2>3 DEF VerifyPreviousOwner
<1>5. CASE ReleaseLease(c)
  <2>1. UNCHANGED <<daemon, identity>> /\ Goes(c, "done") /\ command[c].pc = "release"
    BY <1>5 DEF ReleaseLease, At
  <2>2. Placed([command[c] EXCEPT !.pc = "done"])
    BY <1>1, <2>1, OnlyStep DEF Placed
  <2> QED BY <1>1, <2>1, <2>2, Stepping, QuietGoes, QuietCommand
<1>6. CASE CommandDies(c)
  <2> DEFINE cmd == [FreshCommand EXCEPT !.pc = "dead"]
  <2>1. command' = [command EXCEPT ![c] = cmd] /\ UNCHANGED <<daemon, identity>>
    BY <1>6 DEF CommandDies
  <2>2. Sound(cmd, daemon)
    BY DEF FreshCommand, Sound, CommandState, Results, Placed, Honest
  <2> QED BY <2>1, <2>2, QuietCommand
<1> QED BY <1>2, <1>3, <1>4, <1>5, <1>6

\* Inspecting: what is removed belongs to a dead daemon.
LEMMA InspectionSteps ==
  ASSUME DaemonInv, NEW c \in Commands, ReadIdentity(c) \/ ProbeProcess(c) \/ RemoveIdentity(c) \/ UnlockDead(c)
  PROVE  DaemonInv'
<1>1. Sound(command[c], daemon) /\ command[c] \in CommandState /\ Placed(command[c]) /\ Honest(command[c], daemon)
  BY DEF DaemonInv, Sound
<1>2. CASE ReadIdentity(c)
  <2>1. UNCHANGED <<daemon, identity>> /\ command[c].pc = "reading"
    BY <1>2 DEF ReadIdentity, At
  <2>2. CASE identity = Nobody
    <3>1. Concludes(c, "stopped")
      BY <1>2, <2>2 DEF ReadIdentity
    <3> QED BY <2>1, <3>1, ConcludesSound, QuietCommand DEF Results
  <2>3. CASE identity # Nobody
    <3> DEFINE cmd == [command[c] EXCEPT !.saw = identity, !.pc = "probing"]
    <3>0. command' = [command EXCEPT ![c].saw = identity, ![c].pc = "probing"]
      BY <1>2, <2>3 DEF ReadIdentity
    <3>1. command' = [command EXCEPT ![c] = cmd]
      BY <3>0
    <3>2. /\ cmd.op = command[c].op /\ cmd.pc = "probing" /\ cmd.saw = identity /\ cmd.child = command[c].child
          /\ cmd.result = command[c].result /\ cmd.spared = command[c].spared /\ cmd \in CommandState
      BY <1>1 DEF CommandState, DaemonInv
    <3> HIDE DEF cmd
    <3>3. HasServed(daemon, identity)
      BY <2>3 DEF DaemonInv, IdentityNamesServer
    <3>4. Sound(cmd, daemon)
      BY <1>1, <2>1, <2>3, <3>2, <3>3 DEF Sound, Placed, Honest
    <3> QED BY <2>1, <3>1, <3>4, QuietCommand
  <2> QED BY <2>2, <2>3
<1>3. CASE ProbeProcess(c)
  <2>1. UNCHANGED <<daemon, identity>> /\ command[c].pc = "probing"
    BY <1>3 DEF ProbeProcess, At
  <2>2. CASE Concludes(c, "conflict") \/ Concludes(c, "running") \/ Concludes(c, "unreachable")
    BY <2>1, <2>2, ConcludesSound, QuietCommand DEF Results
  <2>3. CASE daemon[command[c].saw] = "dead" /\ Goes(c, "removing")
    <3>1. Placed([command[c] EXCEPT !.pc = "removing"])
      BY <1>1, <2>1, OnlyStep DEF Placed
    <3> QED BY <1>1, <2>1, <2>3, <3>1, Stepping, QuietGoes, QuietCommand DEF IsDead
  <2> QED BY <1>3, <2>2, <2>3 DEF ProbeProcess
<1>4. CASE RemoveIdentity(c)
  <2>1. UNCHANGED <<daemon, identity>> /\ command[c].pc = "removing"
    BY <1>4 DEF RemoveIdentity, At
  <2>2. RemovalEnds(c, FALSE) \/ Goes(c, "unlinking") \/ Goes(c, "unlocking")
    BY <1>4 DEF RemoveIdentity
  <2>3. CASE RemovalEnds(c, FALSE)
    <3>1. Concludes(c, "conflict")
      BY <2>1, <2>3 DEF RemovalEnds
    <3> QED BY <2>1, <3>1, ConcludesSound, QuietCommand DEF Results
  <2>4. ASSUME NEW pc \in {"unlinking", "unlocking"}, Goes(c, pc)
        PROVE  DaemonInv'
    <3>1. Placed([command[c] EXCEPT !.pc = pc])
      BY <1>1, <2>1, OnlyStep DEF Placed
    <3>2. IsDead(daemon, command[c].saw)
      BY <1>1, <2>1 DEF Honest
    <3> QED BY <1>1, <2>1, <2>4, <3>1, <3>2, Stepping, QuietGoes, QuietCommand
  <2> QED BY <2>2, <2>3, <2>4
<1>5. CASE UnlockDead(c)
  <2>1. UNCHANGED <<daemon, identity>> /\ command[c].pc = "unlocking"
    BY <1>5 DEF UnlockDead, At
  <2>2. RemovalEnds(c, FALSE) \/ Goes(c, "unlinking")
    BY <1>5 DEF UnlockDead
  <2>3. CASE RemovalEnds(c, FALSE)
    <3>1. Concludes(c, "conflict")
      BY <2>1, <2>3 DEF RemovalEnds
    <3> QED BY <2>1, <3>1, ConcludesSound, QuietCommand DEF Results
  <2>4. CASE Goes(c, "unlinking")
    <3>1. Placed([command[c] EXCEPT !.pc = "unlinking"])
      BY <1>1, <2>1, OnlyStep DEF Placed
    <3>2. IsDead(daemon, command[c].saw)
      BY <1>1, <2>1 DEF Honest
    <3> QED BY <1>1, <2>1, <2>4, <3>1, <3>2, Stepping, QuietGoes, QuietCommand
  <2> QED BY <2>2, <2>3, <2>4
<1> QED BY <1>2, <1>3, <1>4, <1>5

\* The identity of a daemon that does not serve goes.
LEMMA IdentityGoes ==
  ASSUME DaemonInv, UNCHANGED daemon, identity' \in {identity, Nobody},
         identity' # identity => identity \in Daemons /\ daemon[identity] # "serving"
  PROVE  identity' \in Daemons \cup {Nobody} /\ ServingIsPublished' /\ IdentityNamesServer'
BY DEF DaemonInv, ServingIsPublished, IdentityNamesServer

LEMMA UnlinkSteps ==
  ASSUME DaemonInv, NEW c \in Commands, UnlinkIdentity(c) \/ TidyUp(c)
  PROVE  DaemonInv'
<1>1. Sound(command[c], daemon) /\ command[c] \in CommandState /\ Placed(command[c]) /\ Honest(command[c], daemon)
  BY DEF DaemonInv, Sound
<1>2. command[c].pc \in {"unlinking", "tidying"} /\ UNCHANGED daemon
  BY DEF UnlinkIdentity, TidyUp, At
<1>3. command[c].saw \in Daemons /\ IsDead(daemon, command[c].saw)
  BY <1>1, <1>2 DEF Placed, Honest, CommandState
<1>4. identity' \in {identity, Nobody} /\ (identity' # identity => identity = command[c].saw)
  BY DEF UnlinkIdentity, TidyUp
<1>5. identity' \in Daemons \cup {Nobody} /\ ServingIsPublished' /\ IdentityNamesServer'
  BY <1>2, <1>3, <1>4, IdentityGoes DEF IsDead
<1>6. \E cmd : command' = [command EXCEPT ![c] = cmd] /\ Sound(cmd, daemon)
  <2>1. CASE UnlinkIdentity(c)
    <3>1. command[c].pc = "unlinking" /\ \E ok \in BOOLEAN : RemovalEnds(c, ok)
      BY <2>1 DEF UnlinkIdentity, At
    <3>2. Concludes(c, "stale") \/ Concludes(c, "conflict")
      BY <3>1 DEF RemovalEnds
    <3> QED BY <1>1, <1>3, <3>1, <3>2, ConcludesSound DEF Results, Placed
  <2>2. CASE TidyUp(c)
    <3>1. command[c].pc = "tidying" /\ Ends(c, command[c].result)
      BY <2>2 DEF TidyUp, At
    <3>2. command[c].result \in Results
      BY <1>1 DEF CommandState
    <3> QED BY <1>1, <3>1, <3>2, EndsSound DEF Honest
  <2> QED BY <2>1, <2>2
<1>7. PICK cmd : command' = [command EXCEPT ![c] = cmd] /\ Sound(cmd, daemon)
  BY <1>6
<1>8. Sound(cmd, daemon') /\ Onward(daemon, daemon')
  BY <1>2, <1>7, OnwardRefl
<1>9. /\ DOMAIN command' = Commands /\ command' = [k \in Commands |-> command'[k]]
      /\ \A k \in Commands : Sound(command'[k], daemon')
  BY <1>7, <1>8, CommandMoves
<1> QED BY <1>2, <1>5, <1>9 DEF DaemonInv

\* A command and a daemon it starts or kills.
LEMMA CommandAndDaemon ==
  ASSUME DaemonInv, NEW c \in Commands, NEW d \in Daemons, NEW to \in Stages \ {"serving"}, Later(daemon[d], to),
         daemon' = [daemon EXCEPT ![d] = to], UNCHANGED identity,
         NEW cmd, command' = [command EXCEPT ![c] = cmd], Sound(cmd, daemon')
  PROVE  DaemonInv'
<1>1. /\ daemon' \in [Daemons -> Stages] /\ Onward(daemon, daemon')
      /\ \A e \in Daemons : daemon'[e] = IF e = d THEN to ELSE daemon[e]
  BY StepIsOnward
<1>2. ServingIsPublished'
  BY <1>1 DEF DaemonInv, ServingIsPublished
<1>3. IdentityNamesServer'
  BY <1>1 DEF DaemonInv, IdentityNamesServer, Onward
<1>4. /\ DOMAIN command' = Commands /\ command' = [k \in Commands |-> command'[k]]
      /\ \A k \in Commands : Sound(command'[k], daemon')
  BY <1>1, CommandMoves
<1> QED BY <1>1, <1>2, <1>3, <1>4 DEF DaemonInv

\* Two and three fields at once.
LEMMA TwoFields ==
  ASSUME NEW c, NEW pc, NEW x
  PROVE  /\ command' = [command EXCEPT ![c].pc = pc, ![c].child = x]
              => command' = [command EXCEPT ![c] = [command[c] EXCEPT !.pc = pc, !.child = x]]
         /\ command' = [command EXCEPT ![c].pc = pc, ![c].result = x]
              => command' = [command EXCEPT ![c] = [command[c] EXCEPT !.pc = pc, !.result = x]]
OBVIOUS

LEMMA ThreeFields ==
  ASSUME NEW c, NEW pc, NEW x, NEW y
  PROVE  /\ command' = [command EXCEPT ![c].pc = pc, ![c].saw = x, ![c].result = y]
              => command' = [command EXCEPT ![c] = [command[c] EXCEPT !.pc = pc, !.saw = x, !.result = y]]
         /\ command' = [command EXCEPT ![c].pc = pc, ![c].spared = x, ![c].result = y]
              => command' = [command EXCEPT ![c] = [command[c] EXCEPT !.pc = pc, !.spared = x, !.result = y]]
OBVIOUS

\* Starting a daemon.
LEMMA StartSteps ==
  ASSUME DaemonInv, NEW c \in Commands, SpawnDaemon(c) \/ PollStart(c) \/ CleanupFailedStart(c)
  PROVE  DaemonInv'
<1>1. Sound(command[c], daemon) /\ command[c] \in CommandState /\ Placed(command[c]) /\ Honest(command[c], daemon)
  BY DEF DaemonInv, Sound
<1>2. CASE SpawnDaemon(c)
  <2>1. PICK d \in Managed : /\ DaemonStep(d, "unborn", "begin")
                             /\ command' = [command EXCEPT ![c].pc = "polling", ![c].child = d]
    BY <1>2 DEF SpawnDaemon
  <2> DEFINE cmd == [command[c] EXCEPT !.pc = "polling", !.child = d]
  <2>2. command' = [command EXCEPT ![c] = cmd]
    BY <2>1, TwoFields
  <2>3. d \in Daemons /\ Later(daemon[d], "begin") /\ daemon' = [daemon EXCEPT ![d] = "begin"] /\ UNCHANGED identity
    BY <1>2, <2>1 DEF Daemons, Later, DaemonStep, SpawnDaemon
  <2>4. /\ cmd.op = command[c].op /\ cmd.pc = "polling" /\ cmd.saw = command[c].saw /\ cmd.child = d
        /\ cmd.result = command[c].result /\ cmd.spared = command[c].spared /\ cmd \in CommandState
    BY <1>1, <2>3 DEF CommandState
  <2> HIDE DEF cmd
  <2>5. command[c].pc = "spawning"
    BY <1>2 DEF SpawnDaemon, At
  <2>6. Sound(cmd, daemon)
    BY <1>1, <2>4, <2>5 DEF Sound, Placed, Honest
  <2>7. Sound(cmd, daemon')
    BY <2>3, <2>6, StepIsOnward, SoundStays DEF Stages
  <2> QED BY <2>2, <2>3, <2>7, CommandAndDaemon DEF Stages
<1>3. CASE PollStart(c)
  <2>1. command[c].pc = "polling" /\ UNCHANGED <<daemon, identity>>
    BY <1>3 DEF PollStart, At
  <2>2. \/ Goes(c, "reading") \/ (Goes(c, "failing") /\ command[c].child # Nobody)
        \/ Ends(c, "unreachable") /\ command[c].child = Nobody
    BY <1>3 DEF PollStart
  <2>3. CASE Goes(c, "reading")
    <3>1. Placed([command[c] EXCEPT !.pc = "reading"])
      BY <1>1, <2>1, OnlyStep DEF Placed
    <3> QED BY <1>1, <2>1, <2>3, <3>1, Stepping, QuietGoes, QuietCommand
  <2>4. CASE Goes(c, "failing") /\ command[c].child # Nobody
    <3>1. Placed([command[c] EXCEPT !.pc = "failing"])
      BY <1>1, <2>1, <2>4, OnlyStep DEF Placed
    <3> QED BY <1>1, <2>1, <2>4, <3>1, Stepping, QuietGoes, QuietCommand
  <2>5. CASE Ends(c, "unreachable") /\ command[c].child = Nobody
    BY <2>1, <2>5, EndsSound, QuietCommand DEF Results
  <2> QED BY <2>2, <2>3, <2>4, <2>5
<1>4. CASE CleanupFailedStart(c)
  <2> DEFINE d == command[c].child
  <2>1. d \in Daemons /\ command[c].pc = "failing" /\ UNCHANGED identity /\ command[c].op = "start" /\ command[c].result = "none"
    BY <1>1, <1>4 DEF CleanupFailedStart, At, Placed, CommandState
  <2>2. CASE /\ Killed(d)
             /\ command' = [command EXCEPT ![c].pc = "tidying", ![c].saw = d, ![c].result = "unreachable"]
    <3> DEFINE cmd == [command[c] EXCEPT !.pc = "tidying", !.saw = d, !.result = "unreachable"]
    <3>1. command' = [command EXCEPT ![c] = cmd]
      BY <2>2, ThreeFields
    <3>2. Later(daemon[d], "dead") /\ daemon' = [daemon EXCEPT ![d] = "dead"]
      BY <2>2 DEF Later, Killed
    <3>3. IsDead(daemon', d)
      BY <2>1, <3>2, StepIsOnward DEF Stages, IsDead
    <3>4. /\ cmd.op = command[c].op /\ cmd.pc = "tidying" /\ cmd.saw = d /\ cmd.child = d
          /\ cmd.result = "unreachable" /\ cmd.spared = command[c].spared /\ cmd \in CommandState
      BY <1>1, <2>1 DEF CommandState, Results
    <3> HIDE DEF cmd
    <3>5. Sound(cmd, daemon')
      BY <1>1, <2>1, <3>3, <3>4, DaemonAssumption DEF Sound, Placed, Honest, HasServed, IsDead
    <3> QED BY <2>1, <3>1, <3>2, <3>5, CommandAndDaemon DEF Stages
  <2>3. CASE /\ UNCHANGED daemon
             /\ command' = [command EXCEPT ![c].pc = "release", ![c].spared = TRUE, ![c].result = "unreachable"]
    <3> DEFINE cmd == [command[c] EXCEPT !.pc = "release", !.spared = TRUE, !.result = "unreachable"]
    <3>1. command' = [command EXCEPT ![c] = cmd]
      BY <2>3, ThreeFields
    <3>2. /\ cmd.op = command[c].op /\ cmd.pc = "release" /\ cmd.saw = command[c].saw /\ cmd.child = d
          /\ cmd.result = "unreachable" /\ cmd.spared = TRUE /\ cmd \in CommandState
      BY <1>1, ZenonT(60) DEF CommandState, Results
    <3> HIDE DEF cmd
    <3>3. Sound(cmd, daemon)
      BY <1>1, <2>1, <3>2 DEF Sound, Placed, Honest
    <3> QED BY <2>1, <2>3, <3>1, <3>3, QuietCommand
  <2> QED BY <1>4, <2>2, <2>3 DEF CleanupFailedStart
<1> QED BY <1>2, <1>3, <1>4

\* Stopping a daemon: the answer "stopped" is given of one that has ended.
LEMMA StopSteps ==
  ASSUME DaemonInv, NEW c \in Commands, AskToStop(c) \/ WaitForExit(c) \/ Terminate(c)
  PROVE  DaemonInv'
<1> DEFINE d == command[c].saw
<1>1. Sound(command[c], daemon) /\ command[c] \in CommandState /\ Placed(command[c]) /\ Honest(command[c], daemon)
  BY DEF DaemonInv, Sound
<1>2. command[c].pc \in {"asking", "grace", "terminating"} /\ UNCHANGED identity
  BY DEF AskToStop, WaitForExit, Terminate, At
<1>3. /\ d \in Daemons /\ HasServed(daemon, d) /\ command[c].op \in {"stop", "restart"} /\ command[c].child = Nobody
      /\ command[c].result = "none"
  BY <1>1, <1>2 DEF Placed, Honest, CommandState
<1>g. ASSUME NEW pc \in {"grace", "terminating"}, Goes(c, pc), UNCHANGED daemon
      PROVE  DaemonInv'
  <2>1. Placed([command[c] EXCEPT !.pc = pc])
    BY <1>1, <1>2, <1>3, OnlyStep DEF Placed
  <2> QED BY <1>1, <1>2, <1>g, <2>1, Stepping, QuietGoes, QuietCommand
<1>e. ASSUME NEW result \in Results, Ends(c, result), UNCHANGED daemon,
             result = "stopped" => HasEnded(daemon, d)
      PROVE  DaemonInv'
  BY <1>2, <1>3, <1>e, EndsSound, QuietCommand
<1>t. ASSUME command' = [command EXCEPT ![c].pc = "tidying", ![c].result = "stopped"],
             daemon' = [daemon EXCEPT ![d] = "dead"]
      PROVE  DaemonInv'
  <2> DEFINE cmd == [command[c] EXCEPT !.pc = "tidying", !.result = "stopped"]
  <2>1. command' = [command EXCEPT ![c] = cmd]
    BY <1>t, TwoFields
  <2>2. /\ cmd.op = command[c].op /\ cmd.pc = "tidying" /\ cmd.saw = command[c].saw /\ cmd.child = command[c].child
        /\ cmd.result = "stopped" /\ cmd.spared = command[c].spared /\ cmd \in CommandState
    BY <1>1, ZenonT(60) DEF CommandState, Results
  <2> HIDE DEF cmd
  <2>3. Later(daemon[d], "dead")
    BY DEF Later
  <2>4. IsDead(daemon', d)
    BY <1>3, <1>t, <2>3, StepIsOnward DEF Stages, IsDead
  <2>5. Sound(cmd, daemon')
    BY <1>1, <1>2, <1>3, <2>2, <2>4, DaemonAssumption DEF Sound, Placed, Honest, HasServed, HasEnded, IsDead
  <2> QED BY <1>2, <1>3, <1>t, <2>1, <2>3, <2>5, CommandAndDaemon DEF Stages
<1>4. CASE AskToStop(c)
  <2>1. (Goes(c, "grace") \/ Ends(c, "unreachable")) /\ UNCHANGED daemon
    BY <1>4 DEF AskToStop
  <2> QED BY <1>e, <1>g, <2>1 DEF Results
<1>5. CASE WaitForExit(c)
  <2>1. UNCHANGED daemon
    BY <1>5 DEF WaitForExit
  <2>2. CASE daemon[d] = "dead" /\ command' = [command EXCEPT ![c].pc = "tidying", ![c].result = "stopped"]
    <3>1. daemon' = [daemon EXCEPT ![d] = "dead"]
      BY <2>1, <2>2 DEF DaemonInv
    <3> QED BY <1>t, <2>2, <3>1
  <2>3. CASE Ends(c, "conflict")
    BY <1>e, <2>1, <2>3 DEF Results
  <2>4. CASE Goes(c, "terminating")
    BY <1>g, <2>1, <2>4
  <2> QED BY <1>5, <2>2, <2>3, <2>4 DEF WaitForExit
<1>6. CASE Terminate(c)
  <2>1. CASE Killed(d) /\ command' = [command EXCEPT ![c].pc = "tidying", ![c].result = "stopped"]
    BY <1>t, <2>1 DEF Killed
  <2>2. CASE UNCHANGED daemon /\ Ends(c, IF identity = Nobody THEN "stopped" ELSE "unreachable")
    <3>1. identity = Nobody => HasEnded(daemon, d)
      BY <1>3, DaemonAssumption DEF DaemonInv, ServingIsPublished, HasServed, HasEnded
    <3> QED BY <1>e, <2>2, <3>1 DEF Results
  <2> QED BY <1>6, <2>1, <2>2 DEF Terminate
<1> QED BY <1>4, <1>5, <1>6

LEMMA DaemonInvInit == DaemonInit => DaemonInv
<1> SUFFICES ASSUME DaemonInit PROVE DaemonInv
  OBVIOUS
<1>1. Sound(FreshCommand, daemon)
  BY DEF FreshCommand, Sound, CommandState, Results, Placed, Honest
<1>2. \A c \in Commands : command[c] = FreshCommand
  BY DEF DaemonInit
<1>3. daemon \in [Daemons -> Stages] /\ identity = Nobody /\ \A d \in Daemons : daemon[d] = "unborn"
  BY DEF DaemonInit, Stages
<1>4. DOMAIN command = Commands /\ command = [c \in Commands |-> command[c]]
  BY DEF DaemonInit
<1> QED BY <1>1, <1>2, <1>3, <1>4 DEF DaemonInv, ServingIsPublished, IdentityNamesServer

LEMMA DaemonInvNext == DaemonInv /\ [DaemonNext]_daemonVars => DaemonInv'
<1> SUFFICES ASSUME DaemonInv, [DaemonNext]_daemonVars PROVE DaemonInv'
  OBVIOUS
<1>1. ASSUME UNCHANGED <<daemon, identity, command>>
      PROVE  DaemonInv'
  BY <1>1 DEF DaemonInv, ServingIsPublished, IdentityNamesServer
<1>2. ASSUME NEW p, ReuseId(p)
      PROVE  DaemonInv'
  BY <1>1, <1>2 DEF ReuseId
<1>3. ASSUME NEW c \in Commands, CommandProgress(c)
      PROVE  DaemonInv'
  BY <1>3, LeaseSteps, InspectionSteps, UnlinkSteps, StartSteps, StopSteps DEF CommandProgress
<1>4. CASE UNCHANGED daemonVars
  BY <1>1, <1>4 DEF daemonVars
<1>5. CASE DaemonNext
  BY <1>2, <1>3, <1>5, DaemonGoesOn, LeaseSteps, StartSteps DEF DaemonNext
<1> QED BY <1>4, <1>5

\* What start and stop answer agrees with the processes (identity_file.ts:235, controller.ts:407,
\* :474), for any daemons and commands, whatever dies between any two steps.
THEOREM CommandsTrue == DaemonSpec => []CommandsTellTheTruth
<1>1. DaemonInv => CommandsTellTheTruth
  <2> SUFFICES ASSUME DaemonInv PROVE CommandsTellTheTruth
    OBVIOUS
  <2>1. \A c \in Commands : Honest(command[c], daemon)
    BY DEF DaemonInv, Sound
  <2>2. StoppedDoesNotServe
    BY <2>1 DEF StoppedDoesNotServe, Honest, HasEnded
  <2>3. NoOrphan
    BY <2>1 DEF NoOrphan, Honest, IsDead
  <2> QED BY <2>2, <2>3 DEF CommandsTellTheTruth, DaemonInv
<1> QED BY <1>1, DaemonInvInit, DaemonInvNext, PTL DEF DaemonSpec

------------------------------------------------------------------------------
(* A metric's counters are as long as the run its recent windows end in.    *)

Verdicts == {"over", "healthy"}
\* The last n recent windows all say v.
EndsWith(r, n, v) == \A i \in 1..Len(r) : i > Len(r) - n => r[i] = v

Counted(w, r) ==
  /\ w \in [over : 0..(WINDOWS - 1), healthy : 0..(WINDOWS - 1), degraded : BOOLEAN]
  /\ r \in Seq(Verdicts) /\ Len(r) <= WINDOWS
  /\ ~w.degraded => \A n \in 1..Len(r) : EndsWith(r, n, "over") => n <= w.over
  /\ w.degraded => \A n \in 1..Len(r) : EndsWith(r, n, "healthy") => n <= w.healthy

WindowInv ==
  /\ windows = [m \in Metrics |-> windows[m]] /\ recent = [m \in Metrics |-> recent[m]]
  /\ \A m \in Metrics : Counted(windows[m], recent[m])
  /\ degradation = IF \E m \in Metrics : windows[m].degraded THEN "degraded" ELSE "healthy"
  /\ reported = degradation

\* One more window: the oldest gives way when there are enough.
LEMMA OneMore ==
  ASSUME NEW r \in Seq(Verdicts), Len(r) <= WINDOWS, NEW s \in Verdicts,
         NEW new, new = (IF Len(Append(r, s)) > WINDOWS THEN Tail(Append(r, s)) ELSE Append(r, s))
  PROVE  /\ new \in Seq(Verdicts) /\ Len(new) <= WINDOWS
         /\ \A n \in 1..Len(new), v \in Verdicts :
              EndsWith(new, n, v) => s = v /\ (n > 1 => n - 1 \in 1..Len(r) /\ EndsWith(r, n - 1, v))
<1> DEFINE all == Append(r, s)
<1>1. /\ all \in Seq(Verdicts) /\ Len(all) = Len(r) + 1 /\ all[Len(r) + 1] = s
      /\ \A i \in 1..Len(r) : all[i] = r[i]
  BY AppendProperties
<1>2. Len(r) \in Nat /\ WINDOWS \in Nat \ {0}
  BY LenProperties, WindowsAssumption
<1> HIDE DEF all
<1>3. CASE Len(all) <= WINDOWS
  <2>1. new = all
    BY <1>1, <1>2, <1>3 DEF all
  <2>2. ASSUME NEW n \in 1..Len(new), NEW v \in Verdicts, EndsWith(new, n, v)
        PROVE  s = v /\ (n > 1 => n - 1 \in 1..Len(r) /\ EndsWith(r, n - 1, v))
    <3>1. s = v
      BY <1>1, <1>2, <2>1, <2>2 DEF EndsWith
    <3>2. \A i \in 1..Len(r) : i > Len(r) - (n - 1) => r[i] = v
      <4> SUFFICES ASSUME NEW i \in 1..Len(r), i > Len(r) - (n - 1) PROVE r[i] = v
        OBVIOUS
      <4>1. i \in 1..Len(new) /\ i > Len(new) - n
        BY <1>1, <1>2, <2>1
      <4>2. new[i] = v
        BY <2>2, <4>1 DEF EndsWith
      <4> QED BY <1>1, <2>1, <4>2
    <3> QED BY <1>1, <1>2, <2>1, <3>1, <3>2 DEF EndsWith
  <2> QED BY <1>1, <1>3, <2>1, <2>2
<1>4. CASE Len(all) > WINDOWS
  <2>1. new = Tail(all)
    BY <1>4 DEF all
  <2>2. /\ new \in Seq(Verdicts) /\ Len(new) = Len(r)
        /\ \A i \in 1..Len(new) : new[i] = all[i + 1]
    <3>1. all # <<>>
      BY <1>1, <1>2, EmptySeq
    <3>2. /\ Tail(all) \in Seq(Verdicts) /\ Len(Tail(all)) = Len(all) - 1
          /\ \A i \in 1..Len(Tail(all)) : Tail(all)[i] = all[i + 1]
      BY <1>1, <3>1, HeadTailProperties
    <3> QED BY <1>1, <1>2, <2>1, <3>2
  <2>3. ASSUME NEW n \in 1..Len(new), NEW v \in Verdicts, EndsWith(new, n, v)
        PROVE  s = v /\ (n > 1 => n - 1 \in 1..Len(r) /\ EndsWith(r, n - 1, v))
    <3>1. s = v
      BY <1>1, <1>2, <2>2, <2>3 DEF EndsWith
    <3>2. \A i \in 1..Len(r) : i > Len(r) - (n - 1) => r[i] = v
      <4> SUFFICES ASSUME NEW i \in 1..Len(r), i > Len(r) - (n - 1) PROVE r[i] = v
        OBVIOUS
      <4>1. i - 1 \in 1..Len(new) /\ i - 1 > Len(new) - n
        BY <1>2, <2>2, <2>3
      <4>2. new[i - 1] = v
        BY <2>3, <4>1 DEF EndsWith
      <4>3. new[i - 1] = all[i]
        <5>1. (i - 1) + 1 = i
          OBVIOUS
        <5>2. new[i - 1] = all[(i - 1) + 1]
          BY <2>2, <4>1
        <5> QED BY <5>1, <5>2
      <4> QED BY <1>1, <4>2, <4>3
    <3> QED BY <1>1, <1>2, <2>2, <3>1, <3>2 DEF EndsWith
  <2> QED BY <1>2, <2>2, <2>3
<1> QED BY <1>1, <1>2, <1>3, <1>4

\* The counters of a window record are set without touching its status.
LEMMA WindowFields ==
  ASSUME NEW S, NEW w \in [over : S, healthy : S, degraded : BOOLEAN], NEW a \in S, NEW b \in S
  PROVE  /\ [w EXCEPT !.over = a, !.healthy = b] \in [over : S, healthy : S, degraded : BOOLEAN]
         /\ [w EXCEPT !.over = a, !.healthy = b].over = a
         /\ [w EXCEPT !.over = a, !.healthy = b].healthy = b
         /\ [w EXCEPT !.over = a, !.healthy = b].degraded = w.degraded
OBVIOUS

LEMMA CountedStep ==
  ASSUME NEW w, NEW r, Counted(w, r), NEW s \in Verdicts,
         NEW new, new = (IF Len(Append(r, s)) > WINDOWS THEN Tail(Append(r, s)) ELSE Append(r, s))
  PROVE  /\ Counted(UpdateMetricWindows(w, s), new)
         /\ UpdateMetricWindows(w, s).degraded /\ ~w.degraded => s = "over"
         /\ ~UpdateMetricWindows(w, s).degraded /\ w.degraded => s = "healthy"
<1> DEFINE u == UpdateMetricWindows(w, s)
           S == 0..(WINDOWS - 1)
           Record == [over : S, healthy : S, degraded : BOOLEAN]
<1>1. /\ new \in Seq(Verdicts) /\ Len(new) <= WINDOWS /\ Len(new) \in Nat /\ Len(r) \in Nat
      /\ \A n \in 1..Len(new), v \in Verdicts :
           EndsWith(new, n, v) => s = v /\ (n > 1 => n - 1 \in 1..Len(r) /\ EndsWith(r, n - 1, v))
  BY OneMore, LenProperties, WindowsAssumption DEF Counted
<1>0. WINDOWS \in Nat \ {0} /\ 0 \in S
  BY WindowsAssumption
<1>2. w.over \in S /\ w.healthy \in S /\ w.degraded \in BOOLEAN /\ w \in Record
  BY DEF Counted
<1>3. /\ u \in Record
      /\ u.degraded /\ ~w.degraded => s = "over"
      /\ ~u.degraded /\ w.degraded => s = "healthy"
      /\ ~u.degraded => IF s = "over" THEN ~w.degraded /\ u.over = w.over + 1 ELSE u.over = 0
      /\ u.degraded => IF s = "healthy" THEN w.degraded /\ u.healthy = w.healthy + 1 ELSE u.healthy = 0
  <2>1. CASE s = "over" /\ w.over + 1 >= WINDOWS
    <3>1. u = [over |-> 0, healthy |-> 0, degraded |-> TRUE]
      BY <1>0, <1>2, <2>1 DEF UpdateMetricWindows
    <3>2. u \in Record /\ u.degraded = TRUE /\ u.healthy = 0
      <4> HIDE DEF S
      <4> QED BY <1>0, <3>1
    <3> QED BY <2>1, <3>2
  <2>2. CASE s = "over" /\ w.over + 1 < WINDOWS
    <3>1. u = [w EXCEPT !.over = w.over + 1, !.healthy = 0]
      <4>1. ~(w.over + 1 >= WINDOWS)
        BY <1>0, <1>2, <2>2
      <4> QED BY <2>2, <4>1 DEF UpdateMetricWindows
    <3>2. w.over + 1 \in S
      BY <1>0, <1>2, <2>2
    <3>3. u \in Record /\ u.over = w.over + 1 /\ u.healthy = 0 /\ u.degraded = w.degraded
      <4> HIDE DEF S, u
      <4> QED BY <1>0, <1>2, <3>1, <3>2, WindowFields
    <3> QED BY <1>2, <2>2, <3>3
  <2>3. CASE s = "healthy" /\ ~w.degraded
    <3>1. u = [w EXCEPT !.over = 0, !.healthy = 0]
      BY <2>3 DEF UpdateMetricWindows
    <3>3. u \in Record /\ u.over = 0 /\ u.healthy = 0 /\ u.degraded = w.degraded
      <4> HIDE DEF S, u
      <4> QED BY <1>0, <1>2, <3>1, WindowFields
    <3> QED BY <1>2, <2>3, <3>3
  <2>4. CASE s = "healthy" /\ w.degraded /\ w.healthy + 1 >= WINDOWS
    <3>1. u = [over |-> 0, healthy |-> 0, degraded |-> FALSE]
      BY <1>0, <1>2, <2>4 DEF UpdateMetricWindows, Fresh
    <3>2. u \in Record /\ u.degraded = FALSE /\ u.over = 0
      <4> HIDE DEF S
      <4> QED BY <1>0, <3>1
    <3> QED BY <2>4, <3>2
  <2>5. CASE s = "healthy" /\ w.degraded /\ w.healthy + 1 < WINDOWS
    <3>1. u = [w EXCEPT !.over = 0, !.healthy = w.healthy + 1]
      <4>1. ~(w.healthy + 1 >= WINDOWS)
        BY <1>0, <1>2, <2>5
      <4> QED BY <2>5, <4>1 DEF UpdateMetricWindows
    <3>2. w.healthy + 1 \in S
      BY <1>0, <1>2, <2>5
    <3>3. u \in Record /\ u.over = 0 /\ u.healthy = w.healthy + 1 /\ u.degraded = w.degraded
      <4> HIDE DEF S, u
      <4> QED BY <1>0, <1>2, <3>1, <3>2, WindowFields
    <3> QED BY <1>2, <2>5, <3>3
  <2>6. s = "over" \/ s = "healthy"
    BY DEF Verdicts
  <2>7. (w.over + 1 >= WINDOWS \/ w.over + 1 < WINDOWS) /\ (w.healthy + 1 >= WINDOWS \/ w.healthy + 1 < WINDOWS)
    BY <1>0, <1>2
  <2> QED BY <1>2, <2>1, <2>2, <2>3, <2>4, <2>5, <2>6, <2>7
<1> HIDE DEF u
<1>4. ASSUME ~u.degraded, NEW n \in 1..Len(new), EndsWith(new, n, "over")
      PROVE  n <= u.over
  <2>1. s = "over" /\ (n > 1 => n - 1 \in 1..Len(r) /\ EndsWith(r, n - 1, "over"))
    BY <1>1, <1>4 DEF Verdicts
  <2>2. ~w.degraded /\ u.over = w.over + 1 /\ w.over >= 0
    BY <1>2, <1>3, <1>4, <2>1
  <2>3. n > 1 => n - 1 <= w.over
    BY <2>1, <2>2 DEF Counted
  <2> QED BY <1>1, <1>2, <2>2, <2>3
<1>5. ASSUME u.degraded, NEW n \in 1..Len(new), EndsWith(new, n, "healthy")
      PROVE  n <= u.healthy
  <2>1. s = "healthy" /\ (n > 1 => n - 1 \in 1..Len(r) /\ EndsWith(r, n - 1, "healthy"))
    BY <1>1, <1>5 DEF Verdicts
  <2>2. w.degraded /\ u.healthy = w.healthy + 1 /\ w.healthy >= 0
    BY <1>2, <1>3, <1>5, <2>1
  <2>3. n > 1 => n - 1 <= w.healthy
    BY <2>1, <2>2 DEF Counted
  <2> QED BY <1>1, <1>2, <2>2, <2>3
<1>6. Counted(u, new)
  BY <1>1, <1>3, <1>4, <1>5 DEF Counted
<1> QED BY <1>3, <1>6 DEF u

\* A metric that becomes degraded was over, one that recovers healthy.
LEMMA MetricStep ==
  ASSUME NEW w, NEW r, Counted(w, r), NEW s \in Verdicts \cup {"insufficient"}, NEW new,
         new = (IF s = "insufficient" THEN r
                ELSE LET all == Append(r, s) IN IF Len(all) > WINDOWS THEN Tail(all) ELSE all)
  PROVE  /\ Counted(UpdateMetricWindows(w, s), new)
         /\ UpdateMetricWindows(w, s).degraded /\ ~w.degraded => s = "over"
         /\ ~UpdateMetricWindows(w, s).degraded /\ w.degraded => s = "healthy"
<1>1. CASE s = "insufficient"
  <2>1. UpdateMetricWindows(w, s) = w
    BY <1>1 DEF UpdateMetricWindows
  <2> QED BY <1>1, <2>1
<1>2. CASE s # "insufficient"
  BY <1>2, CountedStep
<1> QED BY <1>1, <1>2

LEMMA WindowInitial == WindowInit => WindowInv
<1> SUFFICES ASSUME WindowInit PROVE WindowInv
  OBVIOUS
<1>1. WINDOWS \in Nat \ {0} /\ Fresh \in [over : 0..(WINDOWS - 1), healthy : 0..(WINDOWS - 1), degraded : BOOLEAN]
  BY WindowsAssumption DEF Fresh
<1>2. Counted(Fresh, <<>>)
  BY <1>1 DEF Counted
<1>3. ~Fresh.degraded
  BY DEF Fresh
<1> QED BY <1>2, <1>3 DEF WindowInit, WindowInv

LEMMA WindowKept == WindowInv /\ [WindowNext]_windowVars => WindowInv'
<1> SUFFICES ASSUME WindowInv, [WindowNext]_windowVars PROVE WindowInv'
  OBVIOUS
<1>1. CASE UNCHANGED windowVars
  BY <1>1 DEF WindowInv, windowVars
<1>2. ASSUME NEW status \in [Metrics -> {"over", "healthy", "insufficient"}], EvaluateWindow(status)
      PROVE  WindowInv'
  <2>1. \A m \in Metrics :
          /\ Counted(windows'[m], recent'[m])
          /\ windows'[m].degraded /\ ~windows[m].degraded => status[m] = "over"
          /\ ~windows'[m].degraded /\ windows[m].degraded => status[m] = "healthy"
    <3> SUFFICES ASSUME NEW m \in Metrics
                 PROVE  /\ Counted(windows'[m], recent'[m])
                        /\ windows'[m].degraded /\ ~windows[m].degraded => status[m] = "over"
                        /\ ~windows'[m].degraded /\ windows[m].degraded => status[m] = "healthy"
      OBVIOUS
    <3>1. Counted(windows[m], recent[m]) /\ status[m] \in Verdicts \cup {"insufficient"}
      BY DEF WindowInv, Verdicts
    <3>2. /\ windows'[m] = UpdateMetricWindows(windows[m], status[m])
          /\ recent'[m] = (IF status[m] = "insufficient" THEN recent[m]
                ELSE LET all == Append(recent[m], status[m]) IN IF Len(all) > WINDOWS THEN Tail(all) ELSE all)
      BY <1>2 DEF EvaluateWindow
    <3> DEFINE w == windows[m]
               r == recent[m]
               s == status[m]
               new == recent'[m]
    <3>3. Counted(w, r) /\ s \in Verdicts \cup {"insufficient"}
          /\ new = (IF s = "insufficient" THEN r
                     ELSE LET all == Append(r, s) IN IF Len(all) > WINDOWS THEN Tail(all) ELSE all)
      BY <3>1, <3>2
    <3> HIDE DEF w, r, s, new
    <3>4. /\ Counted(UpdateMetricWindows(w, s), new)
          /\ UpdateMetricWindows(w, s).degraded /\ ~w.degraded => s = "over"
          /\ ~UpdateMetricWindows(w, s).degraded /\ w.degraded => s = "healthy"
      BY <3>3, MetricStep, ZenonT(60)
    <3> QED BY <3>2, <3>4 DEF w, r, s, new
  <2>2. /\ windows' = [m \in Metrics |-> windows'[m]] /\ recent' = [m \in Metrics |-> recent'[m]]
        /\ degradation' = IF \E m \in Metrics : windows'[m].degraded THEN "degraded" ELSE "healthy"
    BY <1>2 DEF EvaluateWindow
  <2>3. reported' = degradation'
    <3>1. CASE degradation' = degradation
      BY <1>2, <3>1 DEF EvaluateWindow, HandleEvaluation, WindowInv
    <3>2. CASE degradation' = "degraded" /\ degradation = "healthy"
      <4>1. \E m \in Metrics : status[m] = "over"
        BY <2>1, <2>2, <3>2 DEF WindowInv
      <4> QED BY <1>2, <3>2, <4>1 DEF EvaluateWindow, HandleEvaluation
    <3>3. CASE degradation' = "healthy" /\ degradation = "degraded"
      <4>1. \E m \in Metrics : status[m] = "healthy"
        BY <2>1, <2>2, <3>3 DEF WindowInv
      <4> DEFINE healed == {m \in Metrics : status[m] = "healthy"}
      <4>2. (IF announced \cap healed # {} THEN announced \cap healed ELSE healed) # {}
        BY <4>1
      <4> QED BY <1>2, <3>3, <4>2 DEF EvaluateWindow, HandleEvaluation
    <3> QED BY <2>2, <3>1, <3>2, <3>3 DEF WindowInv
  <2> QED BY <2>1, <2>2, <2>3 DEF WindowInv
<1> QED BY <1>1, <1>2 DEF WindowNext

LEMMA TransitionsFollow == WindowInv => TransitionsAreReported
<1> SUFFICES ASSUME WindowInv, NEW m \in Metrics, Len(recent[m]) = WINDOWS
             PROVE  /\ (\A i \in 1..WINDOWS : recent[m][i] = "over") => degradation = "degraded"
                    /\ (\A i \in 1..WINDOWS : recent[m][i] = "healthy") => ~windows[m].degraded
  BY DEF TransitionsAreReported, WindowInv
<1>1. Counted(windows[m], recent[m]) /\ WINDOWS \in Nat \ {0}
  BY WindowsAssumption DEF WindowInv
<1>2. windows[m].over \in 0..(WINDOWS - 1) /\ windows[m].healthy \in 0..(WINDOWS - 1)
  BY <1>1 DEF Counted
<1>3. WINDOWS \in 1..Len(recent[m]) /\ ~(WINDOWS <= windows[m].over) /\ ~(WINDOWS <= windows[m].healthy)
  BY <1>1, <1>2
<1>4. ASSUME \A i \in 1..WINDOWS : recent[m][i] = "over" PROVE degradation = "degraded"
  <2>1. EndsWith(recent[m], WINDOWS, "over")
    BY <1>4 DEF EndsWith
  <2>2. windows[m].degraded
    BY <1>1, <1>3, <2>1 DEF Counted
  <2> QED BY <2>2 DEF WindowInv
<1>5. ASSUME \A i \in 1..WINDOWS : recent[m][i] = "healthy" PROVE ~windows[m].degraded
  <2>1. EndsWith(recent[m], WINDOWS, "healthy")
    BY <1>5 DEF EndsWith
  <2> QED BY <1>1, <1>3, <2>1 DEF Counted
<1> QED BY <1>4, <1>5

\* The recorded transitions follow the status, and the status the last
\* WINDOWS conclusive windows of every metric (runtime.ts:169, performance.ts).
THEOREM TransitionsTrue == WindowSpec => []TransitionsAreReported
<1> QED BY WindowInitial, WindowKept, TransitionsFollow, PTL DEF WindowSpec

------------------------------------------------------------------------------
Records == {"stage", "failed", "finished"}

QueueIsBounded == Len(records) <= DIAGNOSTIC_QUEUE

DiagnosticsTypes ==
  /\ records \in Seq(Records) /\ scheduled \in BOOLEAN
  /\ offered \in Nat /\ written \in Nat /\ droppedRecords \in Nat

DiagnosticsInv == DiagnosticsTypes /\ QueueIsBounded /\ RecordsAreAccounted

\* Clearing leaves nothing queued, scheduled or waiting.
LEMMA Cleared ==
  ASSUME Clear
  PROVE  /\ records' \in Seq(Records) /\ Len(records') = 0 /\ records' = <<>> /\ scheduled' = FALSE
         /\ drained' # "waiting"
BY DEF Clear

LEMMA Failed ==
  ASSUME DiagnosticsInv, NEW extra \in Nat, Fail(extra), offered' = offered + extra, UNCHANGED written
  PROVE  DiagnosticsInv'
<1>1. /\ records' \in Seq(Records) /\ Len(records') = 0 /\ records' = <<>> /\ scheduled' = FALSE
      /\ drained' # "waiting"
  BY Cleared DEF Fail
<1>2. /\ droppedRecords' = droppedRecords + extra + Len(records) /\ written' = written
      /\ offered' = offered + extra
  BY DEF Fail
<1>3. /\ offered \in Nat /\ written \in Nat /\ droppedRecords \in Nat /\ Len(records) \in Nat
      /\ offered = written + Len(records) + droppedRecords
  BY LenProperties DEF DiagnosticsInv, DiagnosticsTypes, RecordsAreAccounted, EveryRecordCounts
<1>4. /\ offered' \in Nat /\ written' \in Nat /\ droppedRecords' \in Nat
      /\ offered' = written' + Len(records') + droppedRecords'
  BY <1>1, <1>2, <1>3
<1>5. Len(records') <= DIAGNOSTIC_QUEUE
  BY <1>1, DiagnosticsAssumption
<1> QED BY <1>1, <1>4, <1>5
        DEF DiagnosticsInv, DiagnosticsTypes, RecordsAreAccounted, EveryRecordCounts, DrainIsScheduled, QueueIsBounded

\* A record that is refused is counted and touches nothing else.
LEMMA Refused ==
  ASSUME DiagnosticsInv, Dropped(1), offered' = offered + 1, UNCHANGED <<records, scheduled, drained, written>>
  PROVE  DiagnosticsInv'
<1>1. /\ offered \in Nat /\ written \in Nat /\ droppedRecords \in Nat /\ Len(records) \in Nat
      /\ offered = written + Len(records) + droppedRecords
  BY LenProperties DEF DiagnosticsInv, DiagnosticsTypes, RecordsAreAccounted, EveryRecordCounts
<1>2. droppedRecords' = droppedRecords + 1 /\ records' = records /\ scheduled' = scheduled /\ drained' = drained /\ written' = written
  BY DEF Dropped
<1>3. /\ offered' \in Nat /\ droppedRecords' \in Nat
      /\ offered' = written' + Len(records') + droppedRecords'
  BY <1>1, <1>2
<1> QED BY <1>2, <1>3
        DEF DiagnosticsInv, DiagnosticsTypes, RecordsAreAccounted, EveryRecordCounts, DrainIsScheduled, QueueIsBounded

\* A record is queued, takes the place of the oldest stage record or is
\* counted as dropped.
LEMMA Enqueued ==
  ASSUME DiagnosticsInv, NEW event \in Records, EnqueueRecord(event),
         offered' = offered + 1, UNCHANGED <<drained, written>>
  PROVE  DiagnosticsInv'
<1> DEFINE I == {i \in 1..Len(records) : records[i] = "stage"}
           stage == IF I # {} THEN Min(I) ELSE 0
           victim == IF event = "stage" THEN 0 ELSE stage
<1>0. SelectInSeq(records, LAMBDA r : r = "stage") = stage
  BY DEF SelectInSeq
<1>1. /\ records \in Seq(Records) /\ Len(records) \in Nat
      /\ offered \in Nat /\ written \in Nat /\ droppedRecords \in Nat
      /\ offered = written + Len(records) + droppedRecords
      /\ Len(records) <= DIAGNOSTIC_QUEUE /\ DIAGNOSTIC_QUEUE \in Nat \ {0}
  BY LenProperties, DiagnosticsAssumption
     DEF DiagnosticsInv, DiagnosticsTypes, RecordsAreAccounted, EveryRecordCounts, QueueIsBounded
<1>2. victim # 0 => victim \in 1..Len(records)
  <2>1. I \in SUBSET Nat
    BY <1>1
  <2>2. I # {} => Min(I) \in I
    BY <2>1, FirstPlace
  <2> QED BY <2>2
<1> HIDE DEF victim
<1>3. CASE Len(records) < DIAGNOSTIC_QUEUE
  <2>1. records' = Append(records, event) /\ scheduled' = TRUE /\ droppedRecords' = droppedRecords
    BY <1>1, <1>3 DEF EnqueueRecord
  <2>2. records' \in Seq(Records) /\ Len(records') = Len(records) + 1
    BY <1>1, <2>1, AppendProperties
  <2>3. offered' = written' + Len(records') + droppedRecords' /\ offered' \in Nat
        /\ Len(records') <= DIAGNOSTIC_QUEUE /\ records' # <<>>
    <3>1. Len(records') # 0
      BY <1>1, <2>2
    <3> QED BY <1>1, <1>3, <2>1, <2>2, <3>1
  <2> QED BY <1>1, <2>1, <2>2, <2>3
        DEF DiagnosticsInv, DiagnosticsTypes, RecordsAreAccounted, EveryRecordCounts, DrainIsScheduled, QueueIsBounded
<1>4. CASE Len(records) >= DIAGNOSTIC_QUEUE /\ victim = 0
  <2>1. Dropped(1) /\ UNCHANGED <<records, scheduled>>
    BY <1>0, <1>1, <1>4 DEF EnqueueRecord, victim
  <2>2. UNCHANGED <<records, scheduled, drained, written>>
    BY <2>1
  <2> QED BY <2>1, <2>2, Refused
<1>5. CASE Len(records) >= DIAGNOSTIC_QUEUE /\ victim # 0
  <2> DEFINE left == RemoveAt(records, victim)
  <2>1. records' = Append(left, event) /\ scheduled' = TRUE /\ Dropped(1)
    <3>1. ~(Len(records) < DIAGNOSTIC_QUEUE)
      BY <1>1, <1>5
    <3>2. (IF event = "stage" THEN 0 ELSE SelectInSeq(records, LAMBDA r : r = "stage")) = victim
      BY <1>0 DEF victim
    <3> HIDE DEF stage
    <3> QED BY <1>5, <3>1, <3>2, Zenon DEF EnqueueRecord
  <2>2. left \in Seq(Records) /\ Len(left) = Len(records) - 1
    BY <1>1, <1>2, <1>5, RemoveAtPlace
  <2> HIDE DEF left
  <2>3. records' \in Seq(Records) /\ Len(records') = Len(records)
    <3>1. records' \in Seq(Records) /\ Len(records') = Len(left) + 1
      BY <2>1, <2>2, AppendProperties
    <3> QED BY <1>1, <2>2, <3>1
  <2>4. droppedRecords' = droppedRecords + 1
    BY <2>1 DEF Dropped
  <2>5. offered' = written' + Len(records') + droppedRecords' /\ offered' \in Nat /\ droppedRecords' \in Nat
        /\ Len(records') <= DIAGNOSTIC_QUEUE /\ records' # <<>>
    <3>1. Len(records') # 0
      BY <1>1, <1>5, <2>3
    <3> QED BY <1>1, <2>3, <2>4, <3>1
  <2> QED BY <1>1, <2>1, <2>3, <2>5
        DEF DiagnosticsInv, DiagnosticsTypes, RecordsAreAccounted, EveryRecordCounts, DrainIsScheduled, QueueIsBounded
<1> QED BY <1>1, <1>3, <1>4, <1>5

LEMMA RecordKept ==
  ASSUME DiagnosticsInv, NEW t, NEW event \in Records, NEW next, RecordOf(t, event, next)
  PROVE  DiagnosticsInv'
<1>1. offered' = offered + 1 /\ UNCHANGED written
  BY DEF RecordOf
<1>2. CASE Dropped(1) /\ UNCHANGED <<records, scheduled, drained>>
  BY <1>1, <1>2, Refused
<1>3. CASE Fail(1)
  BY <1>1, <1>3, Failed
<1>4. CASE (EnqueueRecord(event) \/ (Dropped(1) /\ UNCHANGED <<records, scheduled>>)) /\ UNCHANGED drained
  BY <1>1, <1>4, Refused, Enqueued
<1> QED BY <1>2, <1>3, <1>4 DEF RecordOf

LEMMA DrainKept ==
  ASSUME DiagnosticsInv, Drain
  PROVE  DiagnosticsInv'
<1>1. /\ records \in Seq(Records) /\ Len(records) \in Nat /\ records # <<>>
      /\ offered \in Nat /\ written \in Nat /\ droppedRecords \in Nat
      /\ offered = written + Len(records) + droppedRecords
      /\ Len(records) <= DIAGNOSTIC_QUEUE /\ DIAGNOSTIC_QUEUE \in Nat \ {0}
  BY LenProperties, DiagnosticsAssumption
     DEF Drain, DiagnosticsInv, DiagnosticsTypes, RecordsAreAccounted, EveryRecordCounts, DrainIsScheduled, QueueIsBounded
<1>2. CASE /\ records' = Tail(records) /\ written' = written + 1
           /\ scheduled' = (records' # <<>>)
           /\ drained' = IF records' = <<>> /\ drained = "waiting" THEN "done" ELSE drained
           /\ UNCHANGED <<droppedRecords, recorder>>
  <2>1. Tail(records) \in Seq(Records) /\ Len(Tail(records)) = Len(records) - 1
    BY <1>1, HeadTailProperties
  <2>2. /\ records' \in Seq(Records) /\ Len(records') <= DIAGNOSTIC_QUEUE /\ written' \in Nat
        /\ offered = written' + Len(records') + droppedRecords
    BY <1>1, <1>2, <2>1
  <2>3. scheduled' <=> records' # <<>>
    BY <1>2
  <2>4. drained' = "waiting" => records' # <<>>
    BY <1>2
  <2> QED BY <1>1, <1>2, <2>2, <2>3, <2>4
        DEF Drain, DiagnosticsInv, DiagnosticsTypes, RecordsAreAccounted, EveryRecordCounts, DrainIsScheduled, QueueIsBounded
<1>3. CASE droppedRecords' = droppedRecords + Len(records) /\ UNCHANGED written /\ Clear
  <2>1. /\ records' \in Seq(Records) /\ Len(records') = 0 /\ records' = <<>> /\ scheduled' = FALSE
        /\ drained' # "waiting"
    BY <1>3, Cleared
  <2>2. offered = written + Len(records') + droppedRecords' /\ droppedRecords' \in Nat /\ Len(records') <= DIAGNOSTIC_QUEUE
    BY <1>1, <1>3, <2>1
  <2> QED BY <1>1, <1>3, <2>1, <2>2
        DEF Drain, DiagnosticsInv, DiagnosticsTypes, RecordsAreAccounted, EveryRecordCounts, DrainIsScheduled, QueueIsBounded
<1> QED BY <1>2, <1>3 DEF Drain

LEMMA ForceCloseKept ==
  ASSUME DiagnosticsInv, ForceCloseDiagnostics
  PROVE  DiagnosticsInv'
<1>1. /\ records \in Seq(Records) /\ Len(records) \in Nat
      /\ offered \in Nat /\ written \in Nat /\ droppedRecords \in Nat
      /\ offered = written + Len(records) + droppedRecords
      /\ DIAGNOSTIC_QUEUE \in Nat \ {0}
  BY LenProperties, DiagnosticsAssumption
     DEF DiagnosticsInv, DiagnosticsTypes, RecordsAreAccounted, EveryRecordCounts, QueueIsBounded
<1>2. /\ records' \in Seq(Records) /\ Len(records') = 0 /\ records' = <<>> /\ scheduled' = FALSE
      /\ drained' # "waiting"
  BY Cleared DEF ForceCloseDiagnostics
<1>3. droppedRecords' = droppedRecords + Len(records) /\ offered' = offered /\ written' = written
  <2>1. records = <<>> => Len(records) = 0
    OBVIOUS
  <2> QED BY <1>1, <2>1 DEF ForceCloseDiagnostics, Dropped
<1>4. /\ offered' = written' + Len(records') + droppedRecords' /\ offered' \in Nat /\ written' \in Nat
      /\ droppedRecords' \in Nat /\ Len(records') <= DIAGNOSTIC_QUEUE
  BY <1>1, <1>2, <1>3
<1> QED BY <1>2, <1>4
     DEF DiagnosticsInv, DiagnosticsTypes, RecordsAreAccounted, EveryRecordCounts, DrainIsScheduled, QueueIsBounded

LEMMA DiagnosticsInitial == DiagnosticsInit => DiagnosticsInv
<1> SUFFICES ASSUME DiagnosticsInit PROVE DiagnosticsInv
  OBVIOUS
<1>1. Len(records) = 0 /\ records \in Seq(Records) /\ records = <<>>
  BY DEF DiagnosticsInit
<1>2. Len(records) <= DIAGNOSTIC_QUEUE
  BY <1>1, DiagnosticsAssumption
<1>3. offered = 0 /\ written = 0 /\ droppedRecords = 0 /\ scheduled = FALSE /\ drained = "none"
  BY DEF DiagnosticsInit
<1>4. 0 = written + Len(records) + droppedRecords
  BY <1>1, <1>3
<1> QED BY <1>1, <1>2, <1>3, <1>4
     DEF DiagnosticsInv, DiagnosticsTypes, RecordsAreAccounted, EveryRecordCounts, DrainIsScheduled, QueueIsBounded

LEMMA DiagnosticsKept == DiagnosticsInv /\ [DiagnosticsNext]_diagnosticVars => DiagnosticsInv'
<1> SUFFICES ASSUME DiagnosticsInv, [DiagnosticsNext]_diagnosticVars PROVE DiagnosticsInv'
  OBVIOUS
<1>0. "stage" \in Records /\ "failed" \in Records /\ "finished" \in Records
  BY DEF Records
<1>1. CASE UNCHANGED diagnosticVars
  BY <1>1 DEF diagnosticVars, DiagnosticsInv, DiagnosticsTypes, RecordsAreAccounted, EveryRecordCounts, DrainIsScheduled, QueueIsBounded
<1>2. ASSUME NEW t \in Traces, Stage(t) \/ Failure(t) \/ Finish(t) PROVE DiagnosticsInv'
  <2>1. CASE Stage(t)
    BY <1>0, <2>1, RecordKept DEF Stage
  <2>2. CASE Failure(t)
    BY <1>0, <2>2, RecordKept DEF Failure
  <2>3. CASE Finish(t)
    BY <1>0, <2>3, RecordKept DEF Finish
  <2> QED BY <1>2, <2>1, <2>2, <2>3
<1>3. CASE ObserverThrows
  <2>1. 0 \in Nat /\ Fail(0) /\ offered' = offered + 0 /\ UNCHANGED written
    BY <1>3 DEF ObserverThrows, DiagnosticsInv, DiagnosticsTypes
  <2> QED BY <2>1, Failed
<1>4. CASE Drain
  BY <1>4, DrainKept
<1>5. CASE CloseDiagnostics
  BY <1>5 DEF CloseDiagnostics, DiagnosticsInv, DiagnosticsTypes, RecordsAreAccounted, EveryRecordCounts, DrainIsScheduled, QueueIsBounded
<1>6. CASE ForceCloseDiagnostics
  BY <1>6, ForceCloseKept
<1> QED BY <1>1, <1>2, <1>3, <1>4, <1>5, <1>6 DEF DiagnosticsNext

\* Every record offered is written, queued or counted as dropped, and one that
\* is queued will be written, for any requests and any queue, which never grows
\* beyond its bound (diagnostics.ts:308, :334, :352, :367).
THEOREM RecordsTrue == DiagnosticsSpec => [](RecordsAreAccounted /\ QueueIsBounded)
<1>1. DiagnosticsInv => RecordsAreAccounted /\ QueueIsBounded
  BY DEF DiagnosticsInv
<1> QED BY <1>1, DiagnosticsInitial, DiagnosticsKept, PTL DEF DiagnosticsSpec

------------------------------------------------------------------------------
(* The daemon's log. *)

Line == Nat \ {0}
\* The lines of a file are in order, and the files too.
InOrder(f) == \A j, k \in 1..Len(f) : j < k => f[j] < f[k]
SortedFiles(r) ==
  /\ \A i \in 1..Len(r) : r[i] \in Seq(Line) /\ Len(r[i]) \in Nat \ {0} /\ InOrder(r[i])
  /\ \A i, k \in 1..Len(r) : i < k => r[i][Len(r[i])] < r[k][1]

InFiles(r, line) == \E i \in 1..Len(r) : \E j \in 1..Len(r[i]) : r[i][j] = line
InFile(f, line) == \E i \in 1..Len(f) : f[i] = line
\* As many newer files as are kept lie behind the line.
Superseded(r, line) ==
  \E k \in 0..Len(r) : Len(r) - k >= LOG_FILE_COUNT - 1 /\ \A i \in (k + 1)..Len(r) : r[i][1] > line

\* A file with this first line may go: it is aged, or the oldest of too many.
MayGo(first) ==
  \/ \E i \in 1..Len(rotated) :
       /\ rotated[i][1] = first
       /\ rotated[i][Len(rotated[i])] <= aged \/ (i = 1 /\ Len(rotated) > LOG_FILE_COUNT - 1)
  \/ Len(activeFile) > 0 /\ activeFile[1] = first /\ activeFile[Len(activeFile)] <= aged

LogTypes ==
  /\ activeFile \in Seq(Line) /\ rotated \in Seq(Seq(Line)) /\ quarantine \in Seq(Line)
  /\ aged \in Nat /\ linesWritten \in Nat
  /\ stateTmp \in Nat /\ state \in Nat /\ commitTmp \in Nat /\ commit \in Nat
  /\ job \in [step : {"idle", "recover", "select", "publish", "rename", "commit", "commitPublish",
                      "unlink", "uncommit", "unstate", "append", "refused"}, last : BOOLEAN]

LogIsSorted ==
  /\ SortedFiles(rotated) /\ InOrder(activeFile)
  /\ \A i \in 1..Len(rotated) : /\ Len(activeFile) > 0 => rotated[i][Len(rotated[i])] < activeFile[1]
                                /\ rotated[i][Len(rotated[i])] <= linesWritten
  /\ Len(activeFile) > 0 => activeFile[Len(activeFile)] <= linesWritten

LinesAreKept ==
  \A line \in aged + 1 .. linesWritten :
    InFiles(rotated, line) \/ InFile(activeFile, line) \/ Superseded(rotated, line)

\* The records agree with each other and with the file in quarantine, wherever
\* a crash leaves them.
RecordsAgree ==
  /\ stateTmp # 0 => state = 0 /\ commit = 0 /\ commitTmp = 0 /\ quarantine = <<>>
  /\ commitTmp # 0 => commit = 0 /\ commitTmp = state
  /\ commit # 0 => commit = state
  /\ quarantine # <<>> => quarantine[1] = state /\ state # 0

\* What each step of a pruning has before it.
StepIsReady ==
  /\ job.step # "refused"
  /\ job.step \in {"select", "append", "idle"} => stateTmp = 0 /\ state = 0
  /\ job.step = "publish" => stateTmp # 0 /\ MayGo(stateTmp)
  /\ job.step = "rename" => state # 0 /\ MayGo(state) /\ commit = 0 /\ commitTmp = 0
  /\ job.step = "commit" => state # 0 /\ commit = 0 /\ commitTmp = 0
  /\ job.step = "commitPublish" => state # 0 /\ commitTmp = state
  /\ job.step = "unlink" => state # 0 /\ commitTmp = 0
  /\ job.step = "uncommit" => state # 0 /\ quarantine = <<>> /\ commitTmp = 0
  /\ job.step = "unstate" => state # 0 /\ quarantine = <<>> /\ commitTmp = 0 /\ commit = 0
  /\ job.step = "idle" => Len(rotated) < LOG_FILE_COUNT

LogInv == LogTypes /\ LogIsSorted /\ LinesAreKept /\ RecordsAgree /\ StepIsReady

------------------------------------------------------------------------------
\* The lines of a file lie between its first and its last.
LEMMA FileEnds ==
  ASSUME NEW f \in Seq(Line), InOrder(f), Len(f) \in Nat \ {0}
  PROVE  /\ Head(f) = f[1] /\ Last(f) = f[Len(f)] /\ 1 \in 1..Len(f) /\ Len(f) \in 1..Len(f)
         /\ f[1] \in Line /\ f[Len(f)] \in Line /\ f[1] <= f[Len(f)]
         /\ \A j \in 1..Len(f) : f[j] \in Line /\ f[1] <= f[j] /\ f[j] <= f[Len(f)]
<1>1. 1 \in 1..Len(f) /\ Len(f) \in 1..Len(f)
  OBVIOUS
<1>2. \A j \in 1..Len(f) : f[j] \in Line
  BY ElementOfSeq
<1>3. \A j \in 1..Len(f) : f[1] <= f[j] /\ f[j] <= f[Len(f)]
  <2> SUFFICES ASSUME NEW j \in 1..Len(f) PROVE f[1] <= f[j] /\ f[j] <= f[Len(f)]
    OBVIOUS
  <2>1. f[1] \in Nat /\ f[j] \in Nat /\ f[Len(f)] \in Nat
    BY <1>1, <1>2 DEF Line
  <2>2. (j = 1 \/ 1 < j) /\ (j = Len(f) \/ j < Len(f))
    OBVIOUS
  <2>3. 1 < j => f[1] < f[j]
    BY <1>1 DEF InOrder
  <2>4. j < Len(f) => f[j] < f[Len(f)]
    BY <1>1 DEF InOrder
  <2> QED BY <2>1, <2>2, <2>3, <2>4
<1>4. Head(f) = f[1] /\ Last(f) = f[Len(f)]
  BY DEF Last
<1> QED BY <1>1, <1>2, <1>3, <1>4

\* One file leaves: the others stay sorted, and lose nothing.
LEMMA FileLeaves ==
  ASSUME NEW r \in Seq(Seq(Line)), SortedFiles(r), NEW i \in 1..Len(r)
  PROVE  /\ RemoveAt(r, i) \in Seq(Seq(Line)) /\ SortedFiles(RemoveAt(r, i))
         /\ Len(RemoveAt(r, i)) = Len(r) - 1 /\ Len(r) \in Nat
         /\ \A j \in 1..Len(RemoveAt(r, i)) : \E k \in 1..Len(r) : RemoveAt(r, i)[j] = r[k]
         /\ \A j \in 1..Len(RemoveAt(r, i)) : RemoveAt(r, i)[j] = IF j < i THEN r[j] ELSE r[j + 1]
         /\ \A line : InFiles(r, line) => InFiles(RemoveAt(r, i), line) \/ InFile(r[i], line)
<1> DEFINE q == RemoveAt(r, i)
<1>1. /\ q \in Seq(Seq(Line)) /\ Len(q) = Len(r) - 1
      /\ \A j \in 1..(Len(r)-1) : q[j] = IF j < i THEN r[j] ELSE r[j+1]
  BY RemoveAtPlace
<1> HIDE DEF q
<1>2. Len(r) \in Nat
  BY LenProperties
<1> DEFINE old(j) == IF j < i THEN j ELSE j + 1
<1>3. /\ \A j \in 1..Len(q) : old(j) \in 1..Len(r) /\ q[j] = r[old(j)]
      /\ \A j, k \in 1..Len(q) : j < k => old(j) < old(k)
  <2>1. \A j, k \in 1..Len(q) : j < k => old(j) < old(k)
    <3>1. i \in Int /\ \A j \in 1..Len(q) : j \in Int
      BY <1>1, <1>2
    <3>2. ASSUME NEW j \in Int, NEW k \in Int, j < k PROVE old(j) < old(k)
      BY <3>1, <3>2
    <3> QED BY <3>1, <3>2
  <2>2. ASSUME NEW j \in 1..Len(q) PROVE old(j) \in 1..Len(r) /\ q[j] = r[old(j)]
    <3>0. j \in 1..(Len(r)-1) /\ j \in 1..Len(r) /\ j + 1 \in 1..Len(r)
      BY <1>1, <1>2, SMTT(40)
    <3>3. q[j] = IF j < i THEN r[j] ELSE r[j+1]
      BY <1>1, <3>0
    <3>1. CASE j < i
      BY <3>0, <3>1, <3>3
    <3>2. CASE ~(j < i)
      BY <3>0, <3>2, <3>3
    <3> QED BY <3>1, <3>2
  <2> QED BY <2>1, <2>2
<1>4. \A m \in 1..Len(r) : m # i => \E j \in 1..Len(q) : old(j) = m
  <2> SUFFICES ASSUME NEW m \in 1..Len(r), m # i PROVE \E j \in 1..Len(q) : old(j) = m
    OBVIOUS
  <2>1. CASE m < i
    <3>1. m \in 1..Len(q) /\ old(m) = m
      BY <1>1, <1>2, <2>1
    <3> QED BY <3>1
  <2>2. CASE m > i
    <3>2. m - 1 \in 1..Len(q) /\ ~(m - 1 < i) /\ (m - 1) + 1 = m
      BY <1>1, <1>2, <2>2
    <3>1. m - 1 \in 1..Len(q) /\ old(m - 1) = m
      BY <3>2
    <3> QED BY <3>1
  <2>3. m < i \/ m > i
    BY <1>2
  <2> QED BY <2>1, <2>2, <2>3
<1> HIDE DEF old
<1>5. SortedFiles(q)
  BY <1>3 DEF SortedFiles
<1>6. ASSUME NEW line, InFiles(r, line) PROVE InFiles(q, line) \/ InFile(r[i], line)
  <2>1. PICK m \in 1..Len(r) : \E j \in 1..Len(r[m]) : r[m][j] = line
    BY <1>6 DEF InFiles
  <2>2. CASE m = i
    BY <2>1, <2>2 DEF InFile
  <2>3. CASE m # i
    BY <1>3, <1>4, <2>1, <2>3 DEF InFiles
  <2> QED BY <2>2, <2>3
<1>7. \A j \in 1..Len(q) : \E k \in 1..Len(r) : q[j] = r[k]
  BY <1>3
<1> QED BY <1>1, <1>2, <1>3, <1>5, <1>6, <1>7 DEF q

\* A rotated file that may go takes no line that is to be kept.
LEMMA OldestLeaves ==
  ASSUME LogTypes, LogIsSorted, LinesAreKept, NEW i \in 1..Len(rotated),
         rotated[i][Len(rotated[i])] <= aged \/ (i = 1 /\ Len(rotated) > LOG_FILE_COUNT - 1),
         NEW q, q = RemoveAt(rotated, i), NEW line \in aged + 1 .. linesWritten
  PROVE  InFiles(q, line) \/ InFile(activeFile, line) \/ Superseded(q, line)
<1>1. rotated \in Seq(Seq(Line)) /\ SortedFiles(rotated) /\ aged \in Nat /\ line \in Nat /\ line > aged
  BY DEF LogTypes, LogIsSorted
<1>2. /\ Len(q) = Len(rotated) - 1 /\ Len(rotated) \in Nat
      /\ \A j \in 1..Len(q) : q[j] = IF j < i THEN rotated[j] ELSE rotated[j + 1]
      /\ InFiles(rotated, line) => InFiles(q, line) \/ InFile(rotated[i], line)
  <2>1. /\ Len(q) = Len(rotated) - 1 /\ Len(rotated) \in Nat
        /\ \A j \in 1..Len(q) : q[j] = IF j < i THEN rotated[j] ELSE rotated[j + 1]
        /\ \A x : InFiles(rotated, x) => InFiles(q, x) \/ InFile(rotated[i], x)
    <3> DEFINE r == rotated
    <3>1. r \in Seq(Seq(Line)) /\ SortedFiles(r) /\ i \in 1..Len(r) /\ q = RemoveAt(r, i)
      BY <1>1
    <3> HIDE DEF r
    <3>2. /\ Len(q) = Len(r) - 1 /\ Len(r) \in Nat
          /\ \A j \in 1..Len(q) : q[j] = IF j < i THEN r[j] ELSE r[j + 1]
          /\ \A x : InFiles(r, x) => InFiles(q, x) \/ InFile(r[i], x)
      <4>1. RemoveAt(r, i) = q
        BY <3>1
      <4>2. Len(RemoveAt(r, i)) = Len(r) - 1 /\ Len(r) \in Nat
        BY <3>1, FileLeaves
      <4>3. \A j \in 1..Len(RemoveAt(r, i)) : RemoveAt(r, i)[j] = IF j < i THEN r[j] ELSE r[j + 1]
        BY <3>1, FileLeaves
      <4>4. \A x : InFiles(r, x) => InFiles(RemoveAt(r, i), x) \/ InFile(r[i], x)
        BY <3>1, FileLeaves
      <4> QED BY <4>1, <4>2, <4>3, <4>4
    <3> QED BY <3>2 DEF r
  <2> QED BY <2>1
<1> DEFINE f == rotated[i]
<1>3. f \in Seq(Line) /\ InOrder(f) /\ Len(f) \in Nat \ {0}
  BY <1>1 DEF SortedFiles
<1>4. /\ f[1] \in Line /\ f[Len(f)] \in Line /\ f[1] <= f[Len(f)]
      /\ \A j \in 1..Len(f) : f[j] \in Line /\ f[1] <= f[j] /\ f[j] <= f[Len(f)]
  <2> HIDE DEF f
  <2> QED BY <1>3, FileEnds
<1>5. LOG_FILE_COUNT \in Nat \ {0}
  BY LogAssumption
<1>6. \A k \in 1..Len(rotated) : rotated[k][1] \in Nat
  <2> SUFFICES ASSUME NEW k \in 1..Len(rotated) PROVE rotated[k][1] \in Nat
    OBVIOUS
  <2>1. rotated[k] \in Seq(Line) /\ InOrder(rotated[k]) /\ Len(rotated[k]) \in Nat \ {0}
    BY <1>1 DEF SortedFiles
  <2>2. rotated[k][1] \in Line
    BY <2>1, FileEnds
  <2> QED BY <2>2 DEF Line
<1>7. CASE InFile(f, line)
  <2>1. PICK j \in 1..Len(f) : f[j] = line
    BY <1>7 DEF InFile
  <2>2. line <= f[Len(f)] /\ f[Len(f)] \in Nat
    BY <1>4, <2>1 DEF Line
  <2>3. i = 1 /\ Len(rotated) > LOG_FILE_COUNT - 1
    BY <1>1, <2>2
  <2>4. \A k \in 1..Len(q) : q[k][1] > line
    <3> SUFFICES ASSUME NEW k \in 1..Len(q) PROVE q[k][1] > line
      OBVIOUS
    <3>1. k + 1 \in 1..Len(rotated) /\ 1 < k + 1 /\ q[k] = rotated[k + 1]
      BY <1>2, <2>3
    <3>2. f[Len(f)] < rotated[k + 1][1]
      BY <1>1, <2>3, <3>1 DEF SortedFiles
    <3>3. rotated[k + 1][1] \in Nat
      BY <1>6, <3>1
    <3>4. rotated[k + 1][1] > line
      <4> DEFINE last == f[Len(f)]
                 next == rotated[k + 1][1]
      <4>1. last \in Nat /\ next \in Nat /\ line \in Nat /\ line <= last /\ last < next
        BY <1>1, <2>2, <3>2, <3>3
      <4> HIDE DEF last, next
      <4>2. next > line
        BY <4>1
      <4> QED BY <4>2 DEF next
    <3> QED BY <3>1, <3>4
  <2>5. 0 \in 0..Len(q) /\ Len(q) - 0 >= LOG_FILE_COUNT - 1 /\ 0 + 1 = 1
    BY <1>2, <1>5, <2>3
  <2> QED BY <2>4, <2>5 DEF Superseded
<1>8. CASE Superseded(rotated, line)
  <2>1. PICK k \in 0..Len(rotated) :
          Len(rotated) - k >= LOG_FILE_COUNT - 1 /\ \A m \in (k + 1)..Len(rotated) : rotated[m][1] > line
    BY <1>8 DEF Superseded
  <2>2. CASE i <= k
    <3>1. k - 1 \in 0..Len(q) /\ Len(q) - (k - 1) >= LOG_FILE_COUNT - 1
      BY <1>2, <1>5, <2>1, <2>2
    <3>2. \A m \in ((k - 1) + 1)..Len(q) : q[m][1] > line
      <4> SUFFICES ASSUME NEW m \in ((k - 1) + 1)..Len(q) PROVE q[m][1] > line
        OBVIOUS
      <4>1. m \in 1..Len(q) /\ ~(m < i) /\ m + 1 \in (k + 1)..Len(rotated)
        BY <1>2, <2>1, <2>2
      <4> QED BY <1>2, <2>1, <4>1
    <3> QED BY <3>1, <3>2 DEF Superseded
  <2>3. CASE i > k
    <3>1. f[1] > line
      BY <1>2, <2>1, <2>3
    <3>2. ~(f[Len(f)] <= aged)
      BY <1>1, <1>4, <3>1 DEF Line
    <3>3. i = 1 /\ Len(rotated) > LOG_FILE_COUNT - 1 /\ k = 0
      BY <1>2, <2>1, <2>3, <3>2
    <3>4. 0 \in 0..Len(q) /\ Len(q) - 0 >= LOG_FILE_COUNT - 1
      BY <1>2, <1>5, <3>3
    <3>5. \A m \in (0 + 1)..Len(q) : q[m][1] > line
      <4> SUFFICES ASSUME NEW m \in (0 + 1)..Len(q) PROVE q[m][1] > line
        OBVIOUS
      <4>1. m \in 1..Len(q) /\ ~(m < i) /\ m + 1 \in (k + 1)..Len(rotated)
        BY <1>2, <2>1, <3>3
      <4> QED BY <1>2, <2>1, <4>1
    <3> QED BY <3>4, <3>5 DEF Superseded
  <2> QED BY <2>1, <2>2, <2>3, <1>2
<1> QED BY <1>2, <1>7, <1>8 DEF LinesAreKept

JobSteps == {"idle", "recover", "select", "publish", "rename", "commit", "commitPublish",
             "unlink", "uncommit", "unstate", "append", "refused"}

LEMMA JobGoes ==
  ASSUME NEW j \in [step : JobSteps, last : BOOLEAN], NEW to \in JobSteps
  PROVE  [j EXCEPT !.step = to] \in [step : JobSteps, last : BOOLEAN] /\ [j EXCEPT !.step = to].step = to
OBVIOUS

\* The files, when nothing touches them.
LEMMA FilesStay ==
  ASSUME LogIsSorted, LinesAreKept, UNCHANGED logFiles
  PROVE  LogIsSorted' /\ LinesAreKept'
BY DEF LogIsSorted, LinesAreKept, logFiles

\* Recovery finds records that agree, whatever was interrupted.
LEMMA RecoverKept == LogInv /\ RecoverTemporary => LogInv'
<1> SUFFICES ASSUME LogInv, RecoverTemporary PROVE LogInv'
  OBVIOUS
<1>1. /\ LogTypes /\ RecordsAgree /\ LogIsSorted /\ LinesAreKept /\ job \in [step : JobSteps, last : BOOLEAN]
  BY DEF LogInv, LogTypes, JobSteps
<1>2. ~TemporaryConflicts
  BY <1>1 DEF TemporaryConflicts, RecordsAgree
<1>3. quarantine # <<>> => Head(quarantine) = quarantine[1]
  OBVIOUS
<1>4. ~RecordsConflict /\ (Transaction = 0 <=> state = 0) /\ (state = 0 => commit = 0)
  BY <1>1, <1>3 DEF RecordsConflict, RecordsAgree, Transaction
<1>5. /\ stateTmp' = 0 /\ commitTmp' = 0 /\ UNCHANGED <<state, commit>> /\ UNCHANGED <<logFiles, quarantine>>
      /\ job' = [job EXCEPT !.step = IF Transaction = 0 THEN "select" ELSE "unlink"]
  BY <1>2, <1>4 DEF RecoverTemporary
<1>6. job' \in [step : JobSteps, last : BOOLEAN] /\ job'.step = IF state = 0 THEN "select" ELSE "unlink"
  BY <1>1, <1>4, <1>5, JobGoes DEF JobSteps
<1>7. LogIsSorted' /\ LinesAreKept'
  BY <1>1, <1>5, FilesStay
<1>8. LogTypes'
  BY <1>1, <1>5, <1>6 DEF LogTypes, JobSteps, logFiles
<1>9. RecordsAgree'
  BY <1>1, <1>5 DEF RecordsAgree
<1>10. StepIsReady'
  BY <1>4, <1>5, <1>6 DEF StepIsReady
<1> QED BY <1>7, <1>8, <1>9, <1>10 DEF LogInv

\* The file selected is one that may go.
LEMMA SelectKept == LogInv /\ SelectFile => LogInv'
<1> SUFFICES ASSUME LogInv, SelectFile PROVE LogInv'
  OBVIOUS
<1>1. /\ LogTypes /\ RecordsAgree /\ LogIsSorted /\ LinesAreKept /\ job \in [step : JobSteps, last : BOOLEAN]
      /\ stateTmp = 0 /\ state = 0
  BY DEF LogInv, LogTypes, JobSteps, StepIsReady, SelectFile, Step
<1>2. UNCHANGED <<state, commitTmp, commit, quarantine>> /\ UNCHANGED logFiles
  BY DEF SelectFile
<1>3. LogIsSorted' /\ LinesAreKept'
  BY <1>1, <1>2, FilesStay
<1>4. commit = 0 /\ commitTmp = 0 /\ quarantine = <<>>
  BY <1>1 DEF RecordsAgree
<1>5. CASE Candidates = {} /\ job' = [job EXCEPT !.step = IF job.last THEN "idle" ELSE "append"] /\ UNCHANGED stateTmp
  <2>1. job' \in [step : JobSteps, last : BOOLEAN] /\ job'.step = IF job.last THEN "idle" ELSE "append"
    BY <1>1, <1>5, JobGoes DEF JobSteps
  <2>2. Len(rotated) < LOG_FILE_COUNT
    <3>1. ~(Len(rotated) > LOG_FILE_COUNT - 1)
      BY <1>5 DEF Candidates
    <3>2. Len(rotated) \in Nat /\ LOG_FILE_COUNT \in Nat \ {0}
      BY <1>1, LenProperties, LogAssumption DEF LogTypes
    <3> QED BY <3>1, <3>2
  <2>3. LogTypes'
    BY <1>1, <1>2, <1>5, <2>1 DEF LogTypes, JobSteps, logFiles
  <2>4. RecordsAgree'
    BY <1>1, <1>2, <1>5 DEF RecordsAgree
  <2>5. StepIsReady'
    BY <1>1, <1>2, <1>5, <2>1, <2>2 DEF StepIsReady, logFiles
  <2> QED BY <1>3, <2>3, <2>4, <2>5 DEF LogInv
<1>6. ASSUME NEW file \in Candidates, Step("select", "publish"), stateTmp' = Head(file)
      PROVE  LogInv'
  <2>1. job' \in [step : JobSteps, last : BOOLEAN] /\ job'.step = "publish"
    BY <1>1, <1>6, JobGoes DEF JobSteps, Step
  <2>2. Head(file) \in Line /\ MayGo(Head(file))
    <3>0. /\ rotated \in Seq(Seq(Line)) /\ SortedFiles(rotated) /\ activeFile \in Seq(Line) /\ InOrder(activeFile)
          /\ Len(rotated) \in Nat /\ DOMAIN rotated = 1..Len(rotated)
      BY <1>1, LenProperties DEF LogTypes, LogIsSorted
    <3>1. \A i \in 1..Len(rotated) : /\ Head(rotated[i]) = rotated[i][1] /\ Head(rotated[i]) \in Line
                                     /\ Last(rotated[i]) = rotated[i][Len(rotated[i])]
      BY <3>0, FileEnds DEF SortedFiles
    <3> DEFINE old == {i \in 1..Len(rotated) : Aged(rotated[i])}
    <3>2. CASE old # {}
      <4>1. Min(old) \in old
        <5>1. old \in SUBSET Nat
          BY <3>0
        <5> QED BY <3>2, <5>1, FirstPlace
      <4>2. file = rotated[Min(old)]
        BY <1>6, <3>0, <3>2 DEF Candidates
      <4> HIDE DEF old
      <4>3. Min(old) \in 1..Len(rotated) /\ Aged(rotated[Min(old)])
        BY <4>1 DEF old
      <4>4. Last(rotated[Min(old)]) <= aged
        BY <4>3 DEF Aged
      <4> QED BY <3>1, <4>2, <4>3, <4>4 DEF MayGo
    <3>3. CASE old = {} /\ activeFile # <<>> /\ Aged(activeFile)
      <4>1. file = activeFile
        BY <1>6, <3>0, <3>3 DEF Candidates
      <4>2. Len(activeFile) \in Nat \ {0}
        BY <3>0, <3>3, EmptySeq
      <4>3. Head(activeFile) = activeFile[1] /\ Head(activeFile) \in Line /\ Last(activeFile) = activeFile[Len(activeFile)]
        BY <3>0, <4>2, FileEnds
      <4> QED BY <3>3, <4>1, <4>2, <4>3 DEF MayGo, Aged
    <3>4. CASE old = {} /\ ~(activeFile # <<>> /\ Aged(activeFile))
      <4>1. Len(rotated) > LOG_FILE_COUNT - 1 /\ file = Head(rotated)
        BY <1>6, <3>0, <3>4 DEF Candidates
      <4>2. 1 \in 1..Len(rotated) /\ Head(rotated) = rotated[1]
        BY <3>0, <4>1, LogAssumption
      <4> QED BY <3>1, <4>1, <4>2 DEF MayGo
    <3> QED BY <3>2, <3>3, <3>4
  <2>3. LogTypes'
    BY <1>1, <1>2, <1>6, <2>1, <2>2 DEF LogTypes, JobSteps, logFiles, Line
  <2>4. RecordsAgree'
    BY <1>1, <1>2, <1>4 DEF RecordsAgree
  <2>5. StepIsReady'
    <3>1. stateTmp' # 0 /\ MayGo(stateTmp)'
      BY <1>2, <1>6, <2>2 DEF Line, MayGo, logFiles
    <3> QED BY <2>1, <3>1 DEF StepIsReady
  <2> QED BY <1>3, <2>3, <2>4, <2>5 DEF LogInv
<1> QED BY <1>1, <1>5, <1>6 DEF SelectFile

\* The records are published and removed one by one.
LEMMA RecordsKept ==
  LogInv /\ (PublishState \/ WriteCommit \/ PublishCommit \/ UnlinkCandidate \/ UnlinkCommit \/ UnlinkState) => LogInv'
<1> SUFFICES ASSUME LogInv, PublishState \/ WriteCommit \/ PublishCommit \/ UnlinkCandidate \/ UnlinkCommit \/ UnlinkState
             PROVE  LogInv'
  OBVIOUS
<1>1. /\ LogTypes /\ RecordsAgree /\ StepIsReady /\ LogIsSorted /\ LinesAreKept /\ job \in [step : JobSteps, last : BOOLEAN]
  BY DEF LogInv, LogTypes, JobSteps
<1>2. UNCHANGED logFiles
  BY DEF PublishState, WriteCommit, PublishCommit, UnlinkCandidate, UnlinkCommit, UnlinkState
<1>3. LogIsSorted' /\ LinesAreKept'
  BY <1>1, <1>2, FilesStay
<1>4. \A from, to \in JobSteps : Step(from, to) =>
        job.step = from /\ job' \in [step : JobSteps, last : BOOLEAN] /\ job'.step = to
  BY <1>1, JobGoes DEF Step
<1>5. "publish" \in JobSteps /\ "rename" \in JobSteps /\ "commit" \in JobSteps /\ "commitPublish" \in JobSteps
      /\ "unlink" \in JobSteps /\ "uncommit" \in JobSteps /\ "unstate" \in JobSteps /\ "select" \in JobSteps
      /\ "refused" \in JobSteps
  BY DEF JobSteps
<1>6. CASE PublishState
  <2>1. /\ job.step = "publish" /\ job' \in [step : JobSteps, last : BOOLEAN] /\ job'.step = "rename"
        /\ state' = stateTmp /\ stateTmp' = 0 /\ UNCHANGED <<commitTmp, commit, quarantine>>
    BY <1>4, <1>5, <1>6 DEF PublishState
  <2>2. stateTmp # 0 /\ MayGo(stateTmp) /\ commit = 0 /\ commitTmp = 0 /\ quarantine = <<>>
    BY <1>1, <2>1 DEF StepIsReady, RecordsAgree
  <2>3. MayGo(state)'
    BY <1>2, <2>1, <2>2 DEF MayGo, logFiles
  <2>4. LogTypes'
    BY <1>1, <1>2, <2>1 DEF LogTypes, JobSteps, logFiles
  <2>5. RecordsAgree' /\ StepIsReady'
    BY <2>1, <2>2, <2>3 DEF RecordsAgree, StepIsReady
  <2> QED BY <1>3, <2>4, <2>5 DEF LogInv
<1>7. CASE WriteCommit
  <2>1. /\ job.step = "commit" /\ commitTmp = 0 /\ commit = 0 /\ state # 0 /\ stateTmp = 0
    BY <1>1, <1>7 DEF WriteCommit, Step, StepIsReady, RecordsAgree
  <2>2. /\ job' \in [step : JobSteps, last : BOOLEAN] /\ job'.step = "commitPublish"
        /\ commitTmp' = state /\ UNCHANGED <<stateTmp, state, commit, quarantine>>
    BY <1>4, <1>5, <1>7, <2>1 DEF WriteCommit
  <2>4. LogTypes'
    BY <1>1, <1>2, <2>2 DEF LogTypes, JobSteps, logFiles
  <2>5. RecordsAgree' /\ StepIsReady'
    BY <1>1, <2>1, <2>2 DEF RecordsAgree, StepIsReady
  <2> QED BY <1>3, <2>4, <2>5 DEF LogInv
<1>8. CASE PublishCommit
  <2>1. /\ job.step = "commitPublish" /\ job' \in [step : JobSteps, last : BOOLEAN] /\ job'.step = "unlink"
        /\ commit' = commitTmp /\ commitTmp' = 0 /\ UNCHANGED <<stateTmp, state, quarantine>>
    BY <1>4, <1>5, <1>8 DEF PublishCommit
  <2>2. state # 0 /\ commitTmp = state /\ stateTmp = 0
    BY <1>1, <2>1 DEF StepIsReady, RecordsAgree
  <2>4. LogTypes'
    BY <1>1, <1>2, <2>1 DEF LogTypes, JobSteps, logFiles
  <2>5. RecordsAgree' /\ StepIsReady'
    BY <1>1, <2>1, <2>2 DEF RecordsAgree, StepIsReady
  <2> QED BY <1>3, <2>4, <2>5 DEF LogInv
<1>9. CASE UnlinkCandidate
  <2>1. /\ job.step = "unlink" /\ job' \in [step : JobSteps, last : BOOLEAN] /\ job'.step = "uncommit"
        /\ quarantine' = <<>> /\ UNCHANGED logRecords
    BY <1>4, <1>5, <1>9 DEF UnlinkCandidate
  <2>4. LogTypes'
    BY <1>1, <1>2, <2>1 DEF LogTypes, JobSteps, logFiles, logRecords
  <2>5. RecordsAgree' /\ StepIsReady'
    BY <1>1, <2>1 DEF RecordsAgree, StepIsReady, logRecords
  <2> QED BY <1>3, <2>4, <2>5 DEF LogInv
<1>10. CASE UnlinkCommit
  <2>1. /\ job.step = "uncommit" /\ job' \in [step : JobSteps, last : BOOLEAN] /\ job'.step = "unstate"
        /\ commit' = 0 /\ UNCHANGED <<stateTmp, state, commitTmp, quarantine>>
    BY <1>4, <1>5, <1>10 DEF UnlinkCommit
  <2>4. LogTypes'
    BY <1>1, <1>2, <2>1 DEF LogTypes, JobSteps, logFiles
  <2>5. RecordsAgree' /\ StepIsReady'
    BY <1>1, <2>1 DEF RecordsAgree, StepIsReady
  <2> QED BY <1>3, <2>4, <2>5 DEF LogInv
<1>11. CASE UnlinkState
  <2>1. /\ job.step = "unstate" /\ job' \in [step : JobSteps, last : BOOLEAN] /\ job'.step = "select"
        /\ state' = 0 /\ UNCHANGED <<stateTmp, commitTmp, commit, quarantine>>
    BY <1>4, <1>5, <1>11 DEF UnlinkState
  <2>2. quarantine = <<>> /\ commitTmp = 0 /\ commit = 0 /\ stateTmp = 0
    BY <1>1, <2>1 DEF StepIsReady, RecordsAgree
  <2>4. LogTypes'
    BY <1>1, <1>2, <2>1 DEF LogTypes, JobSteps, logFiles
  <2>5. RecordsAgree' /\ StepIsReady'
    BY <2>1, <2>2 DEF RecordsAgree, StepIsReady
  <2> QED BY <1>3, <2>4, <2>5 DEF LogInv
<1> QED BY <1>6, <1>7, <1>8, <1>9, <1>10, <1>11

\* The file renamed is one that may go, whatever was logged since it was selected.
LEMMA RenameKept == LogInv /\ RenameCandidate => LogInv'
<1> SUFFICES ASSUME LogInv, RenameCandidate PROVE LogInv'
  OBVIOUS
<1>1. /\ LogTypes /\ RecordsAgree /\ StepIsReady /\ LogIsSorted /\ LinesAreKept /\ job \in [step : JobSteps, last : BOOLEAN]
  BY DEF LogInv, LogTypes, JobSteps
<1>2. UNCHANGED <<aged, linesWritten, logRecords>> /\ job.step = "rename" /\ job' = [job EXCEPT !.step = "commit"]
  BY DEF RenameCandidate, Step
<1>3. job' \in [step : JobSteps, last : BOOLEAN] /\ job'.step = "commit"
  BY <1>1, <1>2, JobGoes DEF JobSteps
<1>4. state # 0 /\ MayGo(state) /\ commit = 0 /\ commitTmp = 0 /\ stateTmp = 0
  BY <1>1, <1>2 DEF StepIsReady, RecordsAgree
<1>5. /\ rotated \in Seq(Seq(Line)) /\ SortedFiles(rotated) /\ activeFile \in Seq(Line) /\ InOrder(activeFile)
      /\ Len(rotated) \in Nat /\ DOMAIN rotated = 1..Len(rotated) /\ Len(activeFile) \in Nat
      /\ aged \in Nat /\ linesWritten \in Nat
  BY <1>1, LenProperties DEF LogTypes, LogIsSorted
<1>6. \A i \in 1..Len(rotated) :
        /\ rotated[i] \in Seq(Line) /\ rotated[i] # <<>> /\ Head(rotated[i]) = rotated[i][1]
        /\ rotated[i][1] \in Nat /\ rotated[i][Len(rotated[i])] \in Nat
        /\ rotated[i][1] <= rotated[i][Len(rotated[i])]
  <2> SUFFICES ASSUME NEW i \in 1..Len(rotated)
               PROVE  /\ rotated[i] \in Seq(Line) /\ rotated[i] # <<>> /\ Head(rotated[i]) = rotated[i][1]
                      /\ rotated[i][1] \in Nat /\ rotated[i][Len(rotated[i])] \in Nat
                      /\ rotated[i][1] <= rotated[i][Len(rotated[i])]
    OBVIOUS
  <2> DEFINE f == rotated[i]
  <2>1. f \in Seq(Line) /\ InOrder(f) /\ Len(f) \in Nat \ {0}
    BY <1>5 DEF SortedFiles
  <2> HIDE DEF f
  <2>2. f # <<>> /\ Head(f) = f[1] /\ f[1] \in Nat /\ f[Len(f)] \in Nat /\ f[1] <= f[Len(f)]
    BY <2>1, FileEnds DEF Line
  <2> QED BY <2>1, <2>2 DEF f
<1>7. activeFile # <<>> => /\ Head(activeFile) = activeFile[1] /\ Len(activeFile) > 0
                           /\ activeFile[1] \in Nat /\ activeFile[Len(activeFile)] \in Nat
                           /\ \A j \in 1..Len(activeFile) : activeFile[j] \in Nat /\ activeFile[j] <= activeFile[Len(activeFile)]
  <2> SUFFICES ASSUME activeFile # <<>>
               PROVE  /\ Head(activeFile) = activeFile[1] /\ Len(activeFile) > 0
                      /\ activeFile[1] \in Nat /\ activeFile[Len(activeFile)] \in Nat
                      /\ \A j \in 1..Len(activeFile) : activeFile[j] \in Nat /\ activeFile[j] <= activeFile[Len(activeFile)]
    OBVIOUS
  <2>1. Len(activeFile) \in Nat \ {0}
    BY <1>5, EmptySeq
  <2> QED BY <1>5, <2>1, FileEnds DEF Line
\* No two files have the same first line.
<1>8. \A i, k \in 1..Len(rotated) : rotated[i][1] = rotated[k][1] => i = k
  <2> SUFFICES ASSUME NEW i \in 1..Len(rotated), NEW k \in 1..Len(rotated), rotated[i][1] = rotated[k][1], i < k
               PROVE  FALSE
    BY <1>5
  <2>1. rotated[i][Len(rotated[i])] < rotated[k][1]
    BY <1>5 DEF SortedFiles
  <2>2. rotated[i][1] \in Nat /\ rotated[i][Len(rotated[i])] \in Nat /\ rotated[i][1] <= rotated[i][Len(rotated[i])]
    BY <1>6
  <2> DEFINE first == rotated[i][1]
             last == rotated[i][Len(rotated[i])]
  <2>3. first \in Nat /\ last \in Nat /\ first <= last /\ last < first
    BY <2>1, <2>2
  <2> HIDE DEF first, last
  <2> QED BY <2>3
<1>9. \A i \in 1..Len(rotated) : activeFile # <<>> => rotated[i][1] # activeFile[1]
  <2> SUFFICES ASSUME NEW i \in 1..Len(rotated), activeFile # <<>>, rotated[i][1] = activeFile[1] PROVE FALSE
    OBVIOUS
  <2> DEFINE first == rotated[i][1]
             last == rotated[i][Len(rotated[i])]
  <2>1. last < activeFile[1]
    BY <1>1, <1>7 DEF LogIsSorted
  <2>2. first \in Nat /\ last \in Nat /\ first <= last /\ last < first
    BY <1>6, <2>1
  <2> HIDE DEF first, last
  <2> QED BY <2>2
<1>10. CASE /\ activeFile # <<>> /\ Head(activeFile) = state /\ quarantine' = activeFile /\ activeFile' = <<>>
            /\ UNCHANGED rotated
  <2>1. activeFile[1] = state /\ activeFile[Len(activeFile)] <= aged
    BY <1>4, <1>7, <1>9, <1>10 DEF MayGo
  <2>2. LinesAreKept'
    <3> SUFFICES ASSUME NEW line \in aged + 1 .. linesWritten
                 PROVE  InFiles(rotated, line) \/ InFile(activeFile', line) \/ Superseded(rotated, line)
      BY <1>2, <1>10 DEF LinesAreKept
    <3>1. ~InFile(activeFile, line)
      <4> SUFFICES ASSUME NEW j \in 1..Len(activeFile), activeFile[j] = line PROVE FALSE
        BY DEF InFile
      <4> DEFINE last == activeFile[Len(activeFile)]
      <4>1. line \in Nat /\ last \in Nat /\ line <= last /\ last <= aged /\ line > aged
        BY <1>5, <1>7, <1>10, <2>1
      <4> HIDE DEF last
      <4> QED BY <1>5, <4>1
    <3> QED BY <1>1, <3>1 DEF LinesAreKept
  <2>3. Len(activeFile') = 0 /\ activeFile' \in Seq(Line)
    BY <1>10
  <2>4. LogIsSorted'
    BY <1>1, <1>2, <1>10, <2>3 DEF LogIsSorted, InOrder
  <2>5. LogTypes'
    BY <1>1, <1>2, <1>3, <1>10, <2>3 DEF LogTypes, JobSteps, logRecords
  <2>6. RecordsAgree'
    BY <1>2, <1>4, <1>10, <2>1 DEF RecordsAgree, logRecords
  <2>7. StepIsReady'
    BY <1>2, <1>3, <1>4 DEF StepIsReady, logRecords
  <2> QED BY <2>2, <2>4, <2>5, <2>6, <2>7 DEF LogInv
<1>11. ASSUME NEW i \in 1..Len(rotated), Head(rotated[i]) = state, quarantine' = rotated[i],
              rotated' = RemoveAt(rotated, i), UNCHANGED activeFile
       PROVE  LogInv'
  <2>1. rotated[i][1] = state
    BY <1>6, <1>11
  <2>2. rotated[i][Len(rotated[i])] <= aged \/ (i = 1 /\ Len(rotated) > LOG_FILE_COUNT - 1)
    <3>1. ~(Len(activeFile) > 0 /\ activeFile[1] = state)
      BY <1>9, <2>1
    <3>2. PICK k \in 1..Len(rotated) :
            /\ rotated[k][1] = state
            /\ rotated[k][Len(rotated[k])] <= aged \/ (k = 1 /\ Len(rotated) > LOG_FILE_COUNT - 1)
      BY <1>4, <3>1 DEF MayGo
    <3>3. k = i
      BY <1>8, <2>1, <3>2
    <3> QED BY <3>2, <3>3
  <2> DEFINE q == RemoveAt(rotated, i)
  <2>3. \A line \in aged + 1 .. linesWritten : InFiles(q, line) \/ InFile(activeFile, line) \/ Superseded(q, line)
    BY <1>1, <2>2, OldestLeaves
  <2>4. q \in Seq(Seq(Line)) /\ SortedFiles(q) /\ \A j \in 1..Len(q) : \E k \in 1..Len(rotated) : q[j] = rotated[k]
    BY <1>5, FileLeaves
  <2>5. rotated' = q
    BY <1>11
  <2> HIDE DEF q
  <2>6. LinesAreKept'
    BY <1>2, <1>11, <2>3, <2>5 DEF LinesAreKept
  <2>7. LogIsSorted'
    <3>1. \A j \in 1..Len(q) : /\ Len(activeFile) > 0 => q[j][Len(q[j])] < activeFile[1]
                               /\ q[j][Len(q[j])] <= linesWritten
      BY <1>1, <2>4 DEF LogIsSorted
    <3> QED BY <1>1, <1>2, <1>11, <2>4, <2>5, <3>1 DEF LogIsSorted
  <2>8. LogTypes'
    BY <1>1, <1>2, <1>3, <1>6, <1>11, <2>4, <2>5 DEF LogTypes, JobSteps, logRecords
  <2>9. RecordsAgree'
    BY <1>2, <1>4, <1>11, <2>1 DEF RecordsAgree, logRecords
  <2>10. StepIsReady'
    BY <1>2, <1>3, <1>4 DEF StepIsReady, logRecords
  <2> QED BY <2>6, <2>7, <2>8, <2>9, <2>10 DEF LogInv
<1> QED BY <1>5, <1>10, <1>11 DEF RenameCandidate

\* A step that only moves the job, to where nothing is required of it.
LEMMA JobMoves ==
  ASSUME LogInv, UNCHANGED <<logFiles, logRecords, quarantine>>, job' \in [step : JobSteps, last : BOOLEAN], job'.step = "recover"
  PROVE  LogInv'
<1>1. LogIsSorted' /\ LinesAreKept'
  BY FilesStay DEF LogInv
<1>2. LogTypes' /\ RecordsAgree' /\ StepIsReady'
  BY DEF LogInv, LogTypes, RecordsAgree, StepIsReady, logFiles, logRecords, JobSteps
<1> QED BY <1>1, <1>2 DEF LogInv

LEMMA FilesAgeKept == LogInv /\ FilesAge => LogInv'
<1> SUFFICES ASSUME LogInv, FilesAge PROVE LogInv'
  OBVIOUS
<1>1. /\ aged \in Nat /\ linesWritten \in Nat /\ aged < linesWritten /\ aged' = linesWritten
      /\ UNCHANGED <<activeFile, rotated, linesWritten, logRecords, quarantine, job>>
  BY DEF FilesAge, LogInv, LogTypes, logRecords
<1>2. LogTypes' /\ RecordsAgree'
  BY <1>1 DEF LogInv, LogTypes, RecordsAgree, logRecords
<1>3. LogIsSorted'
  BY <1>1 DEF LogInv, LogIsSorted
<1>4. LinesAreKept'
  BY <1>1 DEF LinesAreKept
<1>5. \A i \in 1..Len(rotated) : rotated[i][Len(rotated[i])] <= linesWritten
  BY DEF LogInv, LogIsSorted
<1>6. Len(activeFile) > 0 => activeFile[Len(activeFile)] <= linesWritten
  BY DEF LogInv, LogIsSorted
<1>8. (MayGo(stateTmp) => MayGo(stateTmp)') /\ (MayGo(state) => MayGo(state)')
  BY <1>1, <1>5, <1>6 DEF MayGo, logRecords
<1>9. StepIsReady'
  BY <1>1, <1>8 DEF LogInv, StepIsReady, logRecords
<1> QED BY <1>2, <1>3, <1>4, <1>9 DEF LogInv

\* The last line of an ordered file is its greatest: one more keeps the order.
LEMMA LineAppended ==
  ASSUME NEW f \in Seq(Line), InOrder(f), NEW line \in Line, Len(f) > 0 => f[Len(f)] < line
  PROVE  /\ Append(f, line) \in Seq(Line) /\ InOrder(Append(f, line)) /\ Len(Append(f, line)) \in Nat \ {0}
         /\ Append(f, line)[Len(Append(f, line))] = line
         /\ Append(f, line)[1] = IF Len(f) > 0 THEN f[1] ELSE line
         /\ \A x : InFile(f, x) \/ x = line => InFile(Append(f, line), x)
<1> DEFINE p == Append(f, line)
<1>1. /\ p \in Seq(Line) /\ Len(p) = Len(f) + 1 /\ p[Len(f) + 1] = line
      /\ \A i \in 1..Len(f) : p[i] = f[i]
  BY AppendProperties
<1>2. Len(f) \in Nat /\ \A i \in 1..Len(f) : f[i] \in Nat
  BY LenProperties, ElementOfSeq DEF Line
<1> HIDE DEF p
<1>3. \A i \in 1..Len(f) : f[i] < line
  <2> SUFFICES ASSUME NEW i \in 1..Len(f) PROVE f[i] < line
    OBVIOUS
  <2>1. Len(f) \in Nat \ {0}
    BY <1>2
  <2>2. f[i] <= f[Len(f)] /\ f[Len(f)] \in Nat /\ f[Len(f)] < line
    BY <2>1, FileEnds DEF Line
  <2> QED BY <1>2, <2>2 DEF Line
<1>4. InOrder(p)
  <2> SUFFICES ASSUME NEW j \in 1..Len(p), NEW k \in 1..Len(p), j < k PROVE p[j] < p[k]
    BY DEF InOrder
  <2>1. j \in 1..Len(f) /\ (k \in 1..Len(f) \/ k = Len(f) + 1)
    BY <1>1, <1>2
  <2>2. CASE k \in 1..Len(f)
    BY <1>1, <2>1, <2>2 DEF InOrder
  <2>3. CASE k = Len(f) + 1
    BY <1>1, <1>3, <2>1, <2>3
  <2> QED BY <2>1, <2>2, <2>3
<1>5. p[1] = IF Len(f) > 0 THEN f[1] ELSE line
  <2>1. CASE Len(f) > 0
    BY <1>1, <1>2, <2>1
  <2>2. CASE Len(f) = 0
    BY <1>1, <2>2
  <2> QED BY <1>2, <2>1, <2>2
<1>6. ASSUME NEW x, InFile(f, x) \/ x = line PROVE InFile(p, x)
  <2>1. CASE x = line
    <3>1. Len(f) + 1 \in 1..Len(p)
      BY <1>1, <1>2
    <3> QED BY <1>1, <2>1, <3>1 DEF InFile
  <2>2. CASE InFile(f, x)
    <3>1. PICK i \in 1..Len(f) : f[i] = x
      BY <2>2 DEF InFile
    <3>2. i \in 1..Len(p) /\ p[i] = x
      BY <1>1, <1>2, <3>1
    <3> QED BY <3>2 DEF InFile
  <2> QED BY <1>6, <2>1, <2>2
<1>7. Len(p) \in Nat \ {0} /\ p[Len(p)] = line
  BY <1>1, <1>2
<1> QED BY <1>1, <1>4, <1>5, <1>6, <1>7 DEF p

LEMMA AppendKept == LogInv /\ AppendLine => LogInv'
<1> SUFFICES ASSUME LogInv, AppendLine PROVE LogInv'
  OBVIOUS
<1> DEFINE line == linesWritten + 1
           new == Append(activeFile, line)
<1>1. /\ LogTypes /\ RecordsAgree /\ LogIsSorted /\ LinesAreKept /\ linesWritten \in Nat /\ line \in Line
      /\ activeFile \in Seq(Line) /\ Len(activeFile) \in Nat
  BY LenProperties DEF LogInv, LogTypes, Line
<1>2. /\ linesWritten' = line /\ activeFile' = new
      /\ job' = [step |-> "recover", last |-> TRUE] /\ UNCHANGED <<rotated, aged, logRecords, torn, quarantine>>
  BY DEF AppendLine
<1>3. Len(activeFile) > 0 => activeFile[Len(activeFile)] < line
  <2> SUFFICES ASSUME Len(activeFile) > 0 PROVE activeFile[Len(activeFile)] < line
    OBVIOUS
  <2>1. activeFile[Len(activeFile)] \in Nat /\ activeFile[Len(activeFile)] <= linesWritten
    BY <1>1, ElementOfSeq DEF LogIsSorted, Line
  <2> QED BY <1>1, <2>1
<1> HIDE DEF line
<1>4. /\ new \in Seq(Line) /\ InOrder(new) /\ Len(new) \in Nat \ {0} /\ new[Len(new)] = line
      /\ new[1] = IF Len(activeFile) > 0 THEN activeFile[1] ELSE line
      /\ \A x : InFile(activeFile, x) \/ x = line => InFile(new, x)
  BY <1>1, <1>3, LineAppended DEF LogIsSorted
<1> HIDE DEF new
<1>5. LogTypes'
  BY <1>1, <1>2, <1>4 DEF LogTypes, logRecords, Line
<1>6. RecordsAgree' /\ StepIsReady'
  BY <1>1, <1>2 DEF RecordsAgree, StepIsReady, logRecords
<1>7. LinesAreKept'
  <2> SUFFICES ASSUME NEW x \in aged + 1 .. line PROVE InFiles(rotated, x) \/ InFile(new, x) \/ Superseded(rotated, x)
    BY <1>2 DEF LinesAreKept
  <2>1. x = line \/ x \in aged + 1 .. linesWritten
    BY <1>1 DEF line, LogTypes
  <2> QED BY <1>1, <1>4, <2>1 DEF LinesAreKept
<1>8. LogIsSorted'
  <2>1. \A i \in 1..Len(rotated) : rotated[i][Len(rotated[i])] < new[1] /\ rotated[i][Len(rotated[i])] <= line
    <3> SUFFICES ASSUME NEW i \in 1..Len(rotated)
                 PROVE  rotated[i][Len(rotated[i])] < new[1] /\ rotated[i][Len(rotated[i])] <= line
      OBVIOUS
    <3> DEFINE last == rotated[i][Len(rotated[i])]
    <3>1. last \in Nat
      <4>1. rotated[i] \in Seq(Line) /\ InOrder(rotated[i]) /\ Len(rotated[i]) \in Nat \ {0}
        BY <1>1 DEF LogIsSorted, SortedFiles
      <4> QED BY <4>1, FileEnds DEF Line
    <3>2. last <= linesWritten /\ (Len(activeFile) > 0 => last < activeFile[1])
      BY <1>1 DEF LogIsSorted
    <3> HIDE DEF last
    <3>3. last < line /\ last <= line
      BY <1>1, <3>1, <3>2 DEF line
    <3>4. last < new[1]
      BY <1>4, <3>2, <3>3
    <3> QED BY <3>3, <3>4 DEF last
  <2>2. line <= line
    BY <1>1 DEF Line
  <2> QED BY <1>1, <1>2, <1>4, <2>1, <2>2 DEF LogIsSorted
<1> QED BY <1>5, <1>6, <1>7, <1>8 DEF LogInv

\* The full file joins the rotated ones as the newest.
LEMMA RotateKept == LogInv /\ RotateFile => LogInv'
<1> SUFFICES ASSUME LogInv, RotateFile PROVE LogInv'
  OBVIOUS
<1> DEFINE q == Append(rotated, activeFile)
           f == activeFile
<1>1. /\ LogTypes /\ RecordsAgree /\ StepIsReady /\ LogIsSorted /\ LinesAreKept /\ rotated \in Seq(Seq(Line))
      /\ Len(rotated) \in Nat /\ f \in Seq(Line) /\ Len(f) \in Nat \ {0} /\ InOrder(f) /\ job.step = "append"
  BY LenProperties, LogAssumption DEF LogInv, LogTypes, LogIsSorted, RotateFile
<1>2. /\ rotated' = q /\ activeFile' = <<>>
      /\ UNCHANGED <<aged, linesWritten, logRecords, torn, quarantine, job>>
  BY DEF RotateFile
<1>3. /\ q \in Seq(Seq(Line)) /\ Len(q) = Len(rotated) + 1 /\ q[Len(rotated) + 1] = f
      /\ \A i \in 1..Len(rotated) : q[i] = rotated[i]
  BY <1>1, AppendProperties
<1> HIDE DEF q
<1>4. activeFile' \in Seq(Line) /\ Len(activeFile') = 0
  BY <1>2
<1>5. LogTypes'
  BY <1>1, <1>2, <1>3, <1>4 DEF LogTypes, logRecords
<1>6. RecordsAgree' /\ StepIsReady'
  BY <1>1, <1>2 DEF RecordsAgree, StepIsReady, logRecords
<1>7. \A i \in 1..Len(q) : (i \in 1..Len(rotated) /\ q[i] = rotated[i]) \/ (i = Len(rotated) + 1 /\ q[i] = f)
  BY <1>1, <1>3
<1>8. SortedFiles(q)
  <2>1. \A i \in 1..Len(q) : q[i] \in Seq(Line) /\ Len(q[i]) \in Nat \ {0} /\ InOrder(q[i])
    BY <1>1, <1>7 DEF LogIsSorted, SortedFiles
  <2>2. ASSUME NEW i \in 1..Len(q), NEW k \in 1..Len(q), i < k PROVE q[i][Len(q[i])] < q[k][1]
    <3>1. i \in 1..Len(rotated) /\ q[i] = rotated[i]
      BY <1>1, <1>3, <2>2
    <3>2. CASE k \in 1..Len(rotated) /\ q[k] = rotated[k]
      BY <1>1, <2>2, <3>1, <3>2 DEF LogIsSorted, SortedFiles
    <3>3. CASE q[k] = f
      BY <1>1, <3>1, <3>3 DEF LogIsSorted
    <3> QED BY <1>7, <3>2, <3>3
  <2> QED BY <2>1, <2>2 DEF SortedFiles
<1>9. \A i \in 1..Len(q) : q[i][Len(q[i])] <= linesWritten
  BY <1>1, <1>7 DEF LogIsSorted
<1>10. LogIsSorted'
  BY <1>2, <1>4, <1>8, <1>9 DEF LogIsSorted, InOrder
<1>11. LinesAreKept'
  <2> SUFFICES ASSUME NEW line \in aged + 1 .. linesWritten PROVE InFiles(q, line) \/ Superseded(q, line)
    BY <1>2 DEF LinesAreKept
  <2>1. CASE InFiles(rotated, line)
    <3>1. PICK i \in 1..Len(rotated) : \E j \in 1..Len(rotated[i]) : rotated[i][j] = line
      BY <2>1 DEF InFiles
    <3>2. i \in 1..Len(q) /\ q[i] = rotated[i]
      BY <1>1, <1>3
    <3> QED BY <3>1, <3>2 DEF InFiles
  <2>2. CASE InFile(f, line)
    <3>1. Len(rotated) + 1 \in 1..Len(q)
      BY <1>1, <1>3
    <3> QED BY <1>3, <2>2, <3>1 DEF InFiles, InFile
  <2>3. CASE Superseded(rotated, line)
    <3>1. PICK k \in 0..Len(rotated) :
            Len(rotated) - k >= LOG_FILE_COUNT - 1 /\ \A m \in (k + 1)..Len(rotated) : rotated[m][1] > line
      BY <2>3 DEF Superseded
    <3>2. LOG_FILE_COUNT \in Nat \ {0}
      BY LogAssumption
    <3>3. CASE k = Len(rotated)
      <4>1. k + 1 \in 0..Len(q) /\ Len(q) - (k + 1) >= LOG_FILE_COUNT - 1 /\ ((k + 1) + 1)..Len(q) = {}
        BY <1>1, <1>3, <3>1, <3>2, <3>3
      <4> QED BY <4>1 DEF Superseded
    <3>4. CASE k < Len(rotated)
      <4>1. k \in 0..Len(q) /\ Len(q) - k >= LOG_FILE_COUNT - 1
        BY <1>1, <1>3, <3>1, <3>2
      <4>2. f[1] > line
        <5> DEFINE last == rotated[Len(rotated)]
        <5>1. Len(rotated) \in 1..Len(rotated) /\ Len(rotated) \in (k + 1)..Len(rotated)
          BY <1>1, <3>1, <3>4
        <5>2. last \in Seq(Line) /\ InOrder(last) /\ Len(last) \in Nat \ {0}
          BY <1>1, <5>1 DEF LogIsSorted, SortedFiles
        <5>3. last[1] > line /\ last[Len(last)] < f[1]
          BY <1>1, <3>1, <5>1 DEF LogIsSorted
        <5> HIDE DEF last, f
        <5>4. last[1] \in Nat /\ last[Len(last)] \in Nat /\ last[1] <= last[Len(last)] /\ f[1] \in Nat
          BY <1>1, <5>2, FileEnds DEF Line
        <5>5. \A a, b, c \in Nat : \A x \in Int : a > x /\ a <= b /\ b < c => c > x
          OBVIOUS
        <5>6. line \in Int
          BY <1>1 DEF LogTypes
        <5> QED BY <5>3, <5>4, <5>5, <5>6
      <4>3. \A m \in (k + 1)..Len(q) : q[m][1] > line
        <5> SUFFICES ASSUME NEW m \in (k + 1)..Len(q) PROVE q[m][1] > line
          OBVIOUS
        <5>1. m \in (k + 1)..Len(rotated) \/ m = Len(rotated) + 1
          BY <1>1, <1>3, <3>1
        <5>2. m \in 1..Len(q)
          BY <1>1, <1>3, <3>1
        <5>3. CASE m \in (k + 1)..Len(rotated)
          <6>1. m \in 1..Len(rotated)
            BY <1>1, <3>1, <5>3
          <6> QED BY <1>3, <3>1, <5>3, <6>1
        <5> QED BY <1>3, <4>2, <5>1, <5>3
      <4> QED BY <4>1, <4>3 DEF Superseded
    <3> QED BY <1>1, <3>1, <3>3, <3>4
  <2> QED BY <1>1, <2>1, <2>2, <2>3 DEF LinesAreKept
<1> QED BY <1>5, <1>6, <1>10, <1>11 DEF LogInv

LEMMA LogInitial == LogInit => LogInv
<1> SUFFICES ASSUME LogInit PROVE LogInv
  OBVIOUS
<1>1. Len(rotated) = 0 /\ Len(activeFile) = 0 /\ rotated \in Seq(Seq(Line)) /\ activeFile \in Seq(Line) /\ quarantine \in Seq(Line)
  BY DEF LogInit
<1>2. LogTypes /\ RecordsAgree /\ StepIsReady
  BY <1>1 DEF LogInit, LogTypes, RecordsAgree, StepIsReady
<1>3. LogIsSorted
  BY <1>1 DEF LogIsSorted, SortedFiles, InOrder
<1>4. LinesAreKept
  BY DEF LogInit, LinesAreKept
<1> QED BY <1>2, <1>3, <1>4 DEF LogInv

LEMMA LogKept == LogInv /\ [LogNext]_logVars => LogInv'
<1> SUFFICES ASSUME LogInv, [LogNext]_logVars PROVE LogInv'
  OBVIOUS
<1>1. CASE UNCHANGED logVars
  BY <1>1 DEF logVars, LogInv, LogTypes, LogIsSorted, LinesAreKept, RecordsAgree, StepIsReady, MayGo
<1>2. CASE WriteLine
  <2>1. /\ UNCHANGED <<logFiles, logRecords, quarantine>>
        /\ job' \in [step : JobSteps, last : BOOLEAN] /\ job'.step = "recover"
    BY <1>2 DEF WriteLine, JobSteps
  <2> QED BY <2>1, JobMoves
<1>3. CASE LogCrash
  <2>1. /\ UNCHANGED <<logFiles, logRecords, quarantine>>
        /\ job' \in [step : JobSteps, last : BOOLEAN] /\ job'.step = "recover"
    BY <1>3 DEF LogCrash, JobSteps
  <2> QED BY <2>1, JobMoves
<1>4. CASE PruneStep
  BY <1>4, RecoverKept, SelectKept, RecordsKept, RenameKept, RotateKept, AppendKept DEF PruneStep
<1> QED BY <1>1, <1>2, <1>3, <1>4, FilesAgeKept DEF LogNext

\* Whatever step of a rotation or a pruning a crash interrupts, recovery finds
\* no files it refuses, and no line is gone that was to be kept: for any sizes
\* and counts of files and any number of lines (logger.ts:187, :243-273).
THEOREM RotationSafe == LogSpec => []RotationIsSafe
<1>1. LogInv => RotationIsSafe
  <2> SUFFICES ASSUME LogInv PROVE RotationIsSafe
    OBVIOUS
  <2>1. /\ LogTypes /\ LogIsSorted /\ LinesAreKept /\ StepIsReady /\ rotated \in Seq(Seq(Line)) /\ Len(rotated) \in Nat
        /\ DOMAIN rotated = 1..Len(rotated) /\ DOMAIN activeFile = 1..Len(activeFile)
    BY LenProperties DEF LogInv, LogTypes
  <2>2. \A i \in 1..Len(rotated) : /\ Head(rotated[i]) = rotated[i][1]
                                   /\ DOMAIN rotated[i] = 1..Len(rotated[i])
    <3> SUFFICES ASSUME NEW i \in 1..Len(rotated)
                 PROVE  Head(rotated[i]) = rotated[i][1] /\ DOMAIN rotated[i] = 1..Len(rotated[i])
      OBVIOUS
    <3>1. rotated[i] \in Seq(Line) /\ InOrder(rotated[i]) /\ Len(rotated[i]) \in Nat \ {0}
      BY <2>1 DEF LogIsSorted, SortedFiles
    <3> QED BY <3>1, FileEnds, LenProperties
  <2> DEFINE onDisk == (UNION {{rotated[i][j] : j \in DOMAIN rotated[i]} : i \in DOMAIN rotated})
                         \cup {activeFile[i] : i \in DOMAIN activeFile}
             newer(line) == {i \in DOMAIN rotated : Head(rotated[i]) > line}
  <2>3. ASSUME NEW line \in aged + 1 .. linesWritten
        PROVE  line \in onDisk \/ Cardinality(newer(line)) >= LOG_FILE_COUNT - 1
    <3>1. CASE InFiles(rotated, line)
      <4>1. PICK i \in 1..Len(rotated) : \E j \in 1..Len(rotated[i]) : rotated[i][j] = line
        BY <3>1 DEF InFiles
      <4>2. line \in {rotated[i][j] : j \in DOMAIN rotated[i]}
        BY <2>2, <4>1
      <4> QED BY <2>1, <4>2, ZenonT(60)
    <3>2. CASE InFile(activeFile, line)
      BY <2>1, <3>2 DEF InFile
    <3>3. CASE Superseded(rotated, line)
      <4>1. PICK k \in 0..Len(rotated) :
              Len(rotated) - k >= LOG_FILE_COUNT - 1 /\ \A m \in (k + 1)..Len(rotated) : rotated[m][1] > line
        BY <3>3 DEF Superseded
      <4> DEFINE A == (k + 1)..Len(rotated)
                 B == newer(line)
      <4>2. A \subseteq B
        <5> SUFFICES ASSUME NEW m \in A PROVE m \in B
          OBVIOUS
        <5>1. m \in 1..Len(rotated)
          BY <2>1
        <5>2. rotated[m][1] > line
          BY <4>1
        <5> QED BY <2>1, <2>2, <5>1, <5>2
      <4>3. IsFiniteSet(B)
        <5>1. B \subseteq 1..Len(rotated)
          BY <2>1
        <5>2. IsFiniteSet(1..Len(rotated))
          BY <2>1, FS_Interval
        <5> QED BY <5>1, <5>2, FS_Subset
      <4>4. k + 1 \in Int /\ Len(rotated) \in Int
        BY <2>1
      <4>5. Cardinality(A) = IF k + 1 > Len(rotated) THEN 0 ELSE Len(rotated) - (k + 1) + 1
        BY <4>4, FS_Interval
      <4> HIDE DEF A, B
      <4>6. Cardinality(A) <= Cardinality(B) /\ Cardinality(B) \in Nat
        BY <4>2, <4>3, FS_Subset, FS_CardinalityType
      <4>7. Cardinality(A) = Len(rotated) - k
        <5>1. k \in Nat /\ k <= Len(rotated) /\ Len(rotated) \in Nat
          BY <2>1
        <5>2. CASE k + 1 > Len(rotated)
          <6>1. k = Len(rotated)
            BY <5>1, <5>2
          <6> QED BY <4>5, <5>1, <5>2, <6>1
        <5>3. CASE ~(k + 1 > Len(rotated))
          <6>1. Len(rotated) - (k + 1) + 1 = Len(rotated) - k
            BY <5>1
          <6> QED BY <4>5, <5>3, <6>1
        <5> QED BY <5>2, <5>3
      <4>8. Cardinality(B) >= LOG_FILE_COUNT - 1
        BY <2>1, <4>1, <4>6, <4>7, LogAssumption
      <4> QED BY <4>8 DEF B
    <3> QED BY <2>1, <3>1, <3>2, <3>3 DEF LinesAreKept
  <2>4. job.step = "idle" => Len(rotated) < LOG_FILE_COUNT
    BY <2>1 DEF StepIsReady
  <2>5. NewestLinesAreKept
    BY <2>3, <2>4 DEF NewestLinesAreKept
  <2> QED BY <2>1, <2>5 DEF RotationIsSafe, RecoveryNeverRefuses, StepIsReady
<1> QED BY <1>1, LogInitial, LogKept, PTL DEF LogSpec

------------------------------------------------------------------------------
(* The agents' files.  What recovery finds on disk is explained by the      *)
(* durable journal, the phase of each file's plan and the step at which the *)
(* application stopped; only a foreign edit can make it stop for good.      *)

Phases == {"planned", "displaced", "published"}
Moving == {"read", "move"}
Moved == {"adopt", "archive", "link", "record", "archived"}
Publishing == {"publish", "unlink", "published"}
Working == Moving \cup Moved \cup Publishing
Ending == {"verify", "cleanup", "complete"}
AgentOps == {"idle", "stage", "boundary", "step"} \cup Working \cup Ending
Shares == {"none", "target", "previous"}
Directory == [next : Int, previous : Int, backup : Int, shared : Shares]

IsDocument(d) ==
    /\ d = [managed |-> d.managed, pending |-> d.pending, expected |-> d.expected, owned |-> d.owned, steps |-> d.steps]
    /\ d.pending \in BOOLEAN
    /\ d.steps = [f \in Files |-> d.steps[f]]
IsPlan(s) ==
    /\ s = [before |-> s.before, after |-> s.after, phase |-> s.phase, backup |-> s.backup]
    /\ s.before \in Int /\ s.after \in Int /\ s.phase \in Phases

AgentTypes ==
    /\ agentFile \in [Files -> Int]
    /\ scratch \in [Files -> Directory]
    /\ at \in [op : AgentOps, file : Files]
    /\ position \in [Files -> {"before", "after", "gap"}]
    /\ IsDocument(journal) /\ IsDocument(document)
    /\ \A f \in Files : IsPlan(journal.steps[f])
    /\ applied \in Nat /\ edits \in 1..MAX_EDITS /\ disturbed \in BOOLEAN

\* What only the memory knows is not the plan.
PlanIsDurable == document.steps = journal.steps /\ document.pending = journal.pending

\* Where a file's step has been, with or without the user's edits.
FileIsSound(f) ==
    LET s == journal.steps[f]  d == scratch[f]
    IN  /\ agentFile[f] <= Generated(applied)
        /\ at.op = "idle" => position[f] = "before"
        /\ ~journal.pending => at.op = "idle" /\ d.next = NoFile /\ d.previous = NoFile
        /\ journal.pending =>
             /\ s.after = Generated(applied) /\ d.next \in {NoFile, Torn, s.after}
             /\ s.phase = "displaced" => d.previous # NoFile
             /\ position[f] = "after" => s.phase = "published"
             /\ at.op = "stage" /\ f >= at.file => position[f] = "before"
             /\ position[f] = "gap" /\ at.op \notin Ending => d.previous # NoFile /\ s.before = d.previous
             /\ at.op \in Working \cup {"step"} /\ f < at.file => s.phase = "published"
             /\ at.op \in Ending => s.phase = "published"
             /\ at.op = "complete" \/ (at.op = "cleanup" /\ f < at.file) => d.next = NoFile /\ d.previous = NoFile
             /\ at.op \in Working /\ f = at.file => position[f] # "after"
             /\ at.op \in Moving /\ f = at.file => position[f] = "before"
             /\ at.op \in Moved /\ f = at.file => d.previous # NoFile
             /\ at.op \in (Moved \ {"adopt"}) \cup Publishing /\ f = at.file => d.previous \in {NoFile, s.before}

\* Whether the step on f still lies ahead of this run.
Ahead(f) ==
    \/ at.op = "stage" /\ f < at.file
    \/ at.op = "boundary"
    \/ at.op = "step" /\ f >= at.file
    \/ at.op \in Working /\ f > at.file

\* And if the user left the files alone.
FileIsOurs(f) ==
    LET s == journal.steps[f]  d == scratch[f]
    IN  /\ s.phase = "published" => agentFile[f] = s.after /\ d.previous \in {NoFile, s.before}
        /\ d.previous # NoFile => agentFile[f] \in {NoFile, s.after}
        /\ at.op \in {"unlink", "published"} /\ f = at.file => agentFile[f] = s.after
        /\ Ahead(f) /\ position[f] # "after" => s.phase # "published"
        /\ at.op \in Working /\ f = at.file => s.phase # "published"

AgentInv ==
    /\ AgentTypes /\ PlanIsDurable
    /\ \A f \in Files : FileIsSound(f)
    /\ journal.pending /\ ~disturbed => \A f \in Files : FileIsOurs(f)
    /\ CatalogBeforeConfig

-----------------------------------------------------------------------------
LEMMA PlanFields ==
  ASSUME NEW s, IsPlan(s)
  PROVE  /\ \A x \in Int : /\ IsPlan([s EXCEPT !.before = x])
                           /\ [s EXCEPT !.before = x].before = x
                           /\ [s EXCEPT !.before = x].after = s.after
                           /\ [s EXCEPT !.before = x].phase = s.phase
         /\ \A p \in Phases : /\ IsPlan([s EXCEPT !.phase = p])
                              /\ [s EXCEPT !.phase = p].before = s.before
                              /\ [s EXCEPT !.phase = p].after = s.after
                              /\ [s EXCEPT !.phase = p].phase = p
         /\ \A n : /\ IsPlan([s EXCEPT !.backup = n])
                   /\ [s EXCEPT !.backup = n].before = s.before
                   /\ [s EXCEPT !.backup = n].after = s.after
                   /\ [s EXCEPT !.backup = n].phase = s.phase
<1>1. s = [before |-> s.before, after |-> s.after, phase |-> s.phase, backup |-> s.backup]
  BY DEF IsPlan
<1>2. ASSUME NEW x PROVE [s EXCEPT !.before = x] = [before |-> x, after |-> s.after, phase |-> s.phase, backup |-> s.backup]
  BY <1>1
<1>3. ASSUME NEW x PROVE [s EXCEPT !.phase = x] = [before |-> s.before, after |-> s.after, phase |-> x, backup |-> s.backup]
  BY <1>1
<1>4. ASSUME NEW x PROVE [s EXCEPT !.backup = x] = [before |-> s.before, after |-> s.after, phase |-> s.phase, backup |-> x]
  BY <1>1
<1> QED BY <1>2, <1>3, <1>4 DEF IsPlan

LEMMA DocumentFields ==
  ASSUME NEW d, IsDocument(d)
  PROVE  /\ \A i \in Files : \A s :
               /\ IsDocument([d EXCEPT !.steps[i] = s])
               /\ [d EXCEPT !.steps[i] = s].pending = d.pending
               /\ [d EXCEPT !.steps[i] = s].steps = [d.steps EXCEPT ![i] = s]
         /\ \A i : \A x : /\ IsDocument([d EXCEPT !.owned[i] = x])
                          /\ [d EXCEPT !.owned[i] = x].pending = d.pending
                          /\ [d EXCEPT !.owned[i] = x].steps = d.steps
         /\ \A x : /\ IsDocument([d EXCEPT !.expected = x])
                   /\ [d EXCEPT !.expected = x].pending = d.pending
                   /\ [d EXCEPT !.expected = x].steps = d.steps
         /\ \A p : p = [f \in Files |-> p[f]] =>
                   /\ IsDocument([d EXCEPT !.steps = p])
                   /\ [d EXCEPT !.steps = p].pending = d.pending
                   /\ [d EXCEPT !.steps = p].steps = p
<1>1. d = [managed |-> d.managed, pending |-> d.pending, expected |-> d.expected, owned |-> d.owned, steps |-> d.steps]
  BY DEF IsDocument
<1>2. ASSUME NEW i, NEW s
      PROVE  [d EXCEPT !.steps[i] = s] = [managed |-> d.managed, pending |-> d.pending, expected |-> d.expected,
                                          owned |-> d.owned, steps |-> [d.steps EXCEPT ![i] = s]]
  BY <1>1
<1>3. ASSUME NEW i, NEW x
      PROVE  [d EXCEPT !.owned[i] = x] = [managed |-> d.managed, pending |-> d.pending, expected |-> d.expected,
                                          owned |-> [d.owned EXCEPT ![i] = x], steps |-> d.steps]
  BY <1>1
<1>4. ASSUME NEW x
      PROVE  [d EXCEPT !.expected = x] = [managed |-> d.managed, pending |-> d.pending, expected |-> x,
                                          owned |-> d.owned, steps |-> d.steps]
  BY <1>1
<1>5. ASSUME NEW x
      PROVE  [d EXCEPT !.steps = x] = [managed |-> d.managed, pending |-> d.pending, expected |-> d.expected,
                                       owned |-> d.owned, steps |-> x]
  BY <1>1
<1>6. ASSUME NEW i \in Files, NEW s PROVE [d.steps EXCEPT ![i] = s] = [f \in Files |-> [d.steps EXCEPT ![i] = s][f]]
  BY DEF IsDocument
<1> QED BY <1>2, <1>3, <1>4, <1>5, <1>6 DEF IsDocument

LEMMA SetsPlan ==
  ASSUME AgentTypes, PlanIsDurable, NEW i \in Files, NEW s, IsPlan(s), document' = SetStep(i, s), Save
  PROVE  /\ IsDocument(journal') /\ IsDocument(document')
         /\ document'.steps = journal'.steps /\ document'.pending = journal'.pending
         /\ journal'.pending = journal.pending
         /\ journal'.steps[i] = s
         /\ \A f \in Files \ {i} : journal'.steps[f] = journal.steps[f]
         /\ \A f \in Files : IsPlan(journal'.steps[f])
<1>1. IsDocument(document) /\ document' = [document EXCEPT !.steps[i] = s] /\ journal' = document'
  BY DEF AgentTypes, SetStep, Save
<1>2. IsDocument(document') /\ document'.pending = document.pending /\ document'.steps = [document.steps EXCEPT ![i] = s]
  BY <1>1, DocumentFields
<1>3. journal.steps = [f \in Files |-> journal.steps[f]]
  BY DEF AgentTypes, IsDocument
<1>4. journal'.steps = [journal.steps EXCEPT ![i] = s]
  BY <1>1, <1>2 DEF PlanIsDurable
<1>5. journal'.steps[i] = s /\ \A f \in Files \ {i} : journal'.steps[f] = journal.steps[f]
  BY <1>3, <1>4
<1>6. \A f \in Files : IsPlan(journal'.steps[f])
  BY <1>5 DEF AgentTypes
<1> QED BY <1>1, <1>2, <1>5, <1>6 DEF PlanIsDurable

\* What an action does to a document besides the plan.
LEMMA LeavesPlan ==
  ASSUME AgentTypes, PlanIsDurable, IsDocument(document'), document'.steps = document.steps,
         document'.pending = document.pending, journal' = journal \/ journal' = document'
  PROVE  /\ IsDocument(journal') /\ IsDocument(document')
         /\ document'.steps = journal'.steps /\ document'.pending = journal'.pending
         /\ journal'.pending = journal.pending
         /\ journal'.steps = journal.steps
         /\ \A f \in Files : IsPlan(journal'.steps[f])
BY DEF AgentTypes, PlanIsDurable

\* A step between two of the operations on file i changes nothing of the others.
LEMMA WorkKept ==
  ASSUME AgentInv, NEW i \in Files, at.file = i, at.op \in Working, at'.file = i, at'.op \in Working,
         AgentTypes', PlanIsDurable', journal'.pending = journal.pending, UNCHANGED <<applied, disturbed, position>>,
         \A f \in Files \ {i} : /\ agentFile'[f] = agentFile[f] /\ scratch'[f] = scratch[f]
                                /\ journal'.steps[f] = journal.steps[f],
         FileIsSound(i)', journal.pending /\ ~disturbed => FileIsOurs(i)'
  PROVE  AgentInv'
<1>1. ASSUME NEW f \in Files PROVE FileIsSound(f)'
  <2>1. CASE f # i
    BY <1>1, <2>1 DEF AgentInv, FileIsSound, Working, Moving, Moved, Publishing, Ending
  <2> QED BY <2>1
<1>2. ASSUME journal'.pending, ~disturbed', NEW f \in Files PROVE FileIsOurs(f)'
  <2>1. CASE f # i
    BY <1>2, <2>1 DEF AgentInv, FileIsOurs, Ahead, Working, Moving, Moved, Publishing
  <2> QED BY <1>2, <2>1
<1>3. CatalogBeforeConfig'
  <2> SUFFICES ASSUME journal'.pending, ~disturbed', agentFile'[TARGETS] = journal'.steps[TARGETS].after,
                      NEW f \in Files \ {TARGETS}
               PROVE  journal'.steps[f].phase = "published"
    BY DEF CatalogBeforeConfig
  <2>1. f = 1 /\ TARGETS = 2 /\ i \in {1, 2} /\ Files = {1, 2}
    BY AgentsAssumption DEF Files
  <2>2. CASE i = 1
    BY <2>1, <2>2 DEF AgentInv, FileIsOurs, CatalogBeforeConfig
  <2>3. CASE i = 2
    BY <2>1, <2>3 DEF AgentInv, FileIsSound
  <2> QED BY <2>1, <2>2, <2>3
<1> QED BY <1>1, <1>2, <1>3 DEF AgentInv


\* Entries of one file's scratch directory are set.
LEMMA OneDirectory ==
  ASSUME NEW i, NEW x, NEW y
  PROVE  /\ [scratch EXCEPT ![i].next = x] = [scratch EXCEPT ![i] = [scratch[i] EXCEPT !.next = x]]
         /\ [scratch EXCEPT ![i].backup = x] = [scratch EXCEPT ![i] = [scratch[i] EXCEPT !.backup = x]]
         /\ [scratch EXCEPT ![i].shared = x] = [scratch EXCEPT ![i] = [scratch[i] EXCEPT !.shared = x]]
         /\ [scratch EXCEPT ![i].next = x, ![i].shared = y]
              = [scratch EXCEPT ![i] = [scratch[i] EXCEPT !.next = x, !.shared = y]]
         /\ [scratch EXCEPT ![i].previous = x, ![i].shared = IF @ = "target" THEN "previous" ELSE "none"]
              = [scratch EXCEPT ![i] = [scratch[i] EXCEPT !.previous = x, !.shared = IF @ = "target" THEN "previous" ELSE "none"]]
         /\ [scratch EXCEPT ![i].shared = IF @ = "target" THEN "none" ELSE @]
              = [scratch EXCEPT ![i] = [scratch[i] EXCEPT !.shared = IF @ = "target" THEN "none" ELSE @]]
OBVIOUS

LEMMA DirectoryFields ==
  ASSUME NEW d \in Directory, NEW n \in Int
  PROVE  /\ LET e == [d EXCEPT !.next = n] IN e \in Directory /\ e.next = n /\ e.previous = d.previous /\ e.shared = d.shared
         /\ LET e == [d EXCEPT !.backup = n] IN e \in Directory /\ e.next = d.next /\ e.previous = d.previous /\ e.shared = d.shared
         /\ LET e == [d EXCEPT !.shared = "target"] IN e \in Directory /\ e.next = d.next /\ e.previous = d.previous
         /\ LET e == [d EXCEPT !.next = n, !.shared = "none"] IN e \in Directory /\ e.next = n /\ e.previous = d.previous
         /\ LET e == [d EXCEPT !.previous = n, !.shared = IF @ = "target" THEN "previous" ELSE "none"]
            IN  e \in Directory /\ e.next = d.next /\ e.previous = n
         /\ LET e == [d EXCEPT !.shared = IF @ = "target" THEN "none" ELSE @]
            IN  e \in Directory /\ e.next = d.next /\ e.previous = d.previous
BY DEF Directory, Shares

LEMMA ScratchIs ==
  ASSUME AgentTypes, NEW i \in Files, NEW d \in Directory,
         scratch' = [scratch EXCEPT ![i] = d]
  PROVE  /\ scratch' \in [Files -> Directory]
         /\ scratch'[i] = d /\ \A f \in Files \ {i} : scratch'[f] = scratch[f]
BY DEF AgentTypes

LEMMA FileIs ==
  ASSUME AgentTypes, NEW i \in Files, NEW c \in Int, agentFile' = [agentFile EXCEPT ![i] = c]
  PROVE  /\ agentFile' \in [Files -> Int]
         /\ agentFile'[i] = c /\ \A f \in Files \ {i} : agentFile'[f] = agentFile[f]
BY DEF AgentTypes

LEMMA ReadKept == ASSUME AgentInv, NEW i \in Files, ReadLatest(i) PROVE AgentInv'
<1>1. /\ at = [op |-> "read", file |-> i] /\ scratch[i].previous = NoFile
      /\ document' = SetStep(i, [AgentStep(i) EXCEPT !.before = agentFile[i]]) /\ Save
      /\ at' = [op |-> IF agentFile[i] = NoFile THEN "publish" ELSE "move", file |-> i]
      /\ UNCHANGED <<agentFile, scratch, position, edits, applied, disturbed>>
  BY DEF ReadLatest, Order, Reached
<1>2. AgentTypes /\ PlanIsDurable /\ FileIsSound(i) /\ (journal.pending /\ ~disturbed => FileIsOurs(i))
  BY DEF AgentInv
<1>3. agentFile[i] \in Int /\ IsPlan(journal.steps[i]) /\ AgentStep(i) = journal.steps[i]
  BY <1>2 DEF AgentTypes, PlanIsDurable, AgentStep
<1> DEFINE s == [journal.steps[i] EXCEPT !.before = agentFile[i]]
<1>4. IsPlan(s) /\ s.before = agentFile[i] /\ s.after = journal.steps[i].after /\ s.phase = journal.steps[i].phase
  BY <1>3, PlanFields
<1>5. document' = SetStep(i, s)
  BY <1>1, <1>3
<1> HIDE DEF s
<1>6. /\ IsDocument(journal') /\ IsDocument(document')
      /\ document'.steps = journal'.steps /\ document'.pending = journal'.pending
      /\ journal'.pending = journal.pending
      /\ journal'.steps[i] = s
      /\ \A f \in Files \ {i} : journal'.steps[f] = journal.steps[f]
      /\ \A f \in Files : IsPlan(journal'.steps[f])
  BY <1>1, <1>2, <1>4, <1>5, SetsPlan
<1>7. AgentTypes' /\ PlanIsDurable'
  BY <1>1, <1>2, <1>6 DEF AgentTypes, PlanIsDurable, AgentOps, Working, Moving, Publishing
<1>8. FileIsSound(i)'
  BY <1>1, <1>2, <1>4, <1>6 DEF FileIsSound, Working, Moving, Moved, Publishing, Ending
<1>9. journal.pending /\ ~disturbed => FileIsOurs(i)'
  BY <1>1, <1>2, <1>4, <1>6 DEF FileIsOurs, Ahead, Working, Moving, Moved, Publishing
<1>10. at.file = i /\ at.op \in Working /\ at'.file = i /\ at'.op \in Working
  BY <1>1 DEF Working, Moving, Publishing
<1> QED BY <1>1, <1>6, <1>7, <1>8, <1>9, <1>10, WorkKept

LEMMA MoveKept == ASSUME AgentInv, NEW i \in Files, Move(i) PROVE AgentInv'
<1>1. /\ at = [op |-> "move", file |-> i] /\ at' = [op |-> "adopt", file |-> i] /\ agentFile[i] # NoFile
      /\ scratch' = [scratch EXCEPT ![i].previous = agentFile[i],
                                    ![i].shared = IF @ = "target" THEN "previous" ELSE "none"]
      /\ agentFile' = [agentFile EXCEPT ![i] = NoFile]
      /\ UNCHANGED <<journal, document, position, edits, applied, disturbed>>
  BY DEF Move, Order, Reached
<1>2. AgentTypes /\ PlanIsDurable /\ FileIsSound(i) /\ (journal.pending /\ ~disturbed => FileIsOurs(i))
  BY DEF AgentInv
<1> DEFINE d == [scratch[i] EXCEPT !.previous = agentFile[i], !.shared = IF @ = "target" THEN "previous" ELSE "none"]
<1>3. scratch' = [scratch EXCEPT ![i] = d] /\ d \in Directory /\ d.next = scratch[i].next /\ d.previous = agentFile[i]
  <2>1. scratch[i] \in Directory /\ agentFile[i] \in Int
    BY <1>2 DEF AgentTypes, NoFile
  <2> QED BY <1>1, <2>1, OneDirectory, DirectoryFields, ZenonT(60)
<1>4. /\ scratch' \in [Files -> Directory]
      /\ scratch'[i] = d /\ \A f \in Files \ {i} : scratch'[f] = scratch[f]
  BY <1>2, <1>3, ScratchIs
<1>5. /\ agentFile' \in [Files -> Int]
      /\ agentFile'[i] = NoFile /\ \A f \in Files \ {i} : agentFile'[f] = agentFile[f]
  <2>1. NoFile \in Int
    BY DEF NoFile
  <2> QED BY <1>1, <1>2, <2>1, FileIs
<1> HIDE DEF d
<1>7. AgentTypes' /\ PlanIsDurable'
  BY <1>1, <1>2, <1>4, <1>5 DEF AgentTypes, PlanIsDurable, AgentOps, Working, Moved
<1>8. FileIsSound(i)'
  <2>1. NoFile <= Generated(applied)
    BY <1>2, AgentsAssumption DEF AgentTypes, NoFile, Generated
  <2> QED BY <1>1, <1>2, <1>3, <1>4, <1>5, <2>1 DEF FileIsSound, Working, Moving, Moved, Publishing, Ending
<1>9. journal.pending /\ ~disturbed => FileIsOurs(i)'
  BY <1>1, <1>2, <1>3, <1>4, <1>5 DEF FileIsOurs, Ahead, Working, Moving, Moved, Publishing
<1>10. at.file = i /\ at.op \in Working /\ at'.file = i /\ at'.op \in Working
  BY <1>1 DEF Working, Moving, Moved
<1> QED BY <1>1, <1>4, <1>5, <1>7, <1>8, <1>9, <1>10, WorkKept

LEMMA AdoptKept == ASSUME AgentInv, NEW i \in Files, AdoptMoved(i) PROVE AgentInv'
<1>1. /\ at = [op |-> "adopt", file |-> i] /\ at' = [op |-> "archive", file |-> i]
      /\ document' = SetStep(i, [AgentStep(i) EXCEPT !.before = scratch[i].previous]) /\ Save
      /\ UNCHANGED <<agentFile, scratch, position, edits, applied, disturbed>>
  BY DEF AdoptMoved, Order, Reached
<1>2. AgentTypes /\ PlanIsDurable /\ FileIsSound(i) /\ (journal.pending /\ ~disturbed => FileIsOurs(i))
  BY DEF AgentInv
<1>3. scratch[i].previous \in Int /\ IsPlan(journal.steps[i]) /\ AgentStep(i) = journal.steps[i]
  BY <1>2 DEF AgentTypes, PlanIsDurable, AgentStep, Directory
<1> DEFINE s == [journal.steps[i] EXCEPT !.before = scratch[i].previous]
<1>4. IsPlan(s) /\ s.before = scratch[i].previous /\ s.after = journal.steps[i].after /\ s.phase = journal.steps[i].phase
  BY <1>3, PlanFields
<1>5. document' = SetStep(i, s)
  BY <1>1, <1>3
<1> HIDE DEF s
<1>6. /\ IsDocument(journal') /\ IsDocument(document')
      /\ document'.steps = journal'.steps /\ document'.pending = journal'.pending
      /\ journal'.pending = journal.pending
      /\ journal'.steps[i] = s
      /\ \A f \in Files \ {i} : journal'.steps[f] = journal.steps[f]
      /\ \A f \in Files : IsPlan(journal'.steps[f])
  BY <1>1, <1>2, <1>4, <1>5, SetsPlan
<1>7. AgentTypes' /\ PlanIsDurable'
  BY <1>1, <1>2, <1>6 DEF AgentTypes, PlanIsDurable, AgentOps, Working, Moved
<1>8. FileIsSound(i)'
  BY <1>1, <1>2, <1>4, <1>6 DEF FileIsSound, Working, Moving, Moved, Publishing, Ending
<1>9. journal.pending /\ ~disturbed => FileIsOurs(i)'
  BY <1>1, <1>2, <1>4, <1>6 DEF FileIsOurs, Ahead, Working, Moving, Moved, Publishing
<1>10. at.file = i /\ at.op \in Working /\ at'.file = i /\ at'.op \in Working
  BY <1>1 DEF Working, Moved
<1> QED BY <1>1, <1>6, <1>7, <1>8, <1>9, <1>10, WorkKept

LEMMA ArchiveStageKept == ASSUME AgentInv, NEW i \in Files, ArchiveStage(i) PROVE AgentInv'
<1>1. /\ at = [op |-> "archive", file |-> i] /\ at' = [op |-> "link", file |-> i]
      /\ scratch' = [scratch EXCEPT ![i].backup = AgentStep(i).before]
      /\ UNCHANGED <<agentFile, journal, document, position, edits, applied, disturbed>>
  BY DEF ArchiveStage, Order, Reached
<1>2. AgentTypes /\ PlanIsDurable /\ FileIsSound(i) /\ (journal.pending /\ ~disturbed => FileIsOurs(i))
  BY DEF AgentInv
<1>3. AgentStep(i).before \in Int
  BY <1>2 DEF AgentTypes, PlanIsDurable, AgentStep, IsPlan
<1> DEFINE d == [scratch[i] EXCEPT !.backup = AgentStep(i).before]
<1>4. scratch' = [scratch EXCEPT ![i] = d] /\ d \in Directory /\ d.next = scratch[i].next /\ d.previous = scratch[i].previous
  <2>1. scratch[i] \in Directory /\ AgentStep(i).before \in Int
    BY <1>2, <1>3 DEF AgentTypes, NoFile
  <2> QED BY <1>1, <2>1, OneDirectory, DirectoryFields
<1>5. /\ scratch' \in [Files -> Directory]
      /\ scratch'[i] = d /\ \A f \in Files \ {i} : scratch'[f] = scratch[f]
  BY <1>2, <1>4, ScratchIs
<1> HIDE DEF d
<1>7. AgentTypes' /\ PlanIsDurable'
  BY <1>1, <1>2, <1>5 DEF AgentTypes, PlanIsDurable, AgentOps, Working, Moved
<1>8. FileIsSound(i)'
  BY <1>1, <1>2, <1>4, <1>5 DEF FileIsSound, Working, Moving, Moved, Publishing, Ending
<1>9. journal.pending /\ ~disturbed => FileIsOurs(i)'
  BY <1>1, <1>2, <1>4, <1>5 DEF FileIsOurs, Ahead, Working, Moving, Moved, Publishing
<1>10. at.file = i /\ at.op \in Working /\ at'.file = i /\ at'.op \in Working
  BY <1>1 DEF Working, Moved
<1> QED BY <1>1, <1>5, <1>7, <1>8, <1>9, <1>10, WorkKept

\* Backups and the list of them play no part in where a step stands.
LEMMA ArchiveLinkKept == ASSUME AgentInv, NEW i \in Files, ArchiveLink(i) PROVE AgentInv'
<1>1. /\ at = [op |-> "link", file |-> i]
      /\ UNCHANGED <<agentFile, scratch, position, edits, applied, disturbed>>
      /\ \/ /\ document' = SetStep(i, [AgentStep(i) EXCEPT !.backup = NextFreeName(i, AgentStep(i).backup)])
            /\ Save /\ at' = at
         \/ /\ at' = [op |-> "record", file |-> i] /\ UNCHANGED <<journal, document>>
         \/ /\ at' = [op |-> "record", file |-> i] /\ UNCHANGED journal
            /\ document' = [document EXCEPT !.owned[i] = Trimmed(i, RETAIN - 1)]
  BY DEF ArchiveLink, Order, Reached
<1>2. AgentTypes /\ PlanIsDurable /\ FileIsSound(i) /\ (journal.pending /\ ~disturbed => FileIsOurs(i))
  BY DEF AgentInv
<1>3. IsPlan(journal.steps[i]) /\ AgentStep(i) = journal.steps[i] /\ IsDocument(document)
  BY <1>2 DEF AgentTypes, PlanIsDurable, AgentStep
<1>4. /\ IsDocument(journal') /\ IsDocument(document')
      /\ document'.steps = journal'.steps /\ document'.pending = journal'.pending
      /\ journal'.pending = journal.pending
      /\ \A f \in Files \ {i} : journal'.steps[f] = journal.steps[f]
      /\ \A f \in Files : IsPlan(journal'.steps[f])
      /\ journal'.steps[i].before = journal.steps[i].before /\ journal'.steps[i].after = journal.steps[i].after
      /\ journal'.steps[i].phase = journal.steps[i].phase
  <2>1. CASE /\ document' = SetStep(i, [AgentStep(i) EXCEPT !.backup = NextFreeName(i, AgentStep(i).backup)])
             /\ Save
    <3> DEFINE s == [journal.steps[i] EXCEPT !.backup = NextFreeName(i, AgentStep(i).backup)]
    <3>1. IsPlan(s) /\ s.before = journal.steps[i].before /\ s.after = journal.steps[i].after /\ s.phase = journal.steps[i].phase
      BY <1>3, PlanFields
    <3>2. document' = SetStep(i, s)
      BY <1>3, <2>1
    <3> HIDE DEF s
    <3> QED BY <1>2, <2>1, <3>1, <3>2, SetsPlan
  <2>2. CASE UNCHANGED <<journal, document>>
    BY <1>2, <2>2 DEF AgentTypes, PlanIsDurable
  <2>3. CASE UNCHANGED journal /\ document' = [document EXCEPT !.owned[i] = Trimmed(i, RETAIN - 1)]
    <3>1. IsDocument(document') /\ document'.steps = document.steps /\ document'.pending = document.pending
      BY <1>3, <2>3, DocumentFields
    <3> QED BY <1>2, <2>3, <3>1, LeavesPlan
  <2> QED BY <1>1, <2>1, <2>2, <2>3
<1>5. at'.op \in {"link", "record"} /\ at'.file = i /\ at' \in [op : AgentOps, file : Files]
  BY <1>1, <1>2 DEF AgentTypes, AgentOps, Working, Moved
<1>7. AgentTypes' /\ PlanIsDurable'
  BY <1>1, <1>2, <1>4, <1>5 DEF AgentTypes, PlanIsDurable
<1>8. FileIsSound(i)'
  BY <1>1, <1>2, <1>4, <1>5 DEF FileIsSound, Working, Moving, Moved, Publishing, Ending
<1>9. journal.pending /\ ~disturbed => FileIsOurs(i)'
  BY <1>1, <1>2, <1>4, <1>5 DEF FileIsOurs, Ahead, Working, Moving, Moved, Publishing
<1>10. at.file = i /\ at.op \in Working /\ at'.file = i /\ at'.op \in Working
  BY <1>1, <1>5 DEF Working, Moved
<1> QED BY <1>1, <1>4, <1>7, <1>8, <1>9, <1>10, WorkKept

LEMMA ArchiveRecordKept == ASSUME AgentInv, NEW i \in Files, ArchiveRecord(i) PROVE AgentInv'
<1>1. /\ at = [op |-> "record", file |-> i] /\ at' = [op |-> "archived", file |-> i]
      /\ UNCHANGED <<agentFile, scratch, position, edits, applied, disturbed>>
      /\ journal' = document'
      /\ document' = document \/ \E x : document' = [document EXCEPT !.owned[i] = x]
  BY DEF ArchiveRecord, Order, Reached, Save
<1>2. AgentTypes /\ PlanIsDurable /\ FileIsSound(i) /\ (journal.pending /\ ~disturbed => FileIsOurs(i))
  BY DEF AgentInv
<1>3. IsDocument(document') /\ document'.steps = document.steps /\ document'.pending = document.pending
  <2>1. IsDocument(document)
    BY <1>2 DEF AgentTypes
  <2>2. CASE \E x : document' = [document EXCEPT !.owned[i] = x]
    <3>1. PICK x : document' = [document EXCEPT !.owned[i] = x]
      BY <2>2
    <3> QED BY <2>1, <3>1, DocumentFields
  <2> QED BY <1>1, <2>1, <2>2
<1>4. /\ IsDocument(journal') /\ IsDocument(document')
      /\ document'.steps = journal'.steps /\ document'.pending = journal'.pending
      /\ journal'.pending = journal.pending /\ journal'.steps = journal.steps
      /\ \A f \in Files : IsPlan(journal'.steps[f])
  BY <1>1, <1>2, <1>3, LeavesPlan
<1>7. AgentTypes' /\ PlanIsDurable'
  BY <1>1, <1>2, <1>4 DEF AgentTypes, PlanIsDurable, AgentOps, Working, Moved
<1>8. FileIsSound(i)'
  BY <1>1, <1>2, <1>4 DEF FileIsSound, Working, Moving, Moved, Publishing, Ending
<1>9. journal.pending /\ ~disturbed => FileIsOurs(i)'
  BY <1>1, <1>2, <1>4 DEF FileIsOurs, Ahead, Working, Moving, Moved, Publishing
<1>10. at.file = i /\ at.op \in Working /\ at'.file = i /\ at'.op \in Working
  BY <1>1 DEF Working, Moved
<1> QED BY <1>1, <1>4, <1>7, <1>8, <1>9, <1>10, WorkKept

LEMMA ArchivedKept == ASSUME AgentInv, NEW i \in Files, Archived(i) PROVE AgentInv'
<1>1. /\ at = [op |-> "archived", file |-> i] /\ at' = [op |-> "publish", file |-> i]
      /\ document' = SetStep(i, [AgentStep(i) EXCEPT !.phase = "displaced"]) /\ Save
      /\ scratch' = [scratch EXCEPT ![i].backup = NoFile]
      /\ UNCHANGED <<agentFile, position, edits, applied, disturbed>>
  BY DEF Archived, Order, Reached
<1>2. AgentTypes /\ PlanIsDurable /\ FileIsSound(i) /\ (journal.pending /\ ~disturbed => FileIsOurs(i))
  BY DEF AgentInv
<1>3. IsPlan(journal.steps[i]) /\ AgentStep(i) = journal.steps[i]
  BY <1>2 DEF AgentTypes, PlanIsDurable, AgentStep
<1> DEFINE s == [journal.steps[i] EXCEPT !.phase = "displaced"]
           d == [scratch[i] EXCEPT !.backup = NoFile]
<1>4. IsPlan(s) /\ s.before = journal.steps[i].before /\ s.after = journal.steps[i].after /\ s.phase = "displaced"
  <2>1. "displaced" \in Phases
    BY DEF Phases
  <2> QED BY <1>3, <2>1, PlanFields
<1>5. document' = SetStep(i, s)
  BY <1>1, <1>3
<1>6. scratch' = [scratch EXCEPT ![i] = d] /\ d \in Directory /\ d.next = scratch[i].next /\ d.previous = scratch[i].previous
  <2>1. scratch[i] \in Directory /\ NoFile \in Int
    BY <1>2 DEF AgentTypes, NoFile
  <2> QED BY <1>1, <2>1, OneDirectory, DirectoryFields
<1>11. /\ scratch' \in [Files -> Directory]
       /\ scratch'[i] = d /\ \A f \in Files \ {i} : scratch'[f] = scratch[f]
  BY <1>2, <1>6, ScratchIs
<1> HIDE DEF s, d
<1>13. /\ IsDocument(journal') /\ IsDocument(document')
       /\ document'.steps = journal'.steps /\ document'.pending = journal'.pending
       /\ journal'.pending = journal.pending
       /\ journal'.steps[i] = s
       /\ \A f \in Files \ {i} : journal'.steps[f] = journal.steps[f]
       /\ \A f \in Files : IsPlan(journal'.steps[f])
  BY <1>1, <1>2, <1>4, <1>5, SetsPlan
<1>7. AgentTypes' /\ PlanIsDurable'
  BY <1>1, <1>2, <1>11, <1>13 DEF AgentTypes, PlanIsDurable, AgentOps, Working, Publishing
<1>8. FileIsSound(i)'
  <2>1. /\ journal.pending /\ scratch[i].previous # NoFile /\ scratch[i].previous = journal.steps[i].before
        /\ position[i] # "after" /\ agentFile[i] <= Generated(applied)
        /\ journal.steps[i].after = Generated(applied) /\ scratch[i].next \in {NoFile, Torn, journal.steps[i].after}
    BY <1>1, <1>2 DEF FileIsSound, Working, Moving, Moved, Publishing
  <2>2. /\ scratch'[i].previous = scratch[i].previous /\ scratch'[i].next = scratch[i].next
        /\ journal'.steps[i].before = journal.steps[i].before /\ journal'.steps[i].after = journal.steps[i].after
        /\ journal'.steps[i].phase = "displaced"
    BY <1>4, <1>6, <1>11, <1>13
  <2>3. ~(i < i)
    BY AgentsAssumption DEF Files
  <2> QED BY <1>1, <1>13, <2>1, <2>2, <2>3 DEF FileIsSound, Working, Moving, Moved, Publishing, Ending
<1>9. journal.pending /\ ~disturbed => FileIsOurs(i)'
  BY <1>1, <1>2, <1>4, <1>6, <1>11, <1>13 DEF FileIsOurs, Ahead, Working, Moving, Moved, Publishing
<1>10. at.file = i /\ at.op \in Working /\ at'.file = i /\ at'.op \in Working
  BY <1>1 DEF Working, Moved, Publishing
<1> QED BY <1>1, <1>7, <1>8, <1>9, <1>10, <1>11, <1>13, WorkKept

LEMMA PublishKept == ASSUME AgentInv, NEW i \in Files, PublishTarget(i) PROVE AgentInv'
<1>1. /\ at = [op |-> "publish", file |-> i] /\ at' = [op |-> "unlink", file |-> i]
      /\ agentFile' = [agentFile EXCEPT ![i] = AgentStep(i).after]
      /\ scratch' = [scratch EXCEPT ![i].shared = "target"]
      /\ UNCHANGED <<journal, document, position, edits, applied, disturbed>>
  BY DEF PublishTarget, Order, Reached
<1>2. AgentTypes /\ PlanIsDurable /\ FileIsSound(i) /\ (journal.pending /\ ~disturbed => FileIsOurs(i))
  BY DEF AgentInv
<1>3. AgentStep(i) = journal.steps[i] /\ journal.steps[i].after \in Int
  BY <1>2 DEF AgentTypes, PlanIsDurable, AgentStep, IsPlan
<1> DEFINE d == [scratch[i] EXCEPT !.shared = "target"]
<1>4. scratch' = [scratch EXCEPT ![i] = d] /\ d \in Directory /\ d.next = scratch[i].next /\ d.previous = scratch[i].previous
  <2>1. scratch[i] \in Directory /\ NoFile \in Int
    BY <1>2 DEF AgentTypes, NoFile
  <2> QED BY <1>1, <2>1, OneDirectory, DirectoryFields
<1>5. /\ scratch' \in [Files -> Directory]
      /\ scratch'[i] = d /\ \A f \in Files \ {i} : scratch'[f] = scratch[f]
  BY <1>2, <1>4, ScratchIs
<1> HIDE DEF d
<1>11. /\ agentFile' \in [Files -> Int]
       /\ agentFile'[i] = journal.steps[i].after /\ \A f \in Files \ {i} : agentFile'[f] = agentFile[f]
  BY <1>1, <1>2, <1>3, FileIs
<1>7. AgentTypes' /\ PlanIsDurable'
  BY <1>1, <1>2, <1>5, <1>11 DEF AgentTypes, PlanIsDurable, AgentOps, Working, Publishing
<1>8. FileIsSound(i)'
  <2>1. Generated(applied) \in Int
    BY <1>2, AgentsAssumption DEF AgentTypes, Generated
  <2>2. journal.pending
    BY <1>1, <1>2 DEF FileIsSound
  <2> QED BY <1>1, <1>2, <1>4, <1>5, <1>11, <2>1, <2>2 DEF FileIsSound, Working, Moving, Moved, Publishing, Ending
<1>9. journal.pending /\ ~disturbed => FileIsOurs(i)'
  BY <1>1, <1>2, <1>4, <1>5, <1>11 DEF FileIsOurs, Ahead, Working, Moving, Moved, Publishing
<1>10. at.file = i /\ at.op \in Working /\ at'.file = i /\ at'.op \in Working
  BY <1>1 DEF Working, Publishing
<1> QED BY <1>1, <1>5, <1>7, <1>8, <1>9, <1>10, <1>11, WorkKept

LEMMA UnlinkKept == ASSUME AgentInv, NEW i \in Files, Unlink(i) PROVE AgentInv'
<1>1. /\ at = [op |-> "unlink", file |-> i] /\ at' = [op |-> "published", file |-> i]
      /\ scratch' = [scratch EXCEPT ![i].next = NoFile, ![i].shared = "none"]
      /\ UNCHANGED <<agentFile, journal, document, position, edits, applied, disturbed>>
  BY DEF Unlink, Order, Reached
<1>2. AgentTypes /\ PlanIsDurable /\ FileIsSound(i) /\ (journal.pending /\ ~disturbed => FileIsOurs(i))
  BY DEF AgentInv
<1> DEFINE d == [scratch[i] EXCEPT !.next = NoFile, !.shared = "none"]
<1>4. scratch' = [scratch EXCEPT ![i] = d] /\ d \in Directory /\ d.next = NoFile /\ d.previous = scratch[i].previous
  <2>1. scratch[i] \in Directory /\ NoFile \in Int
    BY <1>2 DEF AgentTypes, NoFile
  <2> QED BY <1>1, <2>1, OneDirectory, DirectoryFields, ZenonT(60)
<1>5. /\ scratch' \in [Files -> Directory]
      /\ scratch'[i] = d /\ \A f \in Files \ {i} : scratch'[f] = scratch[f]
  BY <1>2, <1>4, ScratchIs
<1> HIDE DEF d
<1>7. AgentTypes' /\ PlanIsDurable'
  BY <1>1, <1>2, <1>5 DEF AgentTypes, PlanIsDurable, AgentOps, Working, Publishing
<1>8. FileIsSound(i)'
  BY <1>1, <1>2, <1>4, <1>5 DEF FileIsSound, Working, Moving, Moved, Publishing, Ending
<1>9. journal.pending /\ ~disturbed => FileIsOurs(i)'
  BY <1>1, <1>2, <1>4, <1>5 DEF FileIsOurs, Ahead, Working, Moving, Moved, Publishing
<1>10. at.file = i /\ at.op \in Working /\ at'.file = i /\ at'.op \in Working
  BY <1>1 DEF Working, Publishing
<1> QED BY <1>1, <1>5, <1>7, <1>8, <1>9, <1>10, WorkKept

-----------------------------------------------------------------------------
\* Where no file is touched and no step loses its publication, no configuration
\* comes before its catalogue.
LEMMA CatalogKept ==
  ASSUME CatalogBeforeConfig, journal.pending, UNCHANGED disturbed,
         \A f \in Files : /\ agentFile'[f] = agentFile[f] /\ journal'.steps[f].after = journal.steps[f].after
                          /\ journal.steps[f].phase = "published" => journal'.steps[f].phase = "published"
  PROVE  CatalogBeforeConfig'
<1>1. TARGETS \in Files
  BY AgentsAssumption DEF Files
<1> QED BY <1>1 DEF CatalogBeforeConfig

LEMMA AdoptedIs ==
  ASSUME AgentTypes, PlanIsDurable, NEW f \in Files
  PROVE  /\ IsPlan(Adopted(f)) /\ Adopted(f).after = journal.steps[f].after
         /\ Adopted(f).phase = journal.steps[f].phase
         /\ scratch[f].previous # NoFile => Adopted(f).before = scratch[f].previous
         /\ scratch[f].previous = NoFile => Adopted(f) = journal.steps[f]
<1>1. AgentStep(f) = journal.steps[f] /\ IsPlan(journal.steps[f]) /\ scratch[f].previous \in Int
  BY DEF AgentTypes, PlanIsDurable, AgentStep, Directory
<1>2. CASE scratch[f].previous = NoFile
  BY <1>1, <1>2 DEF Adopted
<1>3. CASE scratch[f].previous # NoFile
  <2>1. Adopted(f) = [journal.steps[f] EXCEPT !.before = scratch[f].previous]
    BY <1>1, <1>3 DEF Adopted
  <2> QED BY <1>1, <1>3, <2>1, PlanFields
<1> QED BY <1>2, <1>3

\* The plan is replaced as a whole.
LEMMA SetsPlans ==
  ASSUME AgentTypes, NEW p, p = [f \in Files |-> p[f]], \A f \in Files : IsPlan(p[f]),
         document' = [document EXCEPT !.steps = p], Save
  PROVE  /\ IsDocument(journal') /\ IsDocument(document')
         /\ document'.steps = journal'.steps /\ document'.pending = journal'.pending
         /\ journal'.pending = document.pending /\ journal'.steps = p
         /\ \A f \in Files : IsPlan(journal'.steps[f])
<1>1. IsDocument(document)
  BY DEF AgentTypes
<1>2. IsDocument(document') /\ document'.pending = document.pending /\ document'.steps = p
  BY <1>1, DocumentFields
<1> QED BY <1>2 DEF Save

LEMMA RecoveryKept == ASSUME AgentInv, Recover PROVE AgentInv'
<1> DEFINE p == [f \in Files |-> Adopted(f)]
<1>1. /\ at.op = "idle" /\ journal.pending /\ document' = [document EXCEPT !.steps = p] /\ Save
      /\ at' = [op |-> "stage", file |-> 1]
      /\ UNCHANGED <<agentFile, scratch, position, edits, applied, disturbed>>
  BY DEF Recover, Reached
<1>2. /\ AgentTypes /\ PlanIsDurable /\ CatalogBeforeConfig
      /\ \A f \in Files : FileIsSound(f)
      /\ journal.pending /\ ~disturbed => \A f \in Files : FileIsOurs(f)
  BY DEF AgentInv
<1>3. p = [f \in Files |-> p[f]] /\ \A f \in Files : p[f] = Adopted(f)
  OBVIOUS
<1> HIDE DEF p
<1>4. /\ IsDocument(journal') /\ IsDocument(document')
      /\ document'.steps = journal'.steps /\ document'.pending = journal'.pending
      /\ journal'.pending = document.pending /\ journal'.steps = p
      /\ \A f \in Files : IsPlan(journal'.steps[f])
  BY <1>1, <1>2, <1>3, AdoptedIs, SetsPlans
<1>5. \A f \in Files : /\ journal'.steps[f].after = journal.steps[f].after
                       /\ journal'.steps[f].phase = journal.steps[f].phase
                       /\ scratch[f].previous # NoFile => journal'.steps[f].before = scratch[f].previous
  BY <1>2, <1>3, <1>4, AdoptedIs
<1>6. journal'.pending
  BY <1>1, <1>2, <1>4 DEF PlanIsDurable
<1>7. 1 \in Files /\ \A f \in Files : ~(f < 1)
  BY AgentsAssumption DEF Files
<1>8. AgentTypes' /\ PlanIsDurable'
  BY <1>1, <1>2, <1>4, <1>7 DEF AgentTypes, PlanIsDurable, AgentOps
<1>9. \A f \in Files : FileIsSound(f)'
  BY <1>1, <1>2, <1>5, <1>6, <1>7 DEF FileIsSound, Working, Moving, Moved, Publishing, Ending
<1>10. ASSUME ~disturbed PROVE \A f \in Files : FileIsOurs(f)'
  BY <1>1, <1>2, <1>5, <1>7, <1>10 DEF FileIsOurs, Ahead, Working, Moving, Moved, Publishing
<1>11. CatalogBeforeConfig'
  BY <1>1, <1>2, <1>5, CatalogKept
<1> QED BY <1>1, <1>8, <1>9, <1>10, <1>11 DEF AgentInv

LEMMA StageKept == ASSUME AgentInv, NEW i \in Files, StageTargets(i) PROVE AgentInv'
<1> DEFINE a == Adopted(i)
           p == Classify(i, a)
           s == IF p = "after" THEN [a EXCEPT !.phase = "published"] ELSE a
<1>1. /\ at = [op |-> "stage", file |-> i] /\ p # "unknown" /\ document' = SetStep(i, s) /\ Save
      /\ scratch' = IF p = "after" THEN scratch ELSE [scratch EXCEPT ![i].next = a.after]
      /\ position' = [position EXCEPT ![i] = p]
      /\ at' = IF i < TARGETS THEN [op |-> "stage", file |-> i + 1] ELSE [op |-> "boundary", file |-> 1]
      /\ UNCHANGED <<agentFile, edits, applied, disturbed>>
  BY DEF StageTargets, Reached
<1>2. /\ AgentTypes /\ PlanIsDurable /\ CatalogBeforeConfig
      /\ \A f \in Files : FileIsSound(f)
      /\ journal.pending /\ ~disturbed => \A f \in Files : FileIsOurs(f)
  BY DEF AgentInv
<1>3. /\ IsPlan(a) /\ a.after = journal.steps[i].after /\ a.phase = journal.steps[i].phase
      /\ scratch[i].previous # NoFile => a.before = scratch[i].previous
  BY <1>2, AdoptedIs
<1>4. /\ p \in {"before", "after", "gap"}
      /\ p = "gap" => scratch[i].previous # NoFile
      /\ p = "after" => agentFile[i] = a.after
      /\ a.phase = "published" /\ agentFile[i] = a.after => p = "after"
  <2>1. p = IF a.phase = "planned" /\ scratch[i].previous = NoFile THEN "before"
            ELSE IF agentFile[i] = a.after THEN "after"
            ELSE IF agentFile[i] = a.before THEN "before"
            ELSE IF agentFile[i] = NoFile /\ a.before # NoFile /\ scratch[i].previous # NoFile THEN "gap" ELSE "unknown"
    BY DEF Classify
  <2> HIDE DEF p, a
  <2>2. CASE a.phase = "planned" /\ scratch[i].previous = NoFile
    BY <2>1, <2>2
  <2>3. CASE ~(a.phase = "planned" /\ scratch[i].previous = NoFile) /\ agentFile[i] = a.after
    BY <2>1, <2>3
  <2>4. CASE /\ ~(a.phase = "planned" /\ scratch[i].previous = NoFile) /\ agentFile[i] # a.after
             /\ agentFile[i] = a.before
    BY <2>1, <2>4
  <2>5. CASE /\ ~(a.phase = "planned" /\ scratch[i].previous = NoFile) /\ agentFile[i] # a.after
             /\ agentFile[i] # a.before
    BY <1>1, <2>1, <2>5
  <2> QED BY <2>2, <2>3, <2>4, <2>5
<1>5. /\ IsPlan(s) /\ s.after = a.after /\ s.before = a.before
      /\ p = "after" => s.phase = "published"
      /\ p # "after" => s.phase = a.phase
  <2>1. "published" \in Phases
    BY DEF Phases
  <2>2. CASE p = "after"
    BY <1>3, <2>1, <2>2, PlanFields
  <2>3. CASE p # "after"
    BY <1>3, <2>3
  <2> QED BY <2>2, <2>3
<1> HIDE DEF p, a, s
<1>6. /\ IsDocument(journal') /\ IsDocument(document')
      /\ document'.steps = journal'.steps /\ document'.pending = journal'.pending
      /\ journal'.pending = journal.pending
      /\ journal'.steps[i] = s
      /\ \A f \in Files \ {i} : journal'.steps[f] = journal.steps[f]
      /\ \A f \in Files : IsPlan(journal'.steps[f])
  BY <1>1, <1>2, <1>5, SetsPlan
<1>7. /\ scratch' \in [Files -> Directory]
      /\ scratch'[i].next \in {scratch[i].next, a.after} /\ scratch'[i].previous = scratch[i].previous
      /\ \A f \in Files \ {i} : scratch'[f] = scratch[f]
  <2>1. CASE p = "after"
    BY <1>1, <1>2, <2>1 DEF AgentTypes
  <2>2. CASE p # "after"
    <3> DEFINE d == [scratch[i] EXCEPT !.next = a.after]
    <3>1. scratch[i] \in Directory /\ a.after \in Int
      BY <1>2, <1>3 DEF AgentTypes, IsPlan
    <3>2. scratch' = [scratch EXCEPT ![i] = d] /\ d \in Directory /\ d.next = a.after /\ d.previous = scratch[i].previous
      BY <1>1, <2>2, <3>1, OneDirectory, DirectoryFields
    <3> HIDE DEF d
    <3> QED BY <1>2, <3>2, ScratchIs
  <2> QED BY <2>1, <2>2
<1>8. /\ position' \in [Files -> {"before", "after", "gap"}]
      /\ position'[i] = p /\ \A f \in Files \ {i} : position'[f] = position[f]
  BY <1>1, <1>2, <1>4 DEF AgentTypes
<1>9. journal.pending
  BY <1>1, <1>2 DEF FileIsSound
<1>10. /\ Files \subseteq Int /\ 1 \in Files /\ TARGETS \in Int
       /\ \A f \in Files : f <= TARGETS
       /\ at'.file \in Files /\ at'.op \in {"stage", "boundary"}
       /\ at'.op = "stage" => at'.file = i + 1
       /\ at'.op = "boundary" => i = TARGETS
       /\ at' \in [op : AgentOps, file : Files]
  <2>1. Files \subseteq Int /\ 1 \in Files /\ TARGETS \in Int /\ \A f \in Files : f <= TARGETS
    BY AgentsAssumption DEF Files
  <2>2. CASE i < TARGETS
    <3>1. i + 1 \in Files
      BY <2>2, AgentsAssumption DEF Files
    <3> QED BY <1>1, <2>1, <2>2, <3>1 DEF AgentOps
  <2>3. CASE ~(i < TARGETS)
    <3>1. i = TARGETS
      BY <2>3, AgentsAssumption DEF Files
    <3> QED BY <1>1, <2>1, <2>3, <3>1 DEF AgentOps
  <2> QED BY <2>2, <2>3
<1>11. AgentTypes' /\ PlanIsDurable'
  BY <1>1, <1>2, <1>6, <1>7, <1>8, <1>10 DEF AgentTypes, PlanIsDurable
<1>12. ASSUME NEW f \in Files PROVE FileIsSound(f)'
  <2>1. CASE f = i
    <3>1. FileIsSound(i)
      BY <1>2
    <3>2. ~(i >= i + 1)
      BY <1>10
    <3> QED BY <1>1, <1>3, <1>4, <1>5, <1>6, <1>7, <1>8, <1>9, <1>10, <2>1, <3>1, <3>2
         DEF FileIsSound, Working, Moving, Moved, Publishing, Ending
  <2>2. CASE f # i
    <3>1. FileIsSound(f)
      BY <1>2
    <3>2. f \in Int /\ i \in Int /\ (f >= i + 1 => f >= i)
      BY <1>10
    <3>3. /\ scratch'[f] = scratch[f] /\ journal'.steps[f] = journal.steps[f] /\ position'[f] = position[f]
      BY <1>6, <1>7, <1>8, <2>2
    <3> QED BY <1>1, <1>6, <1>9, <1>10, <3>1, <3>2, <3>3
         DEF FileIsSound, Working, Moving, Moved, Publishing, Ending
  <2> QED BY <2>1, <2>2
<1>13. ASSUME ~disturbed, NEW f \in Files PROVE FileIsOurs(f)'
  <2>1. CASE f = i
    <3>1. FileIsOurs(i)
      BY <1>2, <1>9, <1>13
    <3> QED BY <1>1, <1>3, <1>4, <1>5, <1>6, <1>7, <1>8, <1>10, <2>1, <3>1
         DEF FileIsOurs, Working, Moving, Moved, Publishing
  <2>2. CASE f # i
    <3>1. FileIsOurs(f)
      BY <1>2, <1>9, <1>13
    <3>2. (f < i + 1 => f < i) /\ (f <= TARGETS /\ i = TARGETS => f < i)
      BY <1>10, <2>2
    <3>3. /\ scratch'[f] = scratch[f] /\ journal'.steps[f] = journal.steps[f] /\ position'[f] = position[f]
      BY <1>6, <1>7, <1>8, <2>2
    <3> QED BY <1>1, <1>10, <3>1, <3>2, <3>3 DEF FileIsOurs, Ahead, Working, Moving, Moved, Publishing
  <2> QED BY <2>1, <2>2
<1>14. CatalogBeforeConfig'
  <2>1. \A f \in Files : /\ journal'.steps[f].after = journal.steps[f].after
                         /\ journal.steps[f].phase = "published" => journal'.steps[f].phase = "published"
    BY <1>3, <1>5, <1>6
  <2> QED BY <1>1, <1>2, <1>9, <2>1, CatalogKept
<1> QED BY <1>1, <1>11, <1>12, <1>13, <1>14 DEF AgentInv

LEMMA BoundaryKept == ASSUME AgentInv, Boundary PROVE AgentInv'
<1> DEFINE fresh == {f \in Files : /\ position[f] # "after" /\ AgentStep(f).phase = "planned"
                                   /\ scratch[f].previous = NoFile}
           p == [f \in Files |-> IF f \in fresh THEN [AgentStep(f) EXCEPT !.before = agentFile[f]] ELSE AgentStep(f)]
<1>1. /\ at.op = "boundary" /\ document' = [document EXCEPT !.steps = p] /\ Save
      /\ position' = [f \in Files |-> IF f \in fresh THEN "before" ELSE position[f]]
      /\ at' = [op |-> "step", file |-> 1]
      /\ UNCHANGED <<agentFile, scratch, edits, applied, disturbed>>
  BY DEF Boundary, Reached
<1>2. /\ AgentTypes /\ PlanIsDurable /\ CatalogBeforeConfig
      /\ \A f \in Files : FileIsSound(f)
      /\ journal.pending /\ ~disturbed => \A f \in Files : FileIsOurs(f)
  BY DEF AgentInv
<1>3. /\ p = [f \in Files |-> p[f]]
      /\ \A f \in Files : /\ f \in fresh => p[f] = [AgentStep(f) EXCEPT !.before = agentFile[f]]
                          /\ f \notin fresh => p[f] = AgentStep(f)
                          /\ f \in fresh => position[f] # "after" /\ AgentStep(f).phase = "planned"
                                            /\ scratch[f].previous = NoFile
  OBVIOUS
<1> HIDE DEF p, fresh
<1>4. \A f \in Files : /\ IsPlan(p[f]) /\ p[f].after = journal.steps[f].after /\ p[f].phase = journal.steps[f].phase
                       /\ scratch[f].previous # NoFile => p[f].before = journal.steps[f].before
  <2> SUFFICES ASSUME NEW f \in Files
               PROVE  /\ IsPlan(p[f]) /\ p[f].after = journal.steps[f].after /\ p[f].phase = journal.steps[f].phase
                      /\ scratch[f].previous # NoFile => p[f].before = journal.steps[f].before
    OBVIOUS
  <2>1. AgentStep(f) = journal.steps[f] /\ IsPlan(journal.steps[f]) /\ agentFile[f] \in Int
    BY <1>2 DEF AgentTypes, PlanIsDurable, AgentStep
  <2>2. CASE f \in fresh
    <3>1. p[f] = [journal.steps[f] EXCEPT !.before = agentFile[f]] /\ scratch[f].previous = NoFile
      BY <1>3, <2>1, <2>2
    <3> QED BY <2>1, <3>1, PlanFields
  <2>3. CASE f \notin fresh
    BY <1>3, <2>1, <2>3
  <2> QED BY <2>2, <2>3
<1>5. /\ IsDocument(journal') /\ IsDocument(document')
      /\ document'.steps = journal'.steps /\ document'.pending = journal'.pending
      /\ journal'.pending = document.pending /\ journal'.steps = p
      /\ \A f \in Files : IsPlan(journal'.steps[f])
  BY <1>1, <1>2, <1>3, <1>4, SetsPlans
<1>6. journal.pending /\ journal'.pending
  <2>1. 1 \in Files
    BY AgentsAssumption DEF Files
  <2> QED BY <1>1, <1>2, <1>5, <2>1 DEF PlanIsDurable, FileIsSound
<1>7. 1 \in Files /\ \A f \in Files : ~(f < 1)
  BY AgentsAssumption DEF Files
<1>8. /\ position' \in [Files -> {"before", "after", "gap"}]
      /\ \A f \in Files : /\ position'[f] = "before" \/ position'[f] = position[f]
                          /\ position'[f] = "after" <=> position[f] = "after"
  BY <1>1, <1>2, <1>3 DEF AgentTypes
<1>9. AgentTypes' /\ PlanIsDurable'
  BY <1>1, <1>2, <1>5, <1>7, <1>8 DEF AgentTypes, PlanIsDurable, AgentOps
<1>10. ASSUME NEW f \in Files PROVE FileIsSound(f)'
  BY <1>1, <1>2, <1>4, <1>5, <1>6, <1>7, <1>8 DEF FileIsSound, Working, Moving, Moved, Publishing, Ending
<1>11. ASSUME ~disturbed, NEW f \in Files PROVE FileIsOurs(f)'
  BY <1>1, <1>2, <1>4, <1>5, <1>6, <1>8, <1>11 DEF FileIsOurs, Ahead, Working, Moving, Moved, Publishing
<1>12. CatalogBeforeConfig'
  BY <1>1, <1>2, <1>4, <1>5, <1>6, CatalogKept
<1> QED BY <1>1, <1>9, <1>10, <1>11, <1>12 DEF AgentInv

LEMMA EnterKept == ASSUME AgentInv, NEW i \in Files, EnterTarget(i) PROVE AgentInv'
<1>1. /\ at = [op |-> "step", file |-> i]
      /\ UNCHANGED <<agentFile, scratch, journal, document, position, edits, applied, disturbed>>
      /\ at' = CASE position[i] = "after" -> IF i < TARGETS THEN [op |-> "step", file |-> i + 1]
                                             ELSE [op |-> "verify", file |-> 1]
                 [] position[i] = "before" -> [op |-> "read", file |-> i]
                 [] position[i] = "gap" -> [op |-> "archive", file |-> i]
  BY DEF EnterTarget, Order, Reached
<1>2. /\ AgentTypes /\ PlanIsDurable /\ CatalogBeforeConfig
      /\ \A f \in Files : FileIsSound(f)
      /\ journal.pending /\ ~disturbed => \A f \in Files : FileIsOurs(f)
  BY DEF AgentInv
<1>3. /\ Files \subseteq Int /\ 1 \in Files /\ TARGETS \in Int /\ \A f \in Files : f <= TARGETS
      /\ i < TARGETS => i + 1 \in Files
  BY AgentsAssumption DEF Files
<1>4. /\ position[i] \in {"before", "after", "gap"}
      /\ \/ position[i] = "after" /\ i < TARGETS /\ at' = [op |-> "step", file |-> i + 1]
         \/ position[i] = "after" /\ ~(i < TARGETS) /\ at' = [op |-> "verify", file |-> 1]
         \/ position[i] = "before" /\ at' = [op |-> "read", file |-> i]
         \/ position[i] = "gap" /\ at' = [op |-> "archive", file |-> i]
  <2>1. position[i] \in {"before", "after", "gap"}
    BY <1>2 DEF AgentTypes
  <2>2. CASE position[i] = "after" /\ i < TARGETS
    BY <1>1, <2>2
  <2>3. CASE position[i] = "after" /\ ~(i < TARGETS)
    BY <1>1, <2>3
  <2>4. CASE position[i] = "before"
    BY <1>1, <2>4
  <2>5. CASE position[i] = "gap"
    BY <1>1, <2>5
  <2> QED BY <2>1, <2>2, <2>3, <2>4, <2>5
<1>5. at' \in [op : AgentOps, file : Files]
  BY <1>3, <1>4 DEF AgentOps, Working, Moving, Moved, Ending
<1>6. AgentTypes' /\ PlanIsDurable'
  BY <1>1, <1>2, <1>5 DEF AgentTypes, PlanIsDurable
<1>7. journal.pending
  BY <1>1, <1>2 DEF FileIsSound
<1>8. ASSUME NEW f \in Files PROVE FileIsSound(f)'
  <2>1. FileIsSound(f) /\ FileIsSound(i)
    BY <1>2
  <2>2. f \in Int /\ i \in Int /\ (f < i + 1 => f < i \/ f = i) /\ (~(i < TARGETS) => f < i \/ f = i) /\ ~(i < i)
    BY <1>3
  <2>3. CASE position[i] = "after" /\ i < TARGETS /\ at' = [op |-> "step", file |-> i + 1]
    BY <1>1, <1>7, <2>1, <2>2, <2>3 DEF FileIsSound, Working, Moving, Moved, Publishing, Ending
  <2>4. CASE position[i] = "after" /\ ~(i < TARGETS) /\ at' = [op |-> "verify", file |-> 1]
    BY <1>1, <1>7, <2>1, <2>2, <2>4 DEF FileIsSound, Working, Moving, Moved, Publishing, Ending
  <2>5. CASE position[i] = "before" /\ at' = [op |-> "read", file |-> i]
    BY <1>1, <1>7, <2>1, <2>2, <2>5 DEF FileIsSound, Working, Moving, Moved, Publishing, Ending
  <2>6. CASE position[i] = "gap" /\ at' = [op |-> "archive", file |-> i]
    BY <1>1, <1>7, <2>1, <2>2, <2>6 DEF FileIsSound, Working, Moving, Moved, Publishing, Ending
  <2> QED BY <1>4, <2>3, <2>4, <2>5, <2>6
<1>9. ASSUME ~disturbed, NEW f \in Files PROVE FileIsOurs(f)'
  <2>1. FileIsOurs(f) /\ FileIsOurs(i)
    BY <1>2, <1>7, <1>9
  <2>2. f \in Int /\ i \in Int /\ (f >= i + 1 => f >= i) /\ i >= i /\ (f > i => f >= i)
    BY <1>3
  <2> QED BY <1>1, <1>4, <2>1, <2>2 DEF FileIsOurs, Ahead, Working, Moving, Moved, Publishing
<1>10. CatalogBeforeConfig'
  BY <1>1, <1>2 DEF CatalogBeforeConfig
<1> QED BY <1>1, <1>6, <1>8, <1>9, <1>10 DEF AgentInv

LEMMA PublishedKept == ASSUME AgentInv, NEW i \in Files, Published(i) PROVE AgentInv'
<1> DEFINE s == [journal.steps[i] EXCEPT !.phase = "published"]
<1>1. /\ at = [op |-> "published", file |-> i]
      /\ document' = SetStep(i, [AgentStep(i) EXCEPT !.phase = "published"]) /\ Save
      /\ at' = IF i < TARGETS THEN [op |-> "step", file |-> i + 1] ELSE [op |-> "verify", file |-> 1]
      /\ UNCHANGED <<agentFile, scratch, position, edits, applied, disturbed>>
  BY DEF Published, Order, Reached
<1>2. /\ AgentTypes /\ PlanIsDurable /\ CatalogBeforeConfig
      /\ \A f \in Files : FileIsSound(f)
      /\ journal.pending /\ ~disturbed => \A f \in Files : FileIsOurs(f)
  BY DEF AgentInv
<1>3. IsPlan(s) /\ s.before = journal.steps[i].before /\ s.after = journal.steps[i].after /\ s.phase = "published"
  <2>1. "published" \in Phases /\ IsPlan(journal.steps[i])
    BY <1>2 DEF Phases, AgentTypes
  <2> QED BY <2>1, PlanFields
<1>4. document' = SetStep(i, s)
  BY <1>1, <1>2 DEF PlanIsDurable, AgentStep
<1> HIDE DEF s
<1>5. /\ IsDocument(journal') /\ IsDocument(document')
      /\ document'.steps = journal'.steps /\ document'.pending = journal'.pending
      /\ journal'.pending = journal.pending
      /\ journal'.steps[i] = s
      /\ \A f \in Files \ {i} : journal'.steps[f] = journal.steps[f]
      /\ \A f \in Files : IsPlan(journal'.steps[f])
  BY <1>1, <1>2, <1>3, <1>4, SetsPlan
<1>6. \A f \in Files : /\ journal'.steps[f].before = journal.steps[f].before
                       /\ journal'.steps[f].after = journal.steps[f].after
                       /\ f = i => journal'.steps[f].phase = "published"
                       /\ f # i => journal'.steps[f].phase = journal.steps[f].phase
  BY <1>3, <1>5
<1>7. journal.pending
  BY <1>1, <1>2 DEF FileIsSound, Working, Publishing
<1>8. /\ Files \subseteq Int /\ 1 \in Files /\ TARGETS \in Int /\ \A f \in Files : f <= TARGETS
      /\ i < TARGETS => i + 1 \in Files
  BY AgentsAssumption DEF Files
<1>9. at' \in [op : AgentOps, file : Files]
  BY <1>1, <1>8 DEF AgentOps, Ending
<1>10. AgentTypes' /\ PlanIsDurable'
  BY <1>1, <1>2, <1>5, <1>9 DEF AgentTypes, PlanIsDurable
<1>11. ASSUME NEW f \in Files PROVE FileIsSound(f)'
  <2>1. FileIsSound(f)
    BY <1>2
  <2>2. f \in Int /\ i \in Int /\ (f < i + 1 => f < i \/ f = i) /\ (~(i < TARGETS) => f < i \/ f = i)
    BY <1>8
  <2>3. CASE i < TARGETS
    BY <1>1, <1>5, <1>6, <1>7, <2>1, <2>2, <2>3 DEF FileIsSound, Working, Moving, Moved, Publishing, Ending
  <2>4. CASE ~(i < TARGETS)
    BY <1>1, <1>5, <1>6, <1>7, <2>1, <2>2, <2>4 DEF FileIsSound, Working, Moving, Moved, Publishing, Ending
  <2> QED BY <2>3, <2>4
<1>12. ASSUME ~disturbed, NEW f \in Files PROVE FileIsOurs(f)'
  <2>1. FileIsOurs(f) /\ FileIsSound(f)
    BY <1>2, <1>7, <1>12
  <2>2. f \in Int /\ i \in Int /\ (f >= i + 1 => f > i) /\ ~(i > i) /\ ~(i >= i + 1)
    BY <1>8
  <2>3. at' = [op |-> "step", file |-> i + 1] \/ at' = [op |-> "verify", file |-> 1]
    BY <1>1
  <2> QED BY <1>1, <1>6, <1>7, <2>1, <2>2, <2>3 DEF FileIsOurs, FileIsSound, Ahead, Working, Moving, Moved, Publishing
<1>13. CatalogBeforeConfig'
  BY <1>1, <1>2, <1>6, <1>7, CatalogKept
<1> QED BY <1>1, <1>10, <1>11, <1>12, <1>13 DEF AgentInv

LEMMA VerifyKept == ASSUME AgentInv, Verify PROVE AgentInv'
<1>1. /\ at.op = "verify" /\ \E x : document' = [document EXCEPT !.expected = x]
      /\ at' = [op |-> "cleanup", file |-> 1]
      /\ UNCHANGED <<agentFile, scratch, journal, position, edits, applied, disturbed>>
  BY DEF Verify, Reached
<1>2. /\ AgentTypes /\ PlanIsDurable /\ CatalogBeforeConfig
      /\ \A f \in Files : FileIsSound(f)
      /\ journal.pending /\ ~disturbed => \A f \in Files : FileIsOurs(f)
  BY DEF AgentInv
<1>3. IsDocument(document') /\ document'.steps = document.steps /\ document'.pending = document.pending
  <2>1. IsDocument(document)
    BY <1>2 DEF AgentTypes
  <2>2. PICK x : document' = [document EXCEPT !.expected = x]
    BY <1>1
  <2> QED BY <2>1, <2>2, DocumentFields
<1>4. 1 \in Files /\ \A f \in Files : ~(f < 1)
  BY AgentsAssumption DEF Files
<1>5. AgentTypes' /\ PlanIsDurable'
  BY <1>1, <1>2, <1>3, <1>4 DEF AgentTypes, PlanIsDurable, AgentOps, Ending
<1>6. \A f \in Files : FileIsSound(f)'
  BY <1>1, <1>2, <1>4 DEF FileIsSound, Working, Moving, Moved, Publishing, Ending
<1>7. ASSUME journal.pending, ~disturbed PROVE \A f \in Files : FileIsOurs(f)'
  BY <1>1, <1>2, <1>7 DEF FileIsOurs, Ahead, Working, Moving, Moved, Publishing
<1>8. CatalogBeforeConfig'
  BY <1>1, <1>2 DEF CatalogBeforeConfig
<1> QED BY <1>1, <1>5, <1>6, <1>7, <1>8 DEF AgentInv

LEMMA CleanupKept == ASSUME AgentInv, NEW i \in Files, Cleanup(i) PROVE AgentInv'
<1>1. /\ at = [op |-> "cleanup", file |-> i] /\ scratch' = [scratch EXCEPT ![i] = EmptyScratch]
      /\ document' = document \/ \E x : document' = [document EXCEPT !.owned[i] = x]
      /\ at' = IF i < TARGETS THEN [op |-> "cleanup", file |-> i + 1] ELSE [op |-> "complete", file |-> 1]
      /\ UNCHANGED <<agentFile, journal, position, edits, applied, disturbed>>
  BY DEF Cleanup, Reached
<1>2. /\ AgentTypes /\ PlanIsDurable /\ CatalogBeforeConfig
      /\ \A f \in Files : FileIsSound(f)
      /\ journal.pending /\ ~disturbed => \A f \in Files : FileIsOurs(f)
  BY DEF AgentInv
<1>3. IsDocument(document') /\ document'.steps = document.steps /\ document'.pending = document.pending
  <2>1. IsDocument(document)
    BY <1>2 DEF AgentTypes
  <2>2. CASE \E x : document' = [document EXCEPT !.owned[i] = x]
    <3>1. PICK x : document' = [document EXCEPT !.owned[i] = x]
      BY <2>2
    <3> QED BY <2>1, <3>1, DocumentFields
  <2> QED BY <1>1, <2>1, <2>2
<1>4. /\ scratch' \in [Files -> Directory] /\ scratch'[i].next = NoFile /\ scratch'[i].previous = NoFile
      /\ \A f \in Files \ {i} : scratch'[f] = scratch[f]
  <2>1. EmptyScratch \in Directory /\ EmptyScratch.next = NoFile /\ EmptyScratch.previous = NoFile
    BY DEF EmptyScratch, Directory, Shares, NoFile
  <2> QED BY <1>1, <1>2, <2>1, ScratchIs
<1>5. /\ Files \subseteq Int /\ 1 \in Files /\ TARGETS \in Int /\ \A f \in Files : f <= TARGETS
      /\ i < TARGETS => i + 1 \in Files
  BY AgentsAssumption DEF Files
<1>6. /\ at' \in [op : AgentOps, file : Files]
      /\ at' = [op |-> "cleanup", file |-> i + 1] \/ (at' = [op |-> "complete", file |-> 1] /\ ~(i < TARGETS))
  BY <1>1, <1>5 DEF AgentOps, Ending
<1>7. AgentTypes' /\ PlanIsDurable'
  BY <1>1, <1>2, <1>3, <1>4, <1>6 DEF AgentTypes, PlanIsDurable
<1>8. ASSUME NEW f \in Files PROVE FileIsSound(f)'
  <2>1. FileIsSound(f)
    BY <1>2
  <2>2. f \in Int /\ i \in Int /\ (f < i + 1 => f < i \/ f = i) /\ (~(i < TARGETS) => f < i \/ f = i)
    BY <1>5
  <2>3. CASE f = i
    BY <1>1, <1>4, <1>6, <2>1, <2>2, <2>3 DEF FileIsSound, Working, Moving, Moved, Publishing, Ending
  <2>4. CASE f # i
    BY <1>1, <1>4, <1>6, <2>1, <2>2, <2>4 DEF FileIsSound, Working, Moving, Moved, Publishing, Ending
  <2> QED BY <2>3, <2>4
<1>9. ASSUME journal.pending, ~disturbed PROVE \A f \in Files : FileIsOurs(f)'
  BY <1>1, <1>2, <1>4, <1>6, <1>9 DEF FileIsOurs, Ahead, Working, Moving, Moved, Publishing
<1>10. CatalogBeforeConfig'
  BY <1>1, <1>2 DEF CatalogBeforeConfig
<1> QED BY <1>1, <1>7, <1>8, <1>9, <1>10 DEF AgentInv

LEMMA NoPlan == IsPlan(NoStep)
BY DEF IsPlan, NoStep, NoFile, Phases

LEMMA CompleteKept == ASSUME AgentInv, Complete PROVE AgentInv'
<1> DEFINE own == [f \in Files |-> Trimmed(f, RETAIN)]
<1>1. /\ at.op = "complete" /\ at' = [op |-> "idle", file |-> 1]
      /\ document' = [document EXCEPT !.pending = FALSE, !.owned = own, !.steps = [f \in Files |-> NoStep]]
      /\ journal' = document' /\ position' = [f \in Files |-> "before"] /\ disturbed' = FALSE
      /\ UNCHANGED <<agentFile, scratch, edits, applied>>
  BY DEF Complete, Idle, Save
<1> HIDE DEF own
<1>2. AgentTypes /\ PlanIsDurable /\ \A f \in Files : FileIsSound(f)
  BY DEF AgentInv
<1>3. IsDocument(document') /\ document'.pending = FALSE /\ document'.steps = [f \in Files |-> NoStep]
  <2>1. document = [managed |-> document.managed, pending |-> document.pending, expected |-> document.expected,
                    owned |-> document.owned, steps |-> document.steps]
    BY <1>2 DEF AgentTypes, IsDocument
  <2>2. document' = [managed |-> document.managed, pending |-> FALSE, expected |-> document.expected,
                     owned |-> own, steps |-> [f \in Files |-> NoStep]]
    BY <1>1, <2>1
  <2> QED BY <2>2 DEF IsDocument
<1>4. \A f \in Files : IsPlan(document'.steps[f])
  BY <1>3, NoPlan
<1>5. 1 \in Files
  BY AgentsAssumption DEF Files
<1>6. AgentTypes' /\ PlanIsDurable'
  BY <1>1, <1>2, <1>3, <1>4, <1>5 DEF AgentTypes, PlanIsDurable, AgentOps
<1>7. \A f \in Files : FileIsSound(f)'
  BY <1>1, <1>2, <1>3 DEF FileIsSound
<1> QED BY <1>1, <1>3, <1>6, <1>7 DEF AgentInv, CatalogBeforeConfig

LEMMA CrashKept == ASSUME AgentInv, CrashOrFail PROVE AgentInv'
<1>1. /\ at.op # "idle" /\ at' = [op |-> "idle", file |-> 1] /\ document' = journal /\ journal' = journal
      /\ position' = [f \in Files |-> "before"]
      /\ scratch' \in {scratch} \cup {[scratch EXCEPT ![f].next = Torn] : f \in
                        {g \in Files : at = Reached("stage", g) /\ scratch[g].next = NoFile}}
      /\ UNCHANGED <<agentFile, edits, applied, disturbed>>
  BY DEF CrashOrFail, Idle
<1>2. /\ AgentTypes /\ PlanIsDurable /\ CatalogBeforeConfig
      /\ \A f \in Files : FileIsSound(f)
      /\ journal.pending /\ ~disturbed => \A f \in Files : FileIsOurs(f)
  BY DEF AgentInv
<1>3. /\ scratch' \in [Files -> Directory]
      /\ \A f \in Files : scratch'[f].next \in {scratch[f].next, Torn} /\ scratch'[f].previous = scratch[f].previous
  <2>1. CASE scratch' = scratch
    BY <1>2, <2>1 DEF AgentTypes
  <2>2. ASSUME NEW f \in Files, scratch' = [scratch EXCEPT ![f].next = Torn]
        PROVE  <1>3
    <3> DEFINE d == [scratch[f] EXCEPT !.next = Torn]
    <3>1. scratch[f] \in Directory /\ Torn \in Int
      BY <1>2 DEF AgentTypes, Torn
    <3>2. scratch' = [scratch EXCEPT ![f] = d] /\ d \in Directory /\ d.next = Torn /\ d.previous = scratch[f].previous
      BY <2>2, <3>1, OneDirectory, DirectoryFields
    <3> HIDE DEF d
    <3>3. scratch' \in [Files -> Directory] /\ scratch'[f] = d /\ \A g \in Files \ {f} : scratch'[g] = scratch[g]
      BY <1>2, <3>2, ScratchIs
    <3> QED BY <3>2, <3>3
  <2> QED BY <1>1, <2>1, <2>2
<1>4. 1 \in Files
  BY AgentsAssumption DEF Files
<1>5. AgentTypes' /\ PlanIsDurable'
  BY <1>1, <1>2, <1>3, <1>4 DEF AgentTypes, PlanIsDurable, AgentOps
<1>6. journal.pending
  BY <1>1, <1>2, <1>4 DEF FileIsSound
<1>7. \A f \in Files : FileIsSound(f)'
  BY <1>1, <1>2, <1>3, <1>6 DEF FileIsSound, Working, Moving, Moved, Publishing, Ending
<1>8. ASSUME ~disturbed PROVE \A f \in Files : FileIsOurs(f)'
  BY <1>1, <1>2, <1>3, <1>6, <1>8 DEF FileIsOurs, Ahead, Working, Moving, Moved, Publishing
<1>9. CatalogBeforeConfig'
  BY <1>1, <1>2 DEF CatalogBeforeConfig
<1> QED BY <1>1, <1>5, <1>7, <1>8, <1>9 DEF AgentInv

\* The user's edit of a file of a pending transaction takes its promises away.
LEMMA EditKept ==
  ASSUME AgentInv, NEW i \in Files, UserWrites(i) \/ UserDeletes(i)
  PROVE  AgentInv'
<1>1. /\ edits < MAX_EDITS /\ edits' = edits + 1 /\ disturbed' = journal.pending
      /\ scratch' = [scratch EXCEPT ![i].shared = IF @ = "target" THEN "none" ELSE @]
      /\ agentFile' = [agentFile EXCEPT ![i] = edits + 1] \/ agentFile' = [agentFile EXCEPT ![i] = NoFile]
      /\ UNCHANGED <<journal, document, at, position, applied>>
  BY DEF UserWrites, UserDeletes
<1>2. AgentTypes /\ PlanIsDurable /\ \A f \in Files : FileIsSound(f)
  BY DEF AgentInv
<1>3. /\ edits + 1 \in 1..MAX_EDITS /\ edits + 1 <= Generated(applied) /\ NoFile <= Generated(applied)
      /\ edits + 1 \in Int /\ NoFile \in Int
  BY <1>1, <1>2, AgentsAssumption DEF AgentTypes, Generated, NoFile
<1>4. /\ agentFile' \in [Files -> Int] /\ agentFile'[i] <= Generated(applied)
      /\ \A f \in Files \ {i} : agentFile'[f] = agentFile[f]
  <2>1. PICK c \in {edits + 1, NoFile} : agentFile' = [agentFile EXCEPT ![i] = c]
    BY <1>1
  <2> QED BY <1>2, <1>3, <2>1, FileIs
<1>5. /\ scratch' \in [Files -> Directory]
      /\ \A f \in Files : scratch'[f].next = scratch[f].next /\ scratch'[f].previous = scratch[f].previous
  <2> DEFINE d == [scratch[i] EXCEPT !.shared = IF @ = "target" THEN "none" ELSE @]
  <2>1. scratch[i] \in Directory /\ NoFile \in Int
    BY <1>2, <1>3 DEF AgentTypes
  <2>2. scratch' = [scratch EXCEPT ![i] = d] /\ d \in Directory /\ d.next = scratch[i].next /\ d.previous = scratch[i].previous
    BY <1>1, <2>1, OneDirectory, DirectoryFields
  <2> HIDE DEF d
  <2>3. scratch' \in [Files -> Directory] /\ scratch'[i] = d /\ \A g \in Files \ {i} : scratch'[g] = scratch[g]
    BY <1>2, <2>2, ScratchIs
  <2> QED BY <2>2, <2>3
<1>6. journal.pending \in BOOLEAN
  BY <1>2 DEF AgentTypes, IsDocument
<1>7. AgentTypes' /\ PlanIsDurable'
  BY <1>1, <1>2, <1>3, <1>4, <1>5, <1>6 DEF AgentTypes, PlanIsDurable
<1>8. ASSUME NEW f \in Files PROVE FileIsSound(f)'
  <2>1. FileIsSound(f) /\ agentFile'[f] <= Generated(applied)
    BY <1>2, <1>4 DEF FileIsSound
  <2> QED BY <1>1, <1>5, <2>1 DEF FileIsSound
<1>9. ~(journal'.pending /\ ~disturbed')
  BY <1>1
<1> QED BY <1>7, <1>8, <1>9 DEF AgentInv, CatalogBeforeConfig

LEMMA TakesNameKept == ASSUME AgentInv, NEW i \in Files, UserTakesName(i) PROVE AgentInv'
<1>1. /\ edits < MAX_EDITS /\ edits' = edits + 1
      /\ UNCHANGED <<agentFile, scratch, journal, document, at, position, applied, disturbed>>
  BY DEF UserTakesName
<1>2. edits + 1 \in 1..MAX_EDITS
  BY <1>1, AgentsAssumption DEF AgentInv, AgentTypes
<1> QED BY <1>1, <1>2 DEF AgentInv, AgentTypes, PlanIsDurable, FileIsSound, FileIsOurs, Ahead, CatalogBeforeConfig

LEMMA ApplyKept == ASSUME AgentInv, NEW takeover \in BOOLEAN, Apply(takeover) PROVE AgentInv'
<1> DEFINE p == Plan(applied + 1)
<1>1. /\ at.op = "idle" /\ ~journal.pending /\ applied' = applied + 1
      /\ document' = [document EXCEPT !.managed = TRUE, !.pending = TRUE, !.expected = agentFile, !.steps = p]
      /\ journal' = document' /\ at' = [op |-> "stage", file |-> 1] /\ disturbed' = FALSE
      /\ UNCHANGED <<agentFile, scratch, position, edits>>
  BY DEF Apply, Reached, Save
<1>2. AgentTypes /\ PlanIsDurable /\ \A f \in Files : FileIsSound(f)
  BY DEF AgentInv
<1>3. /\ p = [f \in Files |-> p[f]]
      /\ \A f \in Files : p[f] = [before |-> agentFile[f], after |-> Generated(applied + 1),
                                  phase |-> "planned", backup |-> FreeName(f)]
  BY DEF Plan
<1> HIDE DEF p
<1>4. /\ applied \in Nat /\ MAX_EDITS \in Nat
      /\ Generated(applied + 1) \in Int /\ Generated(applied) \in Int /\ Generated(applied) < Generated(applied + 1)
      /\ Generated(applied)' = Generated(applied + 1)
  BY <1>1, <1>2, AgentsAssumption DEF AgentTypes, Generated
<1>5. \A f \in Files : /\ IsPlan(p[f]) /\ p[f].after = Generated(applied + 1) /\ p[f].phase = "planned"
  BY <1>2, <1>3, <1>4 DEF AgentTypes, IsPlan, Phases
<1>6. IsDocument(document') /\ document'.pending = TRUE /\ document'.steps = p
  <2>1. document = [managed |-> document.managed, pending |-> document.pending, expected |-> document.expected,
                    owned |-> document.owned, steps |-> document.steps]
    BY <1>2 DEF AgentTypes, IsDocument
  <2>2. document' = [managed |-> TRUE, pending |-> TRUE, expected |-> agentFile, owned |-> document.owned, steps |-> p]
    BY <1>1, <2>1
  <2> QED BY <1>3, <2>2 DEF IsDocument
<1>7. 1 \in Files /\ (\A f \in Files : ~(f < 1)) /\ TARGETS \in Files
  BY AgentsAssumption DEF Files
<1>8. AgentTypes' /\ PlanIsDurable'
  <2>1. at' \in [op : AgentOps, file : Files] /\ applied' \in Nat /\ disturbed' \in BOOLEAN
    <3>1. at' = [op |-> "stage", file |-> 1] /\ "stage" \in AgentOps /\ 1 \in Files
      BY <1>1, <1>7 DEF AgentOps
    <3>2. at' \in [op : AgentOps, file : Files]
      BY <3>1
    <3>3. applied' = applied + 1 /\ applied \in Nat
      BY <1>1, <1>4
    <3>4. applied' \in Nat
      BY <3>3
    <3>5. disturbed' \in BOOLEAN
      BY <1>1
    <3> QED BY <3>2, <3>4, <3>5
  <2>2. \A f \in Files : IsPlan(document'.steps[f])
    BY <1>5, <1>6
  <2>3. IsDocument(journal') /\ \A f \in Files : IsPlan(journal'.steps[f])
    BY <1>1, <1>6, <2>2
  <2>4. /\ agentFile' \in [Files -> Int] /\ scratch' \in [Files -> Directory]
        /\ position' \in [Files -> {"before", "after", "gap"}] /\ edits' \in 1..MAX_EDITS
    BY <1>1, <1>2 DEF AgentTypes
  <2> QED BY <1>1, <1>6, <2>1, <2>3, <2>4 DEF AgentTypes, PlanIsDurable
<1>9. ASSUME NEW f \in Files
      PROVE  /\ scratch[f].next = NoFile /\ scratch[f].previous = NoFile /\ position[f] = "before"
             /\ agentFile[f] < Generated(applied + 1)
  <2>1. /\ scratch[f].next = NoFile /\ scratch[f].previous = NoFile /\ position[f] = "before"
        /\ agentFile[f] <= Generated(applied) /\ agentFile[f] \in Int
    BY <1>1, <1>2 DEF FileIsSound, AgentTypes
  <2>2. agentFile[f] < Generated(applied + 1)
    BY <1>4, <2>1
  <2> QED BY <2>1, <2>2
<1>10. ASSUME NEW f \in Files PROVE FileIsSound(f)'
  <2>1. agentFile[f] <= Generated(applied + 1)
    BY <1>2, <1>4, <1>9 DEF AgentTypes
  <2> QED BY <1>1, <1>4, <1>5, <1>6, <1>7, <1>9, <2>1 DEF FileIsSound, Working, Moving, Moved, Publishing, Ending
<1>11. ASSUME NEW f \in Files PROVE FileIsOurs(f)'
  BY <1>1, <1>5, <1>6, <1>7, <1>9 DEF FileIsOurs, Ahead, Working, Moving, Moved, Publishing
<1>12. CatalogBeforeConfig'
  <2>1. agentFile[TARGETS] < Generated(applied + 1) /\ agentFile[TARGETS] \in Int
    BY <1>2, <1>7, <1>9 DEF AgentTypes
  <2>2. agentFile'[TARGETS] # journal'.steps[TARGETS].after
    BY <1>1, <1>4, <1>5, <1>6, <1>7, <2>1
  <2> QED BY <2>2 DEF CatalogBeforeConfig
<1> QED BY <1>8, <1>10, <1>11, <1>12 DEF AgentInv

-----------------------------------------------------------------------------
LEMMA AgentInitial == AgentsInit => AgentInv
<1> SUFFICES ASSUME AgentsInit PROVE AgentInv
  OBVIOUS
<1>1. /\ agentFile \in [Files -> {NoFile, 1}] /\ scratch = [f \in Files |-> EmptyScratch]
      /\ journal = EmptyDocument /\ document = EmptyDocument /\ at = [op |-> "idle", file |-> 1]
      /\ position = [f \in Files |-> "before"] /\ edits = 1 /\ applied = 0 /\ disturbed = FALSE
  BY DEF AgentsInit, Idle
<1>2. IsDocument(EmptyDocument) /\ ~EmptyDocument.pending /\ EmptyDocument.steps = [f \in Files |-> NoStep]
  BY DEF IsDocument, EmptyDocument
<1>3. EmptyScratch \in Directory /\ EmptyScratch.next = NoFile /\ EmptyScratch.previous = NoFile
  BY DEF EmptyScratch, Directory, Shares, NoFile
<1>4. 1 \in Files /\ NoFile = 0 /\ 1 \in 1..MAX_EDITS /\ 0 \in Nat /\ Generated(0) = MAX_EDITS /\ 1 <= MAX_EDITS /\ 0 <= MAX_EDITS
  BY AgentsAssumption DEF Files, NoFile, Generated
<1>5. AgentTypes /\ PlanIsDurable
  <2>1. agentFile \in [Files -> Int]
    BY <1>1, <1>4
  <2> QED BY <1>1, <1>2, <1>3, <1>4, <2>1, NoPlan DEF AgentTypes, PlanIsDurable, AgentOps
<1>6. \A f \in Files : FileIsSound(f)
  BY <1>1, <1>2, <1>3, <1>4 DEF FileIsSound
<1> QED BY <1>1, <1>2, <1>5, <1>6 DEF AgentInv, CatalogBeforeConfig

LEMMA AgentKept == AgentInv /\ [AgentsNext]_agentVars => AgentInv'
<1> SUFFICES ASSUME AgentInv, [AgentsNext]_agentVars PROVE AgentInv'
  OBVIOUS
<1>1. CASE UNCHANGED agentVars
  BY <1>1 DEF agentVars, AgentInv, AgentTypes, PlanIsDurable, FileIsSound, FileIsOurs, Ahead, CatalogBeforeConfig
<1>2. CASE (\E takeover \in BOOLEAN : Apply(takeover)) \/ Recover \/ Boundary \/ Verify \/ Complete \/ CrashOrFail
  BY <1>2, ApplyKept, RecoveryKept, BoundaryKept, VerifyKept, CompleteKept, CrashKept
<1>3. ASSUME NEW i \in Files,
             \/ StageTargets(i) \/ EnterTarget(i) \/ ReadLatest(i) \/ Move(i) \/ AdoptMoved(i)
             \/ ArchiveStage(i) \/ ArchiveLink(i) \/ ArchiveRecord(i) \/ Archived(i)
             \/ PublishTarget(i) \/ Unlink(i) \/ Published(i) \/ Cleanup(i)
             \/ UserWrites(i) \/ UserDeletes(i) \/ UserTakesName(i)
      PROVE  AgentInv'
  BY <1>3, StageKept, EnterKept, ReadKept, MoveKept, AdoptKept, ArchiveStageKept, ArchiveLinkKept, ArchiveRecordKept,
     ArchivedKept, PublishKept, UnlinkKept, PublishedKept, CleanupKept, EditKept, TakesNameKept
<1> QED BY <1>1, <1>2, <1>3 DEF AgentsNext

\* An application that stopped anywhere shows Codex no configuration without
\* its catalogue and can be taken up again, for any number of applications,
\* edits and crashes (manager.ts:349-387, :458-463).
THEOREM InterruptedResume == AgentsSpec => []ApplicationsResume
<1>1. AgentInv => ApplicationsResume
  <2> SUFFICES ASSUME AgentInv PROVE ApplicationsResume
    OBVIOUS
  <2>1. ASSUME at.op = "idle", journal.pending, ~disturbed, NEW f \in Files, scratch[f].shared # "previous"
        PROVE  Recoverable(f) /\ (Staged(f) \/ scratch[f].next = Torn)
    <3>1. AgentTypes /\ PlanIsDurable /\ FileIsSound(f) /\ FileIsOurs(f)
      BY <2>1 DEF AgentInv
    <3>2. /\ AgentStep(f) = journal.steps[f] /\ IsPlan(journal.steps[f]) /\ IsPlan(Adopted(f))
          /\ Adopted(f).after = journal.steps[f].after /\ Adopted(f).phase = journal.steps[f].phase
          /\ scratch[f].previous # NoFile => Adopted(f).before = scratch[f].previous
      BY <3>1, AdoptedIs DEF AgentTypes, PlanIsDurable, AgentStep
    <3>3. Displaceable(f)
      BY <2>1, <3>1, <3>2 DEF Displaceable, FileIsOurs
    <3>4. Classify(f, Adopted(f)) # "unknown"
      <4>1. CASE scratch[f].previous = NoFile
        <5>1. journal.steps[f].phase \in {"planned", "published"}
          BY <2>1, <3>1, <3>2, <4>1 DEF FileIsSound, IsPlan, Phases
        <5> QED BY <3>1, <3>2, <4>1, <5>1 DEF Classify, FileIsOurs
      <4>2. CASE scratch[f].previous # NoFile
        BY <3>1, <3>2, <4>2 DEF Classify, FileIsOurs
      <4> QED BY <4>1, <4>2
    <3>5. scratch[f].next \in {NoFile, Torn, AgentStep(f).after}
      BY <2>1, <3>1, <3>2 DEF FileIsSound
    <3> QED BY <3>3, <3>4, <3>5 DEF Recoverable, Staged
  <2> QED BY <2>1 DEF AgentInv, ApplicationsResume, RecoveryResumes
<1> QED BY <1>1, AgentInitial, AgentKept, PTL DEF AgentsSpec

------------------------------------------------------------------------------
(* What becomes of the user's contents.  Each list of owned backups names   *)
(* the contents displaced last, in order; those whose backups were trimmed  *)
(* come first in it, and the one that no list names yet is still in the     *)
(* scratch directory it was moved to.                                       *)

Entry == [name : Names, content : Int \ {NoFile}]
Intent(f) == journal.steps[f]
Lists(f) == {journal.owned[f], document.owned[f]}
IsForeign(f, n) == \E b \in foreign : b[1] = f /\ b[2] = n
Ordered(list) == \A j, k \in DOMAIN list : j < k => list[j].name < list[k].name

\* The list names the backup that the pending step makes.
Filed(f, list) == journal.pending /\ \E k \in DOMAIN list : list[k].name = Intent(f).backup
Unlisted(f, list) == IF scratch[f].previous # NoFile /\ ~Filed(f, list) THEN 1 ELSE 0
Listed(f, list) == Len(displaced[f]) - Unlisted(f, list)

\* The backups of the first `gone` entries are no longer there, the others are.
Trimmable(f, list, gone) ==
    \A k \in DOMAIN list : backups[f][list[k].name] = list[k].content <=> k > gone
Enough(f, list, left) == left = Listed(f, list) \/ left >= RETAIN - Unlisted(f, list)

ListIsTrue(f, list) ==
    /\ list \in Seq(Entry) /\ Ordered(list)
    /\ Len(list) <= Listed(f, list)
    /\ \A k \in DOMAIN list : /\ list[k].content = displaced[f][Listed(f, list) - Len(list) + k]
                              /\ ~IsForeign(f, list[k].name)
    /\ \E gone \in 0 .. Len(list) : Trimmable(f, list, gone) /\ Enough(f, list, Len(list) - gone)

\* What the pending step and a list say of each other.
StepFits(f, list) ==
    LET s == Intent(f)  there == backups[f][s.backup]  previous == scratch[f].previous
    IN  /\ \A k \in DOMAIN list : list[k].name <= s.backup
        /\ Filed(f, list) =>
             /\ list[Len(list)].content = s.before
             /\ previous = NoFile => s.phase = "published"
             /\ previous # NoFile => s.before = previous
             /\ agentFile[f] = s.before => agentFile[f] = s.after
        /\ there # NoFile => \/ IsForeign(f, s.backup)
                             \/ there = s.before /\ (previous = s.before \/ Filed(f, list))
        /\ agentFile[f] = s.after /\ s.before # NoFile /\ ~(s.phase = "planned" /\ previous = NoFile)
             => Filed(f, list)

\* What the step the transaction stands at relies on.
Landing(f) ==
    \/ position[f] = "after" \/ at.op \in Ending
    \/ at.op \in Publishing /\ f = at.file
    \/ at.op \in Working \cup {"step"} /\ f < at.file
Coming(f) == Ahead(f) \/ (at.op \in Moving /\ f = at.file)

StepIsReached(f, list) ==
    LET s == Intent(f)
    IN  /\ Landing(f) /\ s.before # NoFile => Filed(f, list)
        /\ Coming(f) /\ position[f] = "before" => ~Filed(f, list) /\ (s.phase # "planned" => agentFile[f] # s.after)
        /\ at = Reached("adopt", f) => ~Filed(f, list)
        /\ at = Reached("archived", f) => Filed(f, list)
        /\ at = Reached("move", f) => s.before # NoFile /\ scratch[f].previous = NoFile
        /\ at = Reached("record", f) => backups[f][s.backup] = s.before

WasWritten(c) == c = NoFile \/ c \in 1 .. edits \/ (c > MAX_EDITS /\ c <= Generated(applied))

ContentsAreNew(f) ==
    /\ WasWritten(agentFile[f]) /\ WasWritten(scratch[f].previous)
    /\ scratch[f].previous # NoFile => displaced[f] # <<>> /\ scratch[f].previous = displaced[f][Len(displaced[f])]
    /\ \A n \in Names : backups[f][n] # NoFile => n < applied + edits
    /\ \A b \in foreign : b[3] # agentFile[f] /\ b[3] # scratch[f].previous

StepIsNew(f) ==
    LET s == Intent(f)
    IN  /\ WasWritten(s.before)
        /\ s.backup \in Names /\ s.backup < applied + edits
        /\ IsForeign(f, s.backup) => s.backup + 1 < applied + edits
        /\ \A n \in Names : backups[f][n] # NoFile => n <= s.backup
        /\ \A b \in foreign : b[3] # s.before
        /\ scratch[f].previous # NoFile => s.before # NoFile
        /\ scratch[f].previous # NoFile /\ agentFile[f] = scratch[f].previous => agentFile[f] = s.after

EditTypes ==
    /\ displaced \in [Files -> Seq(Int \ {NoFile})]
    /\ backups \in [Files -> [Names -> Int]]
    /\ journal.owned \in [Files -> Seq(Entry)] /\ document.owned \in [Files -> Seq(Entry)]
    /\ foreign \subseteq Files \X Names \X (1 .. edits)
    /\ applied \in 0 .. MAX_APPLIES /\ (journal.pending => applied > 0)

FileIsKept(f) ==
    /\ ContentsAreNew(f) /\ (journal.pending => StepIsNew(f))
    /\ at # Reached("record", f) => document.owned[f] = journal.owned[f]
    /\ \A list \in Lists(f) :
         ListIsTrue(f, list) /\ (journal.pending => StepFits(f, list)) /\ StepIsReached(f, list)

ForeignAreKept == \A b \in foreign : backups[b[1]][b[2]] = b[3]

EditsInv == EditTypes /\ ForeignAreKept /\ \A f \in Files : FileIsKept(f)

\* Names are the numbers 1 .. NameLimit.
LEMMA NamesAre ==
  /\ Names \subseteq Nat \ {0} /\ \A n \in Nat : n # 0 /\ n < MAX_APPLIES + MAX_EDITS + 2 => n \in Names
  /\ MAX_EDITS \in Nat /\ MAX_APPLIES \in Nat /\ RETAIN \in Nat /\ RETAIN >= 1
BY AgentsAssumption DEF Names

\* The entries that are still there are the last ones of the list.
LEMMA LastOnesRemain ==
  ASSUME NEW f \in Files, document.owned[f] \in Seq(Entry), NEW gone \in 0 .. Len(document.owned[f]),
         Trimmable(f, document.owned[f], gone)
  PROVE  StillOwned(f) = [j \in 1 .. Len(document.owned[f]) - gone |-> document.owned[f][gone + j]]
<1> DEFINE own == document.owned[f]
           kept == {k \in DOMAIN own : backups[f][own[k].name] = own[k].content}
           Upto(k) == {i \in kept : i <= k}
<1>1. DOMAIN own = 1 .. Len(own) /\ Len(own) \in Nat
  OBVIOUS
<1>2. kept = gone + 1 .. Len(own)
  BY <1>1 DEF Trimmable
<1>3. \A a, b \in Int : Cardinality(a .. b) = IF a > b THEN 0 ELSE b - a + 1
  BY FS_Interval
<1> HIDE DEF own
<1>4. Cardinality(kept) = Len(own) - gone
  <2>1. gone \in Int /\ gone + 1 \in Int /\ Len(own) \in Int /\ gone <= Len(own)
    BY <1>1 DEF own
  <2>2. Cardinality(gone + 1 .. Len(own)) = IF gone + 1 > Len(own) THEN 0 ELSE Len(own) - (gone + 1) + 1
    BY <2>1, FS_Interval
  <2>3. (IF gone + 1 > Len(own) THEN 0 ELSE Len(own) - (gone + 1) + 1) = Len(own) - gone
    BY <2>1
  <2> QED BY <1>2, <2>2, <2>3
<1>5. ASSUME NEW k \in kept PROVE Cardinality(Upto(k)) = k - gone
  <2>1. Upto(k) = gone + 1 .. k
    BY <1>1, <1>2
  <2>2. gone + 1 \in Int /\ k \in Int /\ gone + 1 <= k
    BY <1>1, <1>2
  <2>3. Cardinality(gone + 1 .. k) = k - gone
    BY <1>3, <2>2
  <2> HIDE DEF Upto
  <2> QED BY <2>1, <2>3
<1>6. ASSUME NEW j \in 1 .. Len(own) - gone PROVE (CHOOSE k \in kept : Cardinality(Upto(k)) = j) = gone + j
  <2>1. gone + j \in kept /\ \A k \in kept : Cardinality(Upto(k)) = j <=> k = gone + j
    BY <1>1, <1>2, <1>5
  <2> HIDE DEF kept, Upto
  <2> QED BY <2>1
<1>7. StillOwned(f) = [j \in 1 .. Cardinality(kept) |-> own[CHOOSE k \in kept : Cardinality(Upto(k)) = j]]
  BY DEF StillOwned, own, kept, Upto
<1> HIDE DEF kept, Upto
<1>8. StillOwned(f) = [j \in 1 .. Len(own) - gone |-> own[gone + j]]
  BY <1>4, <1>6, <1>7
<1> QED BY <1>8 DEF own

\* `cut` is where trimming cuts a list of `size` whose first `gone` are forgotten.
CutAt(size, gone, limit, over, cut) ==
  /\ over = IF size - gone > limit THEN size - gone - limit ELSE 0
  /\ cut = gone + over /\ cut <= size /\ gone <= cut
  /\ cut = gone \/ size - cut = limit
  /\ size - cut <= limit
  /\ \A k \in Int : k >= 1 => (k <= size - gone - limit <=> k <= over)
  /\ size - cut = size - gone - over

LEMMA CutIs ==
  ASSUME NEW size \in Nat, NEW gone \in Nat, gone <= size, NEW limit \in Nat
  PROVE  \E over \in Nat, cut \in Nat : CutAt(size, gone, limit, over, cut)
<1> USE DEF CutAt
<1> DEFINE over == IF size - gone > limit THEN size - gone - limit ELSE 0
<1>1. CASE size - gone > limit
  <2>1. over = size - gone - limit /\ over \in Nat
    BY <1>1
  <2> HIDE DEF over
  <2> WITNESS over \in Nat, gone + over \in Nat
  <2> QED BY <1>1, <2>1 DEF over
<1>2. CASE ~(size - gone > limit)
  <2>1. 0 = (IF size - gone > limit THEN size - gone - limit ELSE 0) /\ gone + 0 = gone
    BY <1>2
  <2>2. \A k \in Int : k >= 1 => (k <= size - gone - limit <=> k <= 0)
    BY <1>2
  <2>3. size - gone <= limit
    BY <1>2
  <2> WITNESS 0 \in Nat, gone \in Nat
  <2> QED BY <2>1, <2>2, <2>3
<1> QED BY <1>1, <1>2

\* Trimming keeps the last `limit` of them.
LEMMA TrimKeepsTheLast ==
  ASSUME NEW f \in Files, document.owned[f] \in Seq(Entry), NEW gone \in 0 .. Len(document.owned[f]),
         Trimmable(f, document.owned[f], gone), NEW limit \in Nat
  PROVE  \E cut \in gone .. Len(document.owned[f]) :
            /\ cut = gone \/ Len(document.owned[f]) - cut = limit
            /\ Len(document.owned[f]) - cut <= limit
            /\ Trimmed(f, limit) = [j \in 1 .. Len(document.owned[f]) - cut |-> document.owned[f][cut + j]]
            /\ Excess(f, limit) = {document.owned[f][k].name : k \in gone + 1 .. cut}
<1> DEFINE own == document.owned[f]
           left == StillOwned(f)
<1>1. own \in Seq(Entry) /\ Len(own) \in Nat /\ DOMAIN own = 1 .. Len(own) /\ gone \in Nat /\ gone <= Len(own)
  OBVIOUS
<1>2. left = [j \in 1 .. Len(own) - gone |-> own[gone + j]]
  BY LastOnesRemain
<1>3. /\ Trimmed(f, limit) = SubSeq(left, (IF Len(left) > limit THEN Len(left) - limit ELSE 0) + 1, Len(left))
      /\ Excess(f, limit) = {left[k].name : k \in 1 .. Len(left) - limit}
  BY DEF Trimmed, Excess
<1> HIDE DEF left, own
<1>4. left \in Seq(Entry) /\ Len(left) = Len(own) - gone
  <2>1. \A j \in 1 .. Len(own) - gone : own[gone + j] \in Entry
    BY <1>1
  <2>2. left \in [1 .. Len(own) - gone -> Entry] /\ Len(own) - gone \in Nat
    BY <1>1, <1>2, <2>1
  <2> QED BY <2>2
<1>p. PICK over \in Nat, cut \in Nat : CutAt(Len(own), gone, limit, over, cut)
  BY <1>1, CutIs
<1>5. /\ over = IF Len(own) - gone > limit THEN Len(own) - gone - limit ELSE 0
      /\ cut = gone + over /\ cut <= Len(own) /\ gone <= cut
      /\ cut = gone \/ Len(own) - cut = limit
      /\ Len(own) - cut <= limit
      /\ \A k \in Int : k >= 1 => (k <= Len(own) - gone - limit <=> k <= over)
      /\ Len(own) - cut = Len(own) - gone - over
  BY <1>p DEF CutAt
<1>a. /\ Len(own) \in Nat /\ over \in Nat /\ cut \in Nat /\ gone \in Nat /\ limit \in Nat
      /\ cut = gone + over /\ cut <= Len(own) /\ gone <= cut
  BY <1>1, <1>5
<1>6. Trimmed(f, limit) = SubSeq(left, over + 1, Len(left)) /\ Excess(f, limit) = {left[k].name : k \in 1 .. over}
  <2>1. 1 .. Len(own) - gone - limit = 1 .. over
    <3>1. ASSUME NEW k \in Int PROVE k \in 1 .. Len(own) - gone - limit <=> k \in 1 .. over
      <4>1. k >= 1 => (k <= Len(own) - gone - limit <=> k <= over)
        BY <1>5
      <4> QED BY <1>a, <4>1
    <3>2. 1 .. Len(own) - gone - limit \subseteq Int /\ 1 .. over \subseteq Int
      BY <1>a
    <3> QED BY <3>1, <3>2
  <2>2. Trimmed(f, limit) = SubSeq(left, over + 1, Len(left))
    BY <1>3, <1>4, <1>5
  <2>3. Excess(f, limit) = {left[k].name : k \in 1 .. Len(own) - gone - limit}
    BY <1>3, <1>4
  <2> QED BY <2>1, <2>2, <2>3
<1>7. Trimmed(f, limit) = [j \in 1 .. Len(own) - cut |-> own[cut + j]]
  <2>1. Len(left) - over = Len(own) - cut /\ over + 1 \in Nat /\ Len(left) \in Nat
    BY <1>a, <1>4
  <2>2. SubSeq(left, over + 1, Len(left)) = [j \in 1 .. Len(left) - over |-> left[over + j]]
    BY <1>a, <1>4
  <2>3. ASSUME NEW j \in 1 .. Len(own) - cut PROVE left[over + j] = own[cut + j]
    <3>1. over + j \in 1 .. Len(own) - gone /\ gone + (over + j) = cut + j
      BY <1>a
    <3> QED BY <1>2, <3>1
  <2> QED BY <1>6, <2>1, <2>2, <2>3
<1>8. Excess(f, limit) = {own[k].name : k \in gone + 1 .. cut}
  <2>1. ASSUME NEW k \in 1 .. over PROVE left[k].name = own[gone + k].name /\ gone + k \in gone + 1 .. cut
    <3>1. k \in 1 .. Len(own) - gone /\ gone + k \in gone + 1 .. cut
      BY <1>a
    <3> QED BY <1>2, <3>1
  <2>2. ASSUME NEW k \in gone + 1 .. cut PROVE k - gone \in 1 .. over /\ left[k - gone].name = own[k].name
    <3>1. k - gone \in 1 .. over /\ gone + (k - gone) = k
      BY <1>a
    <3> QED BY <2>1, <3>1
  <2>3. {left[k].name : k \in 1 .. over} = {own[k].name : k \in gone + 1 .. cut}
    <3>1. ASSUME NEW x \in {left[k].name : k \in 1 .. over} PROVE x \in {own[k].name : k \in gone + 1 .. cut}
      <4>1. PICK k \in 1 .. over : x = left[k].name
        OBVIOUS
      <4> QED BY <2>1, <4>1
    <3>2. ASSUME NEW x \in {own[k].name : k \in gone + 1 .. cut} PROVE x \in {left[k].name : k \in 1 .. over}
      <4>1. PICK k \in gone + 1 .. cut : x = own[k].name
        OBVIOUS
      <4> QED BY <2>2, <4>1
    <3> QED BY <3>1, <3>2
  <2> QED BY <1>6, <2>3
<1>9. cut \in gone .. Len(own)
  BY <1>a
<1> QED BY <1>5, <1>7, <1>8, <1>9 DEF own

\* What trimming makes of a list and of the backups it names.
Cut(f, limit, list, cut) ==
    /\ Trimmed(f, limit) \in Seq(Entry) /\ Ordered(Trimmed(f, limit))
    /\ Len(Trimmed(f, limit)) = Len(list) - cut
    /\ \A j \in 1 .. Len(list) - cut : Trimmed(f, limit)[j] = list[cut + j]
    /\ Len(list) - cut <= limit
    /\ Enough(f, list, Len(list) - cut) \/ Len(list) - cut = limit
    /\ Untrimmed(f, limit) \in [Names -> Int]
    /\ \A n \in Names : \/ Untrimmed(f, limit)[n] = backups[f][n]
                        \/ Untrimmed(f, limit)[n] = NoFile /\ \E k \in DOMAIN list : k <= cut /\ list[k].name = n
    /\ \A k \in DOMAIN list : Untrimmed(f, limit)[list[k].name] = list[k].content <=> k > cut

LEMMA TrimmedLists ==
  ASSUME EditTypes, NEW f \in Files, ListIsTrue(f, document.owned[f]), NEW limit \in Nat
  PROVE  \E cut \in 0 .. Len(document.owned[f]) : Cut(f, limit, document.owned[f], cut)
<1> DEFINE own == document.owned[f]
<1>1. /\ own \in Seq(Entry) /\ Len(own) \in Nat /\ DOMAIN own = 1 .. Len(own) /\ Ordered(own)
      /\ \A k \in DOMAIN own : own[k] \in Entry /\ own[k].name \in Names /\ own[k].name \in Nat /\ own[k].content # NoFile
  <2>1. own \in Seq(Entry) /\ Ordered(own)
    BY DEF ListIsTrue
  <2>2. Len(own) \in Nat /\ DOMAIN own = 1 .. Len(own) /\ \A k \in DOMAIN own : own[k] \in Entry
    BY <2>1
  <2>3. \A e \in Entry : e.name \in Names /\ e.name \in Nat /\ e.content # NoFile
    BY NamesAre DEF Entry
  <2> QED BY <2>1, <2>2, <2>3
<1>2. PICK gone \in 0 .. Len(own) : Trimmable(f, own, gone) /\ Enough(f, own, Len(own) - gone)
  BY DEF ListIsTrue
<1>3. PICK cut \in gone .. Len(own) :
         /\ cut = gone \/ Len(own) - cut = limit
         /\ Len(own) - cut <= limit
         /\ Trimmed(f, limit) = [j \in 1 .. Len(own) - cut |-> own[cut + j]]
         /\ Excess(f, limit) = {own[k].name : k \in gone + 1 .. cut}
  BY <1>1, <1>2, TrimKeepsTheLast
<1> DEFINE T == Trimmed(f, limit)
           U == Untrimmed(f, limit)
<1> HIDE DEF own
<1>4. cut \in Nat /\ gone \in Nat /\ gone <= cut /\ cut <= Len(own) /\ Len(own) - cut \in Nat
  BY <1>1, <1>2, <1>3
<1>5. ASSUME NEW j \in 1 .. Len(own) - cut PROVE cut + j \in DOMAIN own
  BY <1>1, <1>4
<1>6. T \in Seq(Entry) /\ Len(T) = Len(own) - cut /\ \A j \in 1 .. Len(own) - cut : T[j] = own[cut + j]
  <2>1. T \in [1 .. Len(own) - cut -> Entry]
    BY <1>1, <1>3, <1>5
  <2>2. T = [j \in 1 .. Len(own) - cut |-> own[cut + j]]
    BY <1>3
  <2> HIDE DEF T
  <2>3. T \in Seq(Entry) /\ Len(T) = Len(own) - cut
    BY <1>4, <2>1
  <2> QED BY <2>2, <2>3
<1>7. Ordered(T)
  <2> SUFFICES ASSUME NEW i \in DOMAIN T, NEW j \in DOMAIN T, i < j PROVE T[i].name < T[j].name
    BY DEF Ordered
  <2>1. i \in 1 .. Len(own) - cut /\ j \in 1 .. Len(own) - cut
    BY <1>6
  <2>2. cut + i \in DOMAIN own /\ cut + j \in DOMAIN own /\ cut + i < cut + j
    BY <1>4, <1>5, <2>1
  <2> QED BY <1>1, <1>6, <2>1, <2>2 DEF Ordered
<1>8. U = [n \in Names |-> IF n \in Excess(f, limit) THEN NoFile ELSE backups[f][n]]
  BY DEF Untrimmed
<1> HIDE DEF T, U
<1>9. U \in [Names -> Int]
  BY <1>8 DEF EditTypes, NoFile
<1>10. ASSUME NEW n \in Names
       PROVE  U[n] = backups[f][n] \/ (U[n] = NoFile /\ \E k \in DOMAIN own : k <= cut /\ own[k].name = n)
  <2>1. CASE n \in Excess(f, limit)
    <3>1. PICK k \in gone + 1 .. cut : n = own[k].name
      BY <1>3, <2>1
    <3>2. k \in DOMAIN own /\ k <= cut
      BY <1>1, <1>4
    <3> QED BY <1>8, <2>1, <3>1, <3>2
  <2>2. CASE n \notin Excess(f, limit)
    BY <1>8, <2>2
  <2> QED BY <2>1, <2>2
<1>11. ASSUME NEW k \in DOMAIN own PROVE U[own[k].name] = own[k].content <=> k > cut
  <2>1. k \in Nat /\ k >= 1 /\ own[k].name \in Names /\ own[k].content # NoFile
    BY <1>1
  <2>2. CASE k > cut
    <3>1. own[k].name \notin Excess(f, limit)
      <4> SUFFICES ASSUME NEW j \in gone + 1 .. cut, own[j].name = own[k].name PROVE FALSE
        BY <1>3
      <4>1. j \in DOMAIN own /\ j < k
        BY <1>1, <1>4, <2>1, <2>2
      <4>2. own[j].name < own[k].name
        BY <1>1, <4>1 DEF Ordered
      <4> QED BY <1>1, <4>1, <4>2
    <3>2. k > gone
      BY <1>4, <2>1, <2>2
    <3> QED BY <1>2, <1>8, <2>1, <2>2, <3>1, <3>2 DEF Trimmable
  <2>3. CASE ~(k > cut) /\ k > gone
    <3>1. k \in gone + 1 .. cut
      BY <1>4, <2>1, <2>3
    <3>2. own[k].name \in Excess(f, limit)
      BY <1>3, <3>1
    <3> QED BY <1>8, <2>1, <2>3, <3>2
  <2>4. CASE ~(k > gone)
    <3>1. backups[f][own[k].name] # own[k].content /\ ~(k > cut)
      BY <1>2, <1>4, <2>1, <2>4 DEF Trimmable
    <3> QED BY <1>8, <2>1, <3>1
  <2> QED BY <2>2, <2>3, <2>4
<1>12. Len(own) - cut <= limit /\ (Enough(f, own, Len(own) - cut) \/ Len(own) - cut = limit)
  BY <1>2, <1>3
<1>13. Cut(f, limit, own, cut)
  BY <1>6, <1>7, <1>9, <1>10, <1>11, <1>12 DEF Cut, T, U
<1>14. cut \in 0 .. Len(own)
  BY <1>1, <1>4
<1> QED BY <1>13, <1>14 DEF own

\* The action leaves file f, its backups and the step on it alone.
Untouched(f) ==
    /\ agentFile'[f] = agentFile[f] /\ scratch'[f].previous = scratch[f].previous
    /\ backups'[f] = backups[f] /\ displaced'[f] = displaced[f]
    /\ journal'.steps[f] = journal.steps[f] /\ journal'.pending = journal.pending
    /\ applied' = applied /\ edits' \in Nat /\ edits' >= edits
    /\ \A n : IsForeign(f, n)' = IsForeign(f, n)
    /\ foreign' \subseteq Files \X Names \X Nat
    /\ \A b \in foreign' : b \in foreign \/ (b[3] > edits /\ b[3] <= MAX_EDITS)

\* And writes down no other list than it read.
Copies(f) == journal'.owned[f] \in Lists(f) /\ document'.owned[f] \in Lists(f)

LEMMA ListUntouched ==
  ASSUME NEW f \in Files, NEW list, Untouched(f)
  PROVE  /\ Filed(f, list)' = Filed(f, list) /\ Listed(f, list)' = Listed(f, list)
         /\ ListIsTrue(f, list) => ListIsTrue(f, list)'
         /\ StepFits(f, list) => StepFits(f, list)'
<1>1. /\ Filed(f, list)' = Filed(f, list) /\ \A n : IsForeign(f, n)' = IsForeign(f, n)
      /\ Intent(f)' = Intent(f)
  BY DEF Untouched, Filed, Intent
<1>2. Unlisted(f, list)' = Unlisted(f, list)
  BY <1>1 DEF Untouched, Unlisted
<1>3. Listed(f, list)' = Listed(f, list)
  BY <1>2 DEF Untouched, Listed
<1>4. ASSUME ListIsTrue(f, list) PROVE ListIsTrue(f, list)'
  BY <1>1, <1>2, <1>3, <1>4 DEF Untouched, ListIsTrue, Trimmable, Enough
<1>5. ASSUME StepFits(f, list) PROVE StepFits(f, list)'
  BY <1>1, <1>5 DEF Untouched, StepFits
<1> QED BY <1>1, <1>3, <1>4, <1>5

LEMMA LaterIsMore == \A n, a, e, g \in Nat : e <= g /\ n < a + e => n < a + g
OBVIOUS

LEMMA FileUntouched ==
  ASSUME AgentTypes, EditTypes, NEW f \in Files, Untouched(f)
  PROVE  /\ ContentsAreNew(f) => ContentsAreNew(f)'
         /\ StepIsNew(f) => StepIsNew(f)'
<1>1. /\ \A n : IsForeign(f, n)' = IsForeign(f, n)
      /\ edits \in Nat /\ edits' \in Nat /\ edits <= edits' /\ applied \in Nat /\ applied' = applied
      /\ MAX_EDITS \in Nat /\ Names \subseteq Nat
  BY NamesAre DEF Untouched, AgentTypes
<1>2. \A c \in Int : WasWritten(c) => WasWritten(c)'
  BY <1>1 DEF WasWritten, Generated
<1>3. Intent(f)' = Intent(f)
  BY DEF Untouched, Intent
<1>4. \A c \in Int : \A b \in foreign' \ foreign : WasWritten(c) => b[3] # c
  <2> SUFFICES ASSUME NEW c \in Int, NEW b \in foreign' \ foreign, WasWritten(c) PROVE b[3] # c
    OBVIOUS
  <2>1. b[3] \in Nat /\ b[3] > edits /\ b[3] <= MAX_EDITS
    BY DEF Untouched
  <2> QED BY <1>1, <2>1 DEF WasWritten, NoFile
<1>5. agentFile[f] \in Int /\ scratch[f].previous \in Int
  BY DEF AgentTypes, Directory
<1>6. ASSUME ContentsAreNew(f) PROVE ContentsAreNew(f)'
  <2>1. WasWritten(agentFile[f])' /\ WasWritten(scratch[f].previous)'
    BY <1>2, <1>5, <1>6 DEF Untouched, ContentsAreNew
  <2>2. \A b \in foreign' : b[3] # agentFile[f] /\ b[3] # scratch[f].previous
    BY <1>4, <1>5, <1>6 DEF ContentsAreNew
  <2>3. \A n \in Names : backups'[f][n] # NoFile => n < applied' + edits'
    <3> SUFFICES ASSUME NEW n \in Names, backups'[f][n] # NoFile PROVE n < applied' + edits'
      OBVIOUS
    <3>1. n \in Nat /\ n < applied + edits
      BY <1>1, <1>6 DEF Untouched, ContentsAreNew
    <3> QED BY <1>1, <3>1, LaterIsMore
  <2> QED BY <1>6, <2>1, <2>2, <2>3 DEF Untouched, ContentsAreNew
<1>7. ASSUME StepIsNew(f) PROVE StepIsNew(f)'
  <2>1. Intent(f).before \in Int
    BY DEF AgentTypes, IsPlan, Intent
  <2>2. WasWritten(Intent(f).before)' /\ \A b \in foreign' : b[3] # Intent(f).before
    BY <1>2, <1>3, <1>4, <1>7, <2>1 DEF StepIsNew
  <2>3. /\ Intent(f).backup \in Names /\ Intent(f).backup < applied' + edits'
        /\ IsForeign(f, Intent(f).backup) => Intent(f).backup + 1 < applied' + edits'
    <3>1. /\ Intent(f).backup \in Names /\ Intent(f).backup < applied + edits
          /\ IsForeign(f, Intent(f).backup) => Intent(f).backup + 1 < applied + edits
      BY <1>7 DEF StepIsNew
    <3>2. /\ Intent(f).backup \in Nat /\ edits \in Nat /\ edits' \in Nat /\ edits <= edits'
          /\ applied \in Nat /\ applied' = applied
      BY <1>1, <3>1
    <3>3. \A n \in Nat : n < applied + edits => n < applied' + edits'
      BY <3>2, LaterIsMore
    <3>4. Intent(f).backup + 1 \in Nat
      BY <3>2
    <3> QED BY <3>1, <3>2, <3>3, <3>4
  <2> QED BY <1>1, <1>3, <1>7, <2>2, <2>3 DEF Untouched, StepIsNew
<1> QED BY <1>6, <1>7

\* Such a step leaves everything known about f true, if it brings the
\* transaction nowhere on f.
LEMMA FileFramed ==
  ASSUME AgentTypes, EditTypes, NEW f \in Files, FileIsKept(f), Untouched(f), Copies(f),
         at' # Reached("record", f) => document'.owned[f] = journal'.owned[f],
         Landing(f)' => Landing(f),
         Coming(f)' /\ position'[f] = "before" => Coming(f) /\ position[f] = "before",
         at' = Reached("archived", f) => at = Reached("archived", f),
         at' = Reached("adopt", f) => at = Reached("adopt", f),
         at' = Reached("move", f) => at = Reached("move", f),
         at' = Reached("record", f) => at = Reached("record", f)
  PROVE  FileIsKept(f)'
<1>1. /\ ContentsAreNew(f) /\ (journal.pending => StepIsNew(f))
      /\ \A list \in Lists(f) :
           ListIsTrue(f, list) /\ (journal.pending => StepFits(f, list)) /\ StepIsReached(f, list)
  BY DEF FileIsKept
<1>2. ContentsAreNew(f)' /\ (journal'.pending => StepIsNew(f)')
  BY <1>1, FileUntouched DEF Untouched
<1>3. Lists(f)' \subseteq Lists(f)
  BY DEF Copies, Lists
<1>4. ASSUME NEW list \in Lists(f)
      PROVE  ListIsTrue(f, list)' /\ (journal'.pending => StepFits(f, list)') /\ StepIsReached(f, list)'
  <2>1. ListIsTrue(f, list) /\ (journal.pending => StepFits(f, list)) /\ StepIsReached(f, list)
    BY <1>1, <1>4
  <2>2. ListIsTrue(f, list)' /\ (journal'.pending => StepFits(f, list)') /\ Filed(f, list)' = Filed(f, list)
    BY <2>1, ListUntouched DEF Untouched
  <2>3. StepIsReached(f, list)'
    BY <2>1, <2>2 DEF StepIsReached, Untouched, Intent, Reached
  <2> QED BY <2>2, <2>3
<1> QED BY <1>2, <1>3, <1>4 DEF FileIsKept

\* While the step on another file is under way.
LEMMA OtherFileKept ==
  ASSUME AgentTypes, EditTypes, NEW i \in Files, NEW f \in Files \ {i}, FileIsKept(f), Untouched(f), Copies(f), position' = position,
         document'.owned[f] = journal'.owned[f],
         at.op \in Working, at.file = i, at'.op \in Working, at'.file = i
  PROVE  FileIsKept(f)'
<1>1. /\ at' # Reached("record", f) /\ at' # Reached("adopt", f) /\ at' # Reached("move", f)
      /\ at' # Reached("archived", f) /\ (Landing(f)' => Landing(f)) /\ (Coming(f)' => Coming(f))
  BY DEF Reached, Landing, Coming, Ahead, Working, Moving, Moved, Publishing, Ending
<1> QED BY <1>1, FileFramed

LEMMA OwnedFields ==
  ASSUME NEW d, IsDocument(d)
  PROVE  /\ \A i \in Files : \A s : [d EXCEPT !.steps[i] = s].owned = d.owned
         /\ \A p : [d EXCEPT !.steps = p].owned = d.owned
         /\ \A x : [d EXCEPT !.expected = x].owned = d.owned
         /\ \A i : \A x : [d EXCEPT !.owned[i] = x].owned = [d.owned EXCEPT ![i] = x]
BY DEF IsDocument

\* One entry of the plan is rewritten and saved.
LEMMA PlanRewritten ==
  ASSUME AgentTypes, PlanIsDurable, EditTypes, NEW i \in Files, NEW s, IsPlan(s), document' = SetStep(i, s), Save
  PROVE  /\ journal'.owned = document.owned /\ document'.owned = document.owned
         /\ journal'.steps[i] = s /\ journal'.pending = journal.pending
         /\ \A f \in Files \ {i} : journal'.steps[f] = journal.steps[f]
         /\ \A f \in Files : Copies(f) /\ document'.owned[f] = journal'.owned[f]
<1>1. document' = [document EXCEPT !.steps[i] = s] /\ journal' = document' /\ IsDocument(document)
  BY DEF SetStep, Save, AgentTypes
<1>2. document'.owned = document.owned
  BY <1>1, OwnedFields
<1>3. /\ journal'.steps[i] = s /\ journal'.pending = journal.pending
      /\ \A f \in Files \ {i} : journal'.steps[f] = journal.steps[f]
  BY SetsPlan
<1> QED BY <1>1, <1>2, <1>3 DEF Copies, Lists

LEMMA ListFacts ==
  ASSUME NEW f, NEW list, ListIsTrue(f, list)
  PROVE  /\ list \in Seq(Entry) /\ Len(list) \in Nat /\ DOMAIN list = 1 .. Len(list)
         /\ \A k \in DOMAIN list : /\ list[k].name \in Names /\ list[k].name \in Nat
                                   /\ list[k].content \in Int /\ list[k].content # NoFile
         /\ \A k \in DOMAIN list : list[k].name <= list[Len(list)].name
<1>1. list \in Seq(Entry) /\ Ordered(list)
  BY DEF ListIsTrue
<1>2. Len(list) \in Nat /\ DOMAIN list = 1 .. Len(list) /\ \A k \in DOMAIN list : list[k] \in Entry
  BY <1>1
<1>3. \A e \in Entry : e.name \in Names /\ e.name \in Nat /\ e.content \in Int /\ e.content # NoFile
  BY NamesAre DEF Entry
<1>4. ASSUME NEW k \in DOMAIN list PROVE list[k].name <= list[Len(list)].name
  <2>1. Len(list) \in DOMAIN list /\ k \in Nat /\ k <= Len(list)
    BY <1>2
  <2>2. CASE k = Len(list)
    BY <1>2, <1>3, <2>1, <2>2
  <2>3. CASE k < Len(list)
    <3>1. list[k].name < list[Len(list)].name
      BY <1>1, <2>1, <2>3 DEF Ordered
    <3> QED BY <1>2, <1>3, <2>1, <3>1
  <2> QED BY <1>2, <2>1, <2>2, <2>3
<1> QED BY <1>1, <1>2, <1>3, <1>4

\* The backup of the last entry is never trimmed.
LEMMA LastIsThere ==
  ASSUME NEW f \in Files, NEW list, ListIsTrue(f, list), Unlisted(f, list) = 0, list # <<>>
  PROVE  /\ Len(list) \in DOMAIN list
         /\ backups[f][list[Len(list)].name] = list[Len(list)].content
<1>1. list \in Seq(Entry) /\ Len(list) \in Nat /\ DOMAIN list = 1 .. Len(list) /\ Len(list) >= 1
  BY ListFacts
<1>2. PICK gone \in 0 .. Len(list) : Trimmable(f, list, gone) /\ Enough(f, list, Len(list) - gone)
  BY DEF ListIsTrue
<1>3. Len(list) <= Listed(f, list) /\ RETAIN \in Nat /\ RETAIN >= 1
  BY NamesAre DEF ListIsTrue
<1>4. Len(list) > gone
  <2>1. CASE Len(list) - gone = Listed(f, list)
    BY <1>1, <1>3, <2>1
  <2>2. CASE Len(list) - gone >= RETAIN - 0
    BY <1>1, <1>3, <2>2
  <2> QED BY <1>2, <2>1, <2>2 DEF Enough
<1>5. Len(list) \in DOMAIN list
  BY <1>1
<1> QED BY <1>2, <1>4, <1>5 DEF Trimmable

LEMMA FiledIsThere ==
  ASSUME NEW f \in Files, NEW list, ListIsTrue(f, list), StepFits(f, list), Filed(f, list), Intent(f).backup \in Nat
  PROVE  /\ Len(list) \in DOMAIN list /\ list[Len(list)].name = Intent(f).backup
         /\ list[Len(list)].content = Intent(f).before
         /\ backups[f][Intent(f).backup] = Intent(f).before /\ Intent(f).before # NoFile
<1>1. PICK k \in DOMAIN list : list[k].name = Intent(f).backup
  BY DEF Filed
<1>2. Unlisted(f, list) = 0
  BY DEF Unlisted
<1>3. list # <<>>
  BY <1>1
<1>4. Len(list) \in DOMAIN list /\ backups[f][list[Len(list)].name] = list[Len(list)].content
  BY <1>2, <1>3, LastIsThere
<1>5. list[k].name <= list[Len(list)].name /\ list[Len(list)].name <= Intent(f).backup
  BY <1>4, ListFacts DEF StepFits
<1>6. list[Len(list)].name = Intent(f).backup
  BY <1>1, <1>4, <1>5, ListFacts
<1>7. list[Len(list)].content = Intent(f).before /\ list[Len(list)].content # NoFile
  BY <1>4, ListFacts DEF StepFits
<1> QED BY <1>4, <1>6, <1>7

\* What is known when the transaction works on file i.
LEMMA AtWork ==
  ASSUME AgentInv, EditsInv, NEW i \in Files, at.op \in Working, at.file = i
  PROVE  /\ AgentTypes /\ PlanIsDurable /\ EditTypes /\ journal.pending /\ FileIsKept(i)
         /\ IsPlan(Intent(i)) /\ AgentStep(i) = Intent(i) /\ Intent(i).backup \in Nat
         /\ Intent(i).after = Generated(applied) /\ Intent(i).after # NoFile
         /\ agentFile[i] \in Int /\ scratch[i].previous \in Int
         /\ ContentsAreNew(i) /\ StepIsNew(i)
         /\ \A list \in Lists(i) : ListIsTrue(i, list) /\ StepFits(i, list) /\ StepIsReached(i, list)
         /\ at.op \in Moving => position[i] = "before"
         /\ at.op \in Moved => scratch[i].previous # NoFile
         /\ at.op \in Moved \ {"adopt"} => scratch[i].previous = Intent(i).before
         /\ position[i] # "after"
<1>1. AgentTypes /\ PlanIsDurable /\ EditTypes /\ FileIsKept(i) /\ FileIsSound(i)
  BY DEF AgentInv, EditsInv
<1>2. journal.pending
  BY <1>1 DEF FileIsSound, Working, Moving, Moved, Publishing
<1>3. IsPlan(Intent(i)) /\ AgentStep(i) = Intent(i) /\ agentFile[i] \in Int /\ scratch[i].previous \in Int
  BY <1>1 DEF AgentTypes, PlanIsDurable, AgentStep, Intent, Directory
<1>4. /\ ContentsAreNew(i) /\ StepIsNew(i)
      /\ \A list \in Lists(i) : ListIsTrue(i, list) /\ StepFits(i, list) /\ StepIsReached(i, list)
  BY <1>1, <1>2 DEF FileIsKept
<1>5. Intent(i).backup \in Nat
  BY <1>4, NamesAre DEF StepIsNew
<1>6. Intent(i).after = Generated(applied) /\ Intent(i).after # NoFile
  <2>1. applied \in Nat /\ applied > 0 /\ MAX_EDITS \in Nat
    BY <1>1, <1>2, NamesAre DEF EditTypes
  <2> QED BY <1>1, <1>2, <2>1 DEF FileIsSound, Intent, Generated, NoFile
<1>7. /\ at.op \in Moving => position[i] = "before"
      /\ at.op \in Moved => scratch[i].previous # NoFile
      /\ at.op \in Moved \ {"adopt"} => scratch[i].previous = Intent(i).before
      /\ position[i] # "after"
  BY <1>1, <1>2 DEF FileIsSound, Intent, Working, Moving, Moved
<1> QED BY <1>1, <1>2, <1>3, <1>4, <1>5, <1>6, <1>7

\* A step of that work, by what it does to file i.
LEMMA WorkGoesOn ==
  ASSUME AgentInv, EditsInv, NEW i \in Files, at.op \in Working, at.file = i, at'.op \in Working, at'.file = i,
         position' = position, EditTypes', ForeignAreKept', FileIsKept(i)',
         \A f \in Files \ {i} : Untouched(f) /\ Copies(f) /\ document'.owned[f] = journal'.owned[f]
  PROVE  EditsInv'
<1>1. ASSUME NEW f \in Files \ {i} PROVE FileIsKept(f)'
  BY <1>1, OtherFileKept DEF EditsInv, AgentInv
<1> QED BY <1>1 DEF EditsInv

LEMMA ForeignStay ==
  ASSUME ForeignAreKept, backups' = backups, foreign' = foreign
  PROVE  ForeignAreKept'
BY DEF ForeignAreKept

LEMMA NotBefore == \A f \in Files : f \in Int /\ ~(f < f)
BY AgentsAssumption DEF Files

\* Only the step that is written down for f changes, and it keeps its target.
Rewrites(f) ==
    /\ agentFile'[f] = agentFile[f] /\ scratch'[f].previous = scratch[f].previous
    /\ backups'[f] = backups[f] /\ displaced'[f] = displaced[f]
    /\ journal.pending /\ journal'.pending
    /\ UNCHANGED <<applied, edits, foreign>>
    /\ Intent(f)'.after = Intent(f).after /\ Intent(f)'.backup = Intent(f).backup

\* What was found in the scratch directory is taken for what was displaced.
Adopts(f) ==
    /\ Intent(f)'.before = IF scratch[f].previous = NoFile THEN Intent(f).before ELSE scratch[f].previous
    /\ \/ Intent(f)'.phase = Intent(f).phase
       \/ /\ scratch[f].previous # NoFile \/ Intent(f)'.phase = "published"
          /\ \A list \in Lists(f) :
               agentFile[f] = Intent(f).after /\ Intent(f).before # NoFile => Filed(f, list)

\* The file is read again before anything was done to it.
ReadsAgain(f) ==
    /\ Intent(f)'.before = agentFile[f] /\ Intent(f)'.phase = Intent(f).phase
    /\ scratch[f].previous = NoFile /\ \A list \in Lists(f) : ~Filed(f, list)
    /\ Intent(f).phase # "planned" => agentFile[f] # Intent(f).after

LEMMA FilesOfRewrite ==
  ASSUME NEW f, Rewrites(f)
  PROVE  /\ \A n : IsForeign(f, n)' = IsForeign(f, n)
         /\ \A c : WasWritten(c)' = WasWritten(c)
         /\ \A list : /\ Filed(f, list)' = Filed(f, list) /\ Unlisted(f, list)' = Unlisted(f, list)
                      /\ Listed(f, list)' = Listed(f, list)
                      /\ ListIsTrue(f, list) => ListIsTrue(f, list)'
<1>1. \A n : IsForeign(f, n)' = IsForeign(f, n)
  BY DEF Rewrites, IsForeign
<1>2. \A c : WasWritten(c)' = WasWritten(c)
  BY DEF Rewrites, WasWritten, Generated
<1>3. ASSUME NEW list
      PROVE  Filed(f, list)' = Filed(f, list) /\ Unlisted(f, list)' = Unlisted(f, list) /\ Listed(f, list)' = Listed(f, list)
  <2>1. Filed(f, list)' = Filed(f, list)
    BY DEF Rewrites, Filed
  <2>2. Unlisted(f, list)' = Unlisted(f, list)
    BY <2>1 DEF Rewrites, Unlisted
  <2> QED BY <2>1, <2>2 DEF Rewrites, Listed
<1>4. ASSUME NEW list, ListIsTrue(f, list) PROVE ListIsTrue(f, list)'
  BY <1>1, <1>3, <1>4 DEF Rewrites, ListIsTrue, Trimmable, Enough
<1> QED BY <1>1, <1>2, <1>3, <1>4

LEMMA Rewritten ==
  ASSUME AgentTypes, NEW f \in Files, FileIsKept(f), Rewrites(f), Adopts(f) \/ ReadsAgain(f)
  PROVE  /\ ContentsAreNew(f)' /\ StepIsNew(f)'
         /\ \A list \in Lists(f) : ListIsTrue(f, list)' /\ StepFits(f, list)' /\ Filed(f, list)' = Filed(f, list)
<1>1. /\ ContentsAreNew(f) /\ StepIsNew(f)
      /\ \A list \in Lists(f) : ListIsTrue(f, list) /\ StepFits(f, list)
  BY DEF FileIsKept, Rewrites
<1>2. /\ \A n : IsForeign(f, n)' = IsForeign(f, n)
      /\ \A c : WasWritten(c)' = WasWritten(c)
      /\ \A list : /\ Filed(f, list)' = Filed(f, list)
                   /\ ListIsTrue(f, list) => ListIsTrue(f, list)'
  BY FilesOfRewrite
<1>3. ContentsAreNew(f)'
  BY <1>1, <1>2 DEF Rewrites, ContentsAreNew
<1>4. CASE Adopts(f)
  <2>1. StepIsNew(f)'
    BY <1>1, <1>2, <1>4 DEF Rewrites, Adopts, ContentsAreNew, StepIsNew
  <2>2. ASSUME NEW list \in Lists(f) PROVE StepFits(f, list)'
    <3>1. StepFits(f, list)
      BY <1>1
    <3>2. scratch[f].previous # NoFile => Intent(f).before # NoFile
      BY <1>1 DEF StepIsNew
    <3>3. Filed(f, list) => /\ Intent(f)'.before = Intent(f).before
                            /\ scratch[f].previous = NoFile => Intent(f)'.phase = "published"
      BY <1>4, <3>1 DEF Adopts, StepFits
    <3>4. agentFile[f] = Intent(f).after /\ Intent(f)'.before # NoFile
            /\ ~(Intent(f)'.phase = "planned" /\ scratch[f].previous = NoFile) => Filed(f, list)
      BY <1>4, <2>2, <3>1, <3>2 DEF Adopts, StepFits
    <3>5. backups[f][Intent(f).backup] # NoFile =>
            \/ IsForeign(f, Intent(f).backup)
            \/ /\ backups[f][Intent(f).backup] = Intent(f)'.before
               /\ scratch[f].previous = Intent(f)'.before \/ Filed(f, list)
      BY <1>4, <3>1, <3>3 DEF Adopts, StepFits
    <3> QED BY <1>2, <3>1, <3>3, <3>4, <3>5 DEF Rewrites, StepFits
  <2> QED BY <1>1, <1>2, <1>3, <2>1, <2>2
<1>5. CASE ReadsAgain(f)
  <2>1. StepIsNew(f)'
    BY <1>1, <1>2, <1>5 DEF Rewrites, ReadsAgain, ContentsAreNew, StepIsNew
  <2>2. ASSUME NEW list \in Lists(f) PROVE StepFits(f, list)'
    <3>1. StepFits(f, list) /\ ~Filed(f, list)
      BY <1>1, <1>5 DEF ReadsAgain
    <3>2. backups[f][Intent(f).backup] # NoFile => IsForeign(f, Intent(f).backup)
      BY <1>1, <1>5, <3>1 DEF ReadsAgain, StepFits, StepIsNew
    <3> QED BY <1>2, <1>5, <3>1, <3>2 DEF Rewrites, ReadsAgain, StepFits
  <2> QED BY <1>1, <1>2, <1>3, <2>1, <2>2
<1> QED BY <1>4, <1>5

\* The transaction rewrites one entry of its plan and saves it.
LEMMA StepWritten ==
  ASSUME AgentInv, EditsInv, journal.pending, NEW i \in Files, NEW s, IsPlan(s),
         s.after = Intent(i).after, s.backup = Intent(i).backup, document' = SetStep(i, s), Save,
         UNCHANGED <<agentFile, backups, displaced, edits, applied, foreign>>,
         \A f \in Files : scratch'[f].previous = scratch[f].previous,
         Intent(i)' = s => Adopts(i) \/ ReadsAgain(i)
  PROVE  /\ Intent(i)' = s /\ EditTypes' /\ ForeignAreKept'
         /\ \A f \in Files \ {i} : Untouched(f) /\ Copies(f) /\ document'.owned[f] = journal'.owned[f]
         /\ \A list \in Lists(i) : Filed(i, list)' = Filed(i, list)
         /\ (\A list \in Lists(i) : StepIsReached(i, list)') => FileIsKept(i)'
<1>1. AgentTypes /\ PlanIsDurable /\ EditTypes /\ ForeignAreKept /\ FileIsKept(i)
  BY DEF AgentInv, EditsInv
<1>2. /\ journal'.owned = document.owned /\ document'.owned = document.owned
      /\ journal'.steps[i] = s /\ journal'.pending = journal.pending
      /\ \A f \in Files \ {i} : journal'.steps[f] = journal.steps[f]
      /\ \A f \in Files : Copies(f) /\ document'.owned[f] = journal'.owned[f]
  BY <1>1, PlanRewritten
<1>3. Intent(i)' = s
  BY <1>2 DEF Intent
<1>4. Rewrites(i)
  BY <1>2, <1>3 DEF Rewrites
<1>5. /\ ContentsAreNew(i)' /\ StepIsNew(i)'
      /\ \A list \in Lists(i) : ListIsTrue(i, list)' /\ StepFits(i, list)' /\ Filed(i, list)' = Filed(i, list)
  BY <1>1, <1>3, <1>4, Rewritten
<1>6. EditTypes'
  BY <1>1, <1>2 DEF EditTypes
<1>7. ForeignAreKept'
  BY <1>1, ForeignStay
<1>8. \A f \in Files \ {i} : Untouched(f)
  BY <1>1, <1>2 DEF Untouched, AgentTypes, EditTypes, IsForeign
<1>9. Lists(i)' \subseteq Lists(i)
  BY <1>2 DEF Copies, Lists
<1>10. (\A list \in Lists(i) : StepIsReached(i, list)') => FileIsKept(i)'
  BY <1>2, <1>5, <1>9 DEF FileIsKept
<1> QED BY <1>2, <1>3, <1>5, <1>6, <1>7, <1>8, <1>10

LEMMA ReadSaves == ASSUME AgentInv, EditsInv, NEW i \in Files, ReadLatest(i) PROVE EditsInv'
<1>1. /\ at = [op |-> "read", file |-> i] /\ scratch[i].previous = NoFile
      /\ document' = SetStep(i, [AgentStep(i) EXCEPT !.before = agentFile[i]]) /\ Save
      /\ at' = [op |-> IF agentFile[i] = NoFile THEN "publish" ELSE "move", file |-> i]
      /\ UNCHANGED <<agentFile, scratch, backups, position, edits, applied, displaced, foreign>>
  BY DEF ReadLatest, Order, Reached
<1>2. /\ at.op = "read" /\ at.op \in Moving /\ at.op \in Working /\ at.file = i
      /\ at'.op \in Working /\ at'.file = i /\ at'.op \in {"publish", "move"}
      /\ at'.op = "publish" <=> agentFile[i] = NoFile
  BY <1>1 DEF Working, Moving, Publishing
<1>3. /\ journal.pending /\ IsPlan(Intent(i)) /\ AgentStep(i) = Intent(i) /\ agentFile[i] \in Int
      /\ position[i] = "before" /\ position[i] # "after"
      /\ \A list \in Lists(i) : StepIsReached(i, list)
  BY <1>2, AtWork
<1> DEFINE s == [Intent(i) EXCEPT !.before = agentFile[i]]
<1>4. /\ IsPlan(s) /\ s.before = agentFile[i] /\ s.after = Intent(i).after /\ s.phase = Intent(i).phase
      /\ s.backup = Intent(i).backup
  BY <1>3, PlanFields DEF IsPlan
<1>5. document' = SetStep(i, s)
  BY <1>1, <1>3
<1> HIDE DEF s
<1>6. /\ \A list \in Lists(i) : ~Filed(i, list)
      /\ Intent(i).phase # "planned" => agentFile[i] # Intent(i).after
  BY <1>2, <1>3 DEF StepIsReached, Coming, Lists
<1>7. Intent(i)' = s => ReadsAgain(i)
  BY <1>1, <1>4, <1>6 DEF ReadsAgain
<1>8. /\ Intent(i)' = s /\ EditTypes' /\ ForeignAreKept'
      /\ \A f \in Files \ {i} : Untouched(f) /\ Copies(f) /\ document'.owned[f] = journal'.owned[f]
      /\ \A list \in Lists(i) : Filed(i, list)' = Filed(i, list)
      /\ (\A list \in Lists(i) : StepIsReached(i, list)') => FileIsKept(i)'
  BY <1>1, <1>3, <1>4, <1>5, <1>7, StepWritten
<1>9. ASSUME NEW list \in Lists(i) PROVE StepIsReached(i, list)'
  <2>1. Landing(i)' => at'.op = "publish"
    BY <1>1, <1>2, <1>3, NotBefore DEF Landing, Ending, Publishing
  <2>2. at'.op = "move" => s.before # NoFile /\ scratch'[i].previous = NoFile
    BY <1>1, <1>2, <1>4
  <2> QED BY <1>1, <1>2, <1>4, <1>6, <1>8, <2>1, <2>2 DEF StepIsReached, Reached
<1> QED BY <1>1, <1>2, <1>8, <1>9, WorkGoesOn

LEMMA AdoptSaves == ASSUME AgentInv, EditsInv, NEW i \in Files, AdoptMoved(i) PROVE EditsInv'
<1>1. /\ at = [op |-> "adopt", file |-> i] /\ at' = [op |-> "archive", file |-> i]
      /\ document' = SetStep(i, [AgentStep(i) EXCEPT !.before = scratch[i].previous]) /\ Save
      /\ UNCHANGED <<agentFile, scratch, backups, position, edits, applied, displaced, foreign>>
  BY DEF AdoptMoved, Order, Reached
<1>2. /\ at.op = "adopt" /\ at.op \in Moved /\ at.op \in Working /\ at.file = i
      /\ at'.op = "archive" /\ at'.op \in Working /\ at'.file = i
  BY <1>1 DEF Working, Moved
<1>3. /\ journal.pending /\ IsPlan(Intent(i)) /\ AgentStep(i) = Intent(i) /\ scratch[i].previous \in Int
      /\ scratch[i].previous # NoFile /\ position[i] # "after"
      /\ \A list \in Lists(i) : StepIsReached(i, list)
  BY <1>2, AtWork
<1> DEFINE s == [Intent(i) EXCEPT !.before = scratch[i].previous]
<1>4. /\ IsPlan(s) /\ s.before = scratch[i].previous /\ s.after = Intent(i).after /\ s.phase = Intent(i).phase
      /\ s.backup = Intent(i).backup
  BY <1>3, PlanFields DEF IsPlan
<1>5. document' = SetStep(i, s)
  BY <1>1, <1>3
<1> HIDE DEF s
<1>6. Intent(i)' = s => Adopts(i)
  BY <1>3, <1>4 DEF Adopts
<1>7. /\ Intent(i)' = s /\ EditTypes' /\ ForeignAreKept'
      /\ \A f \in Files \ {i} : Untouched(f) /\ Copies(f) /\ document'.owned[f] = journal'.owned[f]
      /\ \A list \in Lists(i) : Filed(i, list)' = Filed(i, list)
      /\ (\A list \in Lists(i) : StepIsReached(i, list)') => FileIsKept(i)'
  BY <1>1, <1>3, <1>4, <1>5, <1>6, StepWritten
<1>8. ~Landing(i)' /\ ~Coming(i)'
  BY <1>1, <1>2, <1>3, NotBefore DEF Landing, Ending, Publishing, Coming, Ahead, Moving
<1>9. ASSUME NEW list \in Lists(i) PROVE StepIsReached(i, list)'
  BY <1>1, <1>8 DEF StepIsReached, Reached
<1> QED BY <1>1, <1>2, <1>7, <1>9, WorkGoesOn

LEMMA ArchivedSaves == ASSUME AgentInv, EditsInv, NEW i \in Files, Archived(i) PROVE EditsInv'
<1>1. /\ at = [op |-> "archived", file |-> i] /\ at' = [op |-> "publish", file |-> i]
      /\ document' = SetStep(i, [AgentStep(i) EXCEPT !.phase = "displaced"]) /\ Save
      /\ scratch' = [scratch EXCEPT ![i].backup = NoFile]
      /\ UNCHANGED <<agentFile, backups, position, edits, applied, displaced, foreign>>
  BY DEF Archived, Order, Reached
<1>2. /\ at.op = "archived" /\ at.op \in Moved \ {"adopt"} /\ at.op \in Moved /\ at.op \in Working /\ at.file = i
      /\ at'.op = "publish" /\ at'.op \in Working /\ at'.file = i
  BY <1>1 DEF Working, Moved, Publishing
<1>3. /\ AgentTypes /\ journal.pending /\ IsPlan(Intent(i)) /\ AgentStep(i) = Intent(i)
      /\ scratch[i].previous # NoFile /\ scratch[i].previous = Intent(i).before /\ position[i] # "after"
      /\ \A list \in Lists(i) : StepIsReached(i, list)
  BY <1>2, AtWork
<1> DEFINE s == [Intent(i) EXCEPT !.phase = "displaced"]
<1>4. /\ IsPlan(s) /\ s.before = Intent(i).before /\ s.after = Intent(i).after /\ s.phase = "displaced"
      /\ s.backup = Intent(i).backup
  BY <1>3, PlanFields DEF IsPlan, Phases
<1>5. document' = SetStep(i, s)
  BY <1>1, <1>3
<1> HIDE DEF s
<1>6. \A list \in Lists(i) : Filed(i, list)
  BY <1>1, <1>3 DEF StepIsReached, Reached
<1>7. Intent(i)' = s => Adopts(i)
  BY <1>3, <1>4, <1>6 DEF Adopts
<1>8. \A f \in Files : scratch'[f].previous = scratch[f].previous
  BY <1>1, <1>3 DEF AgentTypes, Directory
<1>9. /\ Intent(i)' = s /\ EditTypes' /\ ForeignAreKept'
      /\ \A f \in Files \ {i} : Untouched(f) /\ Copies(f) /\ document'.owned[f] = journal'.owned[f]
      /\ \A list \in Lists(i) : Filed(i, list)' = Filed(i, list)
      /\ (\A list \in Lists(i) : StepIsReached(i, list)') => FileIsKept(i)'
  BY <1>1, <1>3, <1>4, <1>5, <1>7, <1>8, StepWritten
<1>10. ~Coming(i)'
  BY <1>1, <1>2, <1>3, NotBefore DEF Coming, Ahead, Moving
<1>11. ASSUME NEW list \in Lists(i) PROVE StepIsReached(i, list)'
  BY <1>1, <1>6, <1>9, <1>10 DEF StepIsReached, Reached
<1> QED BY <1>1, <1>2, <1>9, <1>11, WorkGoesOn

LEMMA MoveSaves == ASSUME AgentInv, EditsInv, NEW i \in Files, Move(i) PROVE EditsInv'
<1>1. /\ at = [op |-> "move", file |-> i] /\ at' = [op |-> "adopt", file |-> i] /\ agentFile[i] # NoFile
      /\ scratch' = [scratch EXCEPT ![i].previous = agentFile[i],
                                    ![i].shared = IF @ = "target" THEN "previous" ELSE "none"]
      /\ agentFile' = [agentFile EXCEPT ![i] = NoFile]
      /\ displaced' = [displaced EXCEPT ![i] = Append(@, agentFile[i])]
      /\ UNCHANGED <<backups, journal, document, position, edits, applied, foreign>>
  BY DEF Move, Order, Reached
<1>2. /\ at.op = "move" /\ at.op \in Moving /\ at.op \in Working /\ at.file = i
      /\ at'.op \in Working /\ at'.file = i /\ at'.op = "adopt"
  BY <1>1 DEF Working, Moving, Moved
<1>3. /\ AgentTypes /\ PlanIsDurable /\ EditTypes /\ journal.pending /\ FileIsKept(i)
      /\ Intent(i).backup \in Nat /\ agentFile[i] \in Int /\ Intent(i).after # NoFile
      /\ ContentsAreNew(i) /\ StepIsNew(i) /\ position[i] = "before" /\ position[i] # "after"
      /\ \A list \in Lists(i) : ListIsTrue(i, list) /\ StepFits(i, list) /\ StepIsReached(i, list)
  BY <1>2, AtWork
<1> DEFINE d == [scratch[i] EXCEPT !.previous = agentFile[i], !.shared = IF @ = "target" THEN "previous" ELSE "none"]
<1>4. /\ scratch' \in [Files -> Directory] /\ scratch'[i].previous = agentFile[i]
      /\ \A f \in Files \ {i} : scratch'[f] = scratch[f]
  <2>1. scratch[i] \in Directory /\ agentFile[i] \in Int
    BY <1>3 DEF AgentTypes
  <2>2. scratch' = [scratch EXCEPT ![i] = d] /\ d \in Directory /\ d.previous = agentFile[i]
    BY <1>1, <2>1, OneDirectory, DirectoryFields
  <2> HIDE DEF d
  <2> QED BY <1>3, <2>2, ScratchIs
<1>5. /\ agentFile'[i] = NoFile /\ \A f \in Files \ {i} : agentFile'[f] = agentFile[f]
  <2>1. NoFile \in Int
    BY DEF NoFile
  <2> QED BY <1>1, <1>3, <2>1, FileIs
<1> DEFINE D == displaced[i]
<1>6. D \in Seq(Int \ {NoFile}) /\ Len(D) \in Nat
  BY <1>3 DEF EditTypes
<1>7. /\ displaced'[i] = Append(D, agentFile[i]) /\ Len(displaced'[i]) = Len(D) + 1
      /\ displaced'[i][Len(D) + 1] = agentFile[i]
      /\ \A p \in 1 .. Len(D) : displaced'[i][p] = D[p]
      /\ displaced' \in [Files -> Seq(Int \ {NoFile})]
      /\ \A f \in Files \ {i} : displaced'[f] = displaced[f]
  <2>1. displaced'[i] = Append(D, agentFile[i]) /\ \A f \in Files \ {i} : displaced'[f] = displaced[f]
    BY <1>1, <1>3 DEF EditTypes
  <2>2. Append(D, agentFile[i]) \in Seq(Int \ {NoFile})
    BY <1>1, <1>3, <1>6
  <2> HIDE DEF D
  <2>3. Len(Append(D, agentFile[i])) = Len(D) + 1 /\ Append(D, agentFile[i])[Len(D) + 1] = agentFile[i]
        /\ \A p \in 1 .. Len(D) : Append(D, agentFile[i])[p] = D[p]
    BY <1>6
  <2> QED BY <1>1, <1>3, <2>1, <2>2, <2>3 DEF EditTypes
<1>8. EditTypes'
  BY <1>1, <1>3, <1>7 DEF EditTypes
<1>9. Coming(i) /\ Intent(i)' = Intent(i) /\ \A n : IsForeign(i, n)' = IsForeign(i, n)
  BY <1>1, <1>2 DEF Coming, Intent, IsForeign
<1>10. ASSUME NEW list \in Lists(i) PROVE ListIsTrue(i, list)' /\ StepFits(i, list)' /\ StepIsReached(i, list)'
  <2>1. /\ ListIsTrue(i, list) /\ StepFits(i, list) /\ ~Filed(i, list)
        /\ Intent(i).before # NoFile /\ scratch[i].previous = NoFile
    BY <1>1, <1>3, <1>9 DEF StepIsReached, Reached
  <2>2. ~Filed(i, list)' /\ Unlisted(i, list)' = 1 /\ Unlisted(i, list) = 0
    BY <1>1, <1>4, <1>9, <2>1 DEF Filed, Unlisted
  <2>3. Listed(i, list)' = Len(D) /\ Listed(i, list) = Len(D)
    BY <1>6, <1>7, <2>2 DEF Listed
  <2>4. ListIsTrue(i, list)'
    <3>1. /\ list \in Seq(Entry) /\ Ordered(list) /\ Len(list) <= Len(D)
          /\ \A k \in DOMAIN list : list[k].content = D[Len(D) - Len(list) + k] /\ ~IsForeign(i, list[k].name)
      BY <2>1, <2>3 DEF ListIsTrue
    <3>2. PICK gone \in 0 .. Len(list) : Trimmable(i, list, gone) /\ Enough(i, list, Len(list) - gone)
      BY <2>1 DEF ListIsTrue
    <3>3. Trimmable(i, list, gone)'
      BY <1>1, <3>2 DEF Trimmable
    <3>4. Enough(i, list, Len(list) - gone)'
      <4>1. Len(list) \in Nat /\ RETAIN \in Nat
        BY <3>1, NamesAre
      <4> QED BY <2>2, <2>3, <3>2, <4>1 DEF Enough
    <3>5. \A k \in DOMAIN list : list[k].content = displaced'[i][Len(D) - Len(list) + k]
      <4>1. Len(list) \in Nat /\ DOMAIN list = 1 .. Len(list)
        BY <3>1
      <4>2. \A k \in DOMAIN list : Len(D) - Len(list) + k \in 1 .. Len(D)
        BY <1>6, <3>1, <4>1
      <4> QED BY <1>7, <3>1, <4>2
    <3> QED BY <1>9, <2>3, <3>1, <3>3, <3>4, <3>5 DEF ListIsTrue
  <2>5. StepFits(i, list)'
    BY <1>1, <1>3, <1>4, <1>5, <1>9, <2>1, <2>2 DEF StepFits
  <2>6. StepIsReached(i, list)'
    <3>1. ~Landing(i)' /\ ~Coming(i)'
      BY <1>1, <1>2, <1>3, NotBefore DEF Landing, Ending, Publishing, Coming, Ahead, Moving
    <3> QED BY <1>1, <2>2, <3>1 DEF StepIsReached, Reached
  <2> QED BY <2>4, <2>5, <2>6
<1>11. ContentsAreNew(i)' /\ StepIsNew(i)'
  <2>1. \A c : WasWritten(c)' = WasWritten(c)
    BY <1>1 DEF WasWritten, Generated
  <2>2. WasWritten(NoFile) /\ \A b \in foreign : b[3] # NoFile
    BY <1>3 DEF WasWritten, EditTypes, NoFile
  <2>3. displaced'[i] # <<>>
    BY <1>6, <1>7
  <2>4. ContentsAreNew(i)'
    BY <1>1, <1>3, <1>4, <1>5, <1>7, <2>1, <2>2, <2>3 DEF ContentsAreNew
  <2>5. journal.owned[i] \in Lists(i)
    BY DEF Lists
  <2>6. Intent(i).before # NoFile
    BY <1>1, <1>3, <2>5 DEF StepIsReached, Reached
  <2> QED BY <1>1, <1>3, <1>4, <1>5, <1>9, <2>1, <2>4, <2>6 DEF StepIsNew
<1>12. FileIsKept(i)'
  BY <1>1, <1>3, <1>10, <1>11 DEF FileIsKept, Lists, Reached
<1>13. ForeignAreKept'
  BY <1>1, ForeignStay DEF EditsInv
<1>14. \A f \in Files \ {i} : Untouched(f)
  BY <1>1, <1>3, <1>4, <1>5, <1>7 DEF Untouched, AgentTypes, EditTypes, IsForeign
<1>15. \A f \in Files \ {i} : Copies(f) /\ document'.owned[f] = journal'.owned[f]
  BY <1>1 DEF EditsInv, FileIsKept, Copies, Lists, Reached
<1> QED BY <1>1, <1>2, <1>8, <1>12, <1>13, <1>14, <1>15, WorkGoesOn

\* A step that touches no file and no list, and takes the transaction to no work
\* that relies on more than the work before.
LEMMA NothingTouched ==
  ASSUME AgentInv, EditsInv,
         UNCHANGED <<agentFile, backups, journal, edits, applied, displaced, foreign>>,
         document'.owned = document.owned,
         \A f \in Files :
            /\ scratch'[f].previous = scratch[f].previous
            /\ at # Reached("record", f)
            /\ at' \notin {Reached("archived", f), Reached("adopt", f), Reached("move", f), Reached("record", f)}
            /\ Landing(f)' => Landing(f)
            /\ Coming(f)' /\ position'[f] = "before" => Coming(f) /\ position[f] = "before"
  PROVE  EditsInv'
<1>1. AgentTypes /\ EditTypes /\ ForeignAreKept /\ \A f \in Files : FileIsKept(f)
  BY DEF AgentInv, EditsInv
<1>2. EditTypes'
  BY <1>1 DEF EditTypes
<1>3. ForeignAreKept'
  BY <1>1, ForeignStay
<1>4. ASSUME NEW f \in Files PROVE FileIsKept(f)'
  <2>1. Untouched(f)
    BY <1>1 DEF Untouched, AgentTypes, EditTypes, IsForeign
  <2>2. Copies(f) /\ document'.owned[f] = journal'.owned[f]
    BY <1>1 DEF Copies, Lists, FileIsKept
  <2> QED BY <1>1, <2>1, <2>2, FileFramed
<1> QED BY <1>2, <1>3, <1>4 DEF EditsInv

\* Between two operations on the same file.
LEMMA WorkStays ==
  ASSUME AgentInv, EditsInv, NEW i \in Files, at.op \in Working \ {"record"}, at.file = i, at'.file = i,
         at'.op \in {"archive", "link"} \/ (at.op \in Publishing /\ at'.op \in Publishing),
         UNCHANGED <<agentFile, backups, journal, document, position, edits, applied, displaced, foreign>>,
         \A f \in Files : scratch'[f].previous = scratch[f].previous
  PROVE  EditsInv'
<1>1. ASSUME NEW f \in Files
      PROVE  /\ at # Reached("record", f)
             /\ at' \notin {Reached("archived", f), Reached("adopt", f), Reached("move", f), Reached("record", f)}
             /\ Landing(f)' => Landing(f)
             /\ Coming(f)' => Coming(f)
  BY DEF Reached, Landing, Coming, Ahead, Working, Moving, Moved, Publishing, Ending
<1> QED BY <1>1, NothingTouched

LEMMA ArchiveStageSaves == ASSUME AgentInv, EditsInv, NEW i \in Files, ArchiveStage(i) PROVE EditsInv'
<1>1. /\ at = [op |-> "archive", file |-> i] /\ at' = [op |-> "link", file |-> i]
      /\ scratch' = [scratch EXCEPT ![i].backup = AgentStep(i).before]
      /\ UNCHANGED <<agentFile, backups, journal, document, position, edits, applied, displaced, foreign>>
  BY DEF ArchiveStage, Order, Reached
<1>2. \A f \in Files : scratch'[f].previous = scratch[f].previous
  BY <1>1 DEF AgentInv, AgentTypes, Directory
<1> QED BY <1>1, <1>2, WorkStays DEF Working, Moved

LEMMA UnlinkSaves == ASSUME AgentInv, EditsInv, NEW i \in Files, Unlink(i) PROVE EditsInv'
<1>1. /\ at = [op |-> "unlink", file |-> i] /\ at' = [op |-> "published", file |-> i]
      /\ scratch' = [scratch EXCEPT ![i].next = NoFile, ![i].shared = "none"]
      /\ UNCHANGED <<agentFile, backups, journal, document, position, edits, applied, displaced, foreign>>
  BY DEF Unlink, Order, Reached
<1>2. \A f \in Files : scratch'[f].previous = scratch[f].previous
  BY <1>1 DEF AgentInv, AgentTypes, Directory
<1> QED BY <1>1, <1>2, WorkStays DEF Working, Publishing

LEMMA EnterSaves == ASSUME AgentInv, EditsInv, NEW i \in Files, EnterTarget(i) PROVE EditsInv'
<1>1. /\ at = [op |-> "step", file |-> i]
      /\ UNCHANGED <<agentFile, scratch, backups, journal, document, position, edits, applied, displaced, foreign>>
      /\ at' = CASE position[i] = "after" -> IF i < TARGETS THEN [op |-> "step", file |-> i + 1]
                                             ELSE [op |-> "verify", file |-> 1]
                 [] position[i] = "before" -> [op |-> "read", file |-> i]
                 [] position[i] = "gap" -> [op |-> "archive", file |-> i]
  BY DEF EnterTarget, Order, Reached
<1>2. position[i] \in {"before", "after", "gap"} /\ TARGETS \in Int /\ \A f \in Files : f \in Int /\ f <= TARGETS
  BY AgentsAssumption DEF AgentInv, AgentTypes, Files
<1>3. \/ at'.op = "step" /\ at'.file = i + 1 /\ position[i] = "after"
      \/ at'.op = "verify" /\ i = TARGETS /\ position[i] = "after"
      \/ at'.op \in {"read", "archive"} /\ at'.file = i
  BY <1>1, <1>2
<1>4. ASSUME NEW f \in Files
      PROVE  /\ at # Reached("record", f)
             /\ at' \notin {Reached("archived", f), Reached("adopt", f), Reached("move", f), Reached("record", f)}
             /\ Landing(f)' => Landing(f)
             /\ Coming(f)' => Coming(f)
  <2>1. f \in Int /\ i \in Int /\ f <= TARGETS
    BY <1>2
  <2>2. CASE at'.op = "step" /\ at'.file = i + 1 /\ position[i] = "after"
    <3>1. (f < i + 1 => f < i \/ f = i) /\ (f >= i + 1 => f >= i)
      BY <2>1
    <3> QED BY <1>1, <2>2, <3>1 DEF Reached, Landing, Coming, Ahead, Working, Moving, Moved, Publishing, Ending
  <2>3. CASE at'.op = "verify" /\ i = TARGETS /\ position[i] = "after"
    <3>1. f < i \/ f = i
      BY <2>1, <2>3
    <3> QED BY <1>1, <2>3, <3>1 DEF Reached, Landing, Coming, Ahead, Working, Moving, Moved, Publishing, Ending
  <2>4. CASE at'.op \in {"read", "archive"} /\ at'.file = i
    <3>1. (f > i => f >= i) /\ (f = i => f >= i)
      BY <2>1
    <3>2. Landing(f)' => Landing(f)
      BY <1>1, <2>4 DEF Landing, Working, Moving, Moved, Publishing, Ending
    <3>3. Coming(f)' => Coming(f)
      BY <1>1, <2>4, <3>1 DEF Coming, Ahead, Working, Moving, Moved, Publishing
    <3>4. at # Reached("record", f)
      BY <1>1 DEF Reached
    <3> QED BY <2>4, <3>2, <3>3, <3>4 DEF Reached
  <2> QED BY <1>3, <2>2, <2>3, <2>4
<1> QED BY <1>1, <1>4, NothingTouched

LEMMA VerifySaves == ASSUME AgentInv, EditsInv, Verify PROVE EditsInv'
<1>1. /\ at.op = "verify" /\ at' = [op |-> "cleanup", file |-> 1]
      /\ UNCHANGED <<agentFile, scratch, backups, journal, position, edits, applied, displaced, foreign>>
      /\ \E x : document' = [document EXCEPT !.expected = x]
  BY DEF Verify, Reached
<1>2. document'.owned = document.owned
  BY <1>1, OwnedFields DEF AgentInv, AgentTypes
<1>3. \A f \in Files :
        /\ at # Reached("record", f)
        /\ at' \notin {Reached("archived", f), Reached("adopt", f), Reached("move", f), Reached("record", f)}
        /\ Landing(f)' => Landing(f)
        /\ ~Coming(f)'
  BY <1>1 DEF Reached, Landing, Coming, Ahead, Working, Moving, Moved, Publishing, Ending
<1> QED BY <1>1, <1>2, <1>3, NothingTouched

\* The transaction comes no nearer to the work on f.
Leads(f) ==
    /\ Landing(f)' => Landing(f)
    /\ Coming(f)' /\ position'[f] = "before" => Coming(f) /\ position[f] = "before"
    /\ at' \notin {Reached("archived", f), Reached("adopt", f), Reached("move", f), Reached("record", f)}

LEMMA OthersKept ==
  ASSUME AgentInv, EditsInv, NEW i \in Files, EditTypes', ForeignAreKept', FileIsKept(i)',
         \A f \in Files \ {i} : Untouched(f) /\ Copies(f) /\ document'.owned[f] = journal'.owned[f] /\ Leads(f)
  PROVE  EditsInv'
<1>1. ASSUME NEW f \in Files \ {i} PROVE FileIsKept(f)'
  BY <1>1, FileFramed DEF EditsInv, AgentInv, Leads
<1> QED BY <1>1 DEF EditsInv

LEMMA PublishSaves == ASSUME AgentInv, EditsInv, NEW i \in Files, PublishTarget(i) PROVE EditsInv'
<1>1. /\ at = [op |-> "publish", file |-> i] /\ at' = [op |-> "unlink", file |-> i]
      /\ agentFile' = [agentFile EXCEPT ![i] = AgentStep(i).after]
      /\ scratch' = [scratch EXCEPT ![i].shared = "target"]
      /\ UNCHANGED <<backups, journal, document, position, edits, applied, displaced, foreign>>
  BY DEF PublishTarget, Order, Reached
<1>2. /\ at.op = "publish" /\ at.op \in Working /\ at.file = i
      /\ at'.op = "unlink" /\ at'.op \in Working /\ at'.file = i
  BY <1>1 DEF Working, Publishing
<1>3. /\ AgentTypes /\ EditTypes /\ journal.pending /\ AgentStep(i) = Intent(i) /\ FileIsKept(i)
      /\ Intent(i).after = Generated(applied) /\ Intent(i).after # NoFile /\ Intent(i).after \in Int
      /\ ContentsAreNew(i) /\ StepIsNew(i) /\ position[i] # "after"
      /\ \A list \in Lists(i) : ListIsTrue(i, list) /\ StepFits(i, list) /\ StepIsReached(i, list)
  BY <1>2, AtWork DEF IsPlan
<1>4. /\ agentFile'[i] = Intent(i).after /\ \A f \in Files \ {i} : agentFile'[f] = agentFile[f]
  BY <1>1, <1>3, FileIs
<1>5. \A f \in Files : scratch'[f].previous = scratch[f].previous
  BY <1>1, <1>3 DEF AgentTypes, Directory
<1>6. EditTypes' /\ ForeignAreKept'
  BY <1>1, <1>3, ForeignStay DEF EditTypes, EditsInv
<1>7. /\ Intent(i)' = Intent(i) /\ \A n : IsForeign(i, n)' = IsForeign(i, n)
      /\ \A c : WasWritten(c)' = WasWritten(c)
      /\ \A list : Filed(i, list)' = Filed(i, list) /\ Unlisted(i, list)' = Unlisted(i, list) /\ Listed(i, list)' = Listed(i, list)
  BY <1>1, <1>5 DEF Intent, IsForeign, WasWritten, Generated, Filed, Unlisted, Listed
<1>8. Landing(i) /\ ~Coming(i)'
  BY <1>1, <1>2, NotBefore DEF Landing, Publishing, Coming, Ahead, Moving
<1>9. ASSUME NEW list \in Lists(i) PROVE ListIsTrue(i, list)' /\ StepFits(i, list)' /\ StepIsReached(i, list)'
  <2>1. ListIsTrue(i, list) /\ StepFits(i, list) /\ (Intent(i).before # NoFile => Filed(i, list))
    BY <1>3, <1>8 DEF StepIsReached
  <2>2. ListIsTrue(i, list)'
    BY <1>1, <1>7, <2>1 DEF ListIsTrue, Trimmable, Enough
  <2>3. StepFits(i, list)'
    BY <1>1, <1>4, <1>5, <1>7, <2>1 DEF StepFits
  <2>4. StepIsReached(i, list)'
    BY <1>1, <1>7, <1>8, <2>1 DEF StepIsReached, Reached
  <2> QED BY <2>2, <2>3, <2>4
<1>10. /\ WasWritten(Intent(i).after) /\ \A b \in foreign : b[3] # Intent(i).after
  <2>1. MAX_EDITS \in Nat /\ applied \in Nat /\ applied > 0 /\ edits \in 1 .. MAX_EDITS
    BY <1>3, NamesAre DEF EditTypes, AgentTypes
  <2>2. \A b \in foreign : b[3] \in 1 .. edits
    BY <1>3 DEF EditTypes
  <2> QED BY <1>3, <2>1, <2>2 DEF WasWritten, Generated
<1>11. ContentsAreNew(i)' /\ StepIsNew(i)'
  <2>1. ContentsAreNew(i)'
    BY <1>1, <1>3, <1>4, <1>5, <1>7, <1>10 DEF ContentsAreNew
  <2>2. StepIsNew(i)'
    BY <1>1, <1>3, <1>4, <1>5, <1>7 DEF StepIsNew
  <2> QED BY <2>1, <2>2
<1>12. FileIsKept(i)'
  BY <1>1, <1>3, <1>9, <1>11 DEF FileIsKept, Lists, Reached
<1>13. \A f \in Files \ {i} : Untouched(f)
  BY <1>1, <1>3, <1>4, <1>5 DEF Untouched, AgentTypes, EditTypes, IsForeign
<1>14. \A f \in Files \ {i} : Copies(f) /\ document'.owned[f] = journal'.owned[f]
  BY <1>1 DEF EditsInv, FileIsKept, Copies, Lists, Reached
<1> QED BY <1>1, <1>2, <1>6, <1>12, <1>13, <1>14, WorkGoesOn

LEMMA PublishedSaves == ASSUME AgentInv, EditsInv, NEW i \in Files, Published(i) PROVE EditsInv'
<1>1. /\ at = [op |-> "published", file |-> i]
      /\ document' = SetStep(i, [AgentStep(i) EXCEPT !.phase = "published"]) /\ Save
      /\ at' = IF i < TARGETS THEN [op |-> "step", file |-> i + 1] ELSE [op |-> "verify", file |-> 1]
      /\ UNCHANGED <<agentFile, scratch, backups, position, edits, applied, displaced, foreign>>
  BY DEF Published, Order, Reached
<1>2. at.op = "published" /\ at.op \in Working /\ at.op \in Publishing /\ at.file = i
  BY <1>1 DEF Working, Publishing
<1>3. /\ AgentTypes /\ journal.pending /\ IsPlan(Intent(i)) /\ AgentStep(i) = Intent(i)
      /\ \A list \in Lists(i) : StepIsReached(i, list)
  BY <1>2, AtWork
<1>4. scratch[i].previous \in {NoFile, Intent(i).before}
  BY <1>2, <1>3 DEF AgentInv, FileIsSound, Intent
<1> DEFINE s == [Intent(i) EXCEPT !.phase = "published"]
<1>5. /\ IsPlan(s) /\ s.before = Intent(i).before /\ s.after = Intent(i).after /\ s.phase = "published"
      /\ s.backup = Intent(i).backup
  BY <1>3, PlanFields DEF IsPlan, Phases
<1>6. document' = SetStep(i, s)
  BY <1>1, <1>3
<1> HIDE DEF s
<1>7. Landing(i) /\ \A list \in Lists(i) : Intent(i).before # NoFile => Filed(i, list)
  <2>1. Landing(i)
    BY <1>2 DEF Landing
  <2> QED BY <1>3, <2>1 DEF StepIsReached
<1>8. Intent(i)' = s => Adopts(i)
  BY <1>4, <1>5, <1>7 DEF Adopts
<1>9. /\ Intent(i)' = s /\ EditTypes' /\ ForeignAreKept'
      /\ \A f \in Files \ {i} : Untouched(f) /\ Copies(f) /\ document'.owned[f] = journal'.owned[f]
      /\ \A list \in Lists(i) : Filed(i, list)' = Filed(i, list)
      /\ (\A list \in Lists(i) : StepIsReached(i, list)') => FileIsKept(i)'
  BY <1>1, <1>3, <1>5, <1>6, <1>8, StepWritten
<1>10. /\ \A f \in Files : f \in Int /\ f <= TARGETS
       /\ TARGETS \in Int /\ i \in Int
       /\ (at'.op = "step" /\ at'.file = i + 1) \/ (at'.op = "verify" /\ i = TARGETS)
  <2>1. \A f \in Files : f \in Int /\ f <= TARGETS /\ TARGETS \in Int
    BY AgentsAssumption DEF Files
  <2>2. i < TARGETS \/ i = TARGETS
    BY <2>1
  <2> QED BY <1>1, <2>1, <2>2
<1>11. ASSUME NEW f \in Files PROVE Landing(f)' => Landing(f)
  <2>1. (f < i + 1 => f < i \/ f = i) /\ (i = TARGETS => f < i \/ f = i)
    BY <1>10
  <2>2. Landing(f)' => position[f] = "after" \/ f < i \/ f = i
    BY <1>1, <1>10, <2>1 DEF Landing, Working, Moving, Moved, Publishing, Ending
  <2> QED BY <1>2, <1>7, <2>2 DEF Landing
<1>12. ASSUME NEW f \in Files PROVE Coming(f)' => f > i
  <2>1. f >= i + 1 => f > i
    BY <1>10
  <2> QED BY <1>10, <2>1 DEF Coming, Ahead, Working, Moving, Moved, Publishing
<1>13. ASSUME NEW list \in Lists(i) PROVE StepIsReached(i, list)'
  <2>1. ~Coming(i)'
    BY <1>10, <1>12, NotBefore
  <2> QED BY <1>5, <1>7, <1>9, <1>10, <2>1 DEF StepIsReached, Reached
<1>14. \A f \in Files \ {i} : Leads(f)
  BY <1>1, <1>2, <1>10, <1>11, <1>12 DEF Leads, Coming, Ahead, Reached
<1> QED BY <1>9, <1>13, <1>14, OthersKept

LEMMA CrashSaves == ASSUME AgentInv, EditsInv, CrashOrFail PROVE EditsInv'
<1>1. /\ at' = [op |-> "idle", file |-> 1] /\ document' = journal /\ \A f \in Files : position'[f] = "before"
      /\ UNCHANGED <<agentFile, backups, journal, edits, applied, displaced, foreign>>
      /\ \/ scratch' = scratch
         \/ \E f \in Files : scratch' = [scratch EXCEPT ![f].next = Torn]
  BY DEF CrashOrFail, Idle
<1>2. AgentTypes /\ EditTypes /\ ForeignAreKept /\ \A f \in Files : FileIsKept(f)
  BY DEF AgentInv, EditsInv
<1>3. \A f \in Files : scratch'[f].previous = scratch[f].previous
  BY <1>1, <1>2 DEF AgentTypes, Directory
<1>4. EditTypes' /\ ForeignAreKept'
  BY <1>1, <1>2, ForeignStay DEF EditTypes
<1>5. ASSUME NEW f \in Files PROVE FileIsKept(f)'
  <2>1. Untouched(f)
    BY <1>1, <1>2, <1>3 DEF Untouched, AgentTypes, EditTypes, IsForeign
  <2>2. Copies(f) /\ document'.owned[f] = journal'.owned[f]
    BY <1>1 DEF Copies, Lists
  <2>3. Leads(f)
    BY <1>1 DEF Leads, Reached, Landing, Coming, Ahead, Working, Moving, Moved, Publishing, Ending
  <2> QED BY <1>2, <2>1, <2>2, <2>3, FileFramed DEF Leads
<1> QED BY <1>4, <1>5 DEF EditsInv

\* The plan is replaced as a whole; every entry is adopted, read again or left.
LEMMA PlansWritten ==
  ASSUME AgentInv, EditsInv, journal.pending, journal'.pending,
         journal'.owned = document'.owned, document'.owned = document.owned,
         UNCHANGED <<agentFile, scratch, backups, displaced, edits, applied, foreign>>,
         \A f \in Files : at # Reached("record", f),
         \A f \in Files :
            /\ Intent(f)'.after = Intent(f).after /\ Intent(f)'.backup = Intent(f).backup
            /\ \/ /\ Adopts(f) \/ ReadsAgain(f)
                  /\ ~Landing(f)' /\ at' \notin {Reached("archived", f), Reached("adopt", f), Reached("move", f), Reached("record", f)}
                  /\ Coming(f)' => ReadsAgain(f)
               \/ journal'.steps[f] = journal.steps[f] /\ Leads(f)
  PROVE  EditsInv'
<1>1. AgentTypes /\ EditTypes /\ ForeignAreKept /\ \A f \in Files : FileIsKept(f)
  BY DEF AgentInv, EditsInv
<1>2. \A f \in Files : document.owned[f] = journal.owned[f]
  BY <1>1 DEF FileIsKept
<1>3. EditTypes' /\ ForeignAreKept'
  BY <1>1, ForeignStay DEF EditTypes
<1>4. ASSUME NEW f \in Files PROVE FileIsKept(f)'
  <2>1. document'.owned[f] = journal'.owned[f] /\ Copies(f) /\ Lists(f)' \subseteq Lists(f)
    BY <1>2 DEF Copies, Lists
  <2>2. CASE /\ Adopts(f) \/ ReadsAgain(f)
             /\ ~Landing(f)' /\ at' \notin {Reached("archived", f), Reached("adopt", f), Reached("move", f), Reached("record", f)}
             /\ Coming(f)' => ReadsAgain(f)
    <3>1. Rewrites(f)
      BY DEF Rewrites
    <3>2. /\ ContentsAreNew(f)' /\ StepIsNew(f)'
          /\ \A list \in Lists(f) : ListIsTrue(f, list)' /\ StepFits(f, list)' /\ Filed(f, list)' = Filed(f, list)
      BY <1>1, <2>2, <3>1, Rewritten
    <3>3. ASSUME NEW list \in Lists(f) PROVE StepIsReached(f, list)'
      BY <2>2, <3>1, <3>2, <3>3 DEF StepIsReached, ReadsAgain, Rewrites
    <3> QED BY <2>1, <3>2, <3>3 DEF FileIsKept
  <2>3. CASE journal'.steps[f] = journal.steps[f] /\ Leads(f)
    <3>1. Untouched(f)
      BY <1>1, <2>3 DEF Untouched, AgentTypes, EditTypes, IsForeign
    <3> QED BY <1>1, <2>1, <2>3, <3>1, FileFramed DEF Leads
  <2> QED BY <2>2, <2>3
<1> QED BY <1>3, <1>4 DEF EditsInv

LEMMA AdoptedBackup ==
  ASSUME AgentTypes, PlanIsDurable, NEW f \in Files
  PROVE  /\ Adopted(f).backup = Intent(f).backup
         /\ Adopted(f).before = IF scratch[f].previous = NoFile THEN Intent(f).before ELSE scratch[f].previous
<1>1. AgentStep(f) = Intent(f) /\ IsPlan(Intent(f)) /\ scratch[f].previous \in Int
  BY DEF AgentTypes, PlanIsDurable, AgentStep, Directory, Intent
<1>2. CASE scratch[f].previous = NoFile
  BY <1>1, <1>2 DEF Adopted
<1>3. CASE scratch[f].previous # NoFile
  <2>1. Adopted(f) = [Intent(f) EXCEPT !.before = scratch[f].previous]
    BY <1>1, <1>3 DEF Adopted
  <2> QED BY <1>1, <1>3, <2>1 DEF IsPlan
<1> QED BY <1>2, <1>3

LEMMA RecoverySaves == ASSUME AgentInv, EditsInv, Recover PROVE EditsInv'
<1> DEFINE p == [f \in Files |-> Adopted(f)]
<1>1. /\ at.op = "idle" /\ journal.pending /\ document' = [document EXCEPT !.steps = p] /\ Save
      /\ at' = [op |-> "stage", file |-> 1]
      /\ UNCHANGED <<agentFile, scratch, backups, position, edits, applied, displaced, foreign>>
  BY DEF Recover, Reached
<1>2. AgentTypes /\ PlanIsDurable /\ \A f \in Files : FileIsSound(f)
  BY DEF AgentInv
<1>3. p = [f \in Files |-> p[f]] /\ \A f \in Files : p[f] = Adopted(f)
  OBVIOUS
<1> HIDE DEF p
<1>4. journal'.pending = document.pending /\ journal'.steps = p
  BY <1>1, <1>2, <1>3, AdoptedIs, SetsPlans
<1>5. document'.owned = document.owned /\ journal'.owned = document'.owned
  BY <1>1, <1>2, OwnedFields DEF AgentTypes, Save
<1>6. journal'.pending
  BY <1>1, <1>2, <1>4 DEF PlanIsDurable
<1>7. \A f \in Files : at # Reached("record", f)
  BY <1>1 DEF Reached
<1>8. ASSUME NEW f \in Files
      PROVE  /\ Intent(f)'.after = Intent(f).after /\ Intent(f)'.backup = Intent(f).backup
             /\ Adopts(f) /\ ~Landing(f)' /\ ~Coming(f)'
             /\ at' \notin {Reached("archived", f), Reached("adopt", f), Reached("move", f), Reached("record", f)}
  <2>1. Intent(f)' = Adopted(f)
    BY <1>3, <1>4 DEF Intent
  <2>2. /\ Adopted(f).after = Intent(f).after /\ Adopted(f).phase = Intent(f).phase
        /\ Adopted(f).backup = Intent(f).backup
        /\ Adopted(f).before = IF scratch[f].previous = NoFile THEN Intent(f).before ELSE scratch[f].previous
    BY <1>2, AdoptedIs, AdoptedBackup DEF Intent
  <2>3. Adopts(f)
    BY <2>1, <2>2 DEF Adopts
  <2>4. position[f] = "before" /\ ~(f < 1)
    BY <1>1, <1>2, AgentsAssumption DEF FileIsSound, Files
  <2>5. ~Landing(f)' /\ ~Coming(f)'
    BY <1>1, <2>4 DEF Landing, Coming, Ahead, Working, Moving, Moved, Publishing, Ending
  <2> QED BY <1>1, <2>1, <2>2, <2>3, <2>5 DEF Reached
<1> QED BY <1>1, <1>5, <1>6, <1>7, <1>8, PlansWritten

LEMMA BoundarySaves == ASSUME AgentInv, EditsInv, Boundary PROVE EditsInv'
<1> DEFINE fresh == {f \in Files : /\ position[f] # "after" /\ AgentStep(f).phase = "planned"
                                   /\ scratch[f].previous = NoFile}
           p == [f \in Files |-> IF f \in fresh THEN [AgentStep(f) EXCEPT !.before = agentFile[f]] ELSE AgentStep(f)]
<1>1. /\ at.op = "boundary" /\ document' = [document EXCEPT !.steps = p] /\ Save
      /\ position' = [f \in Files |-> IF f \in fresh THEN "before" ELSE position[f]]
      /\ at' = [op |-> "step", file |-> 1]
      /\ UNCHANGED <<agentFile, scratch, backups, edits, applied, displaced, foreign>>
  BY DEF Boundary, Reached
<1>2. /\ AgentTypes /\ PlanIsDurable /\ \A f \in Files : FileIsSound(f)
      /\ EditTypes /\ \A f \in Files : FileIsKept(f)
  BY DEF AgentInv, EditsInv
<1>3. /\ p = [f \in Files |-> p[f]]
      /\ \A f \in Files : /\ f \in fresh => p[f] = [AgentStep(f) EXCEPT !.before = agentFile[f]]
                          /\ f \notin fresh => p[f] = AgentStep(f)
                          /\ f \in fresh => position[f] # "after" /\ AgentStep(f).phase = "planned"
                                            /\ scratch[f].previous = NoFile
  OBVIOUS
<1> HIDE DEF p, fresh
<1>4. \A f \in Files : /\ AgentStep(f) = Intent(f) /\ IsPlan(Intent(f)) /\ agentFile[f] \in Int
                       /\ journal.steps[f] = Intent(f)
  BY <1>2 DEF AgentTypes, PlanIsDurable, AgentStep, Intent
<1>5. \A f \in Files : /\ IsPlan(p[f]) /\ p[f].after = Intent(f).after /\ p[f].phase = Intent(f).phase
                       /\ p[f].backup = Intent(f).backup
                       /\ f \in fresh => p[f].before = agentFile[f]
                       /\ f \notin fresh => p[f] = Intent(f)
  <2> SUFFICES ASSUME NEW f \in Files
               PROVE  /\ IsPlan(p[f]) /\ p[f].after = Intent(f).after /\ p[f].phase = Intent(f).phase
                      /\ p[f].backup = Intent(f).backup
                      /\ f \in fresh => p[f].before = agentFile[f]
                      /\ f \notin fresh => p[f] = Intent(f)
    OBVIOUS
  <2>1. CASE f \in fresh
    <3>1. p[f] = [Intent(f) EXCEPT !.before = agentFile[f]]
      BY <1>3, <1>4, <2>1
    <3>2. p[f].backup = Intent(f).backup
      BY <1>4, <3>1 DEF IsPlan
    <3> QED BY <1>4, <2>1, <3>1, <3>2, PlanFields
  <2>2. CASE f \notin fresh
    BY <1>3, <1>4, <2>2
  <2> QED BY <2>1, <2>2
<1>6. journal'.pending = document.pending /\ journal'.steps = p
  BY <1>1, <1>2, <1>3, <1>5, SetsPlans
<1>7. document'.owned = document.owned /\ journal'.owned = document'.owned
  BY <1>1, <1>2, OwnedFields DEF AgentTypes, Save
<1>8. journal.pending /\ journal'.pending
  <2>1. 1 \in Files
    BY AgentsAssumption DEF Files
  <2> QED BY <1>1, <1>2, <1>6, <2>1 DEF PlanIsDurable, FileIsSound
<1>9. \A f \in Files : at # Reached("record", f)
  BY <1>1 DEF Reached
<1>10. ASSUME NEW f \in Files
       PROVE  /\ Intent(f)'.after = Intent(f).after /\ Intent(f)'.backup = Intent(f).backup
              /\ \/ /\ ReadsAgain(f)
                    /\ ~Landing(f)' /\ at' \notin {Reached("archived", f), Reached("adopt", f), Reached("move", f), Reached("record", f)}
                 \/ journal'.steps[f] = journal.steps[f] /\ Leads(f)
  <2>1. Intent(f)' = p[f] /\ f \in Int /\ f >= 1 /\ ~(f < 1)
    BY <1>6, AgentsAssumption DEF Intent, Files
  <2>2. CASE f \in fresh
    <3>1. ASSUME NEW list \in Lists(f) PROVE ~Filed(f, list)
      <4>1. StepFits(f, list)
        BY <1>2, <1>8, <3>1 DEF FileIsKept
      <4> QED BY <1>3, <1>4, <2>2, <4>1 DEF StepFits
    <3>2. ReadsAgain(f)
      BY <1>3, <1>4, <1>5, <2>1, <2>2, <3>1 DEF ReadsAgain
    <3>3. position'[f] = "before"
      BY <1>1, <2>2
    <3>4. ~Landing(f)'
      BY <1>1, <2>1, <3>3 DEF Landing, Working, Moving, Moved, Publishing, Ending
    <3> QED BY <1>1, <1>5, <2>1, <3>2, <3>4 DEF Reached
  <2>3. CASE f \notin fresh
    <3>1. journal'.steps[f] = journal.steps[f]
      BY <1>4, <1>5, <1>6, <2>3
    <3>2. position'[f] = position[f]
      BY <1>1, <2>3
    <3>3. Leads(f)
      BY <1>1, <2>1, <3>2 DEF Leads, Reached, Landing, Coming, Ahead, Working, Moving, Moved, Publishing, Ending
    <3> QED BY <1>5, <2>1, <2>3, <3>1, <3>3
  <2> QED BY <2>2, <2>3
<1> QED BY <1>1, <1>7, <1>8, <1>9, <1>10, PlansWritten

LEMMA StageSaves == ASSUME AgentInv, EditsInv, NEW i \in Files, StageTargets(i) PROVE EditsInv'
<1> DEFINE a == Adopted(i)
           p == Classify(i, a)
           s == IF p = "after" THEN [a EXCEPT !.phase = "published"] ELSE a
<1>1. /\ at = [op |-> "stage", file |-> i] /\ p # "unknown" /\ document' = SetStep(i, s) /\ Save
      /\ scratch' = IF p = "after" THEN scratch ELSE [scratch EXCEPT ![i].next = a.after]
      /\ position' = [position EXCEPT ![i] = p]
      /\ at' = IF i < TARGETS THEN [op |-> "stage", file |-> i + 1] ELSE [op |-> "boundary", file |-> 1]
      /\ UNCHANGED <<agentFile, backups, edits, applied, displaced, foreign>>
  BY DEF StageTargets, Reached
<1>2. AgentTypes /\ PlanIsDurable /\ FileIsSound(i) /\ FileIsKept(i)
  BY DEF AgentInv, EditsInv
<1>3. journal.pending
  BY <1>1, <1>2 DEF FileIsSound
<1>4. /\ IsPlan(a) /\ a.after = Intent(i).after /\ a.phase = Intent(i).phase /\ a.backup = Intent(i).backup
      /\ a.before = IF scratch[i].previous = NoFile THEN Intent(i).before ELSE scratch[i].previous
  BY <1>2, AdoptedIs, AdoptedBackup DEF Intent
<1>5. /\ StepIsNew(i) /\ \A list \in Lists(i) : StepFits(i, list)
  BY <1>2, <1>3 DEF FileIsKept
<1> DEFINE untried == a.phase = "planned" /\ scratch[i].previous = NoFile
<1>6. /\ p = "after" => agentFile[i] = a.after /\ ~untried
      /\ p = "before" => untried \/ (agentFile[i] = a.before /\ agentFile[i] # a.after)
  BY DEF Classify
<1>7. /\ IsPlan(s) /\ s.after = a.after /\ s.before = a.before /\ s.backup = a.backup
      /\ p = "after" => s.phase = "published"
      /\ p # "after" => s.phase = a.phase
  <2>1. CASE p = "after"
    <3>1. s = [a EXCEPT !.phase = "published"]
      BY <2>1
    <3> HIDE DEF s, p, a
    <3>2. s.backup = a.backup
      BY <1>4, <3>1 DEF IsPlan
    <3> QED BY <1>4, <2>1, <3>1, <3>2, PlanFields DEF Phases
  <2>2. CASE p # "after"
    BY <1>4, <2>2
  <2> QED BY <2>1, <2>2
<1> HIDE DEF p, a, s
<1>8. ASSUME NEW list \in Lists(i)
      PROVE  /\ p = "after" /\ Intent(i).before # NoFile => Filed(i, list)
             /\ p = "after" /\ a.before # NoFile => Filed(i, list)
             /\ p = "before" => ~Filed(i, list) /\ (a.phase # "planned" => agentFile[i] # a.after)
  <2>1. StepFits(i, list) /\ (scratch[i].previous # NoFile => Intent(i).before # NoFile)
    BY <1>5 DEF StepIsNew
  <2>2. ASSUME p = "after", Intent(i).before # NoFile PROVE Filed(i, list)
    BY <1>4, <1>6, <2>1, <2>2 DEF StepFits
  <2>3. a.before # NoFile => Intent(i).before # NoFile
    BY <1>4, <2>1
  <2>4. ASSUME p = "before", Filed(i, list) PROVE FALSE
    BY <1>4, <1>6, <2>1, <2>4 DEF StepFits
  <2>5. ASSUME p = "before", a.phase # "planned" PROVE agentFile[i] # a.after
    BY <1>6, <2>5
  <2> QED BY <2>2, <2>3, <2>4, <2>5
<1>9. Intent(i)' = s => Adopts(i)
  BY <1>4, <1>6, <1>7, <1>8 DEF Adopts
<1>10. \A f \in Files : scratch'[f].previous = scratch[f].previous
  BY <1>1, <1>2 DEF AgentTypes, Directory
<1>11. /\ Intent(i)' = s /\ EditTypes' /\ ForeignAreKept'
       /\ \A f \in Files \ {i} : Untouched(f) /\ Copies(f) /\ document'.owned[f] = journal'.owned[f]
       /\ \A list \in Lists(i) : Filed(i, list)' = Filed(i, list)
       /\ (\A list \in Lists(i) : StepIsReached(i, list)') => FileIsKept(i)'
  BY <1>1, <1>3, <1>4, <1>7, <1>9, <1>10, StepWritten
<1>12. position'[i] = p /\ \A f \in Files \ {i} : position'[f] = position[f]
  BY <1>1, <1>2 DEF AgentTypes
<1>13. /\ \A f \in Files : f \in Int /\ f <= TARGETS
       /\ TARGETS \in Int /\ i \in Int
       /\ (at'.op = "stage" /\ at'.file = i + 1) \/ (at'.op = "boundary" /\ i = TARGETS)
  <2>1. \A f \in Files : f \in Int /\ f <= TARGETS /\ TARGETS \in Int
    BY AgentsAssumption DEF Files
  <2>2. i < TARGETS \/ i = TARGETS
    BY <2>1
  <2> QED BY <1>1, <2>1, <2>2
<1>14. ASSUME NEW list \in Lists(i) PROVE StepIsReached(i, list)'
  <2>1. Landing(i)' => p = "after"
    BY <1>12, <1>13 DEF Landing, Working, Moving, Moved, Publishing, Ending
  <2>2. /\ Intent(i)'.before = a.before /\ Intent(i)'.after = a.after /\ agentFile'[i] = agentFile[i]
        /\ p = "before" => Intent(i)'.phase = a.phase
        /\ Filed(i, list)' = Filed(i, list)
    BY <1>1, <1>7, <1>11
  <2> QED BY <1>8, <1>12, <1>13, <2>1, <2>2 DEF StepIsReached, Reached
<1>15. ASSUME NEW f \in Files \ {i} PROVE Leads(f)
  <2>1. f \in Int /\ (f < i + 1 => f < i) /\ (i = TARGETS => f < i)
    BY <1>13
  <2>2. Landing(f)' => position[f] = "after"
    BY <1>12, <1>13 DEF Landing, Working, Moving, Moved, Publishing, Ending
  <2>3. Coming(f)' => f < i
    BY <1>13, <2>1 DEF Coming, Ahead, Working, Moving, Moved, Publishing
  <2> QED BY <1>1, <1>12, <1>13, <2>2, <2>3 DEF Leads, Landing, Coming, Ahead, Reached
<1> QED BY <1>11, <1>14, <1>15, OthersKept

LEMMA CleanupSaves == ASSUME AgentInv, EditsInv, NEW i \in Files, Cleanup(i) PROVE EditsInv'
<1>1. /\ at = [op |-> "cleanup", file |-> i]
      /\ scratch' = [scratch EXCEPT ![i] = EmptyScratch]
      /\ (\/ AgentStep(i).before = NoFile
          \/ AgentStep(i).backup \in {b.name : b \in Range(document.owned[i])}) => document' = document
      /\ at' = IF i < TARGETS THEN [op |-> "cleanup", file |-> i + 1] ELSE [op |-> "complete", file |-> 1]
      /\ UNCHANGED <<agentFile, backups, journal, position, edits, applied, displaced, foreign>>
  BY DEF Cleanup, Reached
<1>2. AgentTypes /\ PlanIsDurable /\ FileIsSound(i) /\ EditTypes /\ ForeignAreKept /\ \A f \in Files : FileIsKept(f)
  BY DEF AgentInv, EditsInv
<1>3. journal.pending /\ Intent(i).phase = "published" /\ AgentStep(i) = Intent(i)
  BY <1>1, <1>2 DEF FileIsSound, Ending, Intent, AgentStep, PlanIsDurable
<1>4. /\ ContentsAreNew(i) /\ StepIsNew(i) /\ document.owned[i] = journal.owned[i]
      /\ \A list \in Lists(i) : ListIsTrue(i, list) /\ StepFits(i, list) /\ StepIsReached(i, list)
  BY <1>1, <1>2, <1>3 DEF FileIsKept, Reached
<1>5. \A f \in Files : Landing(f)
  BY <1>1 DEF Landing, Ending
<1>6. \A list \in Lists(i) : Intent(i).before # NoFile => Filed(i, list)
  BY <1>4, <1>5 DEF StepIsReached
<1>7. document' = document
  <2>1. ASSUME Intent(i).before # NoFile PROVE Intent(i).backup \in {b.name : b \in Range(document.owned[i])}
    <3>1. Filed(i, document.owned[i])
      BY <1>6, <2>1 DEF Lists
    <3> QED BY <3>1 DEF Filed, Range
  <2> QED BY <1>1, <1>3, <2>1
<1>8. /\ scratch'[i].previous = NoFile /\ \A f \in Files \ {i} : scratch'[f].previous = scratch[f].previous
  BY <1>1, <1>2 DEF AgentTypes, EmptyScratch
<1>9. EditTypes' /\ ForeignAreKept'
  BY <1>1, <1>2, <1>7, ForeignStay DEF EditTypes
<1>10. /\ Intent(i)' = Intent(i) /\ \A n : IsForeign(i, n)' = IsForeign(i, n)
       /\ \A c : WasWritten(c)' = WasWritten(c) /\ \A list : Filed(i, list)' = Filed(i, list)
       /\ Lists(i)' = Lists(i)
  BY <1>1, <1>7 DEF Intent, IsForeign, WasWritten, Generated, Filed, Lists
<1>11. ~Coming(i)' /\ at'.op \in {"cleanup", "complete"}
  BY <1>1 DEF Coming, Ahead, Working, Moving, Moved, Publishing
<1>12. ASSUME NEW list \in Lists(i) PROVE ListIsTrue(i, list)' /\ StepFits(i, list)' /\ StepIsReached(i, list)'
  <2>1. /\ ListIsTrue(i, list) /\ StepFits(i, list) /\ (Intent(i).before # NoFile => Filed(i, list))
        /\ (scratch[i].previous # NoFile => Filed(i, list))
    BY <1>4, <1>6 DEF StepIsNew
  <2>2. Unlisted(i, list)' = Unlisted(i, list)
    BY <1>8, <1>10, <2>1 DEF Unlisted
  <2>3. Listed(i, list)' = Listed(i, list)
    BY <1>1, <2>2 DEF Listed
  <2>4. ListIsTrue(i, list)'
    BY <1>1, <1>10, <2>1, <2>2, <2>3 DEF ListIsTrue, Trimmable, Enough
  <2>5. StepFits(i, list)'
    BY <1>1, <1>3, <1>8, <1>10, <2>1 DEF StepFits
  <2>6. StepIsReached(i, list)'
    BY <1>1, <1>10, <1>11, <2>1 DEF StepIsReached, Reached
  <2> QED BY <2>4, <2>5, <2>6
<1>13. ContentsAreNew(i)' /\ StepIsNew(i)'
  <2>1. WasWritten(NoFile) /\ \A b \in foreign : b[3] # NoFile
    BY <1>2 DEF WasWritten, EditTypes, NoFile
  <2>2. ContentsAreNew(i)'
    BY <1>1, <1>4, <1>8, <1>10, <2>1 DEF ContentsAreNew
  <2>3. StepIsNew(i)'
    BY <1>1, <1>4, <1>8, <1>10 DEF StepIsNew
  <2> QED BY <2>2, <2>3
<1>14. FileIsKept(i)'
  BY <1>1, <1>4, <1>7, <1>10, <1>12, <1>13 DEF FileIsKept
<1>15. ASSUME NEW f \in Files \ {i}
       PROVE  Untouched(f) /\ Copies(f) /\ document'.owned[f] = journal'.owned[f] /\ Leads(f)
  <2>1. Untouched(f)
    BY <1>1, <1>2, <1>8 DEF Untouched, AgentTypes, EditTypes, IsForeign
  <2>2. Copies(f) /\ document'.owned[f] = journal'.owned[f]
    BY <1>1, <1>2, <1>7 DEF FileIsKept, Copies, Lists, Reached
  <2>3. Leads(f)
    BY <1>5, <1>11 DEF Leads, Reached, Coming, Ahead, Working, Moving, Moved, Publishing
  <2> QED BY <2>1, <2>2, <2>3
<1> QED BY <1>9, <1>14, <1>15, OthersKept

\* The transaction does not move: nothing is asked anew of the other files.
LEMMA StandingStill ==
  ASSUME AgentInv, EditsInv, NEW i \in Files, UNCHANGED <<journal, document, at, position>>,
         EditTypes', ForeignAreKept', FileIsKept(i)', \A f \in Files \ {i} : Untouched(f)
  PROVE  EditsInv'
<1>1. ASSUME NEW f \in Files \ {i} PROVE FileIsKept(f)'
  <2>1. AgentTypes /\ EditTypes /\ FileIsKept(f)
    BY DEF AgentInv, EditsInv
  <2>2. Copies(f) /\ (at' # Reached("record", f) => document'.owned[f] = journal'.owned[f])
    BY <2>1 DEF FileIsKept, Copies, Lists
  <2>3. Landing(f)' = Landing(f) /\ Coming(f)' = Coming(f)
    BY DEF Landing, Coming, Ahead
  <2> QED BY <2>1, <2>2, <2>3, FileFramed
<1> QED BY <1>1 DEF EditsInv

LEMMA LaterEdit ==
  ASSUME AgentTypes, EditTypes, edits < MAX_EDITS, edits' = edits + 1, applied' = applied
  PROVE  /\ edits \in Nat /\ edits' \in Nat /\ edits' >= edits /\ edits' > edits /\ edits' \in 1 .. MAX_EDITS
         /\ edits + 1 # NoFile /\ edits + 1 \in Int
         /\ \A c \in Int : WasWritten(c) => WasWritten(c)' /\ c # edits + 1
         /\ WasWritten(NoFile)' /\ \A x : x = edits + 1 => WasWritten(x)'
         /\ \A n \in Nat : n < applied + edits => n < applied' + edits' /\ n + 1 < applied' + edits'
         /\ Generated(applied) # NoFile
         /\ applied > 0 => Generated(applied) # edits + 1
<1>1. edits \in Nat /\ edits >= 1 /\ MAX_EDITS \in Nat /\ applied \in Nat
  BY NamesAre DEF AgentTypes
<1>2. ASSUME NEW c \in Int, WasWritten(c) PROVE WasWritten(c)' /\ c # edits + 1
  BY <1>1, <1>2 DEF WasWritten, Generated, NoFile
<1>3. WasWritten(NoFile)' /\ \A x : x = edits + 1 => WasWritten(x)'
  BY <1>1 DEF WasWritten
<1>4. \A n \in Nat : n < applied + edits => n < applied' + edits' /\ n + 1 < applied' + edits'
  BY <1>1
<1>5. Generated(applied) # NoFile /\ (applied > 0 => Generated(applied) # edits + 1)
  BY <1>1 DEF Generated, NoFile
<1>6. edits' \in Nat /\ edits' >= edits /\ edits' > edits /\ edits' \in 1 .. MAX_EDITS /\ edits + 1 # NoFile /\ edits + 1 \in Int
  BY <1>1 DEF NoFile
<1> QED BY <1>1, <1>2, <1>3, <1>4, <1>5, <1>6

LEMMA EditSaves ==
  ASSUME AgentInv, EditsInv, NEW i \in Files, UserWrites(i) \/ UserDeletes(i)
  PROVE  EditsInv'
<1>1. PICK c \in {NoFile, edits + 1} :
        /\ edits < MAX_EDITS /\ edits' = edits + 1
        /\ agentFile' = [agentFile EXCEPT ![i] = c]
        /\ scratch' = [scratch EXCEPT ![i].shared = IF @ = "target" THEN "none" ELSE @]
        /\ UNCHANGED <<backups, journal, document, at, position, applied, displaced, foreign>>
  BY DEF UserWrites, UserDeletes
<1>2. AgentTypes /\ EditTypes /\ ForeignAreKept /\ FileIsSound(i) /\ FileIsKept(i)
  BY DEF AgentInv, EditsInv
<1>3. /\ edits \in Nat /\ edits' \in Nat /\ edits' >= edits /\ edits + 1 \in Int /\ edits + 1 # NoFile
      /\ \A x \in Int : WasWritten(x) => WasWritten(x)' /\ x # edits + 1
      /\ WasWritten(NoFile)' /\ \A x : x = edits + 1 => WasWritten(x)'
      /\ \A n \in Nat : n < applied + edits => n < applied' + edits' /\ n + 1 < applied' + edits'
      /\ Generated(applied) # NoFile
      /\ applied > 0 => Generated(applied) # edits + 1
  BY <1>1, <1>2, LaterEdit
<1>4. /\ c \in Int /\ WasWritten(c)' /\ \A x \in Int : WasWritten(x) /\ x # NoFile => c # x
      /\ (applied > 0 => Generated(applied) # c)
  BY <1>1, <1>3 DEF NoFile
<1> HIDE DEF WasWritten
<1>5. agentFile'[i] = c /\ \A f \in Files \ {i} : agentFile'[f] = agentFile[f]
  BY <1>1, <1>2, <1>4, FileIs
<1>6. \A f \in Files : scratch'[f].previous = scratch[f].previous /\ scratch[f].previous \in Int
  BY <1>1, <1>2 DEF AgentTypes, Directory
<1>7. \A b \in foreign : b[3] \in 1 .. edits /\ b[3] # c
  <2>1. \A b \in foreign : b[3] \in 1 .. edits
    BY <1>2 DEF EditTypes
  <2> QED BY <1>1, <1>3, <2>1 DEF NoFile
<1>8. EditTypes' /\ ForeignAreKept'
  <2>1. 1 .. edits \subseteq 1 .. edits'
    BY <1>3
  <2>2. foreign' \subseteq Files \X Names \X (1 .. edits')
    BY <1>1, <1>2, <2>1 DEF EditTypes
  <2> QED BY <1>1, <1>2, <2>2, ForeignStay DEF EditTypes
<1>9. /\ Intent(i)' = Intent(i) /\ \A n : IsForeign(i, n)' = IsForeign(i, n)
      /\ \A list : Filed(i, list)' = Filed(i, list) /\ Unlisted(i, list)' = Unlisted(i, list) /\ Listed(i, list)' = Listed(i, list)
      /\ Lists(i)' = Lists(i) /\ Landing(i)' = Landing(i) /\ Coming(i)' = Coming(i)
  BY <1>1, <1>6 DEF Intent, IsForeign, Filed, Unlisted, Listed, Lists, Landing, Coming, Ahead
<1>10. journal.pending => c # Intent(i).after
  <2>1. journal.pending => Intent(i).after = Generated(applied) /\ applied > 0
    BY <1>2 DEF FileIsSound, EditTypes, Intent
  <2> QED BY <1>4, <2>1
<1>11. ASSUME NEW list \in Lists(i)
       PROVE  ListIsTrue(i, list)' /\ (journal'.pending => StepFits(i, list)') /\ StepIsReached(i, list)'
  <2>1. ListIsTrue(i, list) /\ (journal.pending => StepFits(i, list)) /\ StepIsReached(i, list)
    BY <1>2 DEF FileIsKept
  <2>2. ListIsTrue(i, list)'
    BY <1>1, <1>9, <2>1 DEF ListIsTrue, Trimmable, Enough
  <2>3. ASSUME journal.pending PROVE StepFits(i, list)'
    <3>1. StepFits(i, list)
      BY <2>1, <2>3
    <3>2. StepIsNew(i) /\ Intent(i).before \in Int
      BY <1>2, <2>3 DEF FileIsKept, AgentTypes, IsPlan, Intent
    <3>3. Filed(i, list) => Intent(i).before # NoFile
      <4> SUFFICES ASSUME Filed(i, list) PROVE Intent(i).before # NoFile
        OBVIOUS
      <4>1. Len(list) \in DOMAIN list
        BY <2>1, ListFacts DEF Filed
      <4> QED BY <2>1, <3>1, <4>1, ListFacts DEF StepFits
    <3>4. Filed(i, list) => c # Intent(i).before
      BY <1>4, <3>2, <3>3 DEF StepIsNew
    <3> QED BY <1>1, <1>5, <1>6, <1>9, <1>10, <2>3, <3>1, <3>4 DEF StepFits
  <2>4. StepIsReached(i, list)'
    <3>1. at.op = "idle" \/ journal.pending
      BY <1>2 DEF FileIsSound
    <3>2. Coming(i) => journal.pending
      BY <3>1 DEF Coming, Ahead, Working, Moving, Moved, Publishing
    <3> QED BY <1>1, <1>5, <1>6, <1>9, <1>10, <2>1, <3>2 DEF StepIsReached
  <2> QED BY <1>1, <2>2, <2>3, <2>4
<1>12. ContentsAreNew(i)' /\ (journal'.pending => StepIsNew(i)')
  <2>1. ContentsAreNew(i) /\ Names \subseteq Nat
    BY <1>2, NamesAre DEF FileIsKept
  <2>2. \A n \in Names : backups[i][n] # NoFile => n < applied' + edits'
    BY <1>3, <2>1 DEF ContentsAreNew
  <2>3. ContentsAreNew(i)'
    BY <1>1, <1>3, <1>4, <1>5, <1>6, <1>7, <2>1, <2>2 DEF ContentsAreNew
  <2>4. ASSUME journal.pending PROVE StepIsNew(i)'
    <3>1. StepIsNew(i) /\ Intent(i).before \in Int
      BY <1>2, <2>4 DEF FileIsKept, AgentTypes, IsPlan, Intent
    <3>2. scratch[i].previous # NoFile => c # scratch[i].previous
      BY <1>4, <1>6, <2>1 DEF ContentsAreNew
    <3>3. /\ Intent(i).backup \in Names /\ Intent(i).backup < applied' + edits'
          /\ IsForeign(i, Intent(i).backup) => Intent(i).backup + 1 < applied' + edits'
      BY <1>3, <2>1, <3>1 DEF StepIsNew
    <3> QED BY <1>1, <1>3, <1>5, <1>6, <1>9, <3>1, <3>2, <3>3 DEF StepIsNew
  <2> QED BY <1>1, <2>3, <2>4
<1>13. FileIsKept(i)'
  BY <1>1, <1>2, <1>9, <1>11, <1>12 DEF FileIsKept
<1>14. ASSUME NEW f \in Files \ {i} PROVE Untouched(f)
  BY <1>1, <1>2, <1>3, <1>5, <1>6 DEF Untouched, AgentTypes, EditTypes, IsForeign
<1> QED BY <1>1, <1>8, <1>13, <1>14, StandingStill

LEMMA TakesNameSaves == ASSUME AgentInv, EditsInv, NEW i \in Files, UserTakesName(i) PROVE EditsInv'
<1> DEFINE n == Intent(i).backup
           c == edits + 1
<1>1. /\ journal.pending /\ backups[i][n] = NoFile /\ edits < MAX_EDITS /\ edits' = c
      /\ backups' = [backups EXCEPT ![i][n] = c]
      /\ foreign' = foreign \cup {<<i, n, c>>}
      /\ UNCHANGED <<agentFile, scratch, journal, document, at, position, applied, displaced>>
  BY DEF UserTakesName, Intent
<1>2. AgentTypes /\ EditTypes /\ ForeignAreKept /\ FileIsKept(i)
  BY DEF AgentInv, EditsInv
<1>3. /\ ContentsAreNew(i) /\ StepIsNew(i)
      /\ \A list \in Lists(i) : ListIsTrue(i, list) /\ StepFits(i, list) /\ StepIsReached(i, list)
  BY <1>1, <1>2 DEF FileIsKept
<1>4. /\ edits \in Nat /\ edits' \in Nat /\ edits' >= edits /\ edits' > edits /\ edits' \in 1 .. MAX_EDITS
      /\ c \in Int /\ c # NoFile
      /\ \A x \in Int : WasWritten(x) => WasWritten(x)' /\ x # c
      /\ \A m \in Nat : m < applied + edits => m < applied' + edits' /\ m + 1 < applied' + edits'
  BY <1>1, <1>2, LaterEdit
<1>5. n \in Names /\ n \in Nat /\ n < applied + edits /\ Names \subseteq Nat
  BY <1>3, NamesAre DEF StepIsNew
<1>6. /\ agentFile[i] \in Int /\ scratch[i].previous \in Int /\ Intent(i).before \in Int
  BY <1>2 DEF AgentTypes, Directory, IsPlan, Intent
<1> HIDE DEF n, c
<1>7. /\ backups' \in [Files -> [Names -> Int]] /\ backups'[i][n] = c
      /\ \A m \in Names \ {n} : backups'[i][m] = backups[i][m]
      /\ \A f \in Files \ {i} : backups'[f] = backups[f]
  <2>1. backups \in [Files -> [Names -> Int]]
    BY <1>2 DEF EditTypes
  <2> QED BY <1>1, <1>4, <1>5, <2>1
<1>8. \A b \in foreign' : b \in foreign \/ b = <<i, n, c>>
  BY <1>1
<1>9. /\ \A f \in Files \ {i} : \A m : IsForeign(f, m)' = IsForeign(f, m)
      /\ \A m : IsForeign(i, m)' <=> IsForeign(i, m) \/ m = n
      /\ \A b \in foreign' : b \in foreign \/ b[3] = c
      /\ \A b \in foreign : b \in Files \X Names \X (1 .. edits)
  <2>1. ASSUME NEW f, NEW m PROVE IsForeign(f, m)' <=> IsForeign(f, m) \/ (f = i /\ m = n)
    <3>1. IsForeign(f, m)' <=> \E b \in foreign' : b[1] = f /\ b[2] = m
      BY DEF IsForeign
    <3>2. IsForeign(f, m) <=> \E b \in foreign : b[1] = f /\ b[2] = m
      BY DEF IsForeign
    <3>3. <<i, n, c>>[1] = i /\ <<i, n, c>>[2] = n
      OBVIOUS
    <3> QED BY <1>1, <3>1, <3>2, <3>3
  <2>2. \A b \in foreign' : b \in foreign \/ b[3] = c
    BY <1>8
  <2>3. \A b \in foreign : b \in Files \X Names \X (1 .. edits)
    BY <1>2 DEF EditTypes
  <2>4. \A f \in Files \ {i} : \A m : IsForeign(f, m)' = IsForeign(f, m)
    BY <2>1 DEF IsForeign
  <2>5. \A m : IsForeign(i, m)' <=> IsForeign(i, m) \/ m = n
    BY <2>1
  <2> QED BY <2>2, <2>3, <2>4, <2>5
<1>10. ForeignAreKept'
  <2> SUFFICES ASSUME NEW b \in foreign' PROVE backups'[b[1]][b[2]] = b[3]
    BY DEF ForeignAreKept
  <2>1. CASE b = <<i, n, c>>
    BY <1>7, <2>1
  <2>2. CASE b \in foreign
    <3>1. b[1] \in Files /\ b[2] \in Names /\ b[3] # NoFile /\ backups[b[1]][b[2]] = b[3]
      BY <1>2, <1>9, <2>2 DEF ForeignAreKept, NoFile
    <3>2. ~(b[1] = i /\ b[2] = n)
      BY <1>1, <3>1 DEF n
    <3> QED BY <1>7, <3>1, <3>2
  <2> QED BY <1>8, <2>1, <2>2
<1>11. EditTypes'
  <2>1. 1 .. edits \subseteq 1 .. edits' /\ c \in 1 .. edits'
    BY <1>1, <1>4
  <2>2. foreign' \subseteq Files \X Names \X (1 .. edits')
    BY <1>1, <1>5, <1>9, <2>1
  <2> QED BY <1>1, <1>2, <1>7, <2>2 DEF EditTypes
<1>12. /\ Intent(i)' = Intent(i) /\ Lists(i)' = Lists(i) /\ Landing(i)' = Landing(i) /\ Coming(i)' = Coming(i)
       /\ \A list : Filed(i, list)' = Filed(i, list) /\ Unlisted(i, list)' = Unlisted(i, list) /\ Listed(i, list)' = Listed(i, list)
  BY <1>1 DEF Intent, Lists, Landing, Coming, Ahead, Filed, Unlisted, Listed
<1>13. ASSUME NEW list \in Lists(i) PROVE ListIsTrue(i, list)' /\ StepFits(i, list)' /\ StepIsReached(i, list)'
  <2>1. ListIsTrue(i, list) /\ StepFits(i, list) /\ StepIsReached(i, list)
    BY <1>3
  <2>2. ~Filed(i, list)
    BY <1>1, <1>5, <2>1, FiledIsThere DEF n
  <2>3. \A k \in DOMAIN list : list[k].name \in Names \ {n}
    BY <1>1, <2>1, <2>2, ListFacts DEF Filed, n
  <2>4. ListIsTrue(i, list)'
    <3>1. \A k \in DOMAIN list : ~IsForeign(i, list[k].name)'
      BY <1>9, <2>1, <2>3 DEF ListIsTrue
    <3>2. PICK gone \in 0 .. Len(list) : Trimmable(i, list, gone) /\ Enough(i, list, Len(list) - gone)
      BY <2>1 DEF ListIsTrue
    <3>3. Trimmable(i, list, gone)'
      BY <1>7, <2>3, <3>2 DEF Trimmable
    <3>4. Enough(i, list, Len(list) - gone)'
      BY <1>12, <3>2 DEF Enough
    <3> QED BY <1>1, <1>12, <2>1, <3>1, <3>3, <3>4 DEF ListIsTrue
  <2>5. StepFits(i, list)'
    <3>1. \A m : m = n => IsForeign(i, m)'
      BY <1>9
    <3> QED BY <1>1, <1>12, <2>1, <2>2, <3>1 DEF StepFits, n
  <2>6. StepIsReached(i, list)'
    <3>1. at # Reached("record", i)
      <4> SUFFICES ASSUME at = Reached("record", i) PROVE FALSE
        OBVIOUS
      <4>1. at.op = "record" /\ at.file = i
        BY DEF Reached
      <4>2. scratch[i].previous # NoFile /\ scratch[i].previous = Intent(i).before
        BY <4>1, AtWork DEF Working, Moved
      <4>3. backups[i][n] = Intent(i).before
        BY <2>1 DEF StepIsReached, n
      <4> QED BY <1>1, <4>2, <4>3
    <3> QED BY <1>1, <1>12, <2>1, <3>1 DEF StepIsReached
  <2> QED BY <2>4, <2>5, <2>6
<1>14. ContentsAreNew(i)'
  <2>1. \A m \in Names : backups'[i][m] # NoFile => m < applied' + edits'
    BY <1>3, <1>4, <1>5, <1>7 DEF ContentsAreNew
  <2>2. \A b \in foreign' : b[3] # agentFile[i] /\ b[3] # scratch[i].previous
    BY <1>3, <1>4, <1>6, <1>9 DEF ContentsAreNew
  <2> QED BY <1>1, <1>3, <1>4, <1>6, <2>1, <2>2 DEF ContentsAreNew
<1>15. StepIsNew(i)'
  <2>1. n < applied' + edits' /\ n + 1 < applied' + edits'
    BY <1>4, <1>5
  <2>2. \A m \in Names : backups'[i][m] # NoFile => m <= n
    BY <1>3, <1>5, <1>7 DEF StepIsNew, n
  <2>3. \A b \in foreign' : b[3] # Intent(i).before
    BY <1>3, <1>4, <1>6, <1>9 DEF StepIsNew
  <2> QED BY <1>1, <1>3, <1>4, <1>5, <1>6, <1>12, <2>1, <2>2, <2>3 DEF StepIsNew, n
<1>16. FileIsKept(i)'
  BY <1>1, <1>2, <1>12, <1>13, <1>14, <1>15 DEF FileIsKept
<1>17. ASSUME NEW f \in Files \ {i} PROVE Untouched(f)
  <2>1. foreign' \subseteq Files \X Names \X Nat
    BY <1>11 DEF EditTypes
  <2>2. \A b \in foreign' : b \in foreign \/ (b[3] > edits /\ b[3] <= MAX_EDITS)
    <3>1. c > edits /\ c <= MAX_EDITS
      BY <1>1, <1>4
    <3> QED BY <1>9, <3>1
  <2> QED BY <1>1, <1>4, <1>7, <1>9, <2>1, <2>2 DEF Untouched
<1> QED BY <1>1, <1>10, <1>11, <1>16, <1>17, StandingStill

\* The name of a new backup comes after those that exist.
LEMMA FreeNameIs ==
  ASSUME AgentTypes, EditTypes, NEW f \in Files, ContentsAreNew(f), applied < MAX_APPLIES
  PROVE  /\ FreeName(f) \in Names /\ FreeName(f) < applied + 1 + edits
         /\ backups[f][FreeName(f)] = NoFile
         /\ \A m \in Names : backups[f][m] # NoFile => m < FreeName(f)
<1> DEFINE Free(n) == \A m \in Names : m >= n => backups[f][m] = NoFile
           Next(n) == Free(n) /\ (n > 1 => backups[f][n - 1] # NoFile)
           S == {n \in Names : Free(n)}
<1>1. /\ Names \subseteq Nat \ {0} /\ \A n \in Nat : n # 0 /\ n < MAX_APPLIES + MAX_EDITS + 2 => n \in Names
      /\ applied \in Nat /\ edits \in Nat /\ edits >= 1 /\ edits <= MAX_EDITS /\ MAX_APPLIES \in Nat /\ MAX_EDITS \in Nat
  BY NamesAre DEF AgentTypes
<1>2. applied + edits \in Nat /\ applied + edits # 0 /\ applied + edits < MAX_APPLIES + MAX_EDITS + 2
  BY <1>1
<1>3. applied + edits \in S
  <2>1. applied + edits \in Names
    BY <1>1, <1>2
  <2>2. ASSUME NEW m \in Names, m >= applied + edits PROVE backups[f][m] = NoFile
    <3>1. ~(m < applied + edits)
      BY <1>1, <1>2, <2>2
    <3> QED BY <3>1 DEF ContentsAreNew
  <2> QED BY <2>1, <2>2
<1>4. PICK n \in S : \A m \in S : n <= m
  BY <1>1, <1>3, LeastNumber
<1>5. n \in Names /\ Next(n)
  <2>1. n \in Names /\ Free(n) /\ n \in Nat /\ n >= 1
    BY <1>1, <1>4
  <2>2. ASSUME n > 1, backups[f][n - 1] = NoFile PROVE FALSE
    <3>1. n - 1 \in Names
      BY <1>1, <2>1, <2>2 DEF Names
    <3>2. Free(n - 1)
      <4> SUFFICES ASSUME NEW m \in Names, m >= n - 1 PROVE backups[f][m] = NoFile
        OBVIOUS
      <4>1. m = n - 1 \/ m >= n
        BY <1>1, <2>1
      <4> QED BY <2>1, <2>2, <4>1
    <3>3. n <= n - 1
      BY <1>4, <3>1, <3>2
    <3> QED BY <2>1, <3>3
  <2> QED BY <2>1, <2>2
<1>6. FreeName(f) = CHOOSE x \in Names : Next(x)
  BY DEF FreeName
<1> DEFINE x == FreeName(f)
<1>7. x \in Names /\ Next(x)
  <2> HIDE DEF Next
  <2> QED BY <1>5, <1>6
<1>8. x \in Nat /\ x >= 1 /\ backups[f][x] = NoFile
  <2>1. x \in Nat /\ x >= 1
    <3>1. x \in Names /\ Names \subseteq Nat \ {0}
      BY <1>1, <1>7
    <3> HIDE DEF x
    <3> QED BY <3>1
  <2>2. \A m \in Names : m >= x => backups[f][m] = NoFile
    BY <1>7
  <2> HIDE DEF x
  <2> QED BY <1>7, <2>1, <2>2
<1> HIDE DEF x
<1>9. x < applied + 1 + edits
  <2>1. CASE x = 1
    BY <1>1, <2>1
  <2>2. CASE x > 1
    <3>1. backups[f][x - 1] # NoFile /\ x - 1 \in Names
      BY <1>1, <1>7, <1>8, <2>2 DEF Names
    <3>2. x - 1 < applied + edits
      BY <3>1 DEF ContentsAreNew
    <3> QED BY <1>1, <1>8, <3>2
  <2> QED BY <1>8, <2>1, <2>2
<1>10. ASSUME NEW m \in Names, backups[f][m] # NoFile PROVE m < x
  BY <1>1, <1>7, <1>8, <1>10
<1> QED BY <1>7, <1>8, <1>9, <1>10 DEF x

LEMMA ApplySaves == ASSUME AgentInv, EditsInv, NEW takeover \in BOOLEAN, Apply(takeover) PROVE EditsInv'
<1> DEFINE p == Plan(applied + 1)
<1>1. /\ at.op = "idle" /\ ~journal.pending /\ applied < MAX_APPLIES /\ applied' = applied + 1
      /\ document' = [document EXCEPT !.managed = TRUE, !.pending = TRUE, !.expected = agentFile, !.steps = p]
      /\ journal' = document' /\ at' = [op |-> "stage", file |-> 1]
      /\ UNCHANGED <<agentFile, scratch, backups, position, edits, displaced, foreign>>
  BY DEF Apply, Reached, Save
<1>2. /\ AgentTypes /\ EditTypes /\ ForeignAreKept
      /\ \A f \in Files : FileIsSound(f) /\ FileIsKept(f)
  BY DEF AgentInv, EditsInv
<1>3. \A f \in Files : p[f] = [before |-> agentFile[f], after |-> Generated(applied + 1),
                               phase |-> "planned", backup |-> FreeName(f)]
  BY DEF Plan
<1> HIDE DEF p
<1>4. document'.pending = TRUE /\ document'.steps = p /\ document'.owned = document.owned
  <2>1. document = [managed |-> document.managed, pending |-> document.pending, expected |-> document.expected,
                    owned |-> document.owned, steps |-> document.steps]
    BY <1>2 DEF AgentTypes, IsDocument
  <2>2. document' = [managed |-> TRUE, pending |-> TRUE, expected |-> agentFile, owned |-> document.owned, steps |-> p]
    BY <1>1, <2>1
  <2> QED BY <2>2
<1>5. /\ applied \in Nat /\ edits \in Nat /\ edits >= 1 /\ applied' \in Nat /\ applied' > 0 /\ applied' \in 0 .. MAX_APPLIES
      /\ MAX_EDITS \in Nat /\ \A n \in Nat : n < applied + edits => n < applied' + edits'
      /\ \A c \in Int : WasWritten(c) => WasWritten(c)'
  <2>1. applied \in Nat /\ edits \in Nat /\ edits >= 1 /\ MAX_APPLIES \in Nat /\ MAX_EDITS \in Nat
    BY <1>2, NamesAre DEF AgentTypes
  <2>2. \A c \in Int : WasWritten(c) => WasWritten(c)'
    BY <1>1, <2>1 DEF WasWritten, Generated
  <2>3. \A n \in Nat : n < applied + edits => n < applied' + edits'
    BY <1>1, <2>1
  <2>4. applied' \in Nat /\ applied' > 0 /\ applied' \in 0 .. MAX_APPLIES
    BY <1>1, <2>1
  <2> QED BY <2>1, <2>2, <2>3, <2>4
<1>6. EditTypes' /\ ForeignAreKept'
  <2>1. journal'.owned \in [Files -> Seq(Entry)] /\ document'.owned \in [Files -> Seq(Entry)]
    BY <1>1, <1>2, <1>4 DEF EditTypes
  <2>2. /\ displaced' \in [Files -> Seq(Int \ {NoFile})] /\ backups' \in [Files -> [Names -> Int]]
        /\ foreign' \subseteq Files \X Names \X (1 .. edits')
    BY <1>1, <1>2 DEF EditTypes
  <2> QED BY <1>1, <1>2, <1>5, <2>1, <2>2, ForeignStay DEF EditTypes
<1>7. ASSUME NEW f \in Files PROVE FileIsKept(f)'
  <2> DEFINE n == FreeName(f)
  <2>1. /\ ContentsAreNew(f) /\ document.owned[f] = journal.owned[f] /\ agentFile[f] \in Int
        /\ \A list \in Lists(f) : ListIsTrue(f, list)
        /\ scratch[f].previous = NoFile /\ position[f] = "before" /\ ~(f < 1)
    BY <1>1, <1>2, AgentsAssumption DEF FileIsKept, FileIsSound, AgentTypes, Reached, Files
  <2>2. /\ n \in Names /\ n < applied + 1 + edits /\ backups[f][n] = NoFile
        /\ \A m \in Names : backups[f][m] # NoFile => m < n
    BY <1>1, <1>2, <2>1, FreeNameIs
  <2>3. n \in Nat /\ Names \subseteq Nat
    BY <2>2, NamesAre
  <2> HIDE DEF n
  <2>4. /\ Intent(f)'.before = agentFile[f] /\ Intent(f)'.phase = "planned" /\ Intent(f)'.backup = n
        /\ Intent(f)' = p[f]
    <3>1. Intent(f)' = p[f]
      BY <1>1, <1>4 DEF Intent
    <3>2. p[f] = [before |-> agentFile[f], after |-> Generated(applied + 1), phase |-> "planned", backup |-> n]
      BY <1>3 DEF n
    <3> QED BY <3>1, <3>2
  <2>5. Lists(f)' \subseteq Lists(f) /\ document'.owned[f] = journal'.owned[f]
    BY <1>1, <1>4, <2>1 DEF Lists
  <2>6. ~Landing(f)' /\ ~Coming(f)'
    BY <1>1, <2>1 DEF Landing, Coming, Ahead, Working, Moving, Moved, Publishing, Ending
  <2>7. ContentsAreNew(f)'
    <3>1. WasWritten(agentFile[f])' /\ WasWritten(scratch[f].previous)'
      <4>1. WasWritten(agentFile[f]) /\ WasWritten(scratch[f].previous) /\ scratch[f].previous \in Int
        BY <2>1 DEF ContentsAreNew, NoFile
      <4> QED BY <1>1, <1>5, <2>1, <4>1
    <3>2. \A m \in Names : backups[f][m] # NoFile => m < applied' + edits'
      BY <1>5, <2>1, <2>3 DEF ContentsAreNew
    <3> QED BY <1>1, <2>1, <3>1, <3>2 DEF ContentsAreNew
  <2>8. \A m \in Names : IsForeign(f, m) => backups[f][m] # NoFile
    BY <1>2 DEF IsForeign, ForeignAreKept, EditTypes, NoFile
  <2>9. \A m : IsForeign(f, m)' = IsForeign(f, m)
    BY <1>1 DEF IsForeign
  <2>10. StepIsNew(f)'
    <3>1. WasWritten(agentFile[f])'
      BY <1>1, <1>5, <2>1 DEF ContentsAreNew
    <3>2. n < applied' + edits'
      BY <1>1, <1>5, <2>2, <2>3
    <3>3. ~IsForeign(f, Intent(f).backup)'
      <4>1. ~IsForeign(f, n)
        BY <2>2, <2>8
      <4> QED BY <1>1, <2>4, <4>1 DEF IsForeign
    <3>4. \A m \in Names : backups'[f][m] # NoFile => m <= n
      BY <1>1, <2>2, <2>3
    <3>5. WasWritten(Intent(f).before)'
      BY <1>1, <2>4, <3>1 DEF WasWritten
    <3> QED BY <1>1, <2>1, <2>2, <2>4, <3>2, <3>3, <3>4, <3>5 DEF StepIsNew, ContentsAreNew
  <2>11. ASSUME NEW list \in Lists(f) PROVE ListIsTrue(f, list)' /\ StepFits(f, list)' /\ StepIsReached(f, list)'
    <3>1. ListIsTrue(f, list) /\ Unlisted(f, list) = 0
      BY <2>1 DEF Unlisted
    <3>2. \A k \in DOMAIN list : list[k].name < n /\ list[k].name \in Nat
      <4> SUFFICES ASSUME NEW k \in DOMAIN list PROVE list[k].name < n /\ list[k].name \in Nat
        OBVIOUS
      <4>1. /\ Len(list) \in DOMAIN list /\ backups[f][list[Len(list)].name] = list[Len(list)].content
        BY <3>1, LastIsThere
      <4>2. /\ list[Len(list)].name \in Names /\ list[Len(list)].content # NoFile /\ list[k].name \in Nat
            /\ list[k].name <= list[Len(list)].name
        BY <3>1, <4>1, ListFacts
      <4>3. list[Len(list)].name < n
        BY <2>2, <4>1, <4>2
      <4>4. list[Len(list)].name \in Nat
        BY <3>1, <4>1, ListFacts
      <4>5. \A x, y, z \in Nat : x <= y /\ y < z => x < z
        OBVIOUS
      <4> QED BY <2>3, <4>2, <4>3, <4>4, <4>5
    <3>3. ~Filed(f, list)' /\ ~Filed(f, list)
      BY <1>1, <2>3, <2>4, <3>2 DEF Filed
    <3>4. Unlisted(f, list)' = Unlisted(f, list)
      BY <1>1, <3>3 DEF Unlisted
    <3>5. Listed(f, list)' = Listed(f, list)
      BY <1>1, <3>4 DEF Listed
    <3>6. ListIsTrue(f, list)'
      BY <1>1, <2>9, <3>1, <3>4, <3>5 DEF ListIsTrue, Trimmable, Enough
    <3>7. StepFits(f, list)'
      <4>1. \A k \in DOMAIN list : list[k].name <= n
        BY <2>3, <3>2
      <4> QED BY <1>1, <2>1, <2>2, <2>4, <3>3, <4>1 DEF StepFits
    <3>8. StepIsReached(f, list)'
      BY <1>1, <2>6 DEF StepIsReached, Reached
    <3> QED BY <3>6, <3>7, <3>8
  <2> QED BY <2>5, <2>7, <2>10, <2>11 DEF FileIsKept
<1> QED BY <1>6, <1>7 DEF EditsInv

LEMMA EditsInitial == AgentsInit => EditsInv
<1> SUFFICES ASSUME AgentsInit PROVE EditsInv
  OBVIOUS
<1>1. /\ agentFile \in [Files -> {NoFile, 1}] /\ scratch = [f \in Files |-> EmptyScratch]
      /\ backups = [f \in Files |-> [n \in Names |-> NoFile]]
      /\ journal.pending = FALSE /\ journal.owned = [f \in Files |-> <<>>] /\ document = journal
      /\ at.op = "idle" /\ position = [f \in Files |-> "before"] /\ edits = 1 /\ applied = 0
      /\ displaced = [f \in Files |-> <<>>] /\ foreign = {}
  BY DEF AgentsInit, EmptyDocument, Idle
<1>2. <<>> \in Seq(Entry) /\ <<>> \in Seq(Int \ {NoFile}) /\ MAX_APPLIES \in Nat /\ MAX_EDITS \in Nat
  BY NamesAre
<1>3. EditTypes
  <2>1. NoFile \in Int
    BY DEF NoFile
  <2>2. displaced \in [Files -> Seq(Int \ {NoFile})] /\ backups \in [Files -> [Names -> Int]]
    BY <1>1, <1>2, <2>1
  <2>3. journal.owned \in [Files -> Seq(Entry)] /\ document.owned \in [Files -> Seq(Entry)]
    BY <1>1, <1>2
  <2>4. applied \in 0 .. MAX_APPLIES
    BY <1>1, <1>2
  <2> QED BY <1>1, <2>2, <2>3, <2>4 DEF EditTypes
<1>4. ForeignAreKept
  BY <1>1 DEF ForeignAreKept
<1>5. ASSUME NEW f \in Files PROVE FileIsKept(f)
  <2>1. scratch[f].previous = NoFile /\ backups[f] = [n \in Names |-> NoFile] /\ displaced[f] = <<>>
    BY <1>1 DEF EmptyScratch
  <2>2. WasWritten(agentFile[f]) /\ WasWritten(NoFile)
    BY <1>1 DEF WasWritten, NoFile
  <2>3. ContentsAreNew(f)
    BY <1>1, <2>1, <2>2 DEF ContentsAreNew
  <2>4. Lists(f) = {<<>>} /\ document.owned[f] = journal.owned[f]
    BY <1>1 DEF Lists
  <2>5. ListIsTrue(f, <<>>)
    <3>1. Unlisted(f, <<>>) = 0 /\ Listed(f, <<>>) = 0 /\ Len(<<>>) = 0 /\ DOMAIN <<>> = {}
      BY <2>1 DEF Unlisted, Listed
    <3>2. 0 \in 0 .. Len(<<>>) /\ Trimmable(f, <<>>, 0) /\ Enough(f, <<>>, Len(<<>>) - 0)
      BY <3>1 DEF Trimmable, Enough
    <3> QED BY <1>2, <3>1, <3>2 DEF ListIsTrue, Ordered
  <2>6. StepIsReached(f, <<>>)
    <3>1. ~Landing(f) /\ ~Coming(f)
      BY <1>1 DEF Landing, Coming, Ahead, Working, Moving, Moved, Publishing, Ending
    <3> QED BY <1>1, <3>1 DEF StepIsReached, Reached
  <2> QED BY <1>1, <2>3, <2>4, <2>5, <2>6 DEF FileIsKept
<1> QED BY <1>3, <1>4, <1>5 DEF EditsInv

\* What trimming leaves of a list is true again, with or without a new last entry.
Remainder(f, own, limit, cut, list) ==
    /\ Len(own) \in Nat /\ cut \in Nat /\ cut <= Len(own) /\ Listed(f, own) \in Int
    /\ list \in Seq(Entry) /\ Ordered(list) /\ Len(list) \in Nat /\ Len(list) = Len(own) - cut
    /\ DOMAIN list = 1 .. Len(list) /\ Len(list) <= Listed(f, own) /\ Len(list) <= limit
    /\ \A k \in DOMAIN list :
         /\ cut + k \in DOMAIN own /\ cut + k > cut /\ list[k] = own[cut + k]
         /\ list[k].content = displaced[f][Listed(f, own) - Len(list) + k]
         /\ ~IsForeign(f, list[k].name) /\ list[k].name \in Names
    /\ Enough(f, own, Len(list)) \/ Len(list) = limit

LEMMA CutFacts ==
  ASSUME EditTypes, NEW f \in Files, NEW own, NEW limit \in Nat, NEW cut \in 0 .. Len(own), ListIsTrue(f, own),
         Cut(f, limit, own, cut), NEW list, list = Trimmed(f, limit)
  PROVE  Remainder(f, own, limit, cut, list)
<1>1. Len(own) \in Nat /\ DOMAIN own = 1 .. Len(own) /\ cut \in Nat /\ cut <= Len(own)
  BY ListFacts
<1>2. Listed(f, own) \in Int
  <2>1. Len(displaced[f]) \in Nat
    BY DEF EditTypes
  <2> QED BY <2>1 DEF Listed, Unlisted
<1>3. list \in Seq(Entry) /\ Ordered(list) /\ Len(list) = Len(own) - cut /\ Len(list) <= limit
  BY DEF Cut
<1>4. Len(list) \in Nat /\ DOMAIN list = 1 .. Len(list)
  BY <1>3
<1>5. Len(list) <= Listed(f, own) /\ Len(own) <= Listed(f, own)
  <2>1. Len(own) <= Listed(f, own)
    BY DEF ListIsTrue
  <2> QED BY <1>1, <1>2, <1>3, <1>4, <2>1
<1>6. ASSUME NEW k \in DOMAIN list
      PROVE  /\ cut + k \in DOMAIN own /\ cut + k > cut /\ list[k] = own[cut + k]
             /\ list[k].content = displaced[f][Listed(f, own) - Len(list) + k]
             /\ ~IsForeign(f, list[k].name) /\ list[k].name \in Names
  <2>1. k \in 1 .. Len(own) - cut
    BY <1>3, <1>4
  <2>2. cut + k \in DOMAIN own /\ cut + k > cut
    BY <1>1, <2>1
  <2>3. list[k] = own[cut + k]
    BY <2>1 DEF Cut
  <2>4. Listed(f, own) - Len(own) + (cut + k) = Listed(f, own) - Len(list) + k
    BY <1>1, <1>2, <1>3, <2>1
  <2>5. own[cut + k].content = displaced[f][Listed(f, own) - Len(own) + (cut + k)] /\ ~IsForeign(f, own[cut + k].name)
    BY <2>2 DEF ListIsTrue
  <2>6. own[cut + k].name \in Names
    BY <2>2, ListFacts
  <2> QED BY <2>2, <2>3, <2>4, <2>5, <2>6
<1>7. Enough(f, own, Len(list)) \/ Len(list) = limit
  BY <1>3 DEF Cut
<1> QED BY <1>1, <1>2, <1>3, <1>4, <1>5, <1>6, <1>7 DEF Remainder

LEMMA CutIsTrue ==
  ASSUME EditTypes, NEW f \in Files, NEW own, NEW limit \in Nat, NEW cut \in 0 .. Len(own), ListIsTrue(f, own),
         Cut(f, limit, own, cut), NEW list, list = Trimmed(f, limit),
         Listed(f, list)' = Listed(f, own), Unlisted(f, list)' = Unlisted(f, own),
         displaced'[f] = displaced[f], \A n : IsForeign(f, n)' = IsForeign(f, n),
         \A k \in DOMAIN own : k > cut => backups'[f][own[k].name] = own[k].content,
         limit >= RETAIN - Unlisted(f, own)
  PROVE  ListIsTrue(f, list)'
<1>1. /\ Len(own) \in Nat /\ cut \in Nat /\ cut <= Len(own) /\ Listed(f, own) \in Int
      /\ list \in Seq(Entry) /\ Ordered(list) /\ Len(list) \in Nat /\ Len(list) = Len(own) - cut
      /\ DOMAIN list = 1 .. Len(list) /\ Len(list) <= Listed(f, own) /\ Len(list) <= limit
      /\ \A k \in DOMAIN list :
           /\ cut + k \in DOMAIN own /\ cut + k > cut /\ list[k] = own[cut + k]
           /\ list[k].content = displaced[f][Listed(f, own) - Len(list) + k]
           /\ ~IsForeign(f, list[k].name) /\ list[k].name \in Names
      /\ Enough(f, own, Len(list)) \/ Len(list) = limit
  <2>1. Remainder(f, own, limit, cut, list)
    BY CutFacts
  <2> QED BY <2>1 DEF Remainder
<1>2. Trimmable(f, list, 0)'
  <2> SUFFICES ASSUME NEW k \in DOMAIN list PROVE backups'[f][list[k].name] = list[k].content /\ k > 0
    BY DEF Trimmable
  <2> QED BY <1>1
<1>3. Enough(f, list, Len(list) - 0)'
  <2>1. Len(list) - 0 = Len(list)
    BY <1>1
  <2>2. Len(list) = Listed(f, own) \/ Len(list) >= RETAIN - Unlisted(f, own)
    BY <1>1 DEF Enough
  <2> QED BY <2>1, <2>2 DEF Enough
<1>4. 0 \in 0 .. Len(list)
  BY <1>1
<1> QED BY <1>1, <1>2, <1>3, <1>4 DEF ListIsTrue

LEMMA AppendIsTrue ==
  ASSUME EditTypes, NEW f \in Files, NEW own, NEW limit \in Nat, limit = RETAIN - 1,
         NEW cut \in 0 .. Len(own), ListIsTrue(f, own),
         Cut(f, limit, own, cut), NEW list, list = Trimmed(f, limit),
         NEW e \in Entry, NEW new, new = Append(list, e),
         \A k \in DOMAIN own : own[k].name < e.name,
         Unlisted(f, own) = 1, Unlisted(f, new)' = 0,
         displaced'[f] = displaced[f], \A n : IsForeign(f, n)' = IsForeign(f, n),
         \A k \in DOMAIN own : k > cut => backups'[f][own[k].name] = own[k].content,
         e.content = displaced[f][Len(displaced[f])], ~IsForeign(f, e.name), backups'[f][e.name] = e.content
  PROVE  ListIsTrue(f, new)'
<1>0. /\ Len(own) \in Nat /\ cut \in Nat /\ cut <= Len(own) /\ Listed(f, own) \in Int
      /\ list \in Seq(Entry) /\ Ordered(list) /\ Len(list) \in Nat /\ Len(list) = Len(own) - cut
      /\ DOMAIN list = 1 .. Len(list) /\ Len(list) <= Listed(f, own) /\ Len(list) <= limit
      /\ \A k \in DOMAIN list :
           /\ cut + k \in DOMAIN own /\ cut + k > cut /\ list[k] = own[cut + k]
           /\ list[k].content = displaced[f][Listed(f, own) - Len(list) + k]
           /\ ~IsForeign(f, list[k].name) /\ list[k].name \in Names
      /\ Enough(f, own, Len(list)) \/ Len(list) = limit
  <2>1. Remainder(f, own, limit, cut, list)
    BY CutFacts
  <2> QED BY <2>1 DEF Remainder
<1>1. limit = RETAIN - 1 /\ RETAIN \in Nat
  BY NamesAre
<1> DEFINE D == displaced[f]
           L == Len(list)
           Kept(k) == /\ cut + k \in DOMAIN own /\ cut + k > cut /\ list[k] = own[cut + k]
                      /\ list[k].content = D[Listed(f, own) - L + k] /\ ~IsForeign(f, list[k].name)
<1>2. /\ Len(own) \in Nat /\ cut \in Nat /\ cut <= Len(own) /\ Listed(f, own) \in Int
      /\ list \in Seq(Entry) /\ Ordered(list) /\ L \in Nat /\ L = Len(own) - cut
      /\ DOMAIN list = 1 .. L /\ L <= Listed(f, own)
      /\ Enough(f, own, L) \/ L = limit
  BY <1>0
<1>a. \A k \in DOMAIN list : Kept(k)
  BY <1>0
<1>3. Len(D) \in Nat /\ Listed(f, own) = Len(D) - 1 /\ Listed(f, new)' = Len(D)
  <2>1. Len(D) \in Nat
    BY DEF EditTypes
  <2> QED BY <2>1 DEF Listed
<1> HIDE DEF L, D, Kept
<1>4. /\ new \in Seq(Entry) /\ Len(new) = L + 1 /\ DOMAIN new = 1 .. L + 1
      /\ new[L + 1] = e /\ \A k \in 1 .. L : new[k] = list[k]
  <2>1. list \in Seq(Entry) /\ Len(list) = L
    BY <1>2 DEF L
  <2>2. /\ Append(list, e) \in Seq(Entry) /\ Len(Append(list, e)) = Len(list) + 1
        /\ Append(list, e)[Len(list) + 1] = e /\ \A k \in 1 .. Len(list) : Append(list, e)[k] = list[k]
    BY <2>1
  <2>3. DOMAIN new = 1 .. Len(new)
    BY <2>2
  <2> QED BY <2>1, <2>2, <2>3
<1>5. \A k \in DOMAIN new : k = L + 1 \/ (k \in 1 .. L /\ k \in DOMAIN list)
  BY <1>2, <1>4
<1>6. Ordered(new)
  <2> SUFFICES ASSUME NEW j \in DOMAIN new, NEW k \in DOMAIN new, j < k PROVE new[j].name < new[k].name
    BY DEF Ordered
  <2>1. j \in 1 .. L /\ j \in DOMAIN list
    BY <1>2, <1>4, <1>5
  <2>2. CASE k = L + 1
    <3>1. new[j] = own[cut + j] /\ cut + j \in DOMAIN own
      BY <1>a, <1>4, <2>1 DEF Kept
    <3> QED BY <1>4, <2>2, <3>1
  <2>3. CASE k \in 1 .. L /\ k \in DOMAIN list
    BY <1>2, <1>4, <2>1, <2>3 DEF Ordered
  <2> QED BY <1>5, <2>2, <2>3
<1>7. ASSUME NEW k \in DOMAIN new
      PROVE  /\ new[k].content = displaced'[f][Len(D) - Len(new) + k] /\ ~IsForeign(f, new[k].name)
             /\ backups'[f][new[k].name] = new[k].content
  <2>1. CASE k = L + 1
    <3>1. Len(D) - Len(new) + k = Len(D)
      BY <1>2, <1>3, <1>4, <2>1
    <3> QED BY <1>4, <2>1, <3>1 DEF D
  <2>2. CASE k \in 1 .. L /\ k \in DOMAIN list
    <3>1. Len(D) - Len(new) + k = Listed(f, own) - L + k
      BY <1>2, <1>3, <1>4, <2>2
    <3>2. new[k] = list[k] /\ list[k] = own[cut + k]
      BY <1>a, <1>4, <2>2 DEF Kept
    <3>3. backups'[f][new[k].name] = new[k].content
      <4>1. cut + k \in DOMAIN own /\ cut + k > cut
        BY <1>a, <2>2 DEF Kept
      <4> QED BY <3>2, <4>1
    <3>4. list[k].content = D[Listed(f, own) - L + k] /\ ~IsForeign(f, list[k].name)
      BY <1>a, <2>2 DEF Kept
    <3> QED BY <3>1, <3>2, <3>3, <3>4 DEF D
  <2> QED BY <1>5, <2>1, <2>2
<1>8. Trimmable(f, new, 0)'
  <2> SUFFICES ASSUME NEW k \in DOMAIN new PROVE backups'[f][new[k].name] = new[k].content /\ k > 0
    BY DEF Trimmable
  <2>1. k > 0
    BY <1>2, <1>4
  <2> QED BY <1>7, <2>1
<1>9. Enough(f, new, Len(new) - 0)'
  <2>1. Len(new) - 0 = L + 1 /\ (L = Len(D) - 1 => L + 1 = Len(D)) /\ (L >= RETAIN - 1 => L + 1 >= RETAIN - 0)
    BY <1>1, <1>2, <1>3, <1>4
  <2>2. L = Len(D) - 1 \/ L >= RETAIN - 1
    BY <1>1, <1>2, <1>3 DEF Enough
  <2> QED BY <1>3, <2>1, <2>2 DEF Enough
<1>10. Len(new) <= Len(D) /\ 0 \in 0 .. Len(new)
  BY <1>2, <1>3, <1>4
<1>11. \E gone \in 0 .. Len(new) : Trimmable(f, new, gone)' /\ Enough(f, new, Len(new) - gone)'
  BY <1>8, <1>9, <1>10
<1>12. \A k \in DOMAIN new : new[k].content = displaced'[f][Listed(f, new)' - Len(new) + k] /\ ~IsForeign(f, new[k].name)'
  <2> SUFFICES ASSUME NEW k \in DOMAIN new
               PROVE  new[k].content = displaced'[f][Listed(f, new)' - Len(new) + k] /\ ~IsForeign(f, new[k].name)'
    OBVIOUS
  <2>1. new[k].content = displaced'[f][Len(D) - Len(new) + k] /\ ~IsForeign(f, new[k].name)'
    BY <1>7
  <2>2. Listed(f, new)' = Len(D)
    BY <1>3
  <2> QED BY <2>1, <2>2
<1> QED BY <1>3, <1>4, <1>6, <1>10, <1>11, <1>12 DEF ListIsTrue

\* What is known when the backup is about to be linked or recorded.
LEMMA AtBackup ==
  ASSUME AgentInv, EditsInv, NEW i \in Files, at \in {Reached("link", i), Reached("record", i)}
  PROVE  /\ at.op \in Working /\ at.file = i
         /\ AgentTypes /\ PlanIsDurable /\ EditTypes /\ ForeignAreKept /\ journal.pending
         /\ IsPlan(Intent(i)) /\ AgentStep(i) = Intent(i) /\ Intent(i).backup \in Nat /\ Intent(i).backup \in Names
         /\ ContentsAreNew(i) /\ StepIsNew(i) /\ position[i] # "after"
         /\ scratch[i].previous = Intent(i).before /\ Intent(i).before # NoFile
         /\ \A list \in Lists(i) : ListIsTrue(i, list) /\ StepFits(i, list) /\ StepIsReached(i, list)
         /\ document.owned[i] \in Lists(i) /\ journal.owned[i] \in Lists(i)
<1>1. /\ at.op \in Moved \ {"adopt"} /\ at.op \in Moved /\ at.op \in Working /\ at.file = i
  BY DEF Reached, Moved, Working
<1>2. /\ AgentTypes /\ PlanIsDurable /\ EditTypes /\ journal.pending
      /\ IsPlan(Intent(i)) /\ AgentStep(i) = Intent(i) /\ Intent(i).backup \in Nat
      /\ ContentsAreNew(i) /\ StepIsNew(i) /\ position[i] # "after"
      /\ scratch[i].previous = Intent(i).before /\ Intent(i).before # NoFile
      /\ \A list \in Lists(i) : ListIsTrue(i, list) /\ StepFits(i, list) /\ StepIsReached(i, list)
  BY <1>1, AtWork
<1>3. Intent(i).backup \in Names
  BY <1>2 DEF StepIsNew
<1>4. document.owned[i] \in Lists(i) /\ journal.owned[i] \in Lists(i)
  BY DEF Lists
<1> QED BY <1>1, <1>2, <1>3, <1>4 DEF EditsInv

LEMMA LinkThere ==
  ASSUME AgentInv, EditsInv, NEW i \in Files, at = Reached("link", i), at' = Reached("record", i),
         UNCHANGED <<agentFile, scratch, backups, journal, document, position, edits, applied, displaced, foreign>>,
         backups[i][Intent(i).backup] = Intent(i).before
  PROVE  EditsInv'
<1>1. /\ at.op \in Working /\ at.file = i /\ AgentTypes /\ EditTypes /\ ForeignAreKept /\ journal.pending
      /\ position[i] # "after"
  BY AtBackup
<1>2. /\ at'.op = "record" /\ at'.file = i /\ at'.op \in Working /\ at.op = "link"
  BY DEF Reached, Working, Moved
<1>3. EditTypes' /\ ForeignAreKept'
  BY <1>1, ForeignStay DEF EditTypes
<1>4. \A f \in Files : Untouched(f) /\ Copies(f)
  BY <1>1 DEF Untouched, AgentTypes, EditTypes, IsForeign, Copies, Lists
<1>5. \A f \in Files : document.owned[f] = journal.owned[f]
  BY <1>2 DEF EditsInv, FileIsKept, Reached
<1>6. FileIsKept(i)'
  <2>1. FileIsKept(i)
    BY DEF EditsInv
  <2>2. ContentsAreNew(i)' /\ StepIsNew(i)'
    BY <1>1, <1>4, <2>1, FileUntouched DEF FileIsKept
  <2>3. ASSUME NEW list \in Lists(i) PROVE ListIsTrue(i, list)' /\ StepFits(i, list)' /\ StepIsReached(i, list)'
    <3>1. ListIsTrue(i, list) /\ StepFits(i, list)
      BY <1>1, <2>1 DEF FileIsKept
    <3>2. ListIsTrue(i, list)' /\ StepFits(i, list)'
      BY <1>4, <3>1, ListUntouched
    <3>3. ~Landing(i)' /\ ~Coming(i)'
      BY <1>1, <1>2, NotBefore DEF Landing, Ending, Publishing, Coming, Ahead, Moving
    <3>4. StepIsReached(i, list)'
      BY <1>2, <3>3 DEF StepIsReached, Reached, Intent
    <3> QED BY <3>2, <3>4
  <2>4. Lists(i)' = Lists(i)
    BY DEF Lists
  <2> QED BY <1>1, <1>5, <2>2, <2>3, <2>4 DEF FileIsKept
<1> QED BY <1>1, <1>2, <1>3, <1>4, <1>5, <1>6, WorkGoesOn

LEMMA LinkTaken ==
  ASSUME AgentInv, EditsInv, NEW i \in Files, at = Reached("link", i), at' = at,
         UNCHANGED <<agentFile, scratch, backups, position, edits, applied, displaced, foreign>>,
         backups[i][Intent(i).backup] \notin {NoFile, Intent(i).before},
         \A b \in Range(document.owned[i]) : b.name # Intent(i).backup,
         document' = SetStep(i, [Intent(i) EXCEPT !.backup = NextFreeName(i, Intent(i).backup)]), Save
  PROVE  EditsInv'
<1>1. /\ at.op \in Working /\ at.file = i
      /\ AgentTypes /\ PlanIsDurable /\ EditTypes /\ ForeignAreKept /\ journal.pending
      /\ IsPlan(Intent(i)) /\ Intent(i).backup \in Nat
      /\ ContentsAreNew(i) /\ StepIsNew(i) /\ position[i] # "after"
      /\ \A list \in Lists(i) : ListIsTrue(i, list) /\ StepFits(i, list)
      /\ document.owned[i] \in Lists(i)
  BY AtBackup
<1>2. at.op = "link" /\ document.owned[i] = journal.owned[i] /\ Lists(i) = {document.owned[i]}
  BY DEF EditsInv, FileIsKept, Reached, Lists
<1> DEFINE n == Intent(i).backup
<1>3. \A list \in Lists(i) : ~Filed(i, list)
  BY <1>2 DEF Filed, Range
<1>4. IsForeign(i, n)
  BY <1>1, <1>2, <1>3 DEF StepFits
<1>5. /\ n \in Nat /\ n >= 1 /\ n + 1 \in Names /\ n + 1 \in Nat /\ n + 1 < applied + edits
      /\ backups[i][n + 1] = NoFile /\ \A m \in Names : backups[i][m] # NoFile => m <= n
  <2>1. n \in Names /\ n + 1 < applied + edits /\ \A m \in Names : backups[i][m] # NoFile => m <= n
    BY <1>1, <1>4 DEF StepIsNew
  <2>2. /\ Names \subseteq Nat \ {0} /\ \A m \in Nat : m # 0 /\ m < MAX_APPLIES + MAX_EDITS + 2 => m \in Names
        /\ applied \in Nat /\ applied <= MAX_APPLIES /\ edits \in Nat /\ edits <= MAX_EDITS
        /\ MAX_APPLIES \in Nat /\ MAX_EDITS \in Nat
    BY <1>1, NamesAre DEF AgentTypes, EditTypes
  <2>3. n \in Nat /\ n >= 1
    BY <2>1, <2>2
  <2> HIDE DEF n
  <2>4. n + 1 \in Nat /\ n + 1 # 0 /\ n + 1 < MAX_APPLIES + MAX_EDITS + 2 /\ ~(n + 1 <= n)
    BY <2>1, <2>2, <2>3
  <2> QED BY <2>1, <2>2, <2>3, <2>4
<1>6. NextFreeName(i, n) = n + 1
  <2> HIDE DEF n
  <2>1. Names \subseteq Nat
    BY NamesAre
  <2> DEFINE Next(m) == m > n /\ backups[i][m] = NoFile /\ \A k \in n + 1 .. m - 1 : backups[i][k] # NoFile
  <2>2. Next(n + 1)
    BY <1>5
  <2>3. ASSUME NEW m \in Names, Next(m) PROVE m = n + 1
    <3>1. m \in Nat /\ m >= n + 1
      BY <1>5, <2>1, <2>3
    <3>2. CASE m > n + 1
      <4>1. n + 1 \in n + 1 .. m - 1
        BY <1>5, <3>1, <3>2
      <4> QED BY <1>5, <2>3, <4>1
    <3> QED BY <1>5, <3>1, <3>2
  <2>4. NextFreeName(i, n) = CHOOSE m \in Names : Next(m)
    BY DEF NextFreeName
  <2> HIDE DEF Next
  <2> QED BY <1>5, <2>2, <2>3, <2>4
<1> DEFINE s == [Intent(i) EXCEPT !.backup = NextFreeName(i, n)]
<1>7. /\ IsPlan(s) /\ s.before = Intent(i).before /\ s.after = Intent(i).after /\ s.phase = Intent(i).phase
      /\ s.backup = NextFreeName(i, n)
  <2>1. s.backup = NextFreeName(i, n)
    BY <1>1 DEF IsPlan
  <2> QED BY <1>1, <2>1, PlanFields
<1>8. document' = SetStep(i, s)
  OBVIOUS
<1> HIDE DEF s
<1>9. /\ journal'.owned = document.owned /\ document'.owned = document.owned
      /\ journal'.steps[i] = s /\ journal'.pending = journal.pending
      /\ \A f \in Files \ {i} : journal'.steps[f] = journal.steps[f]
      /\ \A f \in Files : Copies(f) /\ document'.owned[f] = journal'.owned[f]
  BY <1>1, <1>7, <1>8, PlanRewritten
<1>10. /\ Intent(i)' = s /\ s.backup = n + 1 /\ \A m : IsForeign(i, m)' = IsForeign(i, m)
       /\ \A c : WasWritten(c)' = WasWritten(c) /\ Lists(i)' \subseteq Lists(i)
  BY <1>6, <1>7, <1>9 DEF Intent, IsForeign, WasWritten, Generated, Lists, Copies
<1> HIDE DEF n
<1>11. EditTypes' /\ ForeignAreKept'
  BY <1>1, <1>9, ForeignStay DEF EditTypes
<1>12. ASSUME NEW list \in Lists(i) PROVE ListIsTrue(i, list)' /\ StepFits(i, list)' /\ StepIsReached(i, list)'
  <2>1. ListIsTrue(i, list) /\ StepFits(i, list) /\ ~Filed(i, list)
    BY <1>1, <1>3
  <2>2. \A k \in DOMAIN list : list[k].name \in Nat /\ list[k].name <= n /\ list[k].name # n + 1 /\ list[k].name <= n + 1
    <3>1. \A k \in DOMAIN list : list[k].name <= n /\ list[k].name \in Nat
      BY <2>1, ListFacts DEF StepFits, n
    <3> QED BY <1>5, <3>1
  <2>3. ~Filed(i, list)'
    BY <1>10, <2>2 DEF Filed
  <2>4. Unlisted(i, list)' = Unlisted(i, list)
    BY <2>1, <2>3 DEF Unlisted
  <2>5. Listed(i, list)' = Listed(i, list)
    BY <2>4 DEF Listed
  <2>6. ListIsTrue(i, list)'
    BY <1>10, <2>1, <2>4, <2>5 DEF ListIsTrue, Trimmable, Enough
  <2>7. StepFits(i, list)'
    <3>1. backups'[i][s.backup] = NoFile
      BY <1>5, <1>10
    <3>2. \A k \in DOMAIN list : list[k].name <= s.backup
      BY <1>10, <2>2
    <3> QED BY <1>7, <1>10, <2>1, <2>3, <3>1, <3>2 DEF StepFits
  <2>8. ~Landing(i)' /\ ~Coming(i)'
    BY <1>1, <1>2, NotBefore DEF Landing, Ending, Publishing, Coming, Ahead, Moving
  <2>9. StepIsReached(i, list)'
    BY <1>2, <2>8 DEF StepIsReached, Reached
  <2> QED BY <2>6, <2>7, <2>9
<1>13. ContentsAreNew(i)'
  BY <1>1, <1>10 DEF ContentsAreNew
<1>14. StepIsNew(i)'
  <2>1. ~IsForeign(i, Intent(i).backup)'
    <3>1. ASSUME NEW b \in foreign, b[1] = i, b[2] = n + 1 PROVE FALSE
      <4>1. b[3] # NoFile /\ backups[b[1]][b[2]] = b[3]
        BY <1>1 DEF ForeignAreKept, EditTypes, NoFile
      <4> QED BY <1>5, <3>1, <4>1
    <3> QED BY <1>10, <3>1 DEF IsForeign
  <2>2. \A m \in Names : backups[i][m] # NoFile => m <= n + 1
    BY <1>5, NamesAre
  <2>3. StepIsNew(i) /\ n + 1 \in Names /\ n + 1 < applied + edits
    BY <1>1, <1>5
  <2>4. WasWritten(Intent(i).before)'
    BY <1>7, <1>10, <2>3 DEF StepIsNew, WasWritten, Generated
  <2> QED BY <1>7, <1>10, <2>1, <2>2, <2>3, <2>4 DEF StepIsNew
<1>15. FileIsKept(i)'
  BY <1>9, <1>10, <1>12, <1>13, <1>14 DEF FileIsKept
<1>16. \A f \in Files \ {i} : Untouched(f)
  BY <1>1, <1>9 DEF Untouched, AgentTypes, EditTypes, IsForeign
<1> QED BY <1>1, <1>9, <1>11, <1>15, <1>16, WorkGoesOn

\* When the backup is not in the list yet, the list is trimmed around it.
MakesRoom(i, own, cut) ==
    /\ ListIsTrue(i, own) /\ Cut(i, RETAIN - 1, own, cut) /\ cut \in 0 .. Len(own) /\ RETAIN - 1 \in Nat
    /\ DOMAIN own = 1 .. Len(own) /\ Len(own) \in Nat
    /\ Unlisted(i, own) = 1
    /\ \A k \in DOMAIN own : own[k].name \in Names /\ own[k].name \in Nat /\ own[k].name < Intent(i).backup
    /\ \A k \in DOMAIN own : ~IsForeign(i, own[k].name)

LEMMA RoomIsMade ==
  ASSUME AgentInv, EditsInv, NEW i \in Files, at \in {Reached("link", i), Reached("record", i)},
         ~Filed(i, document.owned[i])
  PROVE  \E cut \in 0 .. Len(document.owned[i]) : MakesRoom(i, document.owned[i], cut)
<1>1. /\ EditTypes /\ ListIsTrue(i, document.owned[i]) /\ StepFits(i, document.owned[i])
      /\ scratch[i].previous # NoFile /\ Intent(i).backup \in Nat
  BY AtBackup
<1>2. RETAIN - 1 \in Nat
  BY NamesAre
<1>3. PICK cut \in 0 .. Len(document.owned[i]) : Cut(i, RETAIN - 1, document.owned[i], cut)
  BY <1>1, <1>2, TrimmedLists
<1>4. PICK own : own = document.owned[i]
  OBVIOUS
<1>5. /\ Len(own) \in Nat /\ DOMAIN own = 1 .. Len(own) /\ journal.pending
      /\ \A k \in DOMAIN own : own[k].name \in Names /\ own[k].name \in Nat
  BY <1>1, <1>4, ListFacts, AtBackup
<1>6. Unlisted(i, own) = 1
  BY <1>1, <1>4 DEF Unlisted
<1>7. ASSUME NEW k \in DOMAIN own PROVE own[k].name < Intent(i).backup /\ ~IsForeign(i, own[k].name)
  <2>1. own[k].name <= Intent(i).backup
    BY <1>1, <1>4 DEF StepFits
  <2>2. own[k].name # Intent(i).backup
    BY <1>4, <1>5 DEF Filed
  <2>3. ~IsForeign(i, own[k].name)
    BY <1>1, <1>4 DEF ListIsTrue
  <2> QED BY <1>1, <1>5, <2>1, <2>2, <2>3
<1>8. MakesRoom(i, own, cut)
  BY <1>1, <1>2, <1>3, <1>4, <1>5, <1>6, <1>7 DEF MakesRoom
<1> QED BY <1>4, <1>8

\* The user's own backups are not touched by that.
LEMMA ForeignUncut ==
  ASSUME EditTypes, ForeignAreKept, foreign' = foreign, NEW i \in Files, NEW own, NEW limit, NEW cut,
         Cut(i, limit, own, cut), \A k \in DOMAIN own : ~IsForeign(i, own[k].name),
         \A f \in Files \ {i} : backups'[f] = backups[f],
         \A b \in foreign : b[1] = i => backups'[i][b[2]] = Untrimmed(i, limit)[b[2]]
  PROVE  ForeignAreKept'
<1> SUFFICES ASSUME NEW b \in foreign PROVE backups'[b[1]][b[2]] = b[3]
  BY DEF ForeignAreKept
<1>1. b[1] \in Files /\ b[2] \in Names /\ backups[b[1]][b[2]] = b[3]
  BY DEF EditTypes, ForeignAreKept
<1>2. CASE b[1] # i
  BY <1>1, <1>2
<1>3. CASE b[1] = i
  <2>1. IsForeign(i, b[2])
    BY <1>3 DEF IsForeign
  <2>2. Untrimmed(i, limit)[b[2]] = backups[i][b[2]]
    BY <1>1, <2>1 DEF Cut
  <2> QED BY <1>1, <1>3, <2>2
<1> QED BY <1>2, <1>3

LEMMA LinkFree ==
  ASSUME AgentInv, EditsInv, NEW i \in Files, at = Reached("link", i), at' = Reached("record", i),
         UNCHANGED <<agentFile, scratch, journal, position, edits, applied, displaced, foreign>>,
         backups[i][Intent(i).backup] = NoFile,
         document' = [document EXCEPT !.owned[i] = Trimmed(i, RETAIN - 1)],
         backups' = [backups EXCEPT ![i] = [Untrimmed(i, RETAIN - 1) EXCEPT ![Intent(i).backup] = Intent(i).before]]
  PROVE  EditsInv'
<1>1. /\ at.op \in Working /\ at.file = i /\ AgentTypes /\ PlanIsDurable
      /\ EditTypes /\ ForeignAreKept /\ journal.pending
      /\ IsPlan(Intent(i)) /\ Intent(i).backup \in Nat /\ Intent(i).backup \in Names
      /\ ContentsAreNew(i) /\ StepIsNew(i) /\ position[i] # "after"
      /\ scratch[i].previous = Intent(i).before /\ Intent(i).before # NoFile
      /\ ListIsTrue(i, document.owned[i]) /\ StepFits(i, document.owned[i]) /\ StepIsReached(i, document.owned[i])
  BY AtBackup
<1>2. /\ at'.op = "record" /\ at'.file = i /\ at'.op \in Working /\ at.op = "link"
      /\ \A f \in Files : document.owned[f] = journal.owned[f]
  BY DEF EditsInv, FileIsKept, Reached, Working, Moved
<1>3. ~Filed(i, document.owned[i])
  BY <1>1, FiledIsThere
<1>4. PICK cut \in 0 .. Len(document.owned[i]) : MakesRoom(i, document.owned[i], cut)
  BY <1>3, RoomIsMade
<1>5. PICK own, T, U, n, before : /\ own = document.owned[i] /\ T = Trimmed(i, RETAIN - 1) /\ U = Untrimmed(i, RETAIN - 1)
                                  /\ n = Intent(i).backup /\ before = Intent(i).before
  OBVIOUS
<1>6. /\ ListIsTrue(i, own) /\ StepFits(i, own) /\ ~Filed(i, own) /\ Cut(i, RETAIN - 1, own, cut)
      /\ cut \in 0 .. Len(own) /\ cut \in Nat /\ RETAIN - 1 \in Nat /\ DOMAIN own = 1 .. Len(own) /\ Len(own) \in Nat
      /\ Unlisted(i, own) = 1
      /\ \A k \in DOMAIN own : own[k].name \in Names /\ own[k].name \in Nat /\ own[k].name < n
      /\ \A k \in DOMAIN own : ~IsForeign(i, own[k].name)
  BY <1>1, <1>3, <1>4, <1>5 DEF MakesRoom
<1>7. /\ U \in [Names -> Int] /\ \A m \in Names : U[m] = backups[i][m] \/ U[m] = NoFile
      /\ \A k \in DOMAIN own : U[own[k].name] = own[k].content <=> k > cut
      /\ T \in Seq(Entry) /\ Len(T) = Len(own) - cut
      /\ \A j \in 1 .. Len(own) - cut : T[j] = own[cut + j]
      /\ Enough(i, own, Len(own) - cut) \/ Len(own) - cut = RETAIN - 1
  BY <1>5, <1>6 DEF Cut
<1>8. /\ n \in Nat /\ n \in Names /\ before \in Int /\ before # NoFile /\ scratch[i].previous = before
      /\ backups[i][n] = NoFile
  BY <1>1, <1>5 DEF IsPlan
<1>9. /\ \A f \in Files \ {i} : backups'[f] = backups[f]
      /\ backups'[i] = [U EXCEPT ![n] = before] /\ backups' \in [Files -> [Names -> Int]]
  BY <1>1, <1>5, <1>7, <1>8 DEF EditTypes
<1>10. backups'[i][n] = before /\ \A m \in Names \ {n} : backups'[i][m] = U[m]
  BY <1>7, <1>8, <1>9
<1>11. /\ document'.owned = [document.owned EXCEPT ![i] = T] /\ Intent(i)' = Intent(i)
       /\ document'.owned[i] = T /\ \A f \in Files \ {i} : document'.owned[f] = journal.owned[f]
       /\ Lists(i)' = {own, T} /\ journal'.owned = journal.owned
  <2>1. document'.owned = [document.owned EXCEPT ![i] = T]
    BY <1>1, <1>5, OwnedFields DEF AgentTypes
  <2> QED BY <1>1, <1>2, <1>5, <2>1 DEF EditTypes, Intent, Lists
<1>12. \A k \in DOMAIN T : \E j \in DOMAIN own : T[k] = own[j]
  <2> SUFFICES ASSUME NEW k \in DOMAIN T PROVE \E j \in DOMAIN own : T[k] = own[j]
    OBVIOUS
  <2>1. k \in 1 .. Len(own) - cut /\ cut + k \in DOMAIN own
    BY <1>6, <1>7
  <2> QED BY <1>7, <2>1
<1>13. \A list \in {own, T} : /\ ~Filed(i, list)' /\ Unlisted(i, list)' = 1 /\ Listed(i, list)' = Listed(i, own)
                              /\ \A k \in DOMAIN list : list[k].name < n
  <2> SUFFICES ASSUME NEW list \in {own, T}
               PROVE  /\ ~Filed(i, list)' /\ Unlisted(i, list)' = 1 /\ Listed(i, list)' = Listed(i, own)
                      /\ \A k \in DOMAIN list : list[k].name < n
    OBVIOUS
  <2>1. \A k \in DOMAIN list : list[k].name < n /\ list[k].name \in Nat
    BY <1>6, <1>12
  <2>2. ~Filed(i, list)'
    BY <1>5, <1>8, <1>11, <2>1 DEF Filed
  <2>3. Unlisted(i, list)' = 1
    BY <1>8, <2>2 DEF Unlisted
  <2> QED BY <1>6, <2>1, <2>2, <2>3 DEF Listed
<1>14. \A m : IsForeign(i, m)' = IsForeign(i, m)
  BY DEF IsForeign
<1>15. \A k \in DOMAIN own : backups'[i][own[k].name] = own[k].content <=> k > cut
  <2> SUFFICES ASSUME NEW k \in DOMAIN own PROVE backups'[i][own[k].name] = own[k].content <=> k > cut
    OBVIOUS
  <2>1. own[k].name \in Names \ {n}
    BY <1>6, <1>8
  <2> QED BY <1>7, <1>10, <2>1
<1>16. ListIsTrue(i, T)'
  <2>1. RETAIN - 1 >= RETAIN - Unlisted(i, own)
    BY <1>6, NamesAre
  <2> QED BY <1>1, <1>5, <1>6, <1>13, <1>14, <1>15, <2>1, CutIsTrue, SMTT(40)
<1>17. ListIsTrue(i, own)'
  <2>1. Trimmable(i, own, cut)'
    BY <1>15 DEF Trimmable
  <2>2. Enough(i, own, Len(own) - cut)'
    <3>1. Len(own) - cut = RETAIN - 1 => Len(own) - cut >= RETAIN - 1
      BY <1>6
    <3> QED BY <1>6, <1>7, <1>13, <3>1 DEF Enough
  <2> QED BY <1>6, <1>13, <1>14, <2>1, <2>2 DEF ListIsTrue
<1>18. ASSUME NEW list \in {own, T} PROVE ListIsTrue(i, list)' /\ StepFits(i, list)' /\ StepIsReached(i, list)'
  <2>1. ListIsTrue(i, list)'
    BY <1>16, <1>17
  <2>2. /\ ~Filed(i, list)' /\ \A k \in DOMAIN list : list[k].name < n
        /\ \A k \in DOMAIN list : list[k].name \in Nat
    BY <1>6, <1>12, <1>13
  <2>3. \A k \in DOMAIN list : list[k].name <= n
    BY <1>8, <2>2
  <2>4. StepFits(i, list)'
    BY <1>5, <1>6, <1>8, <1>10, <1>11, <2>2, <2>3 DEF StepFits
  <2>5. ~Landing(i)' /\ ~Coming(i)'
    BY <1>1, <1>2, NotBefore DEF Landing, Ending, Publishing, Coming, Ahead, Moving
  <2>6. StepIsReached(i, list)'
    BY <1>2, <1>5, <1>10, <1>11, <2>5 DEF StepIsReached, Reached
  <2> QED BY <2>1, <2>4, <2>6
<1>19. \A m \in Names : backups'[i][m] # NoFile => m = n \/ backups[i][m] # NoFile
  BY <1>7, <1>10
<1>20. ContentsAreNew(i)'
  <2>1. \A m \in Names : backups'[i][m] # NoFile => m < applied + edits
    BY <1>1, <1>5, <1>19 DEF ContentsAreNew, StepIsNew
  <2> QED BY <1>1, <2>1 DEF ContentsAreNew, WasWritten, Generated
<1>21. StepIsNew(i)'
  <2>1. \A m \in Names : backups'[i][m] # NoFile => m <= n
    BY <1>1, <1>5, <1>8, <1>19 DEF StepIsNew
  <2> QED BY <1>1, <1>5, <1>11, <1>14, <2>1 DEF StepIsNew, WasWritten, Generated
<1>22. FileIsKept(i)'
  BY <1>2, <1>11, <1>18, <1>20, <1>21 DEF FileIsKept, Reached
<1>23. EditTypes'
  <2>1. document'.owned \in [Files -> Seq(Entry)]
    BY <1>1, <1>7, <1>11 DEF EditTypes
  <2> QED BY <1>1, <1>9, <1>11, <2>1 DEF EditTypes
<1>24. ForeignAreKept'
  <2>1. ASSUME NEW b \in foreign, b[1] = i PROVE backups'[i][b[2]] = U[b[2]]
    <3>1. b[2] \in Names /\ b[3] # NoFile /\ backups[i][b[2]] = b[3]
      BY <1>1, <2>1 DEF EditTypes, ForeignAreKept, NoFile
    <3> QED BY <1>8, <1>10, <3>1
  <2>2. \A b \in foreign : b[1] = i => backups'[i][b[2]] = Untrimmed(i, RETAIN - 1)[b[2]]
    BY <1>5, <2>1
  <2>3. foreign' = foreign /\ Cut(i, RETAIN - 1, own, cut) /\ \A k \in DOMAIN own : ~IsForeign(i, own[k].name)
    BY <1>6
  <2>4. \A f \in Files \ {i} : backups'[f] = backups[f]
    BY <1>9
  <2>5. EditTypes /\ ForeignAreKept
    BY <1>1
  <2> QED BY <2>2, <2>3, <2>4, <2>5, ForeignUncut
<1>25. \A f \in Files \ {i} : Untouched(f) /\ Copies(f) /\ document'.owned[f] = journal'.owned[f]
  <2>1. \A f \in Files \ {i} : Untouched(f)
    <3>1. edits \in Nat /\ foreign \subseteq Files \X Names \X (1 .. edits)
      BY <1>1 DEF AgentTypes, EditTypes
    <3>2. foreign \subseteq Files \X Names \X Nat
      BY <3>1
    <3> QED BY <1>9, <1>14, <3>1, <3>2 DEF Untouched, IsForeign
  <2> QED BY <1>11, <2>1 DEF Copies, Lists
<1> QED BY <1>1, <1>2, <1>22, <1>23, <1>24, <1>25, WorkGoesOn

LEMMA LinkSaves == ASSUME AgentInv, EditsInv, NEW i \in Files, ArchiveLink(i) PROVE EditsInv'
<1>1. at = Reached("link", i) /\ UNCHANGED <<agentFile, scratch, position, edits, applied, displaced, foreign>>
  BY DEF ArchiveLink, Order
<1>2. AgentStep(i) = Intent(i)
  BY <1>1, AtBackup
<1>3. \/ /\ backups[i][Intent(i).backup] \notin {NoFile, Intent(i).before}
         /\ \A b \in Range(document.owned[i]) : b.name # Intent(i).backup
         /\ document' = SetStep(i, [Intent(i) EXCEPT !.backup = NextFreeName(i, Intent(i).backup)])
         /\ Save /\ UNCHANGED <<backups, at>>
      \/ /\ backups[i][Intent(i).backup] = Intent(i).before
         /\ at' = Reached("record", i) /\ UNCHANGED <<backups, journal, document>>
      \/ /\ backups[i][Intent(i).backup] = NoFile
         /\ document' = [document EXCEPT !.owned[i] = Trimmed(i, RETAIN - 1)]
         /\ backups' = [backups EXCEPT ![i] = [Untrimmed(i, RETAIN - 1) EXCEPT ![Intent(i).backup] = Intent(i).before]]
         /\ at' = Reached("record", i) /\ UNCHANGED journal
  BY <1>2 DEF ArchiveLink, Order
<1> QED BY <1>1, <1>3, LinkTaken, LinkThere, LinkFree

\* The entry is in the list already: an earlier run got as far.
LEMMA RecordKnown ==
  ASSUME AgentInv, EditsInv, NEW i \in Files, at = Reached("record", i), at' = Reached("archived", i),
         UNCHANGED <<agentFile, scratch, backups, document, position, edits, applied, displaced, foreign>>, Save,
         Filed(i, document.owned[i])
  PROVE  EditsInv'
<1>1. /\ at.op \in Working /\ at.file = i /\ AgentTypes /\ PlanIsDurable
      /\ EditTypes /\ ForeignAreKept /\ journal.pending
      /\ ContentsAreNew(i) /\ StepIsNew(i) /\ position[i] # "after"
      /\ ListIsTrue(i, document.owned[i]) /\ StepFits(i, document.owned[i])
  BY AtBackup
<1>2. /\ at'.op = "archived" /\ at'.file = i /\ at'.op \in Working /\ at.op = "record"
      /\ \A f \in Files \ {i} : document.owned[f] = journal.owned[f]
  BY DEF EditsInv, FileIsKept, Reached, Working, Moved
<1>3. /\ journal' = document /\ journal'.steps = journal.steps /\ journal'.pending = journal.pending
      /\ journal'.owned = document.owned
  BY <1>1 DEF Save, PlanIsDurable
<1>4. \A f \in Files : Untouched(f) /\ Copies(f) /\ document'.owned[f] = journal'.owned[f]
  BY <1>1, <1>3 DEF Untouched, AgentTypes, EditTypes, IsForeign, Copies, Lists
<1>5. EditTypes' /\ ForeignAreKept'
  BY <1>1, <1>3, ForeignStay DEF EditTypes
<1>6. Lists(i)' = {document.owned[i]}
  BY <1>3 DEF Lists
<1>7. PICK own : own = document.owned[i]
  OBVIOUS
<1>8. ListIsTrue(i, own)' /\ StepFits(i, own)' /\ Filed(i, own)'
  BY <1>1, <1>4, <1>7, ListUntouched
<1>9. StepIsReached(i, own)'
  <2>1. ~Landing(i)' /\ ~Coming(i)'
    BY <1>1, <1>2, NotBefore DEF Landing, Ending, Publishing, Coming, Ahead, Moving
  <2> QED BY <1>2, <1>8, <2>1 DEF StepIsReached, Reached
<1>10. ContentsAreNew(i)' /\ StepIsNew(i)'
  BY <1>1, <1>4, FileUntouched
<1>11. FileIsKept(i)'
  BY <1>4, <1>6, <1>7, <1>8, <1>9, <1>10 DEF FileIsKept
<1> QED BY <1>1, <1>2, <1>4, <1>5, <1>11, WorkGoesOn

MayAppend(f, own, cut, list, e, new) ==
    /\ EditTypes /\ ListIsTrue(f, own) /\ Cut(f, RETAIN - 1, own, cut) /\ Unlisted(f, own) = 1
    /\ list = Trimmed(f, RETAIN - 1) /\ new = Append(list, e)
    /\ \A k \in DOMAIN own : own[k].name < e.name
    /\ Unlisted(f, new)' = 0 /\ displaced'[f] = displaced[f] /\ \A n : IsForeign(f, n)' = IsForeign(f, n)
    /\ \A k \in DOMAIN own : k > cut => backups'[f][own[k].name] = own[k].content
    /\ e.content = displaced[f][Len(displaced[f])] /\ ~IsForeign(f, e.name) /\ backups'[f][e.name] = e.content

LEMMA Appended ==
  ASSUME NEW f \in Files, NEW own, NEW cut \in 0 .. Len(own), NEW list, NEW e \in Entry, NEW new,
         MayAppend(f, own, cut, list, e, new)
  PROVE  ListIsTrue(f, new)'
<1>1. PICK limit \in Nat : limit = RETAIN - 1
  BY NamesAre
<1>2. /\ EditTypes /\ ListIsTrue(f, own) /\ Cut(f, limit, own, cut) /\ Unlisted(f, own) = 1
      /\ list = Trimmed(f, limit) /\ new = Append(list, e)
  BY <1>1 DEF MayAppend
<1>3. /\ \A k \in DOMAIN own : own[k].name < e.name
      /\ Unlisted(f, new)' = 0 /\ displaced'[f] = displaced[f] /\ \A n : IsForeign(f, n)' = IsForeign(f, n)
      /\ \A k \in DOMAIN own : k > cut => backups'[f][own[k].name] = own[k].content
      /\ e.content = displaced[f][Len(displaced[f])] /\ ~IsForeign(f, e.name) /\ backups'[f][e.name] = e.content
  BY DEF MayAppend
<1> QED BY <1>1, <1>2, <1>3, AppendIsTrue, ZenonT(60)

LEMMA RecordNew ==
  ASSUME AgentInv, EditsInv, NEW i \in Files, at = Reached("record", i), at' = Reached("archived", i),
         UNCHANGED <<agentFile, scratch, position, edits, applied, displaced, foreign>>, Save,
         ~Filed(i, document.owned[i]),
         document' = [document EXCEPT !.owned[i] = Append(Trimmed(i, RETAIN - 1),
                                                          [name |-> Intent(i).backup, content |-> Intent(i).before])],
         backups' = [backups EXCEPT ![i] = Untrimmed(i, RETAIN - 1)]
  PROVE  EditsInv'
<1>1. /\ at.op \in Working /\ at.file = i /\ AgentTypes /\ PlanIsDurable
      /\ EditTypes /\ ForeignAreKept /\ journal.pending
      /\ IsPlan(Intent(i)) /\ Intent(i).backup \in Nat /\ Intent(i).backup \in Names
      /\ ContentsAreNew(i) /\ StepIsNew(i) /\ position[i] # "after"
      /\ scratch[i].previous = Intent(i).before /\ Intent(i).before # NoFile
      /\ ListIsTrue(i, document.owned[i]) /\ StepFits(i, document.owned[i]) /\ StepIsReached(i, document.owned[i])
  BY AtBackup
<1>2. /\ at'.op = "archived" /\ at'.file = i /\ at'.op \in Working /\ at.op = "record"
      /\ \A f \in Files \ {i} : document.owned[f] = journal.owned[f]
  BY DEF EditsInv, FileIsKept, Reached, Working, Moved
<1>3. PICK cut \in 0 .. Len(document.owned[i]) : MakesRoom(i, document.owned[i], cut)
  BY RoomIsMade
<1>4. PICK own, T, U, n, before, e, new :
         /\ own = document.owned[i] /\ T = Trimmed(i, RETAIN - 1) /\ U = Untrimmed(i, RETAIN - 1)
         /\ n = Intent(i).backup /\ before = Intent(i).before
         /\ e = [name |-> n, content |-> before] /\ new = Append(T, e)
  OBVIOUS
<1>5. /\ ListIsTrue(i, own) /\ StepFits(i, own) /\ ~Filed(i, own) /\ Cut(i, RETAIN - 1, own, cut)
      /\ cut \in 0 .. Len(own) /\ cut \in Nat /\ RETAIN - 1 \in Nat /\ DOMAIN own = 1 .. Len(own) /\ Len(own) \in Nat
      /\ Unlisted(i, own) = 1
      /\ \A k \in DOMAIN own : own[k].name \in Names /\ own[k].name \in Nat /\ own[k].name < n
      /\ \A k \in DOMAIN own : ~IsForeign(i, own[k].name)
  BY <1>1, <1>3, <1>4 DEF MakesRoom
<1>6. /\ n \in Nat /\ n \in Names /\ before \in Int /\ before # NoFile /\ scratch[i].previous = before
      /\ backups[i][n] = before
  BY <1>1, <1>4 DEF IsPlan, StepIsReached
<1>7. /\ U \in [Names -> Int] /\ \A m \in Names : U[m] = backups[i][m] \/ U[m] = NoFile
      /\ \A k \in DOMAIN own : U[own[k].name] = own[k].content <=> k > cut
      /\ T \in Seq(Entry) /\ Len(T) = Len(own) - cut /\ Len(T) \in Nat
      /\ \A j \in 1 .. Len(own) - cut : T[j] = own[cut + j]
  <2>1. Cut(i, RETAIN - 1, own, cut) /\ T = Trimmed(i, RETAIN - 1) /\ U = Untrimmed(i, RETAIN - 1)
    BY <1>4, <1>5
  <2>2. /\ U \in [Names -> Int] /\ \A m \in Names : U[m] = backups[i][m] \/ U[m] = NoFile
        /\ \A k \in DOMAIN own : U[own[k].name] = own[k].content <=> k > cut
    BY <2>1 DEF Cut
  <2>3. /\ T \in Seq(Entry) /\ Len(T) = Len(own) - cut
        /\ \A j \in 1 .. Len(own) - cut : T[j] = own[cut + j]
    BY <2>1 DEF Cut
  <2>4. Len(T) \in Nat
    BY <2>3, LenProperties
  <2> QED BY <2>2, <2>3, <2>4
<1>8. U[n] = before
  <2>1. \A k \in DOMAIN own : own[k].name # n
    BY <1>5, <1>6
  <2> QED BY <1>4, <1>5, <1>6, <2>1 DEF Cut
<1>9. e \in Entry /\ e.name = n /\ e.content = before
  BY <1>4, <1>6 DEF Entry
<1>10. /\ new \in Seq(Entry) /\ Len(new) = Len(T) + 1 /\ DOMAIN new = 1 .. Len(T) + 1 /\ Len(new) \in DOMAIN new
       /\ new[Len(new)] = e /\ \A k \in 1 .. Len(T) : new[k] = T[k]
  <2>1. /\ Append(T, e) \in Seq(Entry) /\ Len(Append(T, e)) = Len(T) + 1
        /\ Append(T, e)[Len(T) + 1] = e /\ \A k \in 1 .. Len(T) : Append(T, e)[k] = T[k]
    BY <1>7, <1>9
  <2>2. DOMAIN Append(T, e) = 1 .. Len(Append(T, e))
    BY <2>1
  <2> QED BY <1>4, <1>7, <2>1, <2>2
<1>11. /\ \A f \in Files \ {i} : backups'[f] = backups[f]
       /\ backups'[i] = U /\ backups' \in [Files -> [Names -> Int]]
  BY <1>1, <1>4, <1>7 DEF EditTypes
<1>12. /\ document'.owned = [document.owned EXCEPT ![i] = new] /\ journal'.owned = document'.owned
       /\ journal'.steps = journal.steps /\ journal'.pending = journal.pending
  <2>1. document' = [document EXCEPT !.owned[i] = new] /\ IsDocument(document)
    BY <1>1, <1>4 DEF AgentTypes
  <2>2. [document EXCEPT !.owned[i] = new].owned = [document.owned EXCEPT ![i] = new]
    BY <2>1, OwnedFields
  <2>3. document'.steps = document.steps /\ document'.pending = document.pending
    BY <2>1 DEF IsDocument
  <2> QED BY <1>1, <2>1, <2>2, <2>3 DEF Save, PlanIsDurable
<1>13. /\ Intent(i)' = Intent(i) /\ Lists(i)' = {new}
       /\ \A f \in Files \ {i} : document'.owned[f] = journal.owned[f]
  <2>1. document'.owned[i] = new /\ \A f \in Files \ {i} : document'.owned[f] = journal.owned[f]
    BY <1>1, <1>2, <1>12 DEF EditTypes
  <2> QED BY <1>12, <2>1 DEF Intent, Lists
<1>14. \A m : IsForeign(i, m)' = IsForeign(i, m)
  BY DEF IsForeign
<1>15. \A k \in DOMAIN new : new[k].name \in Nat /\ new[k].name <= n
  <2> SUFFICES ASSUME NEW k \in DOMAIN new PROVE new[k].name \in Nat /\ new[k].name <= n
    OBVIOUS
  <2>1. CASE k = Len(new)
    BY <1>6, <1>9, <1>10, <2>1
  <2>2. CASE k # Len(new)
    <3>1. k \in 1 .. Len(own) - cut /\ cut + k \in DOMAIN own /\ new[k] = T[k]
      BY <1>5, <1>7, <1>10, <2>2
    <3>2. new[k] = own[cut + k]
      BY <1>7, <3>1
    <3>3. own[cut + k].name \in Nat /\ own[cut + k].name < n
      BY <1>5, <3>1
    <3> QED BY <1>6, <3>2, <3>3
  <2> QED BY <2>1, <2>2
<1>16. Filed(i, new)'
  <2>1. Len(new) \in DOMAIN new /\ new[Len(new)].name = n
    BY <1>9, <1>10
  <2> QED BY <1>1, <1>4, <1>12, <1>13, <2>1 DEF Filed
<1>17. ~IsForeign(i, n)
  <2> SUFFICES ASSUME NEW b \in foreign, b[1] = i, b[2] = n PROVE FALSE
    BY DEF IsForeign
  <2>1. b[3] = before
    BY <1>1, <1>6 DEF ForeignAreKept
  <2> QED BY <1>1, <1>4, <2>1 DEF StepIsNew
<1>18. ListIsTrue(i, new)'
  <2>1. Unlisted(i, new)' = 0
    BY <1>16 DEF Unlisted
  <2>2. displaced'[i] = displaced[i] /\ e.content = displaced[i][Len(displaced[i])]
    BY <1>1, <1>6, <1>9 DEF ContentsAreNew
  <2>3. /\ \A k \in DOMAIN own : k > cut => backups'[i][own[k].name] = own[k].content
        /\ backups'[i][e.name] = e.content /\ ~IsForeign(i, e.name)
        /\ \A k \in DOMAIN own : own[k].name < e.name
    BY <1>5, <1>7, <1>8, <1>9, <1>11, <1>17
  <2>4. T = Trimmed(i, RETAIN - 1) /\ new = Append(T, e)
    BY <1>4
  <2>5. EditTypes /\ ListIsTrue(i, own) /\ Cut(i, RETAIN - 1, own, cut) /\ Unlisted(i, own) = 1
    BY <1>1, <1>5
  <2>6. MayAppend(i, own, cut, T, e, new)
    BY <1>14, <2>1, <2>2, <2>3, <2>4, <2>5 DEF MayAppend
  <2> QED BY <1>5, <1>9, <2>6, Appended
<1>19. StepFits(i, new)'
  <2>1. agentFile[i] = before => agentFile[i] = Intent(i).after
    BY <1>1, <1>6 DEF StepIsNew
  <2>2. new[Len(new)].content = before
    BY <1>9, <1>10
  <2>3. backups'[i][n] = before
    BY <1>8, <1>11
  <2> QED BY <1>4, <1>6, <1>13, <1>15, <1>16, <2>1, <2>2, <2>3 DEF StepFits
<1>20. StepIsReached(i, new)'
  <2>1. ~Landing(i)' /\ ~Coming(i)'
    BY <1>1, <1>2, NotBefore DEF Landing, Ending, Publishing, Coming, Ahead, Moving
  <2> QED BY <1>2, <1>16, <2>1 DEF StepIsReached, Reached
<1>21. \A m \in Names : backups'[i][m] # NoFile => backups[i][m] # NoFile
  BY <1>7, <1>11
<1>22. ContentsAreNew(i)' /\ StepIsNew(i)'
  <2>1. ContentsAreNew(i)'
    BY <1>1, <1>21 DEF ContentsAreNew, WasWritten, Generated
  <2>2. StepIsNew(i)'
    BY <1>1, <1>13, <1>14, <1>21 DEF StepIsNew, WasWritten, Generated
  <2> QED BY <2>1, <2>2
<1>23. FileIsKept(i)'
  BY <1>12, <1>13, <1>18, <1>19, <1>20, <1>22 DEF FileIsKept
<1>24. EditTypes'
  <2>1. document'.owned \in [Files -> Seq(Entry)]
    <3>1. new \in Seq(Entry) /\ document.owned \in [Files -> Seq(Entry)]
      BY <1>1, <1>10 DEF EditTypes
    <3> QED BY <1>12, <3>1, ZenonT(60)
  <2> QED BY <1>1, <1>11, <1>12, <2>1 DEF EditTypes
<1>25. ForeignAreKept'
  <2>1. \A b \in foreign : b[1] = i => backups'[i][b[2]] = Untrimmed(i, RETAIN - 1)[b[2]]
    BY <1>4, <1>11
  <2>2. foreign' = foreign /\ Cut(i, RETAIN - 1, own, cut) /\ \A k \in DOMAIN own : ~IsForeign(i, own[k].name)
    BY <1>5
  <2>3. \A f \in Files \ {i} : backups'[f] = backups[f]
    BY <1>11
  <2>4. EditTypes /\ ForeignAreKept
    BY <1>1
  <2> QED BY <2>1, <2>2, <2>3, <2>4, ForeignUncut
<1>26. \A f \in Files \ {i} : Untouched(f) /\ Copies(f) /\ document'.owned[f] = journal'.owned[f]
  <2>1. \A f \in Files \ {i} : Untouched(f)
    <3>1. /\ journal'.steps = journal.steps /\ journal'.pending = journal.pending
          /\ \A f \in Files \ {i} : backups'[f] = backups[f]
      BY <1>11, <1>12
    <3>2. edits \in Nat /\ foreign \subseteq Files \X Names \X (1 .. edits)
      BY <1>1 DEF AgentTypes, EditTypes
    <3>3. foreign \subseteq Files \X Names \X Nat
      BY <3>2
    <3> QED BY <1>14, <3>1, <3>2, <3>3 DEF Untouched, IsForeign
  <2>2. \A f \in Files \ {i} : Copies(f) /\ document'.owned[f] = journal'.owned[f]
    BY <1>12, <1>13 DEF Copies, Lists
  <2> QED BY <2>1, <2>2
<1> QED BY <1>1, <1>2, <1>23, <1>24, <1>25, <1>26, WorkGoesOn

LEMMA RecordSaves == ASSUME AgentInv, EditsInv, NEW i \in Files, ArchiveRecord(i) PROVE EditsInv'
<1> DEFINE entry == [name |-> Intent(i).backup, content |-> Intent(i).before]
           known == entry \in Range(document.owned[i])
<1>1. /\ at = Reached("record", i) /\ at' = Reached("archived", i)
      /\ UNCHANGED <<agentFile, scratch, position, edits, applied, displaced, foreign>> /\ Save
  BY DEF ArchiveRecord, Order
<1>2. /\ AgentStep(i) = Intent(i) /\ journal.pending /\ Intent(i).backup \in Nat
      /\ ListIsTrue(i, document.owned[i]) /\ StepFits(i, document.owned[i])
  BY <1>1, AtBackup
<1>3. /\ document' = IF known THEN document ELSE [document EXCEPT !.owned[i] = Append(Trimmed(i, RETAIN - 1), entry)]
      /\ backups' = IF known THEN backups ELSE [backups EXCEPT ![i] = Untrimmed(i, RETAIN - 1)]
  BY <1>2 DEF ArchiveRecord, Order
<1>4. known <=> Filed(i, document.owned[i])
  <2>1. ASSUME known PROVE Filed(i, document.owned[i])
    <3>1. PICK k \in DOMAIN document.owned[i] : document.owned[i][k] = entry
      BY <2>1 DEF Range
    <3>2. document.owned[i][k].name = Intent(i).backup
      BY <3>1
    <3> QED BY <1>2, <3>2 DEF Filed
  <2>2. ASSUME Filed(i, document.owned[i]) PROVE known
    <3>1. PICK e : e = document.owned[i][Len(document.owned[i])]
      OBVIOUS
    <3>2. Len(document.owned[i]) \in DOMAIN document.owned[i] /\ e.name = Intent(i).backup /\ e.content = Intent(i).before
      BY <1>2, <2>2, <3>1, FiledIsThere
    <3>3. e \in Entry
      BY <1>2, <3>1, <3>2, ListFacts
    <3>4. e = entry
      BY <3>2, <3>3 DEF Entry
    <3> QED BY <3>1, <3>2, <3>4 DEF Range
  <2> QED BY <2>1, <2>2
<1> HIDE DEF known
<1>5. CASE known
  BY <1>1, <1>3, <1>4, <1>5, RecordKnown
<1>6. CASE ~known
  BY <1>1, <1>3, <1>4, <1>6, RecordNew
<1> QED BY <1>5, <1>6

\* The transaction is over: the lists are trimmed to the retention.
LEMMA CompleteSaves == ASSUME AgentInv, EditsInv, Complete PROVE EditsInv'
<1>1. /\ at.op = "complete" /\ at' = Idle /\ position' = [f \in Files |-> "before"] /\ Save
      /\ document' = [document EXCEPT !.pending = FALSE, !.owned = [f \in Files |-> Trimmed(f, RETAIN)],
                                      !.steps = [f \in Files |-> NoStep]]
      /\ backups' = [f \in Files |-> Untrimmed(f, RETAIN)]
      /\ UNCHANGED <<agentFile, scratch, edits, applied, displaced, foreign>>
  BY DEF Complete
<1>2. /\ AgentTypes /\ EditTypes /\ ForeignAreKept /\ RETAIN \in Nat
      /\ \A f \in Files : FileIsSound(f) /\ FileIsKept(f)
  BY NamesAre DEF AgentInv, EditsInv
<1>3. PICK T, U : T = [f \in Files |-> Trimmed(f, RETAIN)] /\ U = [f \in Files |-> Untrimmed(f, RETAIN)]
  OBVIOUS
<1>4. journal'.owned = T /\ document'.owned = T /\ ~journal'.pending /\ ~document'.pending
  <2>1. document' = [document EXCEPT !.pending = FALSE, !.owned = T, !.steps = [f \in Files |-> NoStep]]
    BY <1>1, <1>3
  <2>2. document = [managed |-> document.managed, pending |-> document.pending, expected |-> document.expected,
                    owned |-> document.owned, steps |-> document.steps]
    BY <1>2 DEF AgentTypes, IsDocument
  <2>3. document' = [managed |-> document.managed, pending |-> FALSE, expected |-> document.expected,
                     owned |-> T, steps |-> [f \in Files |-> NoStep]]
    BY <2>1, <2>2
  <2>4. document'.owned = T /\ document'.pending = FALSE
    BY <2>3
  <2>5. journal' = document'
    BY <1>1 DEF Save
  <2> QED BY <2>4, <2>5
<1>5. ASSUME NEW f \in Files
      PROVE  /\ ContentsAreNew(f) /\ ListIsTrue(f, document.owned[f]) /\ scratch[f].previous = NoFile
             /\ T[f] = Trimmed(f, RETAIN) /\ U[f] = Untrimmed(f, RETAIN) /\ backups'[f] = U[f]
  <2>1. ContentsAreNew(f) /\ ListIsTrue(f, document.owned[f])
    BY <1>2 DEF FileIsKept, Lists
  <2>2. scratch[f].previous = NoFile
    BY <1>1, <1>2 DEF FileIsSound
  <2>3. T[f] = Trimmed(f, RETAIN) /\ U[f] = Untrimmed(f, RETAIN)
    BY <1>3
  <2>4. backups' = U
    BY <1>1, <1>3
  <2> QED BY <2>1, <2>2, <2>3, <2>4
<1>6. ASSUME NEW f \in Files, NEW own, own = document.owned[f]
      PROVE  /\ T[f] \in Seq(Entry) /\ U[f] \in [Names -> Int] /\ ListIsTrue(f, T[f])'
             /\ \A n \in Names : U[f][n] # NoFile => backups[f][n] # NoFile
             /\ \A b \in foreign : b[1] = f => U[f][b[2]] = b[3]
  <2>1. ListIsTrue(f, own) /\ Unlisted(f, own) = 0 /\ DOMAIN own = 1 .. Len(own)
    <3>1. ListIsTrue(f, own) /\ scratch[f].previous = NoFile
      BY <1>5, <1>6
    <3> QED BY <3>1, ListFacts DEF Unlisted
  <2>2. PICK cut \in 0 .. Len(own) : Cut(f, RETAIN, own, cut)
    BY <1>2, <1>6, <2>1, TrimmedLists
  <2>3. \A n : IsForeign(f, n)' = IsForeign(f, n)
    BY <1>1 DEF IsForeign
  <2>4. \A k \in DOMAIN own : k > cut => backups'[f][own[k].name] = own[k].content
    BY <1>5, <2>2 DEF Cut
  <2>5. PICK list : list = T[f]
    OBVIOUS
  <2>6. list = Trimmed(f, RETAIN) /\ displaced'[f] = displaced[f]
    BY <1>1, <1>5, <2>5
  <2>7. Unlisted(f, list)' = Unlisted(f, own) /\ Listed(f, list)' = Listed(f, own)
    <3>1. Unlisted(f, list)' = 0
      BY <1>1, <1>5 DEF Unlisted
    <3> QED BY <1>1, <2>1, <3>1 DEF Listed
  <2>8. RETAIN >= RETAIN - Unlisted(f, own)
    BY <1>2, <2>1
  <2>9. ListIsTrue(f, list)'
    BY <1>2, <2>1, <2>2, <2>3, <2>4, <2>6, <2>7, <2>8, CutIsTrue
  <2>10. U[f] \in [Names -> Int] /\ list \in Seq(Entry)
    BY <1>5, <2>2, <2>6 DEF Cut
  <2>11. \A n \in Names : U[f][n] # NoFile => backups[f][n] # NoFile
    BY <1>5, <2>2 DEF Cut
  <2>12. ASSUME NEW b \in foreign, b[1] = f PROVE U[f][b[2]] = b[3]
    <3>1. b[2] \in Names /\ backups[f][b[2]] = b[3] /\ IsForeign(f, b[2])
      BY <1>2, <2>12 DEF EditTypes, ForeignAreKept, IsForeign
    <3>2. \A k \in DOMAIN own : own[k].name # b[2]
      BY <2>1, <3>1 DEF ListIsTrue
    <3> QED BY <1>5, <2>2, <3>1, <3>2 DEF Cut
  <2> QED BY <2>5, <2>9, <2>10, <2>11, <2>12
<1>7. ASSUME NEW f \in Files PROVE FileIsKept(f)'
  <2>1. Lists(f)' = {T[f]}
    BY <1>4 DEF Lists
  <2>2. PICK list : list = T[f]
    OBVIOUS
  <2>3. ListIsTrue(f, list)' /\ \A n \in Names : backups'[f][n] # NoFile => backups[f][n] # NoFile
    BY <1>5, <1>6, <2>2
  <2>4. ContentsAreNew(f)'
    BY <1>1, <1>5, <2>3 DEF ContentsAreNew, WasWritten, Generated
  <2>5. StepIsReached(f, list)'
    BY <1>1 DEF StepIsReached, Landing, Coming, Ahead, Idle, Reached, Ending, Publishing, Moving, Moved, Working
  <2> QED BY <1>4, <2>1, <2>2, <2>3, <2>4, <2>5 DEF FileIsKept
<1>8. ForeignAreKept'
  <2> SUFFICES ASSUME NEW b \in foreign PROVE backups'[b[1]][b[2]] = b[3]
    BY <1>1 DEF ForeignAreKept
  <2>1. b[1] \in Files
    BY <1>2 DEF EditTypes
  <2> QED BY <1>5, <1>6, <2>1
<1>9. EditTypes'
  <2>1. \A f \in Files : T[f] \in Seq(Entry) /\ U[f] \in [Names -> Int]
    BY <1>6
  <2>2. T \in [Files -> Seq(Entry)] /\ U \in [Files -> [Names -> Int]] /\ backups' = U
    BY <1>1, <1>3, <2>1
  <2> QED BY <1>1, <1>2, <1>4, <2>2 DEF EditTypes
<1> QED BY <1>7, <1>8, <1>9 DEF EditsInv

LEMMA EditsKept == AgentInv /\ EditsInv /\ [AgentsNext]_agentVars => EditsInv'
<1> SUFFICES ASSUME AgentInv, EditsInv, [AgentsNext]_agentVars PROVE EditsInv'
  OBVIOUS
<1>1. CASE UNCHANGED agentVars
  <2>1. AgentTypes /\ EditTypes /\ ForeignAreKept /\ \A f \in Files : FileIsKept(f)
    BY DEF AgentInv, EditsInv
  <2>2. /\ UNCHANGED <<agentFile, scratch, backups, journal, document, at>>
        /\ UNCHANGED <<position, edits, applied, displaced, foreign>>
    BY <1>1 DEF agentVars
  <2>3. EditTypes' /\ ForeignAreKept'
    BY <2>1, <2>2, ForeignStay DEF EditTypes
  <2>4. ASSUME NEW f \in Files PROVE FileIsKept(f)'
    <3>1. Untouched(f) /\ Copies(f)
      BY <2>1, <2>2 DEF Untouched, AgentTypes, EditTypes, IsForeign, Copies, Lists
    <3>2. (Landing(f)' => Landing(f)) /\ (Coming(f)' => Coming(f))
      BY <2>2 DEF Landing, Coming, Ahead
    <3>3. at' # Reached("record", f) => document'.owned[f] = journal'.owned[f]
      BY <2>1, <2>2 DEF FileIsKept
    <3> QED BY <2>1, <2>2, <3>1, <3>2, <3>3, FileFramed
  <2> QED BY <2>3, <2>4 DEF EditsInv
<1>2. CASE (\E takeover \in BOOLEAN : Apply(takeover)) \/ Recover \/ Boundary \/ Verify \/ Complete \/ CrashOrFail
  BY <1>2, ApplySaves, RecoverySaves, BoundarySaves, VerifySaves, CompleteSaves, CrashSaves
<1>3. ASSUME NEW i \in Files,
             \/ StageTargets(i) \/ EnterTarget(i) \/ ReadLatest(i) \/ Move(i) \/ AdoptMoved(i)
             \/ ArchiveStage(i) \/ ArchiveLink(i) \/ ArchiveRecord(i) \/ Archived(i)
             \/ PublishTarget(i) \/ Unlink(i) \/ Published(i) \/ Cleanup(i)
             \/ UserWrites(i) \/ UserDeletes(i) \/ UserTakesName(i)
      PROVE  EditsInv'
  BY <1>3, StageSaves, EnterSaves, ReadSaves, MoveSaves, AdoptSaves, ArchiveStageSaves, LinkSaves, RecordSaves,
     ArchivedSaves, PublishSaves, UnlinkSaves, PublishedSaves, CleanupSaves, EditSaves, TakesNameSaves
<1> QED BY <1>1, <1>2, <1>3 DEF AgentsNext

LEMMA EditsAreKept == EditsInv => NoEditIsLost
<1> SUFFICES ASSUME EditsInv PROVE NoEditIsLost
  OBVIOUS
<1>1. EditTypes /\ ForeignAreKept
  BY DEF EditsInv
<1>2. ASSUME NEW f \in Files, NEW k \in DOMAIN displaced[f], k > Len(displaced[f]) - RETAIN
      PROVE  displaced[f][k] \in OnDisk(f)
  <2>1. FileIsKept(f) /\ Len(displaced[f]) \in Nat /\ DOMAIN displaced[f] = 1 .. Len(displaced[f])
        /\ DOMAIN backups[f] = Names
    BY <1>1 DEF EditsInv, EditTypes
  <2>2. PICK list : list = journal.owned[f]
    OBVIOUS
  <2>3. ContentsAreNew(f) /\ ListIsTrue(f, list)
    BY <2>1, <2>2 DEF FileIsKept, Lists
  <2>4. PICK gone \in 0 .. Len(list) : Trimmable(f, list, gone) /\ Enough(f, list, Len(list) - gone)
    BY <2>3 DEF ListIsTrue
  <2>5. PICK u \in {0, 1} : u = Unlisted(f, list) /\ (u = 1 => scratch[f].previous # NoFile)
    BY DEF Unlisted
  <2>6. Len(list) \in Nat /\ DOMAIN list = 1 .. Len(list) /\ \A j \in DOMAIN list : list[j].name \in Names
    BY <2>3, ListFacts
  <2>7. CASE u = 1 /\ k = Len(displaced[f])
    <3>1. scratch[f].previous = displaced[f][k]
      BY <2>3, <2>5, <2>7 DEF ContentsAreNew
    <3> QED BY <3>1 DEF OnDisk
  <2>8. CASE ~(u = 1 /\ k = Len(displaced[f]))
    <3>1. k <= Len(displaced[f]) - u
      BY <2>1, <2>8
    <3>2. Listed(f, list) = Len(displaced[f]) - u
      BY <2>5 DEF Listed
    <3>3. Len(list) <= Len(displaced[f]) - u
      BY <2>3, <3>2 DEF ListIsTrue
    <3>4. Len(list) - gone = Len(displaced[f]) - u \/ Len(list) - gone >= RETAIN - u
      BY <2>4, <2>5, <3>2 DEF Enough
    <3>5. PICK j \in 1 .. Len(list) : j > gone /\ Len(displaced[f]) - u - Len(list) + j = k
      <4>1. PICK N \in Nat, size \in Nat : N = Len(displaced[f]) /\ size = Len(list)
        BY <2>1, <2>6
      <4>2. gone \in 0 .. size /\ k \in 1 .. N /\ k > N - RETAIN /\ k <= N - u
        BY <1>2, <2>1, <3>1, <4>1
      <4>3. size <= N - u /\ (size - gone = N - u \/ size - gone >= RETAIN - u)
        BY <3>3, <3>4, <4>1
      <4>4. N \in Nat /\ size \in Nat /\ u \in {0, 1} /\ RETAIN \in Nat
        BY <2>5, <4>1, NamesAre
      <4>5. PICK j \in Int : j = k - (N - u - size)
        BY <4>2, <4>4
      <4>6. j <= size /\ N - u - size + j = k
        BY <4>2, <4>4, <4>5
      <4>7. j > gone /\ gone >= 0
        BY <4>2, <4>3, <4>4, <4>5
      <4>8. j \in 1 .. Len(list)
        BY <4>1, <4>2, <4>4, <4>6, <4>7
      <4> QED BY <4>1, <4>6, <4>7, <4>8
    <3>6. list[j].content = displaced[f][k]
      BY <2>3, <2>6, <3>2, <3>5 DEF ListIsTrue
    <3>7. backups[f][list[j].name] = displaced[f][k] /\ list[j].name \in DOMAIN backups[f]
      BY <2>1, <2>4, <2>6, <3>5, <3>6 DEF Trimmable
    <3> QED BY <3>7 DEF OnDisk, Range
  <2> QED BY <2>7, <2>8
<1> QED BY <1>1, <1>2 DEF NoEditIsLost, ForeignAreKept

(***************************************************************************)
(* Whatever the user does between any two steps of a transaction, and      *)
(* wherever it stops and is taken up again, the last RETAIN contents that  *)
(* the gateway took away from a file are in its scratch directory or in    *)
(* its backups, and no backup that the user made was removed or replaced   *)
(* (manager.ts execute(), files.ts archiveDisplaced and                    *)
(* trimTimestampBackups).                                                  *)
(***************************************************************************)
THEOREM EditsSurvive == AgentsSpec => []NoEditIsLost
<1>1. AgentsInit => AgentInv /\ EditsInv
  BY AgentInitial, EditsInitial
<1>2. AgentInv /\ EditsInv /\ [AgentsNext]_agentVars => (AgentInv /\ EditsInv)'
  BY AgentKept, EditsKept
<1> QED BY <1>1, <1>2, EditsAreKept, PTL DEF AgentsSpec

------------------------------------------------------------------------------
(* Usage and events in the telemetry's queue.  Both are sums of weights     *)
(* over the queue; what a sum does when an item is appended, changed or     *)
(* removed, and when the queue is cut in two, is shown for every weight.    *)

\* The partial sums up to m.
SumsTo(w, m) == {s \in [0..m -> Nat] : s[0] = 0 /\ \A n \in 1..m : s[n] = s[n - 1] + w[n]}

LEMMA SumsExist ==
  ASSUME NEW w \in Seq(Nat)
  PROVE  SumsTo(w, Len(w)) # {}
<1>0. Len(w) \in Nat /\ \A n \in 1..Len(w) : w[n] \in Nat
  BY ElementOfSeq, LenProperties
<1> DEFINE Bad == {m \in 0..Len(w) : SumsTo(w, m) = {}}
<1>1. SUFFICES ASSUME Bad # {} PROVE FALSE
  BY <1>0
<1>2. PICK m \in Bad : \A k \in Bad : m <= k
  <2>1. Bad \in SUBSET Nat
    BY <1>0
  <2> QED BY <1>1, <2>1, LeastNumber
<1>3. m \in 0..Len(w) /\ SumsTo(w, m) = {}
  OBVIOUS
<1>4. CASE m = 0
  <2>1. [n \in 0..0 |-> 0] \in SumsTo(w, 0)
    BY DEF SumsTo
  <2> QED BY <1>3, <1>4, <2>1
<1>5. CASE m # 0
  <2>1. m - 1 \in 0..Len(w) /\ m - 1 < m /\ m \in 1..Len(w) /\ w[m] \in Nat
    BY <1>0, <1>3, <1>5
  <2>2. PICK s : s \in SumsTo(w, m - 1)
    <3>1. m - 1 \notin Bad
      BY <1>2, <2>1
    <3> QED BY <2>1, <3>1
  <2> DEFINE t == [n \in 0..m |-> IF n = m THEN s[m - 1] + w[m] ELSE s[n]]
  <2>3. s \in [0..(m - 1) -> Nat] /\ s[0] = 0 /\ \A n \in 1..(m - 1) : s[n] = s[n - 1] + w[n]
    BY <2>2 DEF SumsTo
  <2>4. t \in [0..m -> Nat]
    <3>1. ASSUME NEW n \in 0..m PROVE (IF n = m THEN s[m - 1] + w[m] ELSE s[n]) \in Nat
      <4>1. n # m => n \in 0..(m - 1)
        BY <2>1
      <4>2. m - 1 \in 0..(m - 1)
        BY <2>1
      <4> QED BY <2>1, <2>3, <4>1, <4>2
    <3> QED BY <3>1
  <2>5. t[0] = 0
    BY <1>3, <1>5, <2>3
  <2>6. ASSUME NEW n \in 1..m PROVE t[n] = t[n - 1] + w[n]
    <3>1. n - 1 \in 0..m /\ n - 1 # m /\ n \in 0..m
      BY <1>3
    <3>2. t[n - 1] = s[n - 1]
      BY <3>1
    <3>3. CASE n = m
      BY <3>1, <3>2, <3>3
    <3>4. CASE n # m
      <4>1. n \in 1..(m - 1)
        BY <1>3, <3>4
      <4> QED BY <2>3, <3>1, <3>2, <3>4, <4>1
    <3> QED BY <3>3, <3>4
  <2> HIDE DEF t
  <2>7. t \in SumsTo(w, m)
    BY <2>4, <2>5, <2>6 DEF SumsTo
  <2> QED BY <1>3, <2>7
<1> QED BY <1>4, <1>5

\* What the recursive definition computes.
LEMMA PartialSumsStep ==
  ASSUME NEW w \in Seq(Nat)
  PROVE  /\ Len(w) \in Nat
         /\ PartialSums(w)[0] = 0
         /\ \A n \in 1..Len(w) : PartialSums(w)[n] = PartialSums(w)[n - 1] + w[n]
         /\ \A n \in 0..Len(w) : PartialSums(w)[n] \in Nat
<1>0. Len(w) \in Nat /\ \A n \in 1..Len(w) : w[n] \in Nat
  BY ElementOfSeq, LenProperties
<1> DEFINE Sums(s) == [n \in 0..Len(w) |-> IF n = 0 THEN 0 ELSE s[n - 1] + w[n]]
<1>1. PICK s : s \in SumsTo(w, Len(w))
  BY SumsExist
<1>2. s \in [0..Len(w) -> Nat] /\ s[0] = 0 /\ \A n \in 1..Len(w) : s[n] = s[n - 1] + w[n]
  BY <1>1 DEF SumsTo
<1>3. s = Sums(s)
  <2>1. \A n \in 0..Len(w) : s[n] = IF n = 0 THEN 0 ELSE s[n - 1] + w[n]
    BY <1>0, <1>2
  <2> QED BY <1>2, <2>1
<1>4. PartialSums(w) = CHOOSE sum : sum = Sums(sum)
  BY DEF PartialSums
<1> DEFINE c == PartialSums(w)
<1>5. c = Sums(c)
  BY <1>3, <1>4
<1> HIDE DEF c
<1>6. c[0] = 0 /\ \A n \in 1..Len(w) : c[n] = c[n - 1] + w[n]
  <2>1. \A n \in 0..Len(w) : c[n] = IF n = 0 THEN 0 ELSE c[n - 1] + w[n]
    BY <1>5
  <2>2. 0 \in 0..Len(w) /\ \A n \in 1..Len(w) : n \in 0..Len(w) /\ n # 0
    BY <1>0
  <2> QED BY <2>1, <2>2
<1> DEFINE Bad == {n \in 0..Len(w) : c[n] \notin Nat}
<1>7. ASSUME Bad # {} PROVE FALSE
  <2>1. Bad \in SUBSET Nat
    BY <1>0
  <2>2. PICK n \in Bad : \A k \in Bad : n <= k
    BY <1>7, <2>1, LeastNumber
  <2>3. n # 0
    BY <1>6
  <2>4. n \in 1..Len(w) /\ n - 1 \in 0..Len(w) /\ n - 1 < n
    BY <1>0, <2>3
  <2>5. n - 1 \notin Bad
    BY <2>2, <2>4
  <2> QED BY <1>0, <1>6, <2>4, <2>5
<1> QED BY <1>0, <1>6, <1>7 DEF c

\* Stretches that agree add the same, wherever they are.
Agree(v, a, b, w, c) == \A j, k \in Int : a < j /\ j <= b /\ k - c = j - a => v[j] = w[k]

SumOver(v, a, b) == PartialSums(v)[b] - PartialSums(v)[a]

LEMMA SumsAgree ==
  ASSUME NEW v \in Seq(Nat), NEW w \in Seq(Nat), NEW a \in Nat, NEW b \in Nat, NEW c \in Nat, NEW e \in Nat,
         a <= b, b <= Len(v), e <= Len(w), e - c = b - a, Agree(v, a, b, w, c)
  PROVE  SumOver(v, a, b) = SumOver(w, c, e)
<1> DEFINE p == PartialSums(v)
           q == PartialSums(w)
<1>0. PICK lv \in Nat, lw \in Nat : lv = Len(v) /\ lw = Len(w) /\ b <= lv /\ e <= lw
  <2>1. Len(v) \in Nat /\ Len(w) \in Nat
    BY LenProperties
  <2> QED BY <2>1
<1>1. /\ lv \in Nat /\ lw \in Nat
      /\ \A n \in 1..lv : p[n] = p[n - 1] + v[n]
      /\ \A n \in 1..lw : q[n] = q[n - 1] + w[n]
      /\ \A n \in 0..lv : p[n] \in Nat
      /\ \A n \in 0..lw : q[n] \in Nat
  BY <1>0, PartialSumsStep
<1> HIDE DEF p, q
<1>2. p[a] \in Nat /\ q[c] \in Nat
  <2>1. a \in 0..lv /\ c \in 0..lw
    BY <1>0
  <2> QED BY <1>1, <2>1
<1> DEFINE Bad == {h \in a..b : \E k \in Int : k - c = h - a /\ p[h] - p[a] # q[k] - q[c]}
<1>3. ASSUME Bad # {} PROVE FALSE
  <2>1. PICK h \in Nat : h \in Bad /\ \A y \in Bad : h <= y
    <3>1. Bad \in SUBSET Nat
      OBVIOUS
    <3> QED BY <1>3, <3>1, LeastNumber
  <2>2. PICK k \in Int : k - c = h - a /\ p[h] - p[a] # q[k] - q[c]
    BY <2>1
  <2>3. h \in a..b
    BY <2>1
  <2>4. h # a
    <3>1. ASSUME h = a PROVE p[h] - p[a] = 0 /\ q[k] - q[c] = 0
      <4>1. k = c
        BY <2>2, <3>1
      <4> QED BY <1>2, <3>1, <4>1
    <3> QED BY <2>2, <3>1
  <2>5. PICK l \in Int, m \in Int : l = h - 1 /\ m = k - 1
    BY <2>2, <2>3
  <2>6. /\ l \in a..b /\ l < h /\ h \in 1..lv /\ h \in Int /\ a < h /\ h <= b /\ l \in 0..lv
    BY <1>0, <2>3, <2>4, <2>5
  <2>7. k \in 1..lw /\ m - c = l - a /\ m \in 0..lw
    BY <1>0, <2>2, <2>3, <2>4, <2>5
  <2>8. p[l] - p[a] = q[m] - q[c]
    <3>1. l \notin Bad
      BY <2>1, <2>6
    <3> QED BY <2>6, <2>7, <3>1
  <2>9. v[h] = w[k]
    BY <2>2, <2>6 DEF Agree
  <2>10. p[h] = p[l] + w[k] /\ q[k] = q[m] + w[k]
    BY <1>1, <2>5, <2>6, <2>7, <2>9
  <2>11. h \in 0..lv /\ k \in 0..lw
    BY <1>0, <2>6, <2>7
  <2>12. w[k] \in Nat
    BY <1>0, <2>7, ElementOfSeq
  <2>13. PICK ph \in Nat, pl \in Nat, pa \in Nat, qk \in Nat, qm \in Nat, qc \in Nat, x \in Nat :
           ph = p[h] /\ pl = p[l] /\ pa = p[a] /\ qk = q[k] /\ qm = q[m] /\ qc = q[c] /\ x = w[k]
    BY <1>1, <1>2, <2>6, <2>7, <2>11, <2>12
  <2>14. ph = pl + x /\ qk = qm + x /\ pl - pa = qm - qc
    BY <2>8, <2>10, <2>13
  <2>15. ph - pa = qk - qc
    BY <2>14
  <2> QED BY <2>2, <2>13, <2>15
<1>4. b \in a..b /\ e \in Int /\ e - c = b - a
  OBVIOUS
<1>5. p[b] - p[a] = q[e] - q[c]
  BY <1>3, <1>4
<1> QED BY <1>5 DEF p, q, SumOver

LEMMA SameStretch ==
  ASSUME NEW v \in Seq(Nat), NEW w \in Seq(Nat), NEW a \in Nat, NEW b \in Nat,
         a <= b, b <= Len(v), b <= Len(w), Agree(v, a, b, w, a)
  PROVE  SumOver(v, a, b) = SumOver(w, a, b)
BY SumsAgree

LEMMA SamePrefix ==
  ASSUME NEW v \in Seq(Nat), NEW w \in Seq(Nat), NEW m \in Nat, m <= Len(v), m <= Len(w),
         \A j \in Int : 0 < j /\ j <= m => v[j] = w[j]
  PROVE  PartialSums(v)[m] = PartialSums(w)[m]
<1>1. \A j, k \in Int : 0 < j /\ j <= m /\ k - 0 = j - 0 => v[j] = w[k]
  <2>1. \A j, k \in Int : k - 0 = j - 0 => k = j
    OBVIOUS
  <2> QED BY <2>1
<1>2. 0 \in Nat /\ 0 <= m /\ m - 0 = m - 0
  OBVIOUS
<1>3. PartialSums(v)[m] - PartialSums(v)[0] = PartialSums(w)[m] - PartialSums(w)[0]
  <2>1. Agree(v, 0, m, w, 0)
    BY <1>1 DEF Agree
  <2>2. SumOver(v, 0, m) = SumOver(w, 0, m)
    BY <1>2, <2>1, SumsAgree
  <2> QED BY <2>2 DEF SumOver
<1>4. Len(v) \in Nat /\ Len(w) \in Nat
  BY LenProperties
<1>5. m \in 0..Len(v) /\ m \in 0..Len(w)
  BY <1>4
<1>6. PartialSums(v)[0] = 0 /\ PartialSums(w)[0] = 0 /\ PartialSums(v)[m] \in Nat /\ PartialSums(w)[m] \in Nat
  BY <1>5, PartialSumsStep
<1> QED BY <1>3, <1>6

\* The weights of the elements of a sequence.
Weights(q, f) == [i \in DOMAIN q |-> f[q[i]]]

LEMMA WeightsAreNumbers ==
  ASSUME NEW S, NEW q \in Seq(S), NEW f \in [S -> Nat]
  PROVE  /\ Weights(q, f) \in Seq(Nat) /\ Len(Weights(q, f)) = Len(q) /\ Len(q) \in Nat
         /\ \A i \in 1..Len(q) : Weights(q, f)[i] = f[q[i]]
         /\ Total(Weights(q, f)) \in Nat
<1>1. Len(q) \in Nat /\ DOMAIN q = 1..Len(q) /\ \A i \in 1..Len(q) : q[i] \in S
  BY LenProperties, ElementOfSeq
<1>2. Weights(q, f) \in [1..Len(q) -> Nat]
  BY <1>1 DEF Weights
<1>3. Weights(q, f) \in Seq(Nat) /\ Len(Weights(q, f)) = Len(q)
  BY <1>1, <1>2, LenProperties
<1>4. \A i \in 1..Len(q) : Weights(q, f)[i] = f[q[i]]
  BY <1>1 DEF Weights
<1>5. Total(Weights(q, f)) \in Nat
  BY <1>1, <1>3, PartialSumsStep DEF Total
<1> QED BY <1>1, <1>3, <1>4, <1>5

LEMMA WeightOfNothing ==
  ASSUME NEW f
  PROVE  Total(Weights(<<>>, f)) = 0
<1>1. Weights(<<>>, f) = <<>>
  BY DEF Weights
<1>2. <<>> \in Seq(Nat) /\ Len(<<>>) = 0
  OBVIOUS
<1> QED BY <1>1, <1>2, PartialSumsStep DEF Total

LEMMA WeightOfAppend ==
  ASSUME NEW S, NEW q \in Seq(S), NEW f \in [S -> Nat], NEW x \in S
  PROVE  Total(Weights(Append(q, x), f)) = Total(Weights(q, f)) + f[x]
<1> DEFINE p == Append(q, x)
           v == Weights(p, f)
           w == Weights(q, f)
           n == Len(q)
<1>1. p \in Seq(S) /\ Len(p) = n + 1 /\ p[n + 1] = x /\ n \in Nat /\ \A i \in 1..n : p[i] = q[i]
  BY AppendProperties, LenProperties
<1>2. /\ v \in Seq(Nat) /\ Len(v) = n + 1 /\ \A i \in 1..(n + 1) : v[i] = f[p[i]]
      /\ w \in Seq(Nat) /\ Len(w) = n /\ \A i \in 1..n : w[i] = f[q[i]]
  <2>1. /\ v \in Seq(Nat) /\ Len(v) = Len(p) /\ \A i \in 1..Len(p) : v[i] = f[p[i]]
    BY <1>1, WeightsAreNumbers
  <2>2. /\ w \in Seq(Nat) /\ Len(w) = n /\ \A i \in 1..n : w[i] = f[q[i]]
    BY WeightsAreNumbers
  <2> QED BY <1>1, <2>1, <2>2
<1> HIDE DEF p, v, w, n
<1>3. \A j \in Int : 0 < j /\ j <= n => v[j] = w[j]
  <2> SUFFICES ASSUME NEW j \in Int, 0 < j, j <= n PROVE v[j] = w[j]
    OBVIOUS
  <2>1. j \in 1..n /\ j \in 1..(n + 1)
    BY <1>1
  <2>2. p[j] = q[j]
    BY <1>1, <2>1
  <2>3. v[j] = f[p[j]] /\ w[j] = f[q[j]]
    BY <1>2, <2>1
  <2> QED BY <2>2, <2>3
<1>4. n \in Nat /\ n <= Len(v) /\ n <= Len(w) /\ n + 1 \in 1..(n + 1) /\ (n + 1) - 1 = n /\ n \in 0..(n + 1)
  BY <1>1, <1>2
<1>5. PartialSums(v)[n] = PartialSums(w)[n]
  BY <1>2, <1>3, <1>4, SamePrefix
<1>6. PartialSums(v)[n + 1] = PartialSums(v)[n] + v[n + 1]
  BY <1>2, <1>4, PartialSumsStep, SMTT(40)
<1>7. v[n + 1] = f[x]
  BY <1>1, <1>2, <1>4
<1>8. Total(v) = PartialSums(v)[n + 1] /\ Total(w) = PartialSums(w)[n]
  BY <1>2 DEF Total
<1>9. Total(v) = Total(w) + f[x]
  BY <1>5, <1>6, <1>7, <1>8
<1> QED BY <1>9 DEF p, v, w

LEMMA WeightOfChange ==
  ASSUME NEW S, NEW q \in Seq(S), NEW f \in [S -> Nat], NEW i \in 1..Len(q), NEW p \in Seq(S),
         Len(p) = Len(q), \A j \in 1..Len(q) : j # i => p[j] = q[j]
  PROVE  Total(Weights(p, f)) - f[p[i]] = Total(Weights(q, f)) - f[q[i]]
<1> DEFINE v == Weights(p, f)
           w == Weights(q, f)
           n == Len(q)
<1>a. n \in Nat /\ i \in 1..n /\ Len(p) = n /\ \A j \in 1..n : j # i => p[j] = q[j]
  BY LenProperties
<1>b. v \in Seq(Nat) /\ Len(v) = n /\ \A j \in 1..n : v[j] = f[p[j]]
  <2>1. v \in Seq(Nat) /\ Len(v) = Len(p) /\ \A j \in 1..Len(p) : v[j] = f[p[j]]
    BY WeightsAreNumbers, SMTT(40)
  <2> QED BY <1>a, <2>1
<1>c. w \in Seq(Nat) /\ Len(w) = n /\ \A j \in 1..n : w[j] = f[q[j]]
  BY WeightsAreNumbers, ZenonT(60)
<1>d. f[p[i]] \in Nat /\ f[q[i]] \in Nat
  <2>1. p[i] \in S /\ q[i] \in S
    BY <1>a, ElementOfSeq
  <2> QED BY <2>1
<1>1. /\ v \in Seq(Nat) /\ Len(v) = n /\ \A j \in 1..n : v[j] = f[p[j]]
      /\ w \in Seq(Nat) /\ Len(w) = n /\ \A j \in 1..n : w[j] = f[q[j]]
      /\ n \in Nat /\ i \in 1..n /\ \A j \in 1..n : j # i => p[j] = q[j]
      /\ f[p[i]] \in Nat /\ f[q[i]] \in Nat
  BY <1>a, <1>b, <1>c, <1>d
<1>2. Total(v) = PartialSums(v)[n] /\ Total(w) = PartialSums(w)[n]
  BY <1>1 DEF Total
<1> HIDE DEF v, w, n
<1>n. n \in Nat /\ i \in 1..n
  BY <1>1
<1>3. PartialSums(v)[i - 1] = PartialSums(w)[i - 1]
  <2>1. \A j \in Int : 0 < j /\ j <= i - 1 => j \in 1..n /\ j # i
    BY <1>1
  <2>2. \A j \in Int : 0 < j /\ j <= i - 1 => v[j] = w[j]
    BY <1>1, <2>1, ZenonT(60)
  <2>3. i - 1 \in Nat /\ i - 1 <= Len(v) /\ i - 1 <= Len(w)
    BY <1>1
  <2> QED BY <1>1, <2>2, <2>3, SamePrefix
<1>4. PartialSums(v)[n] - PartialSums(v)[i] = PartialSums(w)[n] - PartialSums(w)[i]
  <2>1. i \in Nat /\ n \in Nat
    BY <1>1
  <2>2. Agree(v, i, n, w, i)
    <3>1. ASSUME NEW j \in Int, NEW k \in Int, i < j, j <= n, k - i = j - i PROVE v[j] = w[k]
      <4>1. j \in 1..n /\ j # i /\ k = j
        BY <2>1, <3>1
      <4> QED BY <1>1, <4>1, ZenonT(60)
    <3> QED BY <3>1 DEF Agree
  <2>3. i \in Nat /\ n \in Nat /\ i <= n /\ n <= Len(v) /\ n <= Len(w) /\ n - i = n - i
    BY <1>1
  <2>4. v \in Seq(Nat) /\ w \in Seq(Nat)
    BY <1>1
  <2>5. SumOver(v, i, n) = SumOver(w, i, n)
    BY <2>2, <2>3, <2>4, SameStretch
  <2> QED BY <2>5 DEF SumOver
<1>5. /\ PartialSums(v)[0] = 0 /\ PartialSums(v)[n] \in Nat /\ PartialSums(v)[i - 1] \in Nat /\ PartialSums(v)[i] \in Nat
      /\ PartialSums(v)[i] = PartialSums(v)[i - 1] + v[i]
  <2>1. 0 \in 0..n /\ n \in 0..n /\ i - 1 \in 0..n /\ i \in 0..n
    BY <1>n
  <2> QED BY <1>1, <2>1, PartialSumsStep
<1>6. /\ PartialSums(w)[0] = 0 /\ PartialSums(w)[n] \in Nat /\ PartialSums(w)[i - 1] \in Nat /\ PartialSums(w)[i] \in Nat
      /\ PartialSums(w)[i] = PartialSums(w)[i - 1] + w[i]
  <2>1. 0 \in 0..n /\ n \in 0..n /\ i - 1 \in 0..n /\ i \in 0..n
    BY <1>n
  <2> QED BY <1>1, <2>1, PartialSumsStep
<1>7. v[i] = f[p[i]] /\ w[i] = f[q[i]]
  BY <1>1
<1>8. f[p[i]] \in Nat /\ f[q[i]] \in Nat
  BY <1>1
<1>9. PICK c \in Nat, x \in Nat, y \in Nat :
        c = PartialSums(v)[i - 1] /\ x = f[p[i]] /\ y = f[q[i]]
  BY <1>5, <1>8
<1>10. PICK vn \in Nat, wn \in Nat : vn = PartialSums(v)[n] /\ wn = PartialSums(w)[n]
  BY <1>5, <1>6
<1>11. vn - x = wn - y
  <2>1. PartialSums(v)[i] = c + x /\ PartialSums(w)[i] = c + y
    BY <1>3, <1>5, <1>6, <1>7, <1>9
  <2>2. vn - (c + x) = wn - (c + y)
    BY <1>4, <1>10, <2>1
  <2> QED BY <2>2, SMTT(40)
<1>12. Total(v) - f[p[i]] = Total(w) - f[q[i]]
  BY <1>2, <1>9, <1>10, <1>11
<1> QED BY <1>12 DEF v, w

LEMMA WeightOfRemoval ==
  ASSUME NEW S, NEW q \in Seq(S), NEW f \in [S -> Nat], NEW i \in 1..Len(q)
  PROVE  Total(Weights(RemoveAt(q, i), f)) = Total(Weights(q, f)) - f[q[i]]
<1> DEFINE p == RemoveAt(q, i)
           v == Weights(p, f)
           w == Weights(q, f)
           n == Len(q)
<1>1. p \in Seq(S) /\ Len(p) = n - 1 /\ \A j \in 1..(n - 1) : p[j] = IF j < i THEN q[j] ELSE q[j + 1]
  BY RemoveAtPlace
<1>2. /\ v \in Seq(Nat) /\ Len(v) = n - 1 /\ \A j \in 1..(n - 1) : v[j] = f[p[j]]
      /\ w \in Seq(Nat) /\ Len(w) = n /\ \A j \in 1..n : w[j] = f[q[j]]
      /\ n \in Nat /\ i \in 1..n /\ f[q[i]] \in Nat
  <2>1. v \in Seq(Nat) /\ Len(v) = Len(p) /\ \A j \in 1..Len(p) : v[j] = f[p[j]]
    BY <1>1, WeightsAreNumbers
  <2>2. w \in Seq(Nat) /\ Len(w) = n /\ (\A j \in 1..n : w[j] = f[q[j]]) /\ n \in Nat /\ i \in 1..n /\ f[q[i]] \in Nat
    BY WeightsAreNumbers, ElementOfSeq
  <2> QED BY <1>1, <2>1, <2>2
<1>3. Total(v) = PartialSums(v)[n - 1] /\ Total(w) = PartialSums(w)[n]
  BY <1>2 DEF Total
<1> HIDE DEF p, v, w, n
<1>4. PartialSums(v)[i - 1] = PartialSums(w)[i - 1]
  <2>1. i \in 1..n /\ i \in Int /\ n \in Nat
    BY <1>2
  <2>2. ASSUME NEW j \in Int, 0 < j, j <= i - 1 PROVE v[j] = w[j]
    <3>1. j \in 1..(n - 1) /\ j \in 1..n /\ j < i
      BY <2>1, <2>2
    <3>2. p[j] = q[j]
      BY <1>1, <3>1
    <3> QED BY <1>2, <3>1, <3>2
  <2>3. i - 1 \in Nat /\ i - 1 <= Len(v) /\ i - 1 <= Len(w)
    BY <1>2
  <2> QED BY <1>2, <2>2, <2>3, SamePrefix
<1>5. PartialSums(v)[n - 1] - PartialSums(v)[i - 1] = PartialSums(w)[n] - PartialSums(w)[i]
  <2>1. i \in 1..n /\ i \in Int /\ n \in Nat
    BY <1>2
  <2>3. Agree(v, i - 1, n - 1, w, i)
    <3>1. ASSUME NEW j \in Int, NEW k \in Int, i - 1 < j, j <= n - 1, k - i = j - (i - 1) PROVE v[j] = w[k]
      <4>1. j \in 1..(n - 1) /\ k \in 1..n /\ ~(j < i) /\ k = j + 1
        BY <2>1, <3>1
      <4>2. p[j] = q[k]
        BY <1>1, <4>1
      <4>3. v[j] = f[p[j]] /\ w[k] = f[q[k]]
        BY <1>2, <4>1
      <4> QED BY <4>2, <4>3
    <3> QED BY <3>1 DEF Agree
  <2>4. /\ i - 1 \in Nat /\ n - 1 \in Nat /\ i - 1 <= n - 1 /\ n - 1 <= Len(v) /\ n <= Len(w)
        /\ i \in Nat /\ n \in Nat /\ n - i = (n - 1) - (i - 1)
    BY <1>2
  <2>5. v \in Seq(Nat) /\ w \in Seq(Nat)
    BY <1>2
  <2>6. SumOver(v, i - 1, n - 1) = SumOver(w, i, n)
    BY <2>3, <2>4, <2>5, SumsAgree
  <2> QED BY <2>6 DEF SumOver
<1>6. PartialSums(v)[0] = 0 /\ PartialSums(v)[n - 1] \in Nat /\ PartialSums(v)[i - 1] \in Nat
  <2>1. n - 1 \in 0..(n - 1) /\ i - 1 \in 0..(n - 1)
    BY <1>2
  <2> QED BY <1>2, <2>1, PartialSumsStep
<1>7. /\ PartialSums(w)[0] = 0 /\ PartialSums(w)[n] \in Nat /\ PartialSums(w)[i - 1] \in Nat /\ PartialSums(w)[i] \in Nat
      /\ PartialSums(w)[i] = PartialSums(w)[i - 1] + w[i]
  <2>1. n \in 0..n /\ i - 1 \in 0..n /\ i \in 0..n
    BY <1>2
  <2> QED BY <1>2, <2>1, PartialSumsStep
<1>8. w[i] = f[q[i]]
  BY <1>2
<1>9. f[q[i]] \in Nat
  BY <1>2
<1>10. PICK vn \in Nat, vl \in Nat, wn \in Nat, wi \in Nat, wl \in Nat, y \in Nat :
         /\ vn = PartialSums(v)[n - 1] /\ vl = PartialSums(v)[i - 1]
         /\ wn = PartialSums(w)[n] /\ wi = PartialSums(w)[i] /\ wl = PartialSums(w)[i - 1] /\ y = f[q[i]]
  BY <1>6, <1>7, <1>9
<1>11. wi = wl + y /\ vl = wl /\ vn - vl = wn - wi
  BY <1>4, <1>5, <1>7, <1>8, <1>10
<1>12. vn = wn - y
  BY <1>11
<1>13. Total(v) = Total(w) - f[q[i]]
  BY <1>3, <1>10, <1>12
<1> QED BY <1>13 DEF p, v, w

LEMMA WeightOfParts ==
  ASSUME NEW S, NEW q \in Seq(S), NEW f \in [S -> Nat], NEW k \in 0..Len(q)
  PROVE  Total(Weights(SubSeq(q, 1, k), f)) + Total(Weights(SubSeq(q, k + 1, Len(q)), f)) = Total(Weights(q, f))
<1> DEFINE a == SubSeq(q, 1, k)
           b == SubSeq(q, k + 1, Len(q))
           n == Len(q)
           u == Weights(a, f)
           v == Weights(b, f)
           w == Weights(q, f)
<1>0. n \in Nat /\ k \in 0..n
  BY LenProperties
<1>1. a \in Seq(S) /\ Len(a) = k /\ \A j \in 1..k : a[j] = q[j]
  <2>1. k <= n => a \in Seq(S) /\ Len(a) = k /\ \A j \in 1..k : a[j] = q[j]
    BY <1>0
  <2> QED BY <1>0, <2>1
<1>2. b \in Seq(S) /\ Len(b) = n - k /\ \A j \in 1..(n - k) : b[j] = q[k + j]
  BY <1>0
<1>3. /\ u \in Seq(Nat) /\ Len(u) = k /\ \A j \in 1..k : u[j] = f[a[j]]
      /\ v \in Seq(Nat) /\ Len(v) = n - k /\ \A j \in 1..(n - k) : v[j] = f[b[j]]
      /\ w \in Seq(Nat) /\ Len(w) = n /\ \A j \in 1..n : w[j] = f[q[j]]
  <2>1. u \in Seq(Nat) /\ Len(u) = Len(a) /\ \A j \in 1..Len(a) : u[j] = f[a[j]]
    BY <1>1, WeightsAreNumbers
  <2>2. v \in Seq(Nat) /\ Len(v) = Len(b) /\ \A j \in 1..Len(b) : v[j] = f[b[j]]
    BY <1>2, WeightsAreNumbers, ZenonT(60)
  <2>3. w \in Seq(Nat) /\ Len(w) = n /\ \A j \in 1..n : w[j] = f[q[j]]
    BY WeightsAreNumbers
  <2> QED BY <1>1, <1>2, <2>1, <2>2, <2>3
<1>4. Total(u) = PartialSums(u)[k] /\ Total(v) = PartialSums(v)[n - k] /\ Total(w) = PartialSums(w)[n]
  BY <1>3 DEF Total
<1> HIDE DEF a, b, u, v, w, n
<1>5. PartialSums(u)[k] = PartialSums(w)[k]
  <2>1. \A j \in Int : 0 < j /\ j <= k => j \in 1..k /\ j \in 1..n
    BY <1>0
  <2>2. ASSUME NEW j \in Int, 0 < j, j <= k PROVE u[j] = w[j]
    <3>1. j \in 1..k /\ j \in 1..n
      BY <2>1, <2>2
    <3>2. a[j] = q[j]
      BY <1>1, <3>1
    <3> QED BY <1>3, <3>1, <3>2, SMTT(40)
  <2>3. k \in Nat /\ k <= Len(u) /\ k <= Len(w)
    BY <1>0, <1>3
  <2>4. u \in Seq(Nat) /\ w \in Seq(Nat)
    BY <1>3
  <2>5. \A j \in Int : 0 < j /\ j <= k => u[j] = w[j]
    BY <2>2
  <2> QED BY <2>3, <2>4, <2>5, SamePrefix
<1>6. PartialSums(v)[n - k] - PartialSums(v)[0] = PartialSums(w)[n] - PartialSums(w)[k]
  <2>2. Agree(v, 0, n - k, w, k)
    <3>1. ASSUME NEW j \in Int, NEW m \in Int, 0 < j, j <= n - k, m - k = j - 0 PROVE v[j] = w[m]
      <4>1. j \in 1..(n - k) /\ m \in 1..n /\ m = k + j
        BY <1>0, <3>1
      <4>2. b[j] = q[m]
        BY <1>2, <4>1
      <4> QED BY <1>3, <4>1, <4>2, SMTT(40)
    <3> QED BY <3>1 DEF Agree
  <2>3. /\ 0 \in Nat /\ n - k \in Nat /\ 0 <= n - k /\ n - k <= Len(v) /\ n <= Len(w)
        /\ k \in Nat /\ n \in Nat /\ n - k = (n - k) - 0
    BY <1>0, <1>3
  <2>4. v \in Seq(Nat) /\ w \in Seq(Nat)
    BY <1>3
  <2>5. SumOver(v, 0, n - k) = SumOver(w, k, n)
    BY <2>2, <2>3, <2>4, SumsAgree
  <2> QED BY <2>5 DEF SumOver
<1>7. /\ PartialSums(u)[0] = 0 /\ PartialSums(u)[k] \in Nat
      /\ PartialSums(v)[0] = 0 /\ PartialSums(v)[n - k] \in Nat
      /\ PartialSums(w)[0] = 0 /\ PartialSums(w)[n] \in Nat /\ PartialSums(w)[k] \in Nat
  <2>1. k \in 0..k /\ n - k \in 0..(n - k) /\ n \in 0..n /\ k \in 0..n
    BY <1>0
  <2> QED BY <1>3, <2>1, PartialSumsStep
<1>8. ASSUME NEW x \in Nat, NEW y \in Nat, NEW z \in Nat, y - 0 = z - x
      PROVE  x + y = z
  BY <1>8
<1>9. Total(u) + Total(v) = Total(w)
  BY <1>4, <1>5, <1>6, <1>7, <1>8
<1> QED BY <1>9 DEF a, b, u, v, w, n

-----------------------------------------------------------------------------
(* Telemetry. *)

QueueItems == [type : {"usage", "event"}, key : Keys \cup {"event"}, count : Nat]
Counters == [usage : Nat, event : Nat]

TelemetryTypes ==
  /\ pending \in Seq(QueueItems) /\ Len(pending) <= QUEUE_CAP
  /\ recorded \in Counters /\ drops \in Counters /\ lost \in Counters
  /\ db.usage \in Nat /\ db.last \in Nat /\ db.drops \in Counters

\* What was recorded, stored, is queued, was dropped, is stored as dropped, was lost.
Balanced(r, s, q, d, p, l) == r = s + q + d + p + l

TelemetryInv ==
  /\ TelemetryTypes
  /\ Balanced(recorded.usage, db.usage, UsageIn(pending), drops.usage, db.drops.usage, lost.usage)
  /\ Balanced(recorded.event, db.last, EventsIn(pending), drops.event, db.drops.event, lost.event)

UsageWeight == [x \in QueueItems |-> IF IsUsage(x) THEN x.count ELSE 0]
EventWeight == [x \in QueueItems |-> IF IsEvent(x) THEN 1 ELSE 0]

LEMMA WeightFunctions == UsageWeight \in [QueueItems -> Nat] /\ EventWeight \in [QueueItems -> Nat]
BY DEF UsageWeight, EventWeight, QueueItems

LEMMA WeightTypes ==
  /\ UsageWeight \in [QueueItems -> Nat] /\ EventWeight \in [QueueItems -> Nat]
  /\ \A x \in QueueItems : /\ x.count \in Nat
                           /\ IsUsage(x) => UsageWeight[x] = x.count /\ EventWeight[x] = 0
                           /\ ~IsUsage(x) => UsageWeight[x] = 0 /\ EventWeight[x] = 1
<1>1. \A x \in QueueItems : x.count \in Nat /\ (IsUsage(x) <=> ~IsEvent(x))
  BY DEF QueueItems, IsUsage, IsEvent
<1> QED BY <1>1 DEF UsageWeight, EventWeight

LEMMA CountsAreWeights ==
  ASSUME NEW q \in Seq(QueueItems)
  PROVE  /\ UsageIn(q) = Total(Weights(q, UsageWeight)) /\ UsageIn(q) \in Nat
         /\ EventsIn(q) = Total(Weights(q, EventWeight)) /\ EventsIn(q) \in Nat
<1>1. DOMAIN q = 1..Len(q) /\ \A i \in DOMAIN q : q[i] \in QueueItems
  BY LenProperties, ElementOfSeq
<1>2. Weights(q, UsageWeight) = [i \in DOMAIN q |-> IF IsUsage(q[i]) THEN q[i].count ELSE 0]
  BY <1>1 DEF Weights, UsageWeight
<1>3. Weights(q, EventWeight) = [i \in DOMAIN q |-> IF IsEvent(q[i]) THEN 1 ELSE 0]
  BY <1>1 DEF Weights, EventWeight
<1>4. Total(Weights(q, UsageWeight)) \in Nat /\ Total(Weights(q, EventWeight)) \in Nat
  BY WeightTypes, WeightsAreNumbers
<1> QED BY <1>2, <1>3, <1>4 DEF UsageIn, EventsIn

LEMMA CountsOfNothing == UsageIn(<<>>) = 0 /\ EventsIn(<<>>) = 0
<1>1. <<>> \in Seq(QueueItems)
  OBVIOUS
<1> QED BY <1>1, CountsAreWeights, WeightOfNothing

LEMMA CountsOfAppend ==
  ASSUME NEW q \in Seq(QueueItems), NEW x \in QueueItems
  PROVE  /\ Append(q, x) \in Seq(QueueItems) /\ Len(Append(q, x)) = Len(q) + 1
         /\ UsageIn(Append(q, x)) = UsageIn(q) + UsageWeight[x]
         /\ EventsIn(Append(q, x)) = EventsIn(q) + EventWeight[x]
<1>1. Append(q, x) \in Seq(QueueItems) /\ Len(Append(q, x)) = Len(q) + 1
  BY AppendProperties
<1>2. UsageIn(Append(q, x)) = UsageIn(q) + UsageWeight[x]
  <2>1. Total(Weights(Append(q, x), UsageWeight)) = Total(Weights(q, UsageWeight)) + UsageWeight[x]
    BY WeightFunctions, WeightOfAppend
  <2>2. UsageIn(Append(q, x)) = Total(Weights(Append(q, x), UsageWeight)) /\ UsageIn(q) = Total(Weights(q, UsageWeight))
    BY <1>1, CountsAreWeights
  <2> QED BY <2>1, <2>2
<1>3. EventsIn(Append(q, x)) = EventsIn(q) + EventWeight[x]
  <2>1. Total(Weights(Append(q, x), EventWeight)) = Total(Weights(q, EventWeight)) + EventWeight[x]
    BY WeightFunctions, WeightOfAppend
  <2>2. EventsIn(Append(q, x)) = Total(Weights(Append(q, x), EventWeight)) /\ EventsIn(q) = Total(Weights(q, EventWeight))
    BY <1>1, CountsAreWeights
  <2> QED BY <2>1, <2>2
<1> QED BY <1>1, <1>2, <1>3

LEMMA CountsOfRemoval ==
  ASSUME NEW q \in Seq(QueueItems), NEW i \in 1..Len(q)
  PROVE  /\ RemoveAt(q, i) \in Seq(QueueItems) /\ Len(RemoveAt(q, i)) = Len(q) - 1
         /\ UsageIn(RemoveAt(q, i)) = UsageIn(q) - UsageWeight[q[i]]
         /\ EventsIn(RemoveAt(q, i)) = EventsIn(q) - EventWeight[q[i]]
<1>1. RemoveAt(q, i) \in Seq(QueueItems) /\ Len(RemoveAt(q, i)) = Len(q) - 1
  BY RemoveAtPlace
<1>2. UsageIn(RemoveAt(q, i)) = UsageIn(q) - UsageWeight[q[i]]
  <2>1. Total(Weights(RemoveAt(q, i), UsageWeight)) = Total(Weights(q, UsageWeight)) - UsageWeight[q[i]]
    BY WeightFunctions, WeightOfRemoval
  <2>2. UsageIn(RemoveAt(q, i)) = Total(Weights(RemoveAt(q, i), UsageWeight)) /\ UsageIn(q) = Total(Weights(q, UsageWeight))
    BY <1>1, CountsAreWeights
  <2> QED BY <2>1, <2>2
<1>3. EventsIn(RemoveAt(q, i)) = EventsIn(q) - EventWeight[q[i]]
  <2>1. Total(Weights(RemoveAt(q, i), EventWeight)) = Total(Weights(q, EventWeight)) - EventWeight[q[i]]
    BY WeightFunctions, WeightOfRemoval
  <2>2. EventsIn(RemoveAt(q, i)) = Total(Weights(RemoveAt(q, i), EventWeight)) /\ EventsIn(q) = Total(Weights(q, EventWeight))
    BY <1>1, CountsAreWeights
  <2> QED BY <2>1, <2>2
<1> QED BY <1>1, <1>2, <1>3

\* One more of a key that is queued.
LEMMA CountsOfUpdate ==
  ASSUME NEW q \in Seq(QueueItems), NEW i \in 1..Len(q), IsUsage(q[i])
  PROVE  LET p == [q EXCEPT ![i].count = @ + 1]
         IN  p \in Seq(QueueItems) /\ Len(p) = Len(q) /\ UsageIn(p) = UsageIn(q) + 1 /\ EventsIn(p) = EventsIn(q)
<1> DEFINE p == [q EXCEPT ![i].count = @ + 1]
           x == [q[i] EXCEPT !.count = @ + 1]
<1>1. q[i] \in QueueItems /\ q[i].count \in Nat
  BY ElementOfSeq, WeightTypes
<1>2. x \in QueueItems /\ x.count = q[i].count + 1 /\ IsUsage(x)
  BY <1>1 DEF QueueItems, IsUsage
<1>3. p = [q EXCEPT ![i] = x]
  OBVIOUS
<1> HIDE DEF x
<1>4. p \in Seq(QueueItems) /\ Len(p) = Len(q) /\ p[i] = x /\ \A j \in 1..Len(q) : j # i => p[j] = q[j]
  BY <1>2, <1>3, ExceptSeq
<1> HIDE DEF p
<1>5. /\ UsageIn(p) - UsageWeight[p[i]] = UsageIn(q) - UsageWeight[q[i]]
      /\ EventsIn(p) - EventWeight[p[i]] = EventsIn(q) - EventWeight[q[i]]
  <2>1. /\ UsageIn(p) = Total(Weights(p, UsageWeight)) /\ UsageIn(q) = Total(Weights(q, UsageWeight))
        /\ EventsIn(p) = Total(Weights(p, EventWeight)) /\ EventsIn(q) = Total(Weights(q, EventWeight))
    BY <1>4, CountsAreWeights
  <2>2. Total(Weights(p, UsageWeight)) - UsageWeight[p[i]] = Total(Weights(q, UsageWeight)) - UsageWeight[q[i]]
    BY <1>4, WeightFunctions, WeightOfChange, ZenonT(60)
  <2>3. Total(Weights(p, EventWeight)) - EventWeight[p[i]] = Total(Weights(q, EventWeight)) - EventWeight[q[i]]
    BY <1>4, WeightFunctions, WeightOfChange, ZenonT(60)
  <2> QED BY <2>1, <2>2, <2>3
<1>6. PICK a \in Nat, b \in Nat, c \in Nat, d \in Nat, e \in Nat :
        a = UsageIn(p) /\ b = UsageIn(q) /\ c = q[i].count /\ d = EventsIn(p) /\ e = EventsIn(q)
  BY <1>1, <1>4, CountsAreWeights
<1>7. UsageWeight[p[i]] = c + 1 /\ UsageWeight[q[i]] = c /\ EventWeight[p[i]] = 0 /\ EventWeight[q[i]] = 0
  BY <1>1, <1>2, <1>4, <1>6, WeightTypes
<1>8. a - (c + 1) = b - c /\ d - 0 = e - 0
  BY <1>5, <1>6, <1>7
<1>9. a = b + 1 /\ d = e
  BY <1>8
<1>10. p \in Seq(QueueItems) /\ Len(p) = Len(q) /\ UsageIn(p) = UsageIn(q) + 1 /\ EventsIn(p) = EventsIn(q)
  BY <1>4, <1>6, <1>9
<1> QED BY <1>10 DEF p

LEMMA CountsOfBatch ==
  ASSUME TelemetryTypes, NEW n \in Nat
  PROVE  LET rest == SubSeq(pending, Len(Batch(n)) + 1, Len(pending))
         IN  /\ rest \in Seq(QueueItems) /\ Len(rest) <= QUEUE_CAP
             /\ UsageIn(Batch(n)) \in Nat /\ EventsIn(Batch(n)) \in Nat
             /\ UsageIn(Batch(n)) + UsageIn(rest) = UsageIn(pending)
             /\ EventsIn(Batch(n)) + EventsIn(rest) = EventsIn(pending)
<1> DEFINE k == IF Len(pending) < n THEN Len(pending) ELSE n
           batch == SubSeq(pending, 1, k)
           rest == SubSeq(pending, k + 1, Len(pending))
<1>1. pending \in Seq(QueueItems) /\ Len(pending) \in Nat /\ Len(pending) <= QUEUE_CAP /\ QUEUE_CAP \in Nat
  BY LenProperties, TelemetryAssumption DEF TelemetryTypes
<1>2. k \in 0..Len(pending)
  BY <1>1
<1>3. batch = Batch(n)
  BY DEF Batch
<1> HIDE DEF k
<1>4. batch \in Seq(QueueItems) /\ Len(batch) = k
  BY <1>1, <1>2
<1>5. rest \in Seq(QueueItems) /\ Len(rest) = Len(pending) - k
  BY <1>1, <1>2
<1>6. Len(rest) <= QUEUE_CAP
  BY <1>1, <1>2, <1>5
<1>7. UsageIn(batch) + UsageIn(rest) = UsageIn(pending)
  BY <1>1, <1>2, <1>4, <1>5, CountsAreWeights, WeightTypes, WeightOfParts
<1>8. EventsIn(batch) + EventsIn(rest) = EventsIn(pending)
  BY <1>1, <1>2, <1>4, <1>5, CountsAreWeights, WeightTypes, WeightOfParts
<1>9. UsageIn(batch) \in Nat /\ EventsIn(batch) \in Nat
  BY <1>4, CountsAreWeights
<1> QED BY <1>3, <1>4, <1>5, <1>6, <1>7, <1>8, <1>9

LEMMA ItemWeights ==
  /\ \A k \in Keys : UsageItem(k) \in QueueItems /\ UsageWeight[UsageItem(k)] = 1 /\ EventWeight[UsageItem(k)] = 0
  /\ EventItem \in QueueItems /\ UsageWeight[EventItem] = 0 /\ EventWeight[EventItem] = 1
<1>1. /\ \A k \in Keys : UsageItem(k) \in QueueItems /\ IsUsage(UsageItem(k)) /\ UsageItem(k).count = 1
      /\ EventItem \in QueueItems /\ ~IsUsage(EventItem)
  BY DEF UsageItem, EventItem, QueueItems, IsUsage
<1> QED BY <1>1, WeightTypes

\* What the search for a queued key and for the oldest of a kind finds.
LEMMA SearchesFind ==
  ASSUME pending \in Seq(QueueItems)
  PROVE  /\ \A k : Queued(k) # 0 => Queued(k) \in 1..Len(pending) /\ IsUsage(pending[Queued(k)])
         /\ OldestUsage # 0 => OldestUsage \in 1..Len(pending) /\ IsUsage(pending[OldestUsage])
         /\ OldestEvent # 0 => OldestEvent \in 1..Len(pending) /\ ~IsUsage(pending[OldestEvent])
<1>1. ASSUME NEW k, Queued(k) # 0 PROVE Queued(k) \in 1..Len(pending) /\ IsUsage(pending[Queued(k)])
  <2> DEFINE I == {i \in 1..Len(pending) : IsUsage(pending[i]) /\ pending[i].key = k}
  <2>1. Queued(k) = IF I # {} THEN Min(I) ELSE 0
    BY DEF Queued, SelectInSeq
  <2>2. I \in SUBSET Nat /\ I # {}
    BY <1>1, <2>1
  <2> QED BY <2>1, <2>2, FirstPlace
<1>2. ASSUME OldestUsage # 0 PROVE OldestUsage \in 1..Len(pending) /\ IsUsage(pending[OldestUsage])
  <2> DEFINE I == {i \in 1..Len(pending) : IsUsage(pending[i])}
  <2>1. OldestUsage = IF I # {} THEN Min(I) ELSE 0
    BY DEF OldestUsage, SelectInSeq
  <2>2. I \in SUBSET Nat /\ I # {}
    BY <1>2, <2>1
  <2> QED BY <2>1, <2>2, FirstPlace
<1>3. ASSUME OldestEvent # 0 PROVE OldestEvent \in 1..Len(pending) /\ ~IsUsage(pending[OldestEvent])
  <2> DEFINE I == {i \in 1..Len(pending) : IsEvent(pending[i])}
  <2>1. OldestEvent = IF I # {} THEN Min(I) ELSE 0
    BY DEF OldestEvent, SelectInSeq
  <2>2. I \in SUBSET Nat /\ I # {}
    BY <1>3, <2>1
  <2>3. OldestEvent \in 1..Len(pending) /\ IsEvent(pending[OldestEvent])
    BY <2>1, <2>2, FirstPlace
  <2> QED BY <2>3 DEF IsUsage, IsEvent
<1> QED BY <1>1, <1>2, <1>3

\* The accounts as numbers.
LEMMA AccountsAreNumbers ==
  ASSUME TelemetryInv
  PROVE  /\ pending \in Seq(QueueItems) /\ Len(pending) \in Nat /\ Len(pending) <= QUEUE_CAP /\ QUEUE_CAP \in Nat \ {0}
         /\ recorded.usage \in Nat /\ db.usage \in Nat /\ UsageIn(pending) \in Nat
         /\ drops.usage \in Nat /\ db.drops.usage \in Nat /\ lost.usage \in Nat
         /\ recorded.event \in Nat /\ db.last \in Nat /\ EventsIn(pending) \in Nat
         /\ drops.event \in Nat /\ db.drops.event \in Nat /\ lost.event \in Nat
         /\ recorded = [usage |-> recorded.usage, event |-> recorded.event]
         /\ drops = [usage |-> drops.usage, event |-> drops.event]
<1>1. /\ pending \in Seq(QueueItems) /\ Len(pending) <= QUEUE_CAP
      /\ recorded \in Counters /\ drops \in Counters /\ lost \in Counters
      /\ db.usage \in Nat /\ db.last \in Nat /\ db.drops \in Counters
  BY DEF TelemetryInv, TelemetryTypes
<1>2. Len(pending) \in Nat /\ UsageIn(pending) \in Nat /\ EventsIn(pending) \in Nat /\ QUEUE_CAP \in Nat \ {0}
  BY <1>1, CountsAreWeights, LenProperties, TelemetryAssumption
<1> QED BY <1>1, <1>2 DEF Counters

\* How the accounts may move together.
LEMMA BalanceMoves ==
  ASSUME NEW r \in Nat, NEW s \in Nat, NEW q \in Nat, NEW d \in Nat, NEW p \in Nat, NEW l \in Nat, Balanced(r, s, q, d, p, l)
  PROVE  /\ Balanced(r + 1, s, q + 1, d, p, l)
         /\ Balanced(r + 1, s, q, d + 1, p, l)
         /\ \A x \in Nat : Balanced(r + 1, s, q - x + 1, d + x, p, l)
         /\ \A b, y \in Nat : b + y = q => Balanced(r, s + b, y, 0, p + d, l)
         /\ Balanced(r, s, q, 0, p, l + d)
BY DEF Balanced

LEMMA RecordUsageKept == ASSUME TelemetryInv, NEW k \in Keys, RecordUsage(k) PROVE TelemetryInv'
<1>1. /\ pending \in Seq(QueueItems) /\ Len(pending) \in Nat /\ Len(pending) <= QUEUE_CAP /\ QUEUE_CAP \in Nat \ {0}
      /\ recorded = [usage |-> recorded.usage, event |-> recorded.event]
      /\ drops = [usage |-> drops.usage, event |-> drops.event]
  BY AccountsAreNumbers
<1>2. PICK r \in Nat, s \in Nat, q \in Nat, d \in Nat, p \in Nat, l \in Nat :
        /\ r = recorded.usage /\ s = db.usage /\ q = UsageIn(pending) /\ d = drops.usage /\ p = db.drops.usage /\ l = lost.usage
        /\ Balanced(r, s, q, d, p, l)
  BY AccountsAreNumbers DEF TelemetryInv
<1>3. PICK e \in Nat, f \in Nat : e = EventsIn(pending) /\ f = recorded.event
  BY AccountsAreNumbers
<1>0. drops.event \in Nat
  BY AccountsAreNumbers
<1>4. /\ recorded' = [recorded EXCEPT !.usage = @ + 1] /\ UNCHANGED <<lost, db>>
      /\ Queued(k) # 0 => pending' = [pending EXCEPT ![Queued(k)].count = @ + 1] /\ drops' = drops
      /\ Queued(k) = 0 /\ Len(pending) < QUEUE_CAP => pending' = Append(pending, UsageItem(k)) /\ drops' = drops
      /\ Queued(k) = 0 /\ Len(pending) >= QUEUE_CAP /\ OldestUsage = 0 =>
           pending' = pending /\ drops' = [drops EXCEPT !.usage = @ + 1]
      /\ Queued(k) = 0 /\ Len(pending) >= QUEUE_CAP /\ OldestUsage # 0 =>
           /\ pending' = Append(RemoveAt(pending, OldestUsage), UsageItem(k))
           /\ drops' = [drops EXCEPT !.usage = @ + pending[OldestUsage].count]
  BY <1>1 DEF RecordUsage
<1>5. recorded' \in Counters /\ recorded'.usage = r + 1 /\ recorded'.event = recorded.event
  <2>1. recorded' = [usage |-> r + 1, event |-> f]
    BY <1>1, <1>2, <1>3, <1>4
  <2> QED BY <1>3, <2>1 DEF Counters
\* What is to be shown of the queue and the drops.
<1> DEFINE Settled == /\ pending' \in Seq(QueueItems) /\ Len(pending') <= QUEUE_CAP
                      /\ drops' \in Counters /\ drops'.event = drops.event
                      /\ EventsIn(pending') = e
                      /\ Balanced(r + 1, s, UsageIn(pending'), drops'.usage, p, l)
<1>6. ASSUME Queued(k) # 0 PROVE Settled
  <2>1. Queued(k) \in 1..Len(pending) /\ IsUsage(pending[Queued(k)])
    BY <1>1, <1>6, SearchesFind
  <2>2. pending' \in Seq(QueueItems) /\ Len(pending') = Len(pending) /\ UsageIn(pending') = q + 1 /\ EventsIn(pending') = e
    BY <1>1, <1>2, <1>3, <1>4, <1>6, <2>1, CountsOfUpdate
  <2>3. drops' = drops /\ drops \in Counters
    BY <1>4, <1>6 DEF TelemetryInv, TelemetryTypes
  <2>4. Balanced(r + 1, s, q + 1, d, p, l)
    BY <1>2, BalanceMoves
  <2>5. Settled
    BY <1>1, <1>2, <2>2, <2>3, <2>4
  <2> QED BY <2>5
<1>7. ASSUME Queued(k) = 0 /\ Len(pending) < QUEUE_CAP PROVE Settled
  <2>1. pending' \in Seq(QueueItems) /\ Len(pending') = Len(pending) + 1 /\ UsageIn(pending') = q + 1 /\ EventsIn(pending') = e + 0
    <3>1. PICK v \in QueueItems : v = UsageItem(k) /\ UsageWeight[v] = 1 /\ EventWeight[v] = 0
      BY ItemWeights
    <3>2. /\ Append(pending, v) \in Seq(QueueItems) /\ Len(Append(pending, v)) = Len(pending) + 1
          /\ UsageIn(Append(pending, v)) = UsageIn(pending) + UsageWeight[v]
          /\ EventsIn(Append(pending, v)) = EventsIn(pending) + EventWeight[v]
      BY <1>1, <1>2, <1>3, CountsOfAppend
    <3>3. pending' = Append(pending, v)
      BY <1>4, <1>7, <3>1
    <3> QED BY <1>1, <1>2, <1>3, <3>1, <3>2, <3>3
  <2>2. drops' = drops /\ drops \in Counters
    BY <1>4, <1>7 DEF TelemetryInv, TelemetryTypes
  <2>3. Balanced(r + 1, s, q + 1, d, p, l)
    BY <1>2, BalanceMoves
  <2>4. e + 0 = e /\ Len(pending') <= QUEUE_CAP
    BY <1>1, <1>7, <2>1
  <2>5. Settled
    BY <1>2, <2>1, <2>2, <2>3, <2>4
  <2> QED BY <2>5
<1>8. ASSUME Queued(k) = 0 /\ Len(pending) >= QUEUE_CAP /\ OldestUsage = 0 PROVE Settled
  <2>1. pending' = pending /\ drops' = [usage |-> d + 1, event |-> drops.event]
    BY <1>1, <1>2, <1>4, <1>8
  <2>2. drops' \in Counters /\ drops'.usage = d + 1 /\ drops'.event = drops.event
    BY <1>0, <2>1 DEF Counters
  <2>3. Balanced(r + 1, s, q, d + 1, p, l)
    BY <1>2, BalanceMoves
  <2>4. Settled
    BY <1>1, <1>2, <1>3, <2>1, <2>2, <2>3
  <2> QED BY <2>4
<1>9. ASSUME Queued(k) = 0 /\ Len(pending) >= QUEUE_CAP /\ OldestUsage # 0 PROVE Settled
  <2> DEFINE i == OldestUsage
             rest == RemoveAt(pending, i)
  <2>1. i \in 1..Len(pending) /\ IsUsage(pending[i]) /\ pending[i] \in QueueItems
    <3>1. i \in 1..Len(pending) /\ IsUsage(pending[i])
      BY <1>1, <1>9, SearchesFind
    <3> QED BY <1>1, <3>1, ElementOfSeq
  <2> HIDE DEF i
  <2>2. PICK x \in Nat : x = pending[i].count /\ UsageWeight[pending[i]] = x /\ EventWeight[pending[i]] = 0
    BY <2>1, WeightTypes
  <2>3. rest \in Seq(QueueItems) /\ Len(rest) = Len(pending) - 1 /\ UsageIn(rest) = q - x /\ EventsIn(rest) = e - 0
    BY <1>1, <1>2, <1>3, <2>1, <2>2, CountsOfRemoval
  <2> HIDE DEF rest
  <2>4. pending' = Append(rest, UsageItem(k))
    BY <1>4, <1>9 DEF i, rest
  <2>5. pending' \in Seq(QueueItems) /\ Len(pending') = Len(rest) + 1 /\ UsageIn(pending') = q - x + 1 /\ EventsIn(pending') = e - 0 + 0
    <3>1. PICK v \in QueueItems : v = UsageItem(k) /\ UsageWeight[v] = 1 /\ EventWeight[v] = 0
      BY ItemWeights
    <3>2. /\ Append(rest, v) \in Seq(QueueItems) /\ Len(Append(rest, v)) = Len(rest) + 1
          /\ UsageIn(Append(rest, v)) = UsageIn(rest) + UsageWeight[v]
          /\ EventsIn(Append(rest, v)) = EventsIn(rest) + EventWeight[v]
      BY <2>3, CountsOfAppend
    <3>3. pending' = Append(rest, v)
      BY <2>4, <3>1
    <3> QED BY <2>3, <3>1, <3>2, <3>3
  <2>6. drops' = [usage |-> d + x, event |-> drops.event]
    BY <1>1, <1>2, <1>4, <1>9, <2>2 DEF i
  <2>7. drops' \in Counters /\ drops'.usage = d + x /\ drops'.event = drops.event
    BY <1>0, <2>6 DEF Counters
  <2>8. Balanced(r + 1, s, q - x + 1, d + x, p, l)
    BY <1>2, BalanceMoves
  <2>9. e - 0 + 0 = e /\ Len(pending') <= QUEUE_CAP
    BY <1>1, <2>3, <2>5
  <2>10. Settled
    BY <2>5, <2>7, <2>8, <2>9
  <2> QED BY <2>10
<1>10. Settled
  BY <1>1, <1>6, <1>7, <1>8, <1>9
<1>11. TelemetryTypes'
  BY <1>4, <1>5, <1>10 DEF TelemetryInv, TelemetryTypes
<1> QED BY <1>2, <1>3, <1>4, <1>5, <1>10, <1>11 DEF TelemetryInv

LEMMA RecordEventKept == ASSUME TelemetryInv, RecordEvent PROVE TelemetryInv'
<1>1. /\ pending \in Seq(QueueItems) /\ Len(pending) \in Nat /\ Len(pending) <= QUEUE_CAP /\ QUEUE_CAP \in Nat \ {0}
      /\ recorded = [usage |-> recorded.usage, event |-> recorded.event]
      /\ drops = [usage |-> drops.usage, event |-> drops.event]
  BY AccountsAreNumbers
<1>2. PICK r \in Nat, s \in Nat, q \in Nat, d \in Nat, p \in Nat, l \in Nat :
        /\ r = recorded.event /\ s = db.last /\ q = EventsIn(pending) /\ d = drops.event /\ p = db.drops.event /\ l = lost.event
        /\ Balanced(r, s, q, d, p, l)
  BY AccountsAreNumbers DEF TelemetryInv
<1>3. PICK e \in Nat, f \in Nat : e = UsageIn(pending) /\ f = recorded.usage
  BY AccountsAreNumbers
<1>4. drops.usage \in Nat /\ drops \in Counters
  BY AccountsAreNumbers DEF TelemetryInv, TelemetryTypes
<1>5. /\ recorded' = [recorded EXCEPT !.event = @ + 1] /\ UNCHANGED <<lost, db>>
      /\ Len(pending) < QUEUE_CAP => pending' = Append(pending, EventItem) /\ drops' = drops
      /\ Len(pending) >= QUEUE_CAP /\ OldestEvent = 0 =>
           pending' = pending /\ drops' = [drops EXCEPT !.event = @ + 1]
      /\ Len(pending) >= QUEUE_CAP /\ OldestEvent # 0 =>
           pending' = Append(RemoveAt(pending, OldestEvent), EventItem) /\ drops' = [drops EXCEPT !.event = @ + 1]
  BY <1>1 DEF RecordEvent
<1>6. recorded' \in Counters /\ recorded'.event = r + 1 /\ recorded'.usage = recorded.usage
  <2>1. recorded' = [usage |-> f, event |-> r + 1]
    BY <1>1, <1>2, <1>3, <1>5
  <2> QED BY <1>3, <2>1 DEF Counters
<1> DEFINE Settled == /\ pending' \in Seq(QueueItems) /\ Len(pending') <= QUEUE_CAP
                      /\ drops' \in Counters /\ drops'.usage = drops.usage
                      /\ UsageIn(pending') = e
                      /\ Balanced(r + 1, s, EventsIn(pending'), drops'.event, p, l)
<1>7. ASSUME Len(pending) < QUEUE_CAP PROVE Settled
  <2>1. pending' \in Seq(QueueItems) /\ Len(pending') = Len(pending) + 1 /\ EventsIn(pending') = q + 1 /\ UsageIn(pending') = e + 0
    BY <1>1, <1>2, <1>3, <1>5, <1>7, ItemWeights, CountsOfAppend, ZenonT(60)
  <2>2. Balanced(r + 1, s, q + 1, d, p, l)
    BY <1>2, BalanceMoves
  <2>3. e + 0 = e /\ Len(pending') <= QUEUE_CAP
    BY <1>1, <1>7, <2>1
  <2> QED BY <1>2, <1>4, <1>5, <1>7, <2>1, <2>2, <2>3
<1>8. ASSUME Len(pending) >= QUEUE_CAP
      PROVE  drops' \in Counters /\ drops'.event = d + 1 /\ drops'.usage = drops.usage
  <2>1. drops' = [usage |-> drops.usage, event |-> d + 1]
    BY <1>1, <1>2, <1>5, <1>8
  <2> QED BY <1>4, <2>1 DEF Counters
<1>9. ASSUME Len(pending) >= QUEUE_CAP, OldestEvent = 0 PROVE Settled
  <2>1. pending' = pending
    BY <1>5, <1>9
  <2>2. Balanced(r + 1, s, q, d + 1, p, l)
    BY <1>2, BalanceMoves
  <2> QED BY <1>1, <1>2, <1>3, <1>8, <1>9, <2>1, <2>2
<1>10. ASSUME Len(pending) >= QUEUE_CAP, OldestEvent # 0 PROVE Settled
  <2> DEFINE i == OldestEvent
             rest == RemoveAt(pending, i)
  <2>1. i \in 1..Len(pending) /\ ~IsUsage(pending[i]) /\ pending[i] \in QueueItems
    <3>1. i \in 1..Len(pending) /\ ~IsUsage(pending[i])
      BY <1>1, <1>10, SearchesFind
    <3> QED BY <1>1, <3>1, ElementOfSeq
  <2> HIDE DEF i
  <2>2. UsageWeight[pending[i]] = 0 /\ EventWeight[pending[i]] = 1
    BY <2>1, WeightTypes
  <2>3. rest \in Seq(QueueItems) /\ Len(rest) = Len(pending) - 1 /\ EventsIn(rest) = q - 1 /\ UsageIn(rest) = e - 0
    BY <1>1, <1>2, <1>3, <2>1, <2>2, CountsOfRemoval
  <2> HIDE DEF rest
  <2>4. pending' = Append(rest, EventItem)
    BY <1>5, <1>10 DEF i, rest
  <2>5. pending' \in Seq(QueueItems) /\ Len(pending') = Len(rest) + 1 /\ EventsIn(pending') = q - 1 + 1 /\ UsageIn(pending') = e - 0 + 0
    BY <2>3, <2>4, ItemWeights, CountsOfAppend
  <2>6. Balanced(r + 1, s, q - 1 + 1, d + 1, p, l)
    BY <1>2, BalanceMoves
  <2>7. e - 0 + 0 = e /\ Len(pending') <= QUEUE_CAP
    BY <1>1, <2>3, <2>5
  <2> QED BY <1>8, <1>10, <2>5, <2>6, <2>7
<1>11. Settled
  BY <1>1, <1>7, <1>9, <1>10
<1>12. TelemetryTypes'
  BY <1>5, <1>6, <1>11 DEF TelemetryInv, TelemetryTypes
<1> QED BY <1>2, <1>3, <1>5, <1>6, <1>11, <1>12 DEF TelemetryInv

\* A committed batch moves what it counts from the queue to the tables, and the
\* counters of drops with it.
LEMMA CommitKept ==
  ASSUME TelemetryInv, NEW n \in Nat, FlushCommits(n) PROVE TelemetryInv'
<1> DEFINE rest == SubSeq(pending, Len(Batch(n)) + 1, Len(pending))
<1>1. PICK r \in Nat, s \in Nat, q \in Nat, d \in Nat, p \in Nat, l \in Nat :
        /\ r = recorded.usage /\ s = db.usage /\ q = UsageIn(pending) /\ d = drops.usage /\ p = db.drops.usage /\ l = lost.usage
        /\ Balanced(r, s, q, d, p, l)
  BY AccountsAreNumbers DEF TelemetryInv
<1>2. PICK re \in Nat, se \in Nat, qe \in Nat, de \in Nat, pe \in Nat, le \in Nat :
        /\ re = recorded.event /\ se = db.last /\ qe = EventsIn(pending) /\ de = drops.event /\ pe = db.drops.event /\ le = lost.event
        /\ Balanced(re, se, qe, de, pe, le)
  BY AccountsAreNumbers DEF TelemetryInv
<1>3. /\ rest \in Seq(QueueItems) /\ Len(rest) <= QUEUE_CAP
      /\ UsageIn(Batch(n)) \in Nat /\ EventsIn(Batch(n)) \in Nat
      /\ UsageIn(Batch(n)) + UsageIn(rest) = UsageIn(pending)
      /\ EventsIn(Batch(n)) + EventsIn(rest) = EventsIn(pending)
  BY CountsOfBatch DEF TelemetryInv
<1>4. /\ pending' = rest /\ drops' = Zero /\ recorded' = recorded /\ lost' = lost
      /\ db'.usage = db.usage + UsageIn(Batch(n)) /\ db'.last = db.last + EventsIn(Batch(n)) /\ db'.drops = PersistDrops
  BY DEF FlushCommits
<1> HIDE DEF rest
<1>5. PICK b \in Nat, y \in Nat, be \in Nat, ye \in Nat :
        b = UsageIn(Batch(n)) /\ y = UsageIn(rest) /\ be = EventsIn(Batch(n)) /\ ye = EventsIn(rest)
  BY <1>3, CountsAreWeights
<1>6. b + y = q /\ be + ye = qe
  BY <1>1, <1>2, <1>3, <1>5
<1>7. Balanced(r, s + b, y, 0, p + d, l) /\ Balanced(re, se + be, ye, 0, pe + de, le)
  BY <1>1, <1>2, <1>6, BalanceMoves
<1>8. PersistDrops = [usage |-> p + d, event |-> pe + de]
  BY <1>1, <1>2 DEF PersistDrops
<1>9. PersistDrops \in Counters /\ Zero \in Counters /\ Zero.usage = 0 /\ Zero.event = 0 /\ s + b \in Nat /\ se + be \in Nat
      /\ PersistDrops.usage = p + d /\ PersistDrops.event = pe + de
  BY <1>8 DEF Counters, Zero
<1>10. db'.usage = s + b /\ db'.last = se + be
  BY <1>1, <1>2, <1>4, <1>5
<1>11. TelemetryTypes'
  BY <1>3, <1>4, <1>9, <1>10 DEF TelemetryInv, TelemetryTypes
<1>12. /\ Balanced(recorded.usage, db.usage, UsageIn(pending), drops.usage, db.drops.usage, lost.usage)'
       /\ Balanced(recorded.event, db.last, EventsIn(pending), drops.event, db.drops.event, lost.event)'
  BY <1>1, <1>2, <1>4, <1>5, <1>7, <1>9, <1>10
<1> QED BY <1>11, <1>12 DEF TelemetryInv

\* A flush rolled back keeps the queue; at most it forgets the drops it had counted.
LEMMA RollbackKept ==
  ASSUME TelemetryInv, NEW n \in Nat, FlushFails(n) PROVE TelemetryInv'
<1>1. CASE UNCHANGED <<drops, lost>>
  BY <1>1 DEF FlushFails, TelemetryInv, TelemetryTypes
<1>2. CASE drops' = Zero /\ lost' = [usage |-> lost.usage + drops.usage, event |-> lost.event + drops.event]
  <2>1. PICK r \in Nat, s \in Nat, q \in Nat, d \in Nat, p \in Nat, l \in Nat :
          /\ r = recorded.usage /\ s = db.usage /\ q = UsageIn(pending) /\ d = drops.usage /\ p = db.drops.usage /\ l = lost.usage
          /\ Balanced(r, s, q, d, p, l)
    BY AccountsAreNumbers DEF TelemetryInv
  <2>2. PICK re \in Nat, se \in Nat, qe \in Nat, de \in Nat, pe \in Nat, le \in Nat :
          /\ re = recorded.event /\ se = db.last /\ qe = EventsIn(pending) /\ de = drops.event /\ pe = db.drops.event /\ le = lost.event
          /\ Balanced(re, se, qe, de, pe, le)
    BY AccountsAreNumbers DEF TelemetryInv
  <2>3. Balanced(r, s, q, 0, p, l + d) /\ Balanced(re, se, qe, 0, pe, le + de)
    BY <2>1, <2>2, BalanceMoves
  <2>4. UNCHANGED <<pending, recorded, db>>
    BY DEF FlushFails
  <2>5. lost' = [usage |-> l + d, event |-> le + de]
    BY <1>2, <2>1, <2>2
  <2>6. lost' \in Counters /\ lost'.usage = l + d /\ lost'.event = le + de /\ Zero \in Counters /\ Zero.usage = 0 /\ Zero.event = 0
    BY <2>5 DEF Counters, Zero
  <2>7. TelemetryTypes'
    BY <1>2, <2>4, <2>6 DEF TelemetryInv, TelemetryTypes
  <2>8. /\ Balanced(recorded.usage, db.usage, UsageIn(pending), drops.usage, db.drops.usage, lost.usage)'
        /\ Balanced(recorded.event, db.last, EventsIn(pending), drops.event, db.drops.event, lost.event)'
    BY <1>2, <2>1, <2>2, <2>3, <2>4, <2>6
  <2> QED BY <2>7, <2>8 DEF TelemetryInv
<1> QED BY <1>1, <1>2 DEF FlushFails

LEMMA TelemetryInvKept == TelemetryInv /\ [TelemetryNext]_telemetryVars => TelemetryInv'
<1> SUFFICES ASSUME TelemetryInv, [TelemetryNext]_telemetryVars PROVE TelemetryInv'
  OBVIOUS
<1>1. FLUSH_BATCH \in Nat
  BY TelemetryAssumption
\* The steps of the streams, the reader and close() leave the accounts alone.
<1>2. ASSUME UNCHANGED <<pending, recorded, drops, lost, db>> PROVE TelemetryInv'
  BY <1>2 DEF TelemetryInv, TelemetryTypes
<1>3. CASE ScheduledFlush \/ DrainFlush \/ ForceCloseRuntime
  <2>1. FlushCommits(FLUSH_BATCH) \/ FlushFails(FLUSH_BATCH) \/ UNCHANGED <<pending, recorded, drops, lost, db>>
    BY <1>3 DEF ScheduledFlush, DrainFlush, ForceCloseRuntime
  <2> QED BY <1>1, <1>2, <2>1, CommitKept, RollbackKept
<1>4. CASE CloseRuntime \/ CloseHub \/ QueryEvents \/ UNCHANGED telemetryVars
  BY <1>2, <1>4 DEF CloseRuntime, CloseHub, QueryEvents, telemetryVars
<1>5. CASE \E c \in {None} \cup 0..db.last : OpenStream(c)
  BY <1>2, <1>5 DEF OpenStream
<1>6. ASSUME NEW s, NEW frame, Delivers(s, frame) PROVE TelemetryInv'
  BY <1>2, <1>6 DEF Delivers
<1>7. CASE Pull
  BY <1>6, <1>7 DEF Pull
<1>8. CASE NextInitialFrame
  BY <1>6, <1>8 DEF NextInitialFrame
<1>9. CASE Wake \/ ObservePerformance \/ KeepAlive \/ CloseStream
  BY <1>6, <1>9 DEF Wake, ObservePerformance, KeepAlive, CloseStream
<1>10. CASE \E k \in Keys : RecordUsage(k)
  BY <1>10, RecordUsageKept
<1>11. CASE RecordEvent
  BY <1>11, RecordEventKept
<1> QED BY <1>3, <1>4, <1>5, <1>7, <1>8, <1>9, <1>10, <1>11 DEF TelemetryNext

LEMMA TelemetryInitially == TelemetryInit => TelemetryInv
<1> SUFFICES ASSUME TelemetryInit PROVE TelemetryInv
  OBVIOUS
<1>1. /\ pending = <<>> /\ recorded = Zero /\ drops = Zero /\ lost = Zero
      /\ db.usage = 0 /\ db.last = 0 /\ db.drops = Zero
  BY DEF TelemetryInit
<1>2. Zero \in Counters /\ Zero.usage = 0 /\ Zero.event = 0
  BY DEF Counters, Zero
<1>3. <<>> \in Seq(QueueItems) /\ Len(<<>>) = 0 /\ QUEUE_CAP \in Nat
  BY TelemetryAssumption
<1>4. TelemetryTypes
  BY <1>1, <1>2, <1>3 DEF TelemetryTypes
<1>5. Balanced(0, 0, 0, 0, 0, 0)
  BY DEF Balanced
<1>6. UsageIn(pending) = 0 /\ EventsIn(pending) = 0
  BY <1>1, CountsOfNothing
<1> QED BY <1>1, <1>2, <1>4, <1>5, <1>6 DEF TelemetryInv

\* EverythingIsAccounted (recorder.ts:129, :159, :194, :298): in every reachable
\* state the usage and the events recorded are those stored, queued or counted as
\* dropped, and the queue keeps its bound, whatever the keys and the limits are.
THEOREM EverythingAccounted == TelemetrySpec => []EverythingIsAccounted
<1>1. TelemetryInv => EverythingIsAccounted
  <2> SUFFICES ASSUME TelemetryInv PROVE EverythingIsAccounted
    OBVIOUS
  <2>1. Len(pending) <= QUEUE_CAP
    BY DEF TelemetryInv, TelemetryTypes
  <2>2. PICK r \in Nat, s \in Nat, q \in Nat, d \in Nat, p \in Nat, l \in Nat :
          /\ r = recorded.usage /\ s = db.usage /\ q = UsageIn(pending) /\ d = drops.usage /\ p = db.drops.usage /\ l = lost.usage
          /\ Balanced(r, s, q, d, p, l)
    BY AccountsAreNumbers DEF TelemetryInv
  <2>3. PICK re \in Nat, se \in Nat, qe \in Nat, de \in Nat, pe \in Nat, le \in Nat :
          /\ re = recorded.event /\ se = db.last /\ qe = EventsIn(pending) /\ de = drops.event /\ pe = db.drops.event /\ le = lost.event
          /\ Balanced(re, se, qe, de, pe, le)
    BY AccountsAreNumbers DEF TelemetryInv
  <2>4. r = s + q + d + p + l /\ re = se + qe + de + pe + le
    BY <2>2, <2>3 DEF Balanced
  <2>5. /\ recorded.usage = db.usage + UsageIn(pending) + drops.usage + db.drops.usage + lost.usage
        /\ recorded.event = db.last + EventsIn(pending) + drops.event + db.drops.event + lost.event
    BY <2>2, <2>3, <2>4
  <2> QED BY <2>1, <2>5 DEF EverythingIsAccounted
<1>2. TelemetryInit => TelemetryInv
  BY TelemetryInitially
<1>3. TelemetryInv /\ [TelemetryNext]_telemetryVars => TelemetryInv'
  BY TelemetryInvKept
<1> QED BY <1>1, <1>2, <1>3, PTL DEF TelemetrySpec
==============================================================================
