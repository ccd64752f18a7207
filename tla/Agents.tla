------------------------------- MODULE Agents -------------------------------
(***************************************************************************)
(* The transaction by which the gateway rewrites the configuration files   *)
(* of a coding agent (src/agents/manager.ts, store.ts, files.ts).          *)
(*                                                                         *)
(* The files are 1 .. TARGETS: Codex has a model catalogue and a           *)
(* configuration that names it, the other agents a configuration only.     *)
(* The user may edit, create or delete them at any time, and the gateway   *)
(* may crash or fail between any two durable steps.  What survives is the  *)
(* journal document, the files, the private scratch directory of each step *)
(* (next, previous, backup) and the timestamped backups beside the file.   *)
(*                                                                         *)
(* A content is a number: 0 no file, 1 .. MAX_EDITS what the user wrote,   *)
(* above that what the gateway generated, one content per application.     *)
(* The lock database admits one transaction at a time over all gateways    *)
(* and is released by the operating system after a crash, so the model has *)
(* one transaction; a request whose expected revision is stale changes     *)
(* nothing and is left out.  An error is a crash that the process          *)
(* survives: both drop the document in memory and leave the durable state. *)
(***************************************************************************)
EXTENDS Integers, Sequences, FiniteSets, SequencesExt

CONSTANTS TARGETS,        \* number of files of the agent
          RETAIN,         \* backups kept of each file (365 in the code)
          MAX_EDITS,      \* bound on the user's edits
          MAX_APPLIES     \* bound on the applications

ASSUME AgentsAssumption ==
    TARGETS \in {1, 2} /\ RETAIN \in Nat \ {0} /\ MAX_EDITS \in Nat \ {0} /\ MAX_APPLIES \in Nat

Files == 1 .. TARGETS
Names == 1 .. (MAX_APPLIES + MAX_EDITS + 1)
NoFile == 0
Torn == -1
Generated(n) == MAX_EDITS + n

VARIABLES
    agentFile,    \* agentFile[f]: the file the agent reads
    scratch,      \* scratch[f]: the private directory of the step on f
    backups,      \* backups[f][n]: the timestamped backup with the n-th name
    journal,      \* the document in state.db
    document,     \* the document in the memory of the transaction
    at,           \* [op, file]: the next durable step of the transaction
    position,     \* position[f]: before, after or gap, as execute() found it
    edits, applied,
    displaced,    \* displaced[f]: contents the gateway took away, in order (history)
    foreign,      \* backups the user made, <<f, name, content>> (history)
    disturbed     \* the user touched a file of the pending transaction (history)

agentVars == <<agentFile, scratch, backups, journal, document, at, position,
               edits, applied, displaced, foreign, disturbed>>

EmptyScratch == [next |-> NoFile, previous |-> NoFile, backup |-> NoFile, shared |-> "none"]
NoStep == [before |-> NoFile, after |-> NoFile, phase |-> "published", backup |-> 1]
EmptyDocument == [managed |-> FALSE, pending |-> FALSE,
                  expected |-> [f \in Files |-> NoFile],
                  owned |-> [f \in Files |-> <<>>],
                  steps |-> [f \in Files |-> NoStep]]

Idle == [op |-> "idle", file |-> 1]
Reached(op, f) == [op |-> op, file |-> f]

AgentsInit ==
    /\ agentFile \in [Files -> {NoFile, 1}]
    /\ scratch = [f \in Files |-> EmptyScratch]
    /\ backups = [f \in Files |-> [n \in Names |-> NoFile]]
    /\ journal = EmptyDocument
    /\ document = EmptyDocument
    /\ at = Idle
    /\ position = [f \in Files |-> "before"]
    /\ edits = 1
    /\ applied = 0
    /\ displaced = [f \in Files |-> <<>>]
    /\ foreign = {}
    /\ disturbed = FALSE

\* The transaction's document becomes the durable one in a single database statement.
Save == journal' = document'

AgentStep(f) == document.steps[f]
SetStep(f, s) == [document EXCEPT !.steps[f] = s]
FreeName(f) == CHOOSE n \in Names : /\ \A m \in Names : m >= n => backups[f][m] = NoFile
                                    /\ n > 1 => backups[f][n - 1] # NoFile
NextFreeName(f, n) == CHOOSE m \in Names : /\ m > n /\ backups[f][m] = NoFile
                                           /\ \A k \in n + 1 .. m - 1 : backups[f][k] # NoFile

(***************************************************************************)
(* mutate(): the images are read, the projection is made, and the intent   *)
(* is saved.  A Codex catalogue the gateway never managed is only replaced *)
(* by a takeover, which needs one of the files to be there.                *)
(***************************************************************************)
MayTakeTargets(takeover) ==
    /\ document.managed \/ takeover \/ TARGETS = 1 \/ agentFile[1] = NoFile
    /\ takeover => TARGETS = 2 /\ \E f \in Files : agentFile[f] # NoFile

Plan(n) == [f \in Files |-> [before |-> agentFile[f], after |-> Generated(n),
                             phase |-> "planned", backup |-> FreeName(f)]]

Apply(takeover) ==
    /\ at.op = "idle" /\ ~journal.pending
    /\ applied < MAX_APPLIES
    /\ MayTakeTargets(takeover)
    /\ applied' = applied + 1
    /\ document' = [document EXCEPT !.managed = TRUE, !.pending = TRUE,
                                    !.expected = agentFile, !.steps = Plan(applied + 1)]
    /\ Save
    /\ at' = Reached("stage", 1)
    /\ disturbed' = FALSE
    /\ UNCHANGED <<agentFile, scratch, backups, position, edits, displaced, foreign>>

(***************************************************************************)
(* validateDisplaced(): a file found in scratch/previous is what was       *)
(* really displaced, whatever the journal says, until it was published.  A *)
(* file with a second name elsewhere than in its backup is refused.        *)
(***************************************************************************)
Displaceable(f) ==
    scratch[f].previous # NoFile =>
        /\ scratch[f].shared # "previous"
        /\ AgentStep(f).phase = "published" => scratch[f].previous = AgentStep(f).before
Adopted(f) ==
    IF scratch[f].previous = NoFile THEN AgentStep(f)
    ELSE [AgentStep(f) EXCEPT !.before = scratch[f].previous]

\* Defect: a target missing between unlink and link is not recognised.
Classify_NoGap(f, s) ==
    IF s.phase = "planned" /\ scratch[f].previous = NoFile THEN "before"
    ELSE IF agentFile[f] = s.after THEN "after"
    ELSE IF agentFile[f] = s.before THEN "before" ELSE "unknown"

Classify(f, s) ==
    IF s.phase = "planned" /\ scratch[f].previous = NoFile THEN "before"
    ELSE IF agentFile[f] = s.after THEN "after"
    ELSE IF agentFile[f] = s.before THEN "before"
    ELSE IF agentFile[f] = NoFile /\ s.before # NoFile /\ scratch[f].previous # NoFile THEN "gap" ELSE "unknown"

Recoverable(f) == Displaceable(f) /\ Classify(f, Adopted(f)) # "unknown"

(***************************************************************************)
(* mutate() when the journal holds an interrupted transaction: every step  *)
(* must be recoverable before anything is done; then execute() and         *)
(* finish() run on the journal's own plan.                                 *)
(***************************************************************************)
Recover ==
    /\ at.op = "idle" /\ journal.pending
    /\ \A f \in Files : Recoverable(f)
    /\ document' = [document EXCEPT !.steps = [f \in Files |-> Adopted(f)]]
    /\ Save
    /\ at' = Reached("stage", 1)
    /\ UNCHANGED <<agentFile, scratch, backups, position, edits, applied, displaced, foreign, disturbed>>

(***************************************************************************)
(* execute(), first loop: find where each step stands and write the new    *)
(* content into the scratch directory.                                     *)
(***************************************************************************)
Staged(f) == scratch[f].next \in {NoFile, AgentStep(f).after}

StageTargets(f) ==
    /\ at = Reached("stage", f)
    /\ Displaceable(f)
    /\ LET s == Adopted(f)
           p == Classify(f, s)
       IN  /\ p # "unknown"
           /\ p # "after" => Staged(f)
           /\ document' = SetStep(f, IF p = "after" THEN [s EXCEPT !.phase = "published"] ELSE s)
           /\ scratch' = IF p = "after" THEN scratch ELSE [scratch EXCEPT ![f].next = s.after]
           /\ position' = [position EXCEPT ![f] = p]
    /\ Save
    /\ at' = IF f < TARGETS THEN Reached("stage", f + 1) ELSE Reached("boundary", 1)
    /\ UNCHANGED <<agentFile, backups, edits, applied, displaced, foreign, disturbed>>

\* The order in which execute() publishes: the catalogue before the configuration.
Order(i) == i

\* Second half of execute(): the images are read again just before the first move.
Boundary ==
    /\ at.op = "boundary"
    /\ LET fresh == {f \in Files : /\ position[f] # "after" /\ AgentStep(f).phase = "planned"
                                   /\ scratch[f].previous = NoFile}
       IN  /\ document' = [document EXCEPT !.steps =
                   [f \in Files |-> IF f \in fresh THEN [AgentStep(f) EXCEPT !.before = agentFile[f]]
                                    ELSE AgentStep(f)]]
           /\ position' = [f \in Files |-> IF f \in fresh THEN "before" ELSE position[f]]
    /\ Save
    /\ at' = Reached("step", 1)
    /\ UNCHANGED <<agentFile, scratch, backups, edits, applied, displaced, foreign, disturbed>>

\* The i-th step starts where its position says, or is skipped.
EnterTarget(i) ==
    /\ at = Reached("step", i)
    /\ LET f == Order(i) IN
       at' = CASE position[f] = "after" -> IF i < TARGETS THEN Reached("step", i + 1) ELSE Reached("verify", 1)
               [] position[f] = "before" -> Reached("read", i)
               [] position[f] = "gap" -> Reached("archive", i)
    /\ UNCHANGED <<agentFile, scratch, backups, journal, document, position, edits, applied,
                   displaced, foreign, disturbed>>

\* The scratch directory may hold the staged file only; the file is read once more.
ReadLatest(i) ==
    LET f == Order(i) IN
    /\ at = Reached("read", i)
    /\ scratch[f].previous = NoFile /\ scratch[f].backup = NoFile
    /\ scratch[f].next = AgentStep(f).after
    /\ document' = SetStep(f, [AgentStep(f) EXCEPT !.before = agentFile[f]])
    /\ Save
    /\ at' = Reached(IF agentFile[f] = NoFile THEN "publish" ELSE "move", i)
    /\ UNCHANGED <<agentFile, scratch, backups, position, edits, applied, displaced, foreign, disturbed>>

\* rename(target, scratch/previous): it takes whatever is there now, and fails on nothing.
Move(i) ==
    LET f == Order(i) IN
    /\ at = Reached("move", i)
    /\ agentFile[f] # NoFile
    /\ scratch' = [scratch EXCEPT ![f].previous = agentFile[f],
                                  ![f].shared = IF @ = "target" THEN "previous" ELSE "none"]
    /\ agentFile' = [agentFile EXCEPT ![f] = NoFile]
    /\ displaced' = [displaced EXCEPT ![f] = Append(@, agentFile[f])]
    /\ at' = Reached("adopt", i)
    /\ UNCHANGED <<backups, journal, document, position, edits, applied, foreign, disturbed>>

\* The moved file is read back, without a second name allowed, and journalled.
AdoptMoved(i) ==
    LET f == Order(i) IN
    /\ at = Reached("adopt", i)
    /\ scratch[f].shared # "previous"
    /\ document' = SetStep(f, [AgentStep(f) EXCEPT !.before = scratch[f].previous])
    /\ Save
    /\ at' = Reached("archive", i)
    /\ UNCHANGED <<agentFile, scratch, backups, position, edits, applied, displaced, foreign, disturbed>>

(***************************************************************************)
(* archiveDisplaced(): a copy of the displaced content is written to       *)
(* scratch/backup, linked under the backup's name without replacing what   *)
(* may be there, recorded as the gateway's own, and unlinked.  Contents    *)
(* are distinct, so equal contents stand for one and the same file.        *)
(***************************************************************************)
ArchiveStage(i) ==
    LET f == Order(i) IN
    /\ at = Reached("archive", i)
    /\ scratch[f].backup \in {NoFile, AgentStep(f).before}
    /\ scratch' = [scratch EXCEPT ![f].backup = AgentStep(f).before]
    /\ at' = Reached("link", i)
    /\ UNCHANGED <<agentFile, backups, journal, document, position, edits, applied, displaced,
                   foreign, disturbed>>

\* trimTimestampBackups(): backups that are gone or were changed are forgotten, and the
\* oldest ones above the limit removed.
StillOwned(f) ==
    LET own == document.owned[f]
        kept == {k \in DOMAIN own : backups[f][own[k].name] = own[k].content}
    IN  [j \in 1 .. Cardinality(kept) |-> own[CHOOSE k \in kept : Cardinality({i \in kept : i <= k}) = j]]
Excess(f, limit) == LET own == StillOwned(f)
                    IN  {own[k].name : k \in 1 .. Len(own) - limit}
Trimmed(f, limit) == LET own == StillOwned(f)
                     IN  SubSeq(own, (IF Len(own) > limit THEN Len(own) - limit ELSE 0) + 1, Len(own))
Untrimmed(f, limit) == [n \in Names |-> IF n \in Excess(f, limit) THEN NoFile ELSE backups[f][n]]

ArchiveLink(i) ==
    LET f == Order(i)
        s == AgentStep(f)
        there == backups[f][s.backup]
    IN
    /\ at = Reached("link", i)
    /\ \/ /\ there \notin {NoFile, s.before}      \* taken by somebody else: the next name
          /\ \A b \in Range(document.owned[f]) : b.name # s.backup
          /\ document' = SetStep(f, [s EXCEPT !.backup = NextFreeName(f, s.backup)])
          /\ Save
          /\ UNCHANGED <<backups, at>>
       \/ /\ there = s.before
          /\ at' = Reached("record", i)
          /\ UNCHANGED <<backups, journal, document>>
       \/ /\ there = NoFile
          /\ document' = [document EXCEPT !.owned[f] = Trimmed(f, RETAIN - 1)]
          /\ backups' = [backups EXCEPT ![f] = [Untrimmed(f, RETAIN - 1) EXCEPT ![s.backup] = s.before]]
          /\ at' = Reached("record", i)
          /\ UNCHANGED journal
    /\ UNCHANGED <<agentFile, scratch, position, edits, applied, displaced, foreign, disturbed>>

ArchiveRecord(i) ==
    LET f == Order(i)
        s == AgentStep(f)
        entry == [name |-> s.backup, content |-> s.before]
        known == entry \in Range(document.owned[f])
    IN
    /\ at = Reached("record", i)
    /\ document' = IF known THEN document
                   ELSE [document EXCEPT !.owned[f] = Append(Trimmed(f, RETAIN - 1), entry)]
    /\ Save
    /\ backups' = IF known THEN backups ELSE [backups EXCEPT ![f] = Untrimmed(f, RETAIN - 1)]
    /\ at' = Reached("archived", i)
    /\ UNCHANGED <<agentFile, scratch, position, edits, applied, displaced, foreign, disturbed>>

Archived(i) ==
    LET f == Order(i) IN
    /\ at = Reached("archived", i)
    /\ scratch' = [scratch EXCEPT ![f].backup = NoFile]
    /\ document' = SetStep(f, [AgentStep(f) EXCEPT !.phase = "displaced"])
    /\ Save
    /\ at' = Reached("publish", i)
    /\ UNCHANGED <<agentFile, backups, position, edits, applied, displaced, foreign, disturbed>>

\* Defect: the target is replaced by a rename.
PublishTarget_Clobbers(i) ==
    LET f == Order(i) IN
    /\ at = Reached("publish", i)
    /\ scratch[f].next = AgentStep(f).after
    /\ agentFile' = [agentFile EXCEPT ![f] = AgentStep(f).after]
    /\ displaced' = IF agentFile[f] = NoFile THEN displaced
                    ELSE [displaced EXCEPT ![f] = Append(@, agentFile[f])]
    /\ scratch' = [scratch EXCEPT ![f].shared = "target"]
    /\ at' = Reached("unlink", i)
    /\ UNCHANGED <<backups, journal, document, position, edits, applied, foreign, disturbed>>

\* link(scratch/next, target) never replaces a file that has appeared in between.
PublishTarget(i) ==
    LET f == Order(i) IN
    /\ at = Reached("publish", i)
    /\ scratch[f].next = AgentStep(f).after
    /\ agentFile[f] = NoFile
    /\ agentFile' = [agentFile EXCEPT ![f] = AgentStep(f).after]
    /\ scratch' = [scratch EXCEPT ![f].shared = "target"]
    /\ at' = Reached("unlink", i)
    /\ UNCHANGED <<backups, journal, document, position, edits, applied, displaced, foreign, disturbed>>

Unlink(i) ==
    LET f == Order(i) IN
    /\ at = Reached("unlink", i)
    /\ scratch' = [scratch EXCEPT ![f].next = NoFile, ![f].shared = "none"]
    /\ at' = Reached("published", i)
    /\ UNCHANGED <<agentFile, backups, journal, document, position, edits, applied, displaced,
                   foreign, disturbed>>

Published(i) ==
    LET f == Order(i) IN
    /\ at = Reached("published", i)
    /\ document' = SetStep(f, [AgentStep(f) EXCEPT !.phase = "published"])
    /\ Save
    /\ at' = IF i < TARGETS THEN Reached("step", i + 1) ELSE Reached("verify", 1)
    /\ UNCHANGED <<agentFile, scratch, backups, position, edits, applied, displaced, foreign, disturbed>>

(***************************************************************************)
(* finish(): every file is what was intended, the scratch directories are  *)
(* removed while the intent is still there, and the intent is dropped.     *)
(***************************************************************************)
Verify ==
    /\ at.op = "verify"
    /\ \A f \in Files : agentFile[f] = AgentStep(f).after
    /\ document' = [document EXCEPT !.expected = [f \in Files |-> AgentStep(f).after]]
    /\ at' = Reached("cleanup", 1)
    /\ UNCHANGED <<agentFile, scratch, backups, journal, position, edits, applied, displaced,
                   foreign, disturbed>>

Cleanable(f) ==
    /\ scratch[f].previous \in {NoFile, AgentStep(f).before}
    /\ scratch[f].backup \in {NoFile, AgentStep(f).before}
    /\ scratch[f].next \in {NoFile, AgentStep(f).after}

Cleanup(f) ==
    LET s == AgentStep(f)
        entry == [name |-> s.backup, content |-> backups[f][s.backup]]
        names == {b.name : b \in Range(document.owned[f])}
    IN
    /\ at = Reached("cleanup", f)
    /\ Cleanable(f)
    /\ scratch' = [scratch EXCEPT ![f] = EmptyScratch]
    /\ document' = IF s.before # NoFile /\ entry.content # NoFile /\ s.backup \notin names
                   THEN [document EXCEPT !.owned[f] = Append(@, entry)] ELSE document
    /\ at' = IF f < TARGETS THEN Reached("cleanup", f + 1) ELSE Reached("complete", 1)
    /\ UNCHANGED <<agentFile, backups, journal, position, edits, applied, displaced, foreign, disturbed>>

Complete ==
    /\ at.op = "complete"
    /\ document' = [document EXCEPT !.pending = FALSE,
                                    !.owned = [f \in Files |-> Trimmed(f, RETAIN)],
                                    !.steps = [f \in Files |-> NoStep]]
    /\ backups' = [f \in Files |-> Untrimmed(f, RETAIN)]
    /\ Save
    /\ at' = Idle
    /\ position' = [f \in Files |-> "before"]
    /\ disturbed' = FALSE
    /\ UNCHANGED <<agentFile, scratch, edits, applied, displaced, foreign>>

(***************************************************************************)
(* The environment: a crash or an error between two durable steps, one in  *)
(* the middle of writing the staged file, and the user.                    *)
(***************************************************************************)
CrashOrFail ==
    /\ at.op # "idle"
    /\ at' = Idle
    /\ document' = journal
    /\ position' = [f \in Files |-> "before"]
    /\ scratch' \in {scratch} \cup
           {[scratch EXCEPT ![f].next = Torn] : f \in
                {g \in Files : at = Reached("stage", g) /\ scratch[g].next = NoFile}}
    /\ UNCHANGED <<agentFile, backups, journal, edits, applied, displaced, foreign, disturbed>>

UserWrites(f) ==
    /\ edits < MAX_EDITS
    /\ edits' = edits + 1
    /\ agentFile' = [agentFile EXCEPT ![f] = edits + 1]
    /\ scratch' = [scratch EXCEPT ![f].shared = IF @ = "target" THEN "none" ELSE @]
    /\ disturbed' = journal.pending
    /\ UNCHANGED <<backups, journal, document, at, position, applied, displaced, foreign>>

UserDeletes(f) ==
    /\ agentFile[f] # NoFile /\ edits < MAX_EDITS
    /\ edits' = edits + 1
    /\ agentFile' = [agentFile EXCEPT ![f] = NoFile]
    /\ scratch' = [scratch EXCEPT ![f].shared = IF @ = "target" THEN "none" ELSE @]
    /\ disturbed' = journal.pending
    /\ UNCHANGED <<backups, journal, document, at, position, applied, displaced, foreign>>

\* Somebody creates the very file the pending step means to use for its backup.
UserTakesName(f) ==
    LET n == journal.steps[f].backup IN
    /\ journal.pending /\ backups[f][n] = NoFile
    /\ edits < MAX_EDITS
    /\ edits' = edits + 1
    /\ backups' = [backups EXCEPT ![f][n] = edits + 1]
    /\ foreign' = foreign \cup {<<f, n, edits + 1>>}
    /\ UNCHANGED <<agentFile, scratch, journal, document, at, position, applied, displaced, disturbed>>

AgentsNext ==
    \/ \E takeover \in BOOLEAN : Apply(takeover)
    \/ Recover \/ Boundary \/ Verify \/ Complete \/ CrashOrFail
    \/ \E i \in Files : \/ StageTargets(i) \/ EnterTarget(i) \/ ReadLatest(i) \/ Move(i) \/ AdoptMoved(i)
                        \/ ArchiveStage(i) \/ ArchiveLink(i) \/ ArchiveRecord(i) \/ Archived(i)
                        \/ PublishTarget(i) \/ Unlink(i) \/ Published(i) \/ Cleanup(i)
                        \/ UserWrites(i) \/ UserDeletes(i) \/ UserTakesName(i)

AgentsSpec == AgentsInit /\ [][AgentsNext]_agentVars

---------------------------------------------------------------------------
(***************************************************************************)
(* NoEditIsLost: whatever the interleaving of user, gateway and crashes,   *)
(* the last RETAIN contents the gateway took away from a file are still on *)
(* disk, in the scratch directory or in a backup, and no backup that is    *)
(* not the gateway's own was removed or replaced.                          *)
(***************************************************************************)
OnDisk(f) == {scratch[f].previous, scratch[f].backup} \cup Range(backups[f])

NoEditIsLost ==
    /\ \A f \in Files : \A k \in DOMAIN displaced[f] :
           k > Len(displaced[f]) - RETAIN => displaced[f][k] \in OnDisk(f)
    /\ \A b \in foreign : backups[b[1]][b[2]] = b[3]

(***************************************************************************)
(* CatalogBeforeConfig: unless the user moves the files about meanwhile,   *)
(* Codex never finds the configuration of an unfinished application in     *)
(* place before that application's catalogue was published, also when the  *)
(* application is resumed after a crash.                                   *)
(***************************************************************************)
CatalogBeforeConfig ==
    journal.pending /\ ~disturbed /\ agentFile[TARGETS] = journal.steps[TARGETS].after
        => \A f \in Files \ {TARGETS} : journal.steps[f].phase = "published"

(***************************************************************************)
(* RecoveryResumes: a transaction interrupted anywhere, whose files nobody *)
(* else touched, can be taken up again by the next application - unless it *)
(* was interrupted while writing a staged file, or while the new file had  *)
(* both its names and was then itself displaced by a resumed transaction.  *)
(***************************************************************************)
RecoveryResumes ==
    at.op = "idle" /\ journal.pending /\ ~disturbed =>
        \A f \in Files : scratch[f].shared # "previous" =>
            /\ Recoverable(f)
            /\ Staged(f) \/ scratch[f].next = Torn

\* An application that stopped anywhere shows Codex no configuration without its
\* catalogue and can be taken up again (manager.ts:349-387, :458-463).
ApplicationsResume == CatalogBeforeConfig /\ RecoveryResumes

=============================================================================
