------------------------------ MODULE LogFiles ------------------------------
(***************************************************************************)
(* The daemon's JSONL log (daemon/logger.ts): append, rotation, and the    *)
(* pruning of aged and surplus files as a transaction on disk (a state     *)
(* record, a rename into quarantine, a commit record, unlinks).  A crash   *)
(* or an I/O error may come between any two of its steps; the next start,  *)
(* or the next line, begins with recoverPrune().  A log line is a number,  *)
(* a file the sequence of its lines; a record names the file's first line. *)
(***************************************************************************)
EXTENDS Naturals, Sequences, FiniteSets, SequencesExt

CONSTANTS LOG_FILE_LINES, \* lines that fit in LOG_FILE_BYTES
          LOG_FILE_COUNT, MAX_LINES

ASSUME LogAssumption == LOG_FILE_LINES \in Nat \ {0} /\ LOG_FILE_COUNT \in Nat \ {0}

VARIABLES activeFile, rotated, \* gateway.jsonl (<<>>: no file), rotated files by mtime
          aged,            \* lines last written more than LOG_MAX_AGE_MS ago
          linesWritten,         \* number of the last line appended
          stateTmp, state, commitTmp, commit, \* the records; 0: no file
          torn,            \* the temporary record's write was not complete
          quarantine, job  \* the file renamed for pruning; the logger's next step

logVars == <<activeFile, rotated, aged, linesWritten, stateTmp, state, commitTmp, commit, torn, quarantine, job>>
logFiles == <<activeFile, rotated, aged, linesWritten>>
logRecords == <<stateTmp, state, commitTmp, commit>>

LogInit ==
    /\ activeFile = <<>> /\ rotated = <<>> /\ aged = 0 /\ linesWritten = 0 /\ torn = FALSE
    /\ stateTmp = 0 /\ state = 0 /\ commitTmp = 0 /\ commit = 0
    /\ quarantine = <<>> /\ job = [step |-> "recover", last |-> TRUE]

Step(from, to) == job.step = from /\ job' = [job EXCEPT !.step = to]

\* The constructor and each appended line prune before they go on; a line
\* prunes once more afterwards (last).
WriteLine ==
    /\ job.step = "idle" /\ linesWritten < MAX_LINES /\ job' = [step |-> "recover", last |-> FALSE]
    /\ UNCHANGED <<logFiles, logRecords, torn, quarantine>>

-----------------------------------------------------------------------------
(* recoverPrune() *)

TemporaryConflicts ==
    \/ stateTmp # 0 /\ (state # 0 \/ commit # 0)
    \/ stateTmp # 0 /\ ~torn /\ quarantine # <<>>
    \/ commitTmp # 0 /\ (commit # 0 \/ state = 0)
    \/ commitTmp # 0 /\ ~torn /\ commitTmp # state

Transaction == IF commit # 0 THEN commit ELSE state

RecordsConflict ==
    \/ state = 0 /\ commit # 0 /\ quarantine # <<>>
    \/ state # 0 /\ commit # 0 /\ state # commit
    \/ Transaction # 0 /\ quarantine # <<>> /\ Head(quarantine) # Transaction

\* Defect: the temporary file of a crashed rotation is not looked at.
RecoverTemporary_Keeps ==
    /\ job.step = "recover"
    /\ job' = [job EXCEPT !.step = IF Transaction = 0 THEN "select" ELSE "unlink"]
    /\ UNCHANGED <<logFiles, logRecords, torn, quarantine>>

RecoverTemporary ==
    /\ job.step = "recover"
    /\ IF TemporaryConflicts \/ RecordsConflict
       THEN job' = [job EXCEPT !.step = "refused"] /\ UNCHANGED <<logRecords, torn>>
       ELSE /\ stateTmp' = 0 /\ commitTmp' = 0 /\ torn' = FALSE /\ UNCHANGED <<state, commit>>
            /\ job' = [job EXCEPT !.step = IF Transaction = 0 THEN "select" ELSE "unlink"]
    /\ UNCHANGED <<logFiles, quarantine>>

-----------------------------------------------------------------------------
(* prune() and pruneObservedFile() *)

Aged(file) == Last(file) <= aged

Candidates ==
    LET old == {i \in DOMAIN rotated : Aged(rotated[i])}
    IN CASE old # {} -> {rotated[Min(old)]}
         [] old = {} /\ activeFile # <<>> /\ Aged(activeFile) -> {activeFile}
         [] OTHER -> IF Len(rotated) > LOG_FILE_COUNT - 1 THEN {Head(rotated)} ELSE {}

\* The first file of each kind in turn; the record of what is to be pruned is
\* written beside its final name first.
SelectFile ==
    /\ job.step = "select"
    /\ \/ /\ Candidates = {} /\ job' = [job EXCEPT !.step = IF job.last THEN "idle" ELSE "append"]
          /\ UNCHANGED <<stateTmp, torn>>
       \/ \E file \in Candidates :
             /\ IF stateTmp # 0 \/ state # 0 THEN Step("select", "refused") /\ UNCHANGED <<stateTmp, torn>>
                ELSE Step("select", "publish") /\ stateTmp' = Head(file) /\ torn' \in BOOLEAN
    /\ UNCHANGED <<logFiles, state, commitTmp, commit, quarantine>>

\* A torn write is seen by whoever reads the file back: the logger goes on
\* only with a complete one.
ReadsBack == ~torn

PublishState ==
    /\ ReadsBack /\ Step("publish", "rename") /\ state' = stateTmp /\ stateTmp' = 0
    /\ UNCHANGED <<logFiles, commitTmp, commit, torn, quarantine>>

RenameCandidate ==
    /\ Step("rename", "commit")
    /\ \/ /\ activeFile # <<>> /\ Head(activeFile) = state /\ quarantine' = activeFile /\ activeFile' = <<>> /\ UNCHANGED rotated
       \/ \E i \in DOMAIN rotated :
             /\ Head(rotated[i]) = state /\ quarantine' = rotated[i]
             /\ rotated' = RemoveAt(rotated, i) /\ UNCHANGED activeFile
    /\ UNCHANGED <<aged, linesWritten, logRecords, torn>>

WriteCommit ==
    /\ IF commitTmp # 0 \/ commit # 0 THEN Step("commit", "refused") /\ UNCHANGED <<commitTmp, torn>>
       ELSE Step("commit", "commitPublish") /\ commitTmp' = state /\ torn' \in BOOLEAN
    /\ UNCHANGED <<logFiles, stateTmp, state, commit, quarantine>>

PublishCommit ==
    /\ ReadsBack /\ Step("commitPublish", "unlink") /\ commit' = commitTmp /\ commitTmp' = 0
    /\ UNCHANGED <<logFiles, stateTmp, state, torn, quarantine>>

\* The quarantined file goes first, then the commit, then the state.
UnlinkCandidate ==
    /\ Step("unlink", "uncommit") /\ quarantine' = <<>> /\ UNCHANGED <<logFiles, logRecords, torn>>

UnlinkCommit ==
    /\ Step("uncommit", "unstate") /\ commit' = 0 /\ UNCHANGED <<logFiles, stateTmp, state, commitTmp, torn, quarantine>>

UnlinkState ==
    /\ Step("unstate", "select") /\ state' = 0 /\ UNCHANGED <<logFiles, stateTmp, commitTmp, commit, torn, quarantine>>

-----------------------------------------------------------------------------
\* appendLine(): a full active file is renamed, then the line starts a new one.
RotateFile ==
    /\ job.step = "append" /\ Len(activeFile) = LOG_FILE_LINES
    /\ rotated' = Append(rotated, activeFile) /\ activeFile' = <<>>
    /\ UNCHANGED <<aged, linesWritten, logRecords, torn, quarantine, job>>

AppendLine ==
    /\ job.step = "append" /\ Len(activeFile) < LOG_FILE_LINES
    /\ linesWritten' = linesWritten + 1 /\ activeFile' = Append(activeFile, linesWritten + 1)
    /\ job' = [step |-> "recover", last |-> TRUE] /\ UNCHANGED <<rotated, aged, logRecords, torn, quarantine>>

\* The process dies and starts again, or a step throws and a later line comes.
LogCrash ==
    /\ job.step \notin {"refused", "idle"} /\ job' = [step |-> "recover", last |-> TRUE]
    /\ UNCHANGED <<logFiles, logRecords, torn, quarantine>>

FilesAge ==
    /\ aged < linesWritten /\ aged' = linesWritten /\ UNCHANGED <<activeFile, rotated, linesWritten, logRecords, torn, quarantine, job>>

PruneStep ==
    \/ RecoverTemporary \/ SelectFile \/ PublishState \/ RenameCandidate \/ WriteCommit \/ PublishCommit
    \/ UnlinkCandidate \/ UnlinkCommit \/ UnlinkState \/ RotateFile \/ AppendLine

LogNext == WriteLine \/ PruneStep \/ LogCrash \/ FilesAge

LogSpec == LogInit /\ [][LogNext]_logVars

-----------------------------------------------------------------------------
\* Whatever step a crash interrupts, recovery never meets files it refuses:
\* a refusal would end every later start of the daemon (logger.ts:243-273).
RecoveryNeverRefuses == job.step # "refused"

\* Pruning takes the oldest files only: a line that is not aged and no longer
\* on disk, or in quarantine, has LOG_FILE_COUNT - 1 newer files behind it,
\* and after a line no more files than that are kept (logger.ts:187).
NewestLinesAreKept ==
    LET rotatedLines == UNION {{rotated[i][j] : j \in DOMAIN rotated[i]} : i \in DOMAIN rotated}
        onDisk == rotatedLines \cup {activeFile[i] : i \in DOMAIN activeFile}
    IN /\ \A line \in aged + 1 .. linesWritten :
             line \in onDisk \/ Cardinality({i \in DOMAIN rotated : Head(rotated[i]) > line}) >= LOG_FILE_COUNT - 1
       /\ job.step = "idle" => Len(rotated) < LOG_FILE_COUNT

\* A crash at any step of a rotation or of a pruning neither blocks the next
\* start nor costs lines that were to be kept (logger.ts:187, :243-273).
RotationIsSafe == RecoveryNeverRefuses /\ NewestLinesAreKept

=============================================================================
