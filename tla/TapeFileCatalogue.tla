------------------------- MODULE TapeFileCatalogue -------------------------
(***************************************************************************)
(* The part of the catalogue that says which file is where on which tape:  *)
(* the rows of TAPE (LAST_FSEQ, IS_FULL), ARCHIVE_FILE, TAPE_FILE and      *)
(* FILE_RECYCLE_LOG, the operations of the PostgreSQL catalogue that change*)
(* them, and the medium itself, against which the rows are judged.         *)
(*                                                                         *)
(* Tape sessions append to the tape and report batches with                *)
(* filesWrittenToTape(), one transaction that holds the lock of the TAPE   *)
(* row.  Frontends and operators delete files, delete single copies,       *)
(* restore deleted copies and reclaim tapes.  Each of these reads first and*)
(* writes later, without a lock in between: every read and every           *)
(* transaction (or autocommitted statement) is a step of its own.          *)
(*                                                                         *)
(* A transaction that only writes what it was given is one step, taken at  *)
(* its commit; the isolation level is READ COMMITTED.  Sizes, checksums,   *)
(* block ids, storage classes, the statistics (DIRTY, the byte counters)   *)
(* and the log lines are left out.                                         *)
(***************************************************************************)
EXTENDS Integers, Sequences, FiniteSets, SequencesExt

CONSTANTS
    Tapes,      \* the VIDs
    Files,      \* archive file identifiers
    CopyNbs,    \* copy numbers of a storage class
    Clients,    \* frontend threads serving deletions and operator commands
    MaxFSeq,    \* bound: tape files that fit on a tape
    MaxWrites,  \* bound: tape files written
    MaxOps      \* bound: operations the clients start, answers lost and crashes of clients

ASSUME TapesAssumption == Tapes # {} /\ Files # {} /\ CopyNbs # {}
ASSUME BoundsAssumption == MaxFSeq \in Nat /\ MaxWrites \in Nat /\ MaxOps \in Nat

Placeholder == [file |-> "none"]    \* a tape file that holds no archive file

VARIABLES
    lastFSeq, full,     \* TAPE: LAST_FSEQ and IS_FULL of each tape
    archiveFile,        \* ARCHIVE_FILE: the identifiers present
    tapeFile,           \* TAPE_FILE: its rows
    recycleLog,         \* FILE_RECYCLE_LOG: rows, numbered among those of one tape file
    medium,             \* what is on each tape, in order
    session,            \* the archive session of each tape
    op,                 \* what each client is doing, with what it has read
    writes, ops,        \* what MaxWrites and MaxOps count
    stale,              \* history: tapes on which a step used an outdated read
    restored            \* history: rows a restore put back beside a report of the same copy

vars == <<lastFSeq, full, archiveFile, tapeFile, recycleLog, medium, session, op, writes, ops,
          stale, restored>>

Row == [vid : Tapes, fSeq : 1..MaxFSeq, file : Files, copyNb : CopyNbs]
Item == [file : Files, copyNb : CopyNbs] \union {Placeholder}

\* A session: its state, the LAST_FSEQ it continues, the items written since, and what its
\* open transaction inserts into ARCHIVE_FILE and found of old copies.
SessionRec(state, base, batch) ==
    [state |-> state, base |-> base, batch |-> batch, new |-> {}, old |-> {}]
NoSession == SessionRec("none", 0, <<>>)
Idle == [kind |-> "idle"]

Init ==
    /\ lastFSeq = [v \in Tapes |-> 0] /\ full = [v \in Tapes |-> FALSE]
    /\ archiveFile = {} /\ tapeFile = {} /\ recycleLog = {}
    /\ medium = [v \in Tapes |-> <<>>]
    /\ session = [v \in Tapes |-> NoSession]
    /\ op = [c \in Clients |-> Idle]
    /\ writes = 0 /\ ops = 0
    /\ stale = {} /\ restored = {}

RowsOf(f) == {r \in tapeFile : r.file = f}
RowsOn(v) == {r \in tapeFile : r.vid = v}
At(r) == <<r.vid, r.fSeq>>                          \* the primary key of TAPE_FILE
RowsAt(rows) == {r \in tapeFile : \E s \in rows : At(r) = At(s)}
SameCopy(r, s) == r.file = s.file /\ r.copyNb = s.copyNb

Locked(v) == session[v].state = "transaction"       \* SELECT ... FOR UPDATE on its TAPE row

InsertedAfterDelete(o) == {}

\* What insertFileInFileRecycleLog() copies of what a deletion has read: INSERT ... SELECT
\* ... FROM ARCHIVE_FILE inserts nothing when the archive file is gone.
Inserted(o) == IF o.gone THEN {} ELSE o.rows

\* An open deletion has inserted entries that refer to the TAPE row.
Referred(v) ==
    \E c \in Clients : op[c].kind \in {"move", "remove"} /\ \E r \in Inserted(op[c]) : r.vid = v

\* The rows of the recycle log after the tape files "rows" have been copied to it.
Logged(rows) ==
    recycleLog \union {[row |-> r, nth |-> Cardinality({e \in recycleLog : e.row = r}) + 1] : r \in rows}

\* Tapes whose reclaiming has counted their files and not yet reset their counters.
BeingReclaimed == {op[c].vid : c \in {d \in Clients : op[d].kind \in {"counted", "purged"}}}
VidsOf(rows) == {r.vid : r \in rows}

(***************************************************************************)
(* Archive sessions.                                                       *)
(***************************************************************************)
clientVars == <<op, restored>>

\* A tape that is not full is mounted; the drive is positioned after LAST_FSEQ.
MountTape(v) ==
    /\ session[v].state = "none" /\ ~ full[v]
    /\ session' = [session EXCEPT ![v] = SessionRec("writing", lastFSeq[v], <<>>)]
    /\ UNCHANGED <<lastFSeq, full, archiveFile, tapeFile, recycleLog, medium, writes, ops, stale, clientVars>>

\* The next tape file is written; what was on the tape beyond it is lost.  The scheduler
\* gives a copy of a file to one session at a time.
WriteItem(v, item) ==
    LET s == session[v] IN
    /\ s.state = "writing"
    /\ s.base + Len(s.batch) < MaxFSeq /\ writes < MaxWrites
    /\ writes' = writes + 1
    /\ item # Placeholder => \A u \in Tapes : item \notin Range(session[u].batch)
    /\ medium' = [medium EXCEPT ![v] = SubSeq(@, 1, s.base + Len(s.batch)) \o <<item>>]
    /\ session' = [session EXCEPT ![v].batch = Append(@, item)]
    /\ UNCHANGED <<lastFSeq, full, archiveFile, tapeFile, recycleLog, ops, stale, clientVars>>

\* The session ends or crashes; an open transaction is rolled back.
EndSession(v) ==
    /\ session[v].state # "none"
    /\ session' = [session EXCEPT ![v] = NoSession]
    /\ UNCHANGED <<lastFSeq, full, archiveFile, tapeFile, recycleLog, medium, writes, ops, stale, clientVars>>

FilesOf(batch) == {i.file : i \in Range(batch) \ {Placeholder}}

\* The rows a batch stands for.
BatchRows(v, s) ==
    {[vid |-> v, fSeq |-> s.base + i, file |-> s.batch[i].file, copyNb |-> s.batch[i].copyNb] :
        i \in {j \in 1..Len(s.batch) : s.batch[j] # Placeholder}}

OldCopiesOnTheTape(rows) == {r \in tapeFile : \E s \in rows : SameCopy(r, s) /\ r.vid = s.vid /\ At(r) # At(s)}

OldCopies(rows) == {r \in tapeFile : \E s \in rows : SameCopy(r, s) /\ At(r) # At(s)}

\* filesWrittenToTape() up to the selection of the old copies: the TAPE row is locked, the
\* positions must follow LAST_FSEQ, and archive files that do not exist yet are inserted,
\* after any other transaction that is inserting the same ones.
BeginReport(v) ==
    LET s == session[v]
        new == FilesOf(s.batch) \ archiveFile IN
    /\ s.state \in {"writing", "retry"} /\ s.batch # <<>>
    /\ lastFSeq[v] = s.base /\ ~ Referred(v)
    /\ \A u \in Tapes : new \intersect session[u].new = {}
    /\ session' = [session EXCEPT ![v] =
            [s EXCEPT !.state = "transaction", !.new = new, !.old = OldCopies(BatchRows(v, s))]]
    /\ UNCHANGED <<lastFSeq, full, archiveFile, tapeFile, recycleLog, medium, writes, ops, stale, clientVars>>

\* TapeFseqMismatch: the report is refused and the session fails.
RefuseReport(v) ==
    /\ session[v].state \in {"writing", "retry"} /\ session[v].batch # <<>>
    /\ lastFSeq[v] # session[v].base
    /\ session' = [session EXCEPT ![v] = NoSession]
    /\ UNCHANGED <<lastFSeq, full, archiveFile, tapeFile, recycleLog, medium, writes, ops, stale, clientVars>>

\* The constraints of TAPE_FILE: its archive file exists and its position is free.
CanInsert(rows, files) ==
    /\ \A r \in rows : r.file \in files
    /\ RowsAt(rows) = {}

LastWritten(s) == s.base + Len(s.batch)

\* The old copies of the files go to the recycle log, the new rows are inserted, the old
\* ones deleted, and LAST_FSEQ moves to the last item of the batch.
RecordBatch(v) ==
    LET s == session[v]
        rows == BatchRows(v, s) IN
    /\ Locked(v)
    /\ \A r \in s.old : r.vid # v => ~ Locked(r.vid)
    /\ CanInsert(rows, archiveFile \union s.new)
    /\ archiveFile' = archiveFile \union s.new
    /\ recycleLog' = Logged(s.old)
    /\ tapeFile' = (tapeFile \union rows) \ RowsAt(s.old)
    /\ lastFSeq' = [lastFSeq EXCEPT ![v] = LastWritten(s)]
    /\ stale' = stale \union ({v} \intersect BeingReclaimed)
                      \union VidsOf((s.old \ tapeFile) \union (RowsAt(s.old) \ s.old))
    /\ UNCHANGED <<full, medium, writes, clientVars>>

CommitReport(v) ==
    /\ RecordBatch(v)
    /\ session' = [session EXCEPT ![v] = SessionRec("writing", @.base + Len(@.batch), <<>>)]
    /\ UNCHANGED ops

\* The answer to the commit is lost: retryOnLostConnection() calls again, whether the
\* transaction was committed or not.
LoseCommit(v) ==
    /\ Locked(v) /\ ops < MaxOps
    /\ ops' = ops + 1
    /\ session' = [session EXCEPT ![v] = SessionRec("retry", @.base, @.batch)]
    /\ \/ RecordBatch(v)
       \/ UNCHANGED <<lastFSeq, full, archiveFile, tapeFile, recycleLog, medium, writes, stale, clientVars>>

\* An archive file was deleted meanwhile, or a position is taken: the session fails.
RollbackReport(v) ==
    LET s == session[v] IN
    /\ Locked(v)
    /\ ~ CanInsert(BatchRows(v, s), archiveFile \union s.new)
    /\ session' = [session EXCEPT ![v] = NoSession]
    /\ UNCHANGED <<lastFSeq, full, archiveFile, tapeFile, recycleLog, medium, writes, ops, stale, clientVars>>

\* The end of the tape was reached.
NoSpaceLeftOnTape(v) ==
    /\ session[v].state = "writing" /\ ~ full[v]
    /\ full' = [full EXCEPT ![v] = TRUE]
    /\ UNCHANGED <<lastFSeq, archiveFile, tapeFile, recycleLog, medium, session, writes, ops, stale, clientVars>>

(***************************************************************************)
(* Deletion of a file (processDELETE()) and of one copy (cta-admin tf rm). *)
(***************************************************************************)
tapeVars == <<lastFSeq, full, medium, session, writes>>

Start(c, what) ==
    /\ op[c].kind = "idle" /\ ops < MaxOps
    /\ op' = [op EXCEPT ![c] = what] /\ ops' = ops + 1
    /\ UNCHANGED <<tapeVars, archiveFile, tapeFile, recycleLog, stale, restored>>

\* getArchiveFileById() joins with TAPE_FILE: it finds a file by its tape files.
ReadFile(c, f) ==
    RowsOf(f) # {} /\ Start(c, [kind |-> "delete", file |-> f, rows |-> RowsOf(f), gone |-> FALSE])

\* getArchiveFileForDeletion(): the copy on tape v of a file with more than one copy.
ReadCopy(c, f, v) ==
    LET copies == {r \in RowsOf(f) : r.vid = v} IN
    /\ Cardinality(RowsOf(f)) > 1 /\ Cardinality(copies) = 1
    /\ Start(c, [kind |-> "copy", file |-> f, rows |-> copies, gone |-> FALSE])

\* The transactions wait for the TAPE rows they update and refer to.
Unlocked(rows) == \A r \in rows : ~ Locked(r.vid)

\* The tape files read earlier are copied to the recycle log.  Until the commit nobody sees
\* these entries, and another deletion of the same file may insert its own.
CopyToRecycleLog(c) ==
    LET o == op[c]
        p == [o EXCEPT !.kind = IF o.kind = "delete" THEN "move" ELSE "remove",
                       !.gone = o.file \notin archiveFile] IN
    /\ o.kind \in {"delete", "copy"} /\ Unlocked(Inserted(p))
    /\ op' = [op EXCEPT ![c] = p]
    /\ UNCHANGED <<tapeVars, ops, archiveFile, tapeFile, recycleLog, stale, restored>>

\* The client gets its answer, or retryOnLostConnection() repeats the transaction with the
\* same arguments because the answer to the commit was lost.
Answer(c, kind) ==
    \/ op' = [op EXCEPT ![c] = Idle] /\ UNCHANGED ops
    \/ /\ ops < MaxOps /\ ops' = ops + 1
       /\ op' = [op EXCEPT ![c] = [@ EXCEPT !.kind = kind, !.gone = FALSE]]

\* The entries and the deletion of "rows" are committed.
CommitDeletion(c, rows) ==
    LET o == op[c]
        log == Inserted(o)
        unread == IF o.gone THEN rows ELSE rows \ o.rows IN
    /\ Unlocked(RowsOf(o.file))
    /\ recycleLog' = Logged(log)
    /\ tapeFile' = tapeFile \ rows
    /\ stale' = stale \union VidsOf((log \ tapeFile) \union unread)
    /\ UNCHANGED <<tapeVars, restored>>

\* moveArchiveFileToRecycleLog(): the present tape files are deleted, and the archive file
\* with them.
MoveArchiveFile(c) ==
    /\ op[c].kind = "move"
    /\ CommitDeletion(c, RowsOf(op[c].file))
    /\ archiveFile' = archiveFile \ {op[c].file}
    /\ Answer(c, "delete")

\* deleteTapeFileCopy(): the row at the position read earlier is deleted.
DeleteTapeFileCopy(c) ==
    /\ op[c].kind = "remove"
    /\ CommitDeletion(c, RowsAt(op[c].rows))
    /\ Answer(c, "copy")
    /\ UNCHANGED archiveFile

(***************************************************************************)
(* Restoring a deleted copy (cta-admin recycletf restore).                 *)
(***************************************************************************)
\* The criteria (file, tape and copy number) must match one entry of the recycle log.
ReadRecycleLog(c, f, v, n) ==
    LET matches == {e \in recycleLog : e.row.file = f /\ e.row.vid = v /\ e.row.copyNb = n} IN
    /\ Cardinality(matches) = 1
    /\ Start(c, [kind |-> "restore", row |-> (CHOOSE e \in matches : TRUE).row])

clientFrame == UNCHANGED <<tapeVars, ops>>

\* The file is looked up; a copy with the same number must not exist.
CheckRestore(c) ==
    LET r == op[c].row IN
    /\ op[c].kind = "restore"
    /\ op' = [op EXCEPT ![c] =
            IF \E s \in RowsOf(r.file) : SameCopy(r, s) THEN Idle
            ELSE [kind |-> "checked", row |-> r, new |-> RowsOf(r.file) = {}]]
    /\ clientFrame /\ UNCHANGED <<archiveFile, tapeFile, recycleLog, stale, restored>>

\* The report that tape v has open records the copy of r.
Reported(v, r) == Locked(v) /\ \E b \in BatchRows(v, session[v]) : SameCopy(r, b)

\* The archive file is inserted if the lookup found none, then insertTapeFile() inserts the
\* row, sends any other row of the copy to the recycle log, and commits.  A constraint that
\* refuses a row undoes both insertions.
InsertTapeFile(c) ==
    LET r == op[c].row
        new == IF op[c].new THEN {r.file} ELSE {}
        old == OldCopies({r}) IN
    /\ op[c].kind = "checked" /\ Unlocked({r} \union old)
    /\ IF new \intersect archiveFile = {} /\ CanInsert({r}, archiveFile \union new)
       THEN /\ archiveFile' = archiveFile \union new
            /\ recycleLog' = Logged(old)
            /\ tapeFile' = (tapeFile \union {r}) \ old
            /\ stale' = stale \union ({r.vid} \intersect BeingReclaimed)
                        \union {v \in {r.vid} : \A e \in recycleLog : e.row # r}
            /\ restored' = restored \union {x \in {r} : \E v \in Tapes : Reported(v, r)}
            /\ op' = [op EXCEPT ![c] = [kind |-> "inserted", row |-> r]]
       ELSE /\ op' = [op EXCEPT ![c] = Idle]
            /\ UNCHANGED <<archiveFile, recycleLog, tapeFile, stale, restored>>
    /\ clientFrame

\* deleteTapeFileCopyFromRecycleBin(), after the commit of insertTapeFile().
DeleteFromRecycleLog(c) ==
    /\ op[c].kind = "inserted"
    /\ recycleLog' = {e \in recycleLog : e.row # op[c].row}
    /\ op' = [op EXCEPT ![c] = Idle]
    /\ clientFrame /\ UNCHANGED <<archiveFile, tapeFile, stale, restored>>

(***************************************************************************)
(* Reclaiming a tape (cta-admin tape reclaim): autocommitted statements.   *)
(***************************************************************************)
ReadTape(c, v) == full[v] /\ Start(c, [kind |-> "reclaim", vid |-> v])

EmptyButForLast(v) == Cardinality(RowsOn(v)) <= 1
Empty(v) == RowsOn(v) = {}

\* The count must be zero.
GetNbFilesOnTape(c) ==
    /\ op[c].kind = "reclaim"
    /\ op' = [op EXCEPT ![c] = IF Empty(@.vid) THEN [kind |-> "counted", vid |-> @.vid] ELSE Idle]
    /\ clientFrame /\ UNCHANGED <<archiveFile, tapeFile, recycleLog, stale, restored>>

KeepFilesInRecycleLog(c) ==
    /\ op[c].kind = "counted"
    /\ op' = [op EXCEPT ![c] = [kind |-> "purged", vid |-> @.vid]]
    /\ clientFrame /\ UNCHANGED <<archiveFile, tapeFile, recycleLog, stale, restored>>

DeleteFilesFromRecycleLog(c) ==
    /\ op[c].kind = "counted"
    /\ recycleLog' = {e \in recycleLog : e.row.vid # op[c].vid}
    /\ op' = [op EXCEPT ![c] = [kind |-> "purged", vid |-> @.vid]]
    /\ clientFrame /\ UNCHANGED <<archiveFile, tapeFile, stale, restored>>

ResetTapeCounters(c) ==
    LET v == op[c].vid IN
    /\ op[c].kind = "purged" /\ ~ Locked(v)
    /\ lastFSeq' = [lastFSeq EXCEPT ![v] = 0] /\ full' = [full EXCEPT ![v] = FALSE]
    /\ op' = [op EXCEPT ![c] = Idle]
    /\ UNCHANGED <<archiveFile, tapeFile, recycleLog, medium, session, writes, ops, stale, restored>>

\* cta-admin tape ch --full.
SetTapeFull(c, v, value) ==
    /\ op[c].kind = "idle" /\ ops < MaxOps /\ ops' = ops + 1
    /\ ~ Locked(v)
    /\ full' = [full EXCEPT ![v] = value]
    /\ UNCHANGED <<lastFSeq, archiveFile, tapeFile, recycleLog, medium, session, op, writes, stale, restored>>

\* The client's process dies; its open transaction is rolled back.
Crash(c) ==
    /\ op[c].kind # "idle" /\ ops < MaxOps
    /\ ops' = ops + 1 /\ op' = [op EXCEPT ![c] = Idle]
    /\ UNCHANGED <<tapeVars, archiveFile, tapeFile, recycleLog, stale, restored>>

Session(v) ==
    \/ MountTape(v) \/ EndSession(v) \/ \E i \in Item : WriteItem(v, i)
    \/ BeginReport(v) \/ RefuseReport(v) \/ CommitReport(v) \/ LoseCommit(v) \/ RollbackReport(v)
    \/ NoSpaceLeftOnTape(v)

Client(c) ==
    \/ \E f \in Files : ReadFile(c, f) \/ \E v \in Tapes : ReadCopy(c, f, v)
    \/ CopyToRecycleLog(c) \/ MoveArchiveFile(c) \/ DeleteTapeFileCopy(c)
    \/ \E f \in Files, v \in Tapes, n \in CopyNbs : ReadRecycleLog(c, f, v, n)
    \/ CheckRestore(c) \/ InsertTapeFile(c) \/ DeleteFromRecycleLog(c)
    \/ \E v \in Tapes : ReadTape(c, v) \/ \E b \in BOOLEAN : SetTapeFull(c, v, b)
    \/ GetNbFilesOnTape(c) \/ DeleteFilesFromRecycleLog(c) \/ ResetTapeCounters(c)
    \/ Crash(c)

Next ==
    \/ \E v \in Tapes : Session(v)
    \/ \E c \in Clients : Client(c)

Spec == Init /\ [][Next]_vars

(***************************************************************************)
(* Properties.                                                             *)
(***************************************************************************)
OpSet ==
    {Idle}
    \union [kind : {"delete", "copy", "move", "remove"}, file : Files, rows : SUBSET Row, gone : BOOLEAN]
    \union [kind : {"restore", "inserted"}, row : Row]
    \union [kind : {"checked"}, row : Row, new : BOOLEAN]
    \union [kind : {"reclaim", "counted", "purged"}, vid : Tapes]

SessionSet ==
    [state : {"none", "writing", "retry", "transaction"}, base : 0..MaxFSeq, batch : Seq(Item),
     new : SUBSET Files, old : SUBSET Row]

\* Positions stay within the tape, and every row names a file and a tape that exist.
TypeOK ==
    /\ lastFSeq \in [Tapes -> 0..MaxFSeq] /\ full \in [Tapes -> BOOLEAN]
    /\ archiveFile \subseteq Files
    /\ tapeFile \subseteq Row /\ \A r \in tapeFile : r.file \in archiveFile
    /\ \A e \in recycleLog : e.row \in Row
    /\ medium \in [Tapes -> Seq(Item)] /\ session \in [Tapes -> SessionSet]
    /\ \A v \in Tapes : Len(medium[v]) <= MaxFSeq /\ LastWritten(session[v]) <= MaxFSeq
    /\ op \in [Clients -> OpSet]
    /\ writes \in 0..MaxWrites /\ ops \in 0..MaxOps
    /\ stale \subseteq Tapes /\ restored \subseteq Row

OnMedium(r) ==
    r.fSeq <= Len(medium[r.vid]) /\ medium[r.vid][r.fSeq] = [file |-> r.file, copyNb |-> r.copyNb]

\* A row of TAPE_FILE points at a tape file that holds this copy, below LAST_FSEQ, where no
\* session will write: through lost commits, failed sessions, retries and reclaimed tapes.
\* The exceptions are the tapes on which a client acted on what it had read before another
\* client changed it: a row inserted between the count and the reset of reclaimTape(), or a
\* restore or deletion of a tape file that was no longer there.
RowsAreTrue == \A r \in tapeFile : r.vid \in stale \/ (r.fSeq <= lastFSeq[r.vid] /\ OnMedium(r))

\* What the recycle log offers for restoring is still on its tape, with the same exceptions:
\* reclaimTape() forgets the deleted files of a tape before it lets it be overwritten.
RecycledAreTrue == \A e \in recycleLog : e.row.vid \in stale \/ OnMedium(e.row)

\* A copy written again (after a report whose outcome was lost, or by a repack) replaces its
\* old row: TAPE_FILE has no constraint that keeps a copy unique.  Only a restore that is
\* committed while a report of the same copy is open leaves two rows.
OneRowPerCopy == \A r, s \in tapeFile : SameCopy(r, s) /\ r # s => r \in restored \/ s \in restored

\* A row that leaves TAPE_FILE, by a deletion or because its copy was written again, is in
\* the recycle log, unless it was written after the deleting client had read the file, or
\* put back after the client had found the file gone.
EntryPerDeletedFile ==
    [][\A r \in tapeFile \ tapeFile' : r.vid \in stale' \/ \E e \in recycleLog' : e.row = r]_vars

\* "We currently do all file copies restoring in a single transaction": a copy is never
\* both in TAPE_FILE and in the recycle log.
RestoreIsOneTransaction == \A e \in recycleLog : e.row \notin tapeFile
=============================================================================
