---------------------- MODULE TapeFileCatalogueProofs ----------------------
(***************************************************************************)
(* What the catalogue says is on tape is there, for every set of tapes,    *)
(* files and clients, and any number of writes, operations and crashes.    *)
(***************************************************************************)
EXTENDS TapeFileCatalogue, FiniteSetTheorems, TLAPS

\* A tape file r is below LAST_FSEQ and on the tape.
Kept(r) == r.fSeq <= lastFSeq[r.vid] /\ OnMedium(r)

\* What TAPE_FILE and the recycle log say is on tape, on the tapes nobody acted on with
\* an outdated read.
RowsKept ==
    /\ \A r \in tapeFile : r.vid \in stale \/ Kept(r)
    /\ \A e \in recycleLog : e.row.vid \in stale \/ Kept(e.row)

\* A session appends after what LAST_FSEQ counts, and has written its batch.
SessionAppends(v) ==
    LET s == session[v] IN
    /\ lastFSeq[v] <= Len(medium[v])
    /\ s.state # "none" =>
         /\ LastWritten(s) <= Len(medium[v])
         /\ \A i \in 1..Len(s.batch) : medium[v][s.base + i] = s.batch[i]
    /\ s.state = "none" => s.batch = <<>>
    /\ s.state = "writing" => lastFSeq[v] <= s.base
    /\ s.state = "transaction" => lastFSeq[v] = s.base

\* A tape that is being reclaimed is empty, and once purged it has no deleted files.
ReclaimedEmpty(c) ==
    /\ op[c].kind \in {"counted", "purged"} =>
         op[c].vid \in stale \/ RowsOn(op[c].vid) = {}
    /\ op[c].kind = "purged" =>
         op[c].vid \in stale \/ \A e \in recycleLog : e.row.vid # op[c].vid

\* A copy is in one batch, once.
OneBatch ==
    \A u, v \in Tapes : \A i \in 1..Len(session[u].batch), j \in 1..Len(session[v].batch) :
        session[u].batch[i] = session[v].batch[j] =>
            session[u].batch[i] = Placeholder \/ (u = v /\ i = j)

\* What a transaction selected as old copies is all there is of the copies it records, but for
\* restored ones.
OldSelected(v) ==
    Locked(v) =>
        \A r \in tapeFile, b \in BatchRows(v, session[v]) :
            SameCopy(r, b) => r \in restored \/ r \in session[v].old \/ At(r) = At(b)

CatalogueInv ==
    /\ TypeOK
    /\ RowsKept
    /\ \A v \in Tapes : SessionAppends(v) /\ OldSelected(v)
    /\ \A c \in Clients : ReclaimedEmpty(c)
    /\ OneBatch
    /\ OneRowPerCopy

-----------------------------------------------------------------------------
\* Lemmas about the operators.

\* The tape after x has been written at position n + 1: what is before it is kept.
Overwritten(q, n, x) == SubSeq(q, 1, n) \o <<x>>

LEMMA Overwrite ==
  ASSUME NEW T, NEW q \in Seq(T), NEW n \in Nat, n <= Len(q), NEW x \in T
  PROVE  /\ Overwritten(q, n, x) \in Seq(T)
         /\ Len(Overwritten(q, n, x)) = n + 1
         /\ Overwritten(q, n, x)[n + 1] = x
         /\ \A i \in 1..n : Overwritten(q, n, x)[i] = q[i]
<1>1. /\ SubSeq(q, 1, n) \in Seq(T) /\ Len(SubSeq(q, 1, n)) = n
      /\ \A i \in 1..n : SubSeq(q, 1, n)[i] = q[i]
  OBVIOUS
<1>2. <<x>> \in Seq(T) /\ Len(<<x>>) = 1 /\ <<x>>[1] = x
  OBVIOUS
<1> QED BY <1>1, <1>2 DEF Overwritten

\* An item that is not a placeholder is a copy of a file.
LEMMA Items ==
  ASSUME NEW i \in Item, i # Placeholder
  PROVE  i \in [file : Files, copyNb : CopyNbs] /\ i = [file |-> i.file, copyNb |-> i.copyNb]
  BY DEF Item

\* A row of a batch comes from an item of the batch.
LEMMA RowOfBatch ==
  ASSUME NEW v \in Tapes, NEW s \in SessionSet, LastWritten(s) <= MaxFSeq,
         NEW b \in BatchRows(v, s)
  PROVE  /\ b \in Row /\ b.vid = v
         /\ \E i \in 1..Len(s.batch) :
              /\ s.batch[i] # Placeholder /\ b.fSeq = s.base + i
              /\ s.batch[i] = [file |-> b.file, copyNb |-> b.copyNb]
<1>1. PICK i \in 1..Len(s.batch) :
        /\ s.batch[i] # Placeholder
        /\ b = [vid |-> v, fSeq |-> s.base + i, file |-> s.batch[i].file, copyNb |-> s.batch[i].copyNb]
  BY DEF BatchRows
<1>2. s.batch[i] \in Item /\ s.base \in Nat /\ Len(s.batch) \in Nat
  BY DEF SessionSet
<1>3. /\ s.batch[i].file \in Files /\ s.batch[i].copyNb \in CopyNbs
      /\ s.batch[i] = [file |-> s.batch[i].file, copyNb |-> s.batch[i].copyNb]
  BY <1>1, <1>2, Items
<1>4. s.base + i \in 1..MaxFSeq
  BY <1>2, BoundsAssumption DEF LastWritten
<1> QED BY <1>1, <1>3, <1>4 DEF Row

\* What the recycle log holds after rows have been copied to it.
LEMMA LogGrows ==
  ASSUME NEW rows
  PROVE  /\ recycleLog \subseteq Logged(rows)
         /\ \A e \in Logged(rows) : e \in recycleLog \/ e.row \in rows
         /\ \A r \in rows : \E e \in Logged(rows) : e.row = r
<1> DEFINE Entry(r) == [row |-> r, nth |-> Cardinality({e \in recycleLog : e.row = r}) + 1]
<1>1. Logged(rows) = recycleLog \union {Entry(r) : r \in rows}
  BY DEF Logged
<1>2. \A r \in rows : Entry(r).row = r
  OBVIOUS
<1> HIDE DEF Entry
<1>3. ASSUME NEW r \in rows PROVE \E e \in Logged(rows) : e.row = r
  <2>1. Entry(r) \in Logged(rows)
    BY <1>1
  <2> QED BY <2>1, <1>2
<1> QED BY <1>1, <1>2, <1>3

-----------------------------------------------------------------------------
\* Rows are inserted, moved to the recycle log and deleted: what is inserted is on
\* tape, what is logged was a row, and a tape being reclaimed gets neither, or the
\* tape is marked.
RowsChange(ins, log, gone) ==
    /\ ins \subseteq Row /\ log \subseteq Row /\ gone \subseteq tapeFile
    /\ tapeFile' = (tapeFile \union ins) \ gone
    /\ recycleLog' = Logged(log)
    /\ stale \subseteq stale'
    /\ \A r \in log : r \in tapeFile \/ r.vid \in stale'
    /\ \A r \in ins : r.vid \in stale' \/ (Kept(r)' /\ r.vid \notin BeingReclaimed)
    /\ \A r \in gone : r \in log \/ r.vid \in stale'
    /\ medium' = medium
    /\ \A v \in Tapes : lastFSeq[v] <= lastFSeq'[v]

\* Such a change keeps what the rows say true, and reclaimed tapes empty.
LEMMA RowsStayTrue ==
  ASSUME CatalogueInv, TypeOK', NEW ins, NEW log, NEW gone, RowsChange(ins, log, gone),
         \A d \in Clients : op'[d] = op[d] \/ op'[d].kind \notin {"counted", "purged"}
  PROVE  RowsKept' /\ \A d \in Clients : ReclaimedEmpty(d)'
<1>1. \A r \in Row : Kept(r) => Kept(r)'
  BY DEF Kept, OnMedium, RowsChange, CatalogueInv, TypeOK, Row
<1>2. \A r \in tapeFile' : r.vid \in stale' \/ Kept(r)'
  BY <1>1 DEF RowsChange, CatalogueInv, TypeOK, RowsKept
<1>3. \A e \in recycleLog' : e \in recycleLog \/ e.row \in log
  BY LogGrows DEF RowsChange
<1>4. \A e \in recycleLog' : e.row.vid \in stale' \/ Kept(e.row)'
  <2> SUFFICES ASSUME NEW e \in recycleLog' PROVE e.row.vid \in stale' \/ Kept(e.row)'
    OBVIOUS
  <2>1. CASE e \in recycleLog
    BY <2>1, <1>1 DEF RowsChange, CatalogueInv, TypeOK, RowsKept
  <2>2. CASE e.row \in log
    BY <2>2, <1>1 DEF RowsChange, CatalogueInv, RowsKept
  <2> QED BY <2>1, <2>2, <1>3
<1>5. ASSUME NEW d \in Clients PROVE ReclaimedEmpty(d)'
  <2>1. SUFFICES ASSUME op'[d].kind \in {"counted", "purged"}, op'[d] = op[d],
                        op[d].vid \notin stale'
                 PROVE  /\ \A r \in tapeFile' : r.vid # op[d].vid
                        /\ op[d].kind = "purged" => \A e \in recycleLog' : e.row.vid # op[d].vid
    BY DEF ReclaimedEmpty, RowsOn
  <2>2. op[d].vid \notin stale /\ op[d].vid \in BeingReclaimed
    BY <2>1 DEF BeingReclaimed, RowsChange
  <2>3. \A r \in tapeFile : r.vid # op[d].vid
    BY <2>1, <2>2 DEF CatalogueInv, ReclaimedEmpty, RowsOn
  <2>4. \A r \in tapeFile' : r.vid # op[d].vid
    BY <2>1, <2>2, <2>3 DEF RowsChange
  <2>5. ASSUME op[d].kind = "purged", NEW e \in recycleLog' PROVE e.row.vid # op[d].vid
    <3>1. CASE e \in recycleLog
      BY <2>1, <2>2, <2>5, <3>1 DEF CatalogueInv, ReclaimedEmpty
    <3>2. CASE e.row \in log
      BY <2>1, <2>3, <3>2 DEF RowsChange
    <3> QED BY <3>1, <3>2, <1>3
  <2> QED BY <2>4, <2>5
<1> QED BY <1>2, <1>4, <1>5 DEF RowsKept

\* Such a change leaves an entry of the recycle log for a row it removes.
LEMMA RowsLeaveEntry ==
  ASSUME NEW ins, NEW log, NEW gone, RowsChange(ins, log, gone)
  PROVE  \A r \in tapeFile \ tapeFile' : r.vid \in stale' \/ \E e \in recycleLog' : e.row = r
  BY LogGrows DEF RowsChange

-----------------------------------------------------------------------------
\* A step of one session that changes nothing else.
SessionOnly(v, s) ==
    /\ session' = [session EXCEPT ![v] = s]
    /\ UNCHANGED <<lastFSeq, full, archiveFile, tapeFile, recycleLog, medium, writes, stale,
                   clientVars>>
    /\ ops' \in 0..MaxOps

\* Such a step keeps the invariant if it keeps the session's part of it.
LEMMA SessionOnlyInv ==
  ASSUME CatalogueInv, NEW v \in Tapes, NEW s \in SessionSet, SessionOnly(v, s),
         LastWritten(s) <= MaxFSeq, s.batch = <<>> \/ s.batch = session[v].batch,
         SessionAppends(v)', OldSelected(v)'
  PROVE  CatalogueInv'
<1>1. /\ session' \in [Tapes -> SessionSet] /\ session'[v] = s
      /\ \A u \in Tapes : u # v => session'[u] = session[u]
  BY DEF CatalogueInv, TypeOK, SessionOnly
<1>2. TypeOK'
  BY <1>1 DEF CatalogueInv, TypeOK, SessionOnly, clientVars
<1>3. RowsKept' /\ OneRowPerCopy'
  BY DEF CatalogueInv, RowsKept, Kept, OnMedium, OneRowPerCopy, SessionOnly, clientVars
<1>4. ASSUME NEW u \in Tapes PROVE SessionAppends(u)' /\ OldSelected(u)'
  <2>1. CASE u = v
    BY <2>1
  <2>2. CASE u # v
    BY <2>2, <1>1 DEF CatalogueInv, SessionAppends, OldSelected, Locked, BatchRows,
       SessionOnly,
                      clientVars, LastWritten
  <2> QED BY <2>1, <2>2
<1>5. \A c \in Clients : ReclaimedEmpty(c)'
  BY DEF CatalogueInv, ReclaimedEmpty, RowsOn, SessionOnly, clientVars
<1>6. OneBatch'
  <2>1. \A u \in Tapes : session'[u].batch = <<>> \/ session'[u].batch = session[u].batch
    BY <1>1
  <2>2. \A u \in Tapes : session[u].batch = session'[u].batch \/ 1..Len(session'[u].batch) = {}
    BY <2>1
  <2> SUFFICES ASSUME NEW u \in Tapes, NEW w \in Tapes,
                      NEW i \in 1..Len(session'[u].batch), NEW j \in 1..Len(session'[w].batch),
                      session'[u].batch[i] = session'[w].batch[j]
               PROVE  session'[u].batch[i] = Placeholder \/ (u = w /\ i = j)
    BY DEF OneBatch
  <2>3. session'[u].batch = session[u].batch /\ session'[w].batch = session[w].batch
    BY <2>2
  <2> QED BY <2>3 DEF CatalogueInv, OneBatch
<1> QED BY <1>2, <1>3, <1>4, <1>5, <1>6 DEF CatalogueInv

\* A tape without a session.
LEMMA NoSessionTyped == NoSession \in SessionSet /\ NoSession.batch = <<>> /\ NoSession.state = "none"
                        /\ LastWritten(NoSession) <= MaxFSeq
  BY BoundsAssumption DEF NoSession, SessionRec, SessionSet, LastWritten

\* The session ends, whether by itself, by a crash or because its report failed.
LEMMA SessionEnds ==
  ASSUME CatalogueInv, NEW v \in Tapes, SessionOnly(v, NoSession)
  PROVE  CatalogueInv'
<1>1. session'[v] = NoSession
  BY DEF CatalogueInv, TypeOK, SessionOnly
<1>2. SessionAppends(v)' /\ OldSelected(v)'
  BY <1>1, NoSessionTyped DEF CatalogueInv, SessionAppends, OldSelected, Locked,
     SessionOnly
<1> QED BY <1>2, NoSessionTyped, SessionOnlyInv

\* The tape is mounted: the session appends after LAST_FSEQ.
LEMMA MountTapeInv ==
  ASSUME CatalogueInv, NEW v \in Tapes, MountTape(v)
  PROVE  CatalogueInv'
<1> DEFINE s == SessionRec("writing", lastFSeq[v], <<>>)
<1>1. s \in SessionSet /\ s.batch = <<>> /\ LastWritten(s) <= MaxFSeq /\ LastWritten(s) = lastFSeq[v]
      /\ s.state = "writing" /\ s.base = lastFSeq[v] /\ Len(s.batch) = 0
  BY BoundsAssumption DEF SessionRec, SessionSet, LastWritten, CatalogueInv, TypeOK
<1>2. SessionOnly(v, s) /\ session'[v] = s
  BY DEF MountTape, SessionOnly, CatalogueInv, TypeOK
<1> HIDE DEF s
<1>3. SessionAppends(v)' /\ OldSelected(v)'
  BY <1>1, <1>2 DEF CatalogueInv, TypeOK, SessionAppends, OldSelected, Locked,
     SessionOnly
<1> QED BY <1>1, <1>2, <1>3, SessionOnlyInv

\* The transaction starts: LAST_FSEQ is where the session started, and the old copies
\* are selected.
LEMMA BeginReportInv ==
  ASSUME CatalogueInv, NEW v \in Tapes, BeginReport(v)
  PROVE  CatalogueInv'
<1> DEFINE t == session[v]
           new == FilesOf(t.batch) \ archiveFile
           old == OldCopies(BatchRows(v, t))
           s == [t EXCEPT !.state = "transaction", !.new = new, !.old = old]
<1>1. t \in SessionSet /\ old \subseteq Row /\ LastWritten(t) <= MaxFSeq
  BY DEF CatalogueInv, TypeOK, OldCopies
<1>2. new \subseteq Files
  <2>1. \A i \in Range(t.batch) : i \in Item
    BY <1>1 DEF SessionSet, Range
  <2> QED BY <2>1, Items DEF FilesOf
<1>3. /\ t.state \in {"writing", "retry"} /\ lastFSeq[v] = t.base
      /\ session' = [session EXCEPT ![v] = s]
  BY DEF BeginReport
<1>4. SessionOnly(v, s)
  BY <1>3 DEF BeginReport, SessionOnly, CatalogueInv, TypeOK
<1> HIDE DEF new, old
<1>5. /\ s \in SessionSet /\ s.state = "transaction" /\ s.base = t.base /\ s.batch = t.batch
      /\ s.old = old
  BY <1>1, <1>2 DEF SessionSet
<1>6. session'[v] = s
  BY <1>3 DEF CatalogueInv, TypeOK
<1> HIDE DEF s
<1>7. SessionAppends(v)'
  BY <1>3, <1>4, <1>5, <1>6 DEF CatalogueInv, SessionAppends, SessionOnly, LastWritten
<1>8. OldSelected(v)'
  <2>1. BatchRows(v, s) = BatchRows(v, t)
    BY <1>5 DEF BatchRows
  <2> QED BY <2>1, <1>4, <1>5, <1>6 DEF OldSelected, OldCopies, SessionOnly, old
<1> QED BY <1>1, <1>4, <1>5, <1>7, <1>8, SessionOnlyInv DEF LastWritten

\* The transaction was not committed and the answer is lost.
LEMMA LostBeforeCommit ==
  ASSUME CatalogueInv, NEW v \in Tapes, Locked(v),
         SessionOnly(v, SessionRec("retry", session[v].base, session[v].batch))
  PROVE  CatalogueInv'
<1> DEFINE s == SessionRec("retry", session[v].base, session[v].batch)
<1>1. /\ s \in SessionSet /\ s.state = "retry" /\ s.base = session[v].base
      /\ s.batch = session[v].batch
  BY DEF SessionRec, SessionSet, CatalogueInv, TypeOK
<1>2. session'[v] = s /\ SessionOnly(v, s)
  BY DEF SessionOnly, CatalogueInv, TypeOK
<1> HIDE DEF s
<1>3. LastWritten(s) <= MaxFSeq
  BY <1>1 DEF CatalogueInv, TypeOK, LastWritten
<1>4. SessionAppends(v)' /\ OldSelected(v)'
  BY <1>1, <1>2 DEF CatalogueInv, SessionAppends, OldSelected, Locked, SessionOnly,
     LastWritten
<1> QED BY <1>1, <1>2, <1>3, <1>4, SessionOnlyInv

\* A tape file is written after all that LAST_FSEQ counts, so nothing that a row or a
\* deleted file refers to is lost.
LEMMA WriteItemInv ==
  ASSUME CatalogueInv, NEW v \in Tapes, NEW item \in Item, WriteItem(v, item)
  PROVE  CatalogueInv'
<1> DEFINE t == session[v]
           l == Len(t.batch)
           n == t.base + l
           b == Append(t.batch, item)
           s == [t EXCEPT !.batch = b]
<1>1. /\ t \in SessionSet /\ t.state = "writing" /\ n < MaxFSeq /\ medium[v] \in Seq(Item)
      /\ t.batch \in Seq(Item) /\ t.base \in Nat /\ l \in Nat /\ n \in Nat
      /\ n <= Len(medium[v]) /\ lastFSeq[v] <= t.base /\ lastFSeq[v] \in Nat
  BY DEF CatalogueInv, TypeOK, WriteItem, SessionSet, SessionAppends, LastWritten
<1>2. /\ b \in Seq(Item) /\ Len(b) = l + 1 /\ b[l + 1] = item
      /\ \A i \in 1..l : b[i] = t.batch[i]
  BY <1>1
<1>3. /\ session' = [session EXCEPT ![v] = s]
      /\ medium' = [medium EXCEPT ![v] = Overwritten(medium[v], n, item)]
      /\ writes' \in 0..MaxWrites
      /\ UNCHANGED <<lastFSeq, full, archiveFile, tapeFile, recycleLog, ops, stale, op, restored>>
      /\ item # Placeholder => \A u \in Tapes : item \notin Range(session[u].batch)
  BY BoundsAssumption DEF WriteItem, clientVars, CatalogueInv, TypeOK, Overwritten
<1> HIDE DEF b
<1>4. /\ s \in SessionSet /\ s.state = "writing" /\ s.base = t.base /\ s.batch = b
  BY <1>1, <1>2 DEF SessionSet
<1> HIDE DEF s, n, l
<1>5. /\ medium'[v] \in Seq(Item) /\ Len(medium'[v]) = n + 1 /\ medium'[v][n + 1] = item
      /\ \A i \in 1..n : medium'[v][i] = medium[v][i]
  <2>1. medium'[v] = Overwritten(medium[v], n, item)
    BY <1>3 DEF CatalogueInv, TypeOK
  <2> QED BY <2>1, <1>1, Overwrite
<1>6. /\ session' \in [Tapes -> SessionSet] /\ session'[v] = s
      /\ medium' \in [Tapes -> Seq(Item)]
      /\ \A u \in Tapes : u # v => session'[u] = session[u] /\ medium'[u] = medium[u]
  BY <1>3, <1>4, <1>5 DEF CatalogueInv, TypeOK
<1>7. LastWritten(s) = n + 1 /\ n + 1 <= MaxFSeq
  <2>1. LastWritten(s) = t.base + (l + 1)
    BY <1>2, <1>4 DEF LastWritten
  <2> HIDE DEF t
  <2> QED BY <2>1, <1>1, BoundsAssumption DEF n
<1>8. TypeOK'
  BY <1>3, <1>5, <1>6, <1>7 DEF CatalogueInv, TypeOK
<1>9. RowsKept'
  <2>1. \A r \in Row : Kept(r) => Kept(r)'
    <3> SUFFICES ASSUME NEW r \in Row, Kept(r) PROVE Kept(r)'
      OBVIOUS
    <3>1. CASE r.vid = v
      <4>1. r.fSeq \in 1..n /\ r.fSeq <= n + 1
        BY <3>1, <1>1 DEF Kept, Row, n
      <4> QED BY <4>1, <3>1, <1>1, <1>3, <1>5 DEF Kept, OnMedium
    <3>2. CASE r.vid # v
      BY <3>2, <1>3, <1>6 DEF Kept, OnMedium, Row
    <3> QED BY <3>1, <3>2
  <2> QED BY <2>1, <1>3 DEF CatalogueInv, TypeOK, RowsKept
<1>10. ASSUME NEW u \in Tapes PROVE SessionAppends(u)' /\ OldSelected(u)'
  <2>1. CASE u = v
    <3>1. \A i \in 1..Len(s.batch) : medium'[v][s.base + i] = s.batch[i]
      <4> SUFFICES ASSUME NEW i \in 1..Len(s.batch) PROVE medium'[v][s.base + i] = s.batch[i]
        OBVIOUS
      <4>1. CASE i = l + 1
        BY <4>1, <1>1, <1>2, <1>4, <1>5 DEF n
      <4>2. CASE i # l + 1
        <5>1. i \in 1..l /\ t.base + i \in 1..n
          BY <4>2, <1>1, <1>2, <1>4 DEF n
        <5>2. medium[v][t.base + i] = t.batch[i]
          BY <5>1, <1>1 DEF CatalogueInv, SessionAppends, l
        <5> QED BY <5>1, <5>2, <1>2, <1>4, <1>5
      <4> QED BY <4>1, <4>2
    <3>2. lastFSeq'[v] <= Len(medium'[v])
      BY <1>1, <1>3, <1>5 DEF n
    <3>3. LastWritten(s) <= Len(medium'[v]) /\ lastFSeq'[v] <= s.base
      BY <1>1, <1>3, <1>4, <1>5, <1>7
    <3>4. SessionAppends(v)'
      BY <3>1, <3>2, <3>3, <1>4, <1>6 DEF SessionAppends
    <3>5. OldSelected(v)'
      BY <1>4, <1>6 DEF OldSelected, Locked
    <3> QED BY <2>1, <3>4, <3>5
  <2>2. CASE u # v
    <3>1. session'[u] = session[u] /\ medium'[u] = medium[u]
      BY <2>2, <1>6
    <3>2. SessionAppends(u)'
      BY <3>1, <1>3 DEF CatalogueInv, SessionAppends
    <3>3. OldSelected(u)'
      BY <3>1, <1>3 DEF CatalogueInv, OldSelected, Locked, BatchRows
    <3> QED BY <3>2, <3>3
  <2> QED BY <2>1, <2>2
<1>11. \A c \in Clients : ReclaimedEmpty(c)'
  BY <1>3 DEF CatalogueInv, ReclaimedEmpty, RowsOn
<1>12. OneBatch'
  <2> SUFFICES ASSUME NEW u \in Tapes, NEW w \in Tapes,
                      NEW i \in 1..Len(session'[u].batch), NEW j \in 1..Len(session'[w].batch),
                      session'[u].batch[i] = session'[w].batch[j],
                      session'[u].batch[i] # Placeholder
               PROVE  u = w /\ i = j
    BY DEF OneBatch
  <2>1. \A x \in Tapes : \A k \in 1..Len(session'[x].batch) :
          \/ x = v /\ k = l + 1 /\ session'[x].batch[k] = item
          \/ k \in 1..Len(session[x].batch) /\ session'[x].batch[k] = session[x].batch[k]
    <3> SUFFICES ASSUME NEW x \in Tapes, NEW k \in 1..Len(session'[x].batch)
                 PROVE  \/ x = v /\ k = l + 1 /\ session'[x].batch[k] = item
                        \/ /\ k \in 1..Len(session[x].batch)
                           /\ session'[x].batch[k] = session[x].batch[k]
      OBVIOUS
    <3>1. CASE x = v
      <4>1. session'[x].batch = b /\ k \in 1..(l + 1)
        BY <3>1, <1>2, <1>4, <1>6
      <4>2. k = l + 1 \/ k \in 1..l
        BY <4>1, <1>1
      <4> QED BY <3>1, <4>1, <4>2, <1>2 DEF l
    <3>2. CASE x # v
      BY <3>2, <1>6
    <3> QED BY <3>1, <3>2
  <2>2. item # Placeholder => \A x \in Tapes : \A k \in 1..Len(session[x].batch) : session[x].batch[k] # item
    <3> SUFFICES ASSUME item # Placeholder, NEW x \in Tapes, NEW k \in 1..Len(session[x].batch)
                 PROVE  session[x].batch[k] # item
      OBVIOUS
    <3>1. DOMAIN session[x].batch = 1..Len(session[x].batch)
      BY DEF CatalogueInv, TypeOK, SessionSet
    <3> QED BY <3>1, <1>3 DEF Range
  <2> DEFINE IsNew(x, k) == x = v /\ k = l + 1 /\ session'[x].batch[k] = item
             IsOld(x, k) == /\ k \in 1..Len(session[x].batch)
                            /\ session'[x].batch[k] = session[x].batch[k]
  <2>3. (IsNew(u, i) \/ IsOld(u, i)) /\ (IsNew(w, j) \/ IsOld(w, j))
    BY <2>1
  <2>4. CASE IsNew(u, i) /\ IsNew(w, j)
    BY <2>4
  <2>5. CASE IsNew(u, i) /\ IsOld(w, j)
    BY <2>2, <2>5
  <2>6. CASE IsOld(u, i) /\ IsNew(w, j)
    BY <2>2, <2>6
  <2>7. CASE IsOld(u, i) /\ IsOld(w, j)
    <3>1. session[u].batch[i] = session[w].batch[j] /\ session[u].batch[i] # Placeholder
      BY <2>7
    <3>2. OneBatch
      BY DEF CatalogueInv
    <3> QED BY <2>7, <3>1, <3>2 DEF OneBatch
  <2> QED BY <2>3, <2>4, <2>5, <2>6, <2>7
<1>13. OneRowPerCopy'
  BY <1>3 DEF CatalogueInv, OneRowPerCopy
<1> QED BY <1>8, <1>9, <1>10, <1>11, <1>12, <1>13 DEF CatalogueInv

-----------------------------------------------------------------------------
\* What RecordBatch inserts, logs and deletes.
LEMMA RecordBatchRows ==
  ASSUME CatalogueInv, NEW v \in Tapes, RecordBatch(v)
  PROVE  /\ RowsChange(BatchRows(v, session[v]), session[v].old, RowsAt(session[v].old))
         /\ lastFSeq' \in [Tapes -> 0..MaxFSeq] /\ lastFSeq'[v] = LastWritten(session[v])
         /\ archiveFile' \subseteq Files /\ stale' \subseteq Tapes
         /\ \A r \in tapeFile' : r.file \in archiveFile'
         /\ RowsAt(BatchRows(v, session[v])) = {}
<1> DEFINE s == session[v]
           rows == BatchRows(v, s)
<1>1. /\ s \in SessionSet /\ s.state = "transaction" /\ LastWritten(s) <= MaxFSeq
      /\ lastFSeq[v] = s.base /\ LastWritten(s) <= Len(medium[v])
      /\ \A i \in 1..Len(s.batch) : medium[v][s.base + i] = s.batch[i]
  BY DEF CatalogueInv, TypeOK, RecordBatch, Locked, SessionAppends
<1>2. /\ s.base \in Nat /\ Len(s.batch) \in Nat /\ s.old \subseteq Row /\ s.new \subseteq Files
      /\ LastWritten(s) = s.base + Len(s.batch)
  <2>1. PICK x \in SessionSet : x = s
    BY <1>1
  <2>2. x.base \in Nat /\ Len(x.batch) \in Nat /\ x.old \subseteq Row /\ x.new \subseteq Files
    BY DEF SessionSet
  <2> QED BY <2>1, <2>2 DEF LastWritten
<1>3. /\ archiveFile' = archiveFile \union s.new
      /\ CanInsert(rows, archiveFile \union s.new)
      /\ recycleLog' = Logged(s.old)
      /\ tapeFile' = (tapeFile \union rows) \ RowsAt(s.old)
      /\ lastFSeq' = [lastFSeq EXCEPT ![v] = LastWritten(s)]
      /\ medium' = medium
      /\ stale' = (stale \union ({v} \intersect BeingReclaimed))
                   \union VidsOf((s.old \ tapeFile) \union (RowsAt(s.old) \ s.old))
  BY DEF RecordBatch
<1> HIDE DEF s
<1>4. /\ lastFSeq' \in [Tapes -> 0..MaxFSeq] /\ lastFSeq'[v] = LastWritten(s)
      /\ \A u \in Tapes : lastFSeq[u] <= lastFSeq'[u]
  <2>1. LastWritten(s) \in 0..MaxFSeq /\ lastFSeq \in [Tapes -> 0..MaxFSeq]
    BY <1>1, <1>2, BoundsAssumption DEF CatalogueInv, TypeOK
  <2> QED BY <1>1, <1>2, <1>3, <2>1
<1>5. rows \subseteq Row /\ \A r \in rows : r.vid = v /\ Kept(r)'
  <2> SUFFICES ASSUME NEW r \in rows PROVE r \in Row /\ r.vid = v /\ Kept(r)'
    OBVIOUS
  <2>1. /\ r \in Row /\ r.vid = v
        /\ \E i \in 1..Len(s.batch) :
             r.fSeq = s.base + i /\ s.batch[i] = [file |-> r.file, copyNb |-> r.copyNb]
    BY <1>1, RowOfBatch
  <2>2. PICK i \in 1..Len(s.batch) :
             r.fSeq = s.base + i /\ s.batch[i] = [file |-> r.file, copyNb |-> r.copyNb]
    BY <2>1
  <2>3. r.fSeq <= LastWritten(s) /\ medium[v][r.fSeq] = [file |-> r.file, copyNb |-> r.copyNb]
    BY <1>1, <1>2, <2>2
  <2>4. LastWritten(s) \in Nat /\ Len(medium[v]) \in Nat /\ r.fSeq \in Nat
    BY <1>2, <2>1 DEF CatalogueInv, TypeOK, Row
  <2>5. r.fSeq <= Len(medium[v])
    BY <1>1, <2>3, <2>4
  <2> QED BY <1>3, <1>4, <2>1, <2>3, <2>5 DEF Kept, OnMedium
<1>6. RowsAt(s.old) \subseteq tapeFile
  BY DEF RowsAt
<1>7. RowsChange(rows, s.old, RowsAt(s.old))
  <2>1. \A r \in s.old : r \in tapeFile \/ r.vid \in stale'
    BY <1>3 DEF VidsOf
  <2>2. \A r \in RowsAt(s.old) : r \in s.old \/ r.vid \in stale'
    BY <1>3 DEF VidsOf
  <2>3. \A r \in rows : r.vid \in stale' \/ (Kept(r)' /\ r.vid \notin BeingReclaimed)
    BY <1>3, <1>5
  <2> QED BY <2>1, <2>2, <2>3, <1>2, <1>3, <1>4, <1>5, <1>6 DEF RowsChange
<1>8. archiveFile' \subseteq Files /\ stale' \subseteq Tapes
  BY <1>2, <1>3, <1>6 DEF CatalogueInv, TypeOK, VidsOf, Row
<1>9. \A r \in tapeFile' : r.file \in archiveFile'
  BY <1>3 DEF CanInsert, CatalogueInv, TypeOK
<1> QED BY <1>3, <1>4, <1>7, <1>8, <1>9 DEF CanInsert, s

\* The types of what RowsChange assigns.
LEMMA RowsTyped ==
  ASSUME CatalogueInv, NEW ins, NEW log, NEW gone, RowsChange(ins, log, gone)
  PROVE  tapeFile' \subseteq Row /\ \A e \in recycleLog' : e.row \in Row
  BY LogGrows DEF RowsChange, CatalogueInv, TypeOK

\* A batch is recorded: its session goes on, or will report it again because it does
\* not know.
LEMMA RecordBatchInv ==
  ASSUME CatalogueInv, NEW v \in Tapes, RecordBatch(v), ops' \in 0..MaxOps, NEW s2 \in SessionSet,
         session' = [session EXCEPT ![v] = s2],
         \/ s2 = SessionRec("writing", LastWritten(session[v]), <<>>)
         \/ s2 = SessionRec("retry", session[v].base, session[v].batch)
  PROVE  CatalogueInv'
<1> DEFINE s == session[v]
           rows == BatchRows(v, s)
<1>1. /\ RowsChange(rows, s.old, RowsAt(s.old))
      /\ lastFSeq' \in [Tapes -> 0..MaxFSeq] /\ lastFSeq'[v] = LastWritten(s)
      /\ archiveFile' \subseteq Files /\ stale' \subseteq Tapes
      /\ \A r \in tapeFile' : r.file \in archiveFile'
      /\ RowsAt(rows) = {}
  BY RecordBatchRows
<1>2. /\ s \in SessionSet /\ s.state = "transaction" /\ Locked(v)
      /\ LastWritten(s) <= MaxFSeq /\ LastWritten(s) <= Len(medium[v])
      /\ \A i \in 1..Len(s.batch) : medium[v][s.base + i] = s.batch[i]
      /\ UNCHANGED <<full, medium, writes, op, restored>>
      /\ lastFSeq' = [lastFSeq EXCEPT ![v] = LastWritten(s)]
  BY DEF CatalogueInv, TypeOK, RecordBatch, Locked, SessionAppends, clientVars
<1>3. /\ session' \in [Tapes -> SessionSet] /\ session'[v] = s2
      /\ \A u \in Tapes : u # v => session'[u] = session[u] /\ lastFSeq'[u] = lastFSeq[u]
  BY <1>2 DEF CatalogueInv, TypeOK
<1>4. /\ s2.state \in {"writing", "retry"}
      /\ s2.state = "writing" => s2.base = LastWritten(s) /\ s2.batch = <<>>
      /\ s2.state = "retry" => s2.base = s.base /\ s2.batch = s.batch
  BY DEF SessionRec
<1>5. LastWritten(s2) = LastWritten(s)
  BY <1>2, <1>4 DEF LastWritten, SessionSet
<1> HIDE DEF s
<1>6. TypeOK'
  BY <1>1, <1>2, <1>3, <1>5, RowsTyped DEF CatalogueInv, TypeOK
<1>7. RowsKept' /\ \A d \in Clients : ReclaimedEmpty(d)'
  BY <1>1, <1>2, <1>6, RowsStayTrue
<1>9. ASSUME NEW u \in Tapes PROVE SessionAppends(u)'
  <2>1. CASE u = v
    BY <2>1, <1>1, <1>2, <1>3, <1>4, <1>5 DEF SessionAppends
  <2>2. CASE u # v
    BY <2>2, <1>2, <1>3 DEF CatalogueInv, SessionAppends
  <2> QED BY <2>1, <2>2
<1>10. OneBatch'
  <2> SUFFICES ASSUME NEW u \in Tapes, NEW w \in Tapes,
                      NEW i \in 1..Len(session'[u].batch), NEW j \in 1..Len(session'[w].batch),
                      session'[u].batch[i] = session'[w].batch[j]
               PROVE  session'[u].batch[i] = Placeholder \/ (u = w /\ i = j)
    BY DEF OneBatch
  <2>1. \A x \in Tapes : session'[x].batch = <<>> \/ session'[x].batch = session[x].batch
    BY <1>3, <1>4 DEF s
  <2>2. session'[u].batch = session[u].batch /\ session'[w].batch = session[w].batch
    BY <2>1
  <2> QED BY <2>2 DEF CatalogueInv, OneBatch
<1>11. ASSUME NEW u \in Tapes, u # v, NEW r \in rows, NEW b \in BatchRows(u, session[u])
       PROVE  ~ SameCopy(r, b)
  <2>1. PICK i \in 1..Len(s.batch) :
          s.batch[i] # Placeholder /\ s.batch[i] = [file |-> r.file, copyNb |-> r.copyNb]
    BY <1>2, RowOfBatch
  <2>2. PICK j \in 1..Len(session[u].batch) :
          session[u].batch[j] = [file |-> b.file, copyNb |-> b.copyNb]
    <3>1. session[u] \in SessionSet /\ LastWritten(session[u]) <= MaxFSeq
      BY DEF CatalogueInv, TypeOK
    <3> QED BY <3>1, RowOfBatch
  <2> QED BY <1>11, <2>1, <2>2 DEF CatalogueInv, OneBatch, SameCopy, s
<1>12. ASSUME NEW u \in Tapes PROVE OldSelected(u)'
  <2>1. CASE u = v
    BY <2>1, <1>3, <1>4 DEF OldSelected, Locked
  <2>2. CASE u # v
    <3>1. session'[u] = session[u]
      BY <2>2, <1>3
    <3>2. BatchRows(u, session'[u]) = BatchRows(u, session[u])
      BY <3>1
    <3> SUFFICES ASSUME Locked(u), NEW r \in tapeFile', NEW b \in BatchRows(u, session[u]),
                        SameCopy(r, b)
                 PROVE  r \in restored \/ r \in session[u].old \/ At(r) = At(b)
      BY <3>1, <3>2, <1>2 DEF OldSelected, Locked
    <3>3. r \in tapeFile
      BY <2>2, <1>1, <1>11 DEF RowsChange
    <3> QED BY <3>3 DEF CatalogueInv, OldSelected
  <2> QED BY <2>1, <2>2
<1>13. OneRowPerCopy'
  <2> SUFFICES ASSUME NEW r \in tapeFile', NEW q \in tapeFile', SameCopy(r, q), r # q,
                      r \notin restored, q \notin restored
               PROVE  FALSE
    BY <1>2 DEF OneRowPerCopy, SameCopy
  <2>1. ASSUME NEW x \in tapeFile', NEW y \in rows, SameCopy(x, y), x \notin restored
        PROVE  x \in rows
    <3>1. SUFFICES ASSUME x \in tapeFile, x \notin RowsAt(s.old) PROVE FALSE
      BY <1>1 DEF RowsChange
    <3>2. x \in s.old \/ At(x) = At(y)
      BY <2>1, <3>1, <1>2 DEF CatalogueInv, OldSelected, s
    <3>3. x \notin s.old
      BY <3>1 DEF RowsAt
    <3> QED BY <3>1, <3>2, <3>3, <1>1 DEF RowsAt
  <2>2. CASE r \in rows \/ q \in rows
    <3>1. r \in rows /\ q \in rows
      BY <2>1, <2>2 DEF SameCopy
    <3>2. PICK i \in 1..Len(s.batch) :
            /\ s.batch[i] # Placeholder /\ r.fSeq = s.base + i
            /\ s.batch[i] = [file |-> r.file, copyNb |-> r.copyNb]
      BY <1>2, <3>1, RowOfBatch
    <3>3. PICK j \in 1..Len(s.batch) :
            /\ s.batch[j] # Placeholder /\ q.fSeq = s.base + j
            /\ s.batch[j] = [file |-> q.file, copyNb |-> q.copyNb]
      BY <1>2, <3>1, RowOfBatch
    <3>4. i = j
      BY <3>2, <3>3 DEF CatalogueInv, OneBatch, SameCopy, s
    <3>5. r \in Row /\ q \in Row /\ r.vid = v /\ q.vid = v
      BY <1>2, <3>1, RowOfBatch
    <3> QED BY <3>2, <3>3, <3>4, <3>5 DEF Row, SameCopy
  <2>3. CASE r \in tapeFile /\ q \in tapeFile
    BY <2>3 DEF CatalogueInv, OneRowPerCopy
  <2> QED BY <2>2, <2>3, <1>1 DEF RowsChange
<1> QED BY <1>6, <1>7, <1>9, <1>10, <1>12, <1>13 DEF CatalogueInv

-----------------------------------------------------------------------------
\* A step of one client that changes no row, but may delete entries of the recycle log.
ClientOnly(c, o) ==
    /\ op' = [op EXCEPT ![c] = o]
    /\ recycleLog' \subseteq recycleLog
    /\ UNCHANGED <<tapeVars, archiveFile, tapeFile, stale, restored>>
    /\ ops' \in 0..MaxOps

\* Such a step keeps the invariant if it keeps the client's part of it.
LEMMA ClientOnlyInv ==
  ASSUME CatalogueInv, NEW c \in Clients, NEW o \in OpSet, ClientOnly(c, o),
         ReclaimedEmpty(c)'
  PROVE  CatalogueInv'
<1>1. /\ op' \in [Clients -> OpSet]
      /\ \A d \in Clients : d # c => op'[d] = op[d]
  BY DEF CatalogueInv, TypeOK, ClientOnly
<1>2. TypeOK'
  BY <1>1 DEF CatalogueInv, TypeOK, ClientOnly, tapeVars
<1>3. RowsKept' /\ OneRowPerCopy'
  BY DEF CatalogueInv, RowsKept, Kept, OnMedium, OneRowPerCopy, ClientOnly, tapeVars
<1>4. \A v \in Tapes : SessionAppends(v)' /\ OldSelected(v)'
  BY DEF CatalogueInv, SessionAppends, OldSelected, Locked, BatchRows, ClientOnly,
     tapeVars
<1>5. OneBatch'
  BY DEF CatalogueInv, OneBatch, ClientOnly, tapeVars
<1>6. ASSUME NEW d \in Clients PROVE ReclaimedEmpty(d)'
  <2>1. CASE d = c
    BY <2>1
  <2>2. CASE d # c
    BY <2>2, <1>1 DEF CatalogueInv, ReclaimedEmpty, RowsOn, ClientOnly
  <2> QED BY <2>1, <2>2
<1> QED BY <1>2, <1>3, <1>4, <1>5, <1>6 DEF CatalogueInv

\* The client ends its operation, or starts one that has nothing to reclaim.
LEMMA HarmlessOp ==
  ASSUME CatalogueInv, NEW c \in Clients, NEW o \in OpSet, ClientOnly(c, o),
         o.kind \notin {"counted", "purged"}
  PROVE  CatalogueInv'
<1>1. op'[c] = o
  BY DEF CatalogueInv, TypeOK, ClientOnly
<1>2. ReclaimedEmpty(c)'
  BY <1>1 DEF ReclaimedEmpty
<1> QED BY <1>2, ClientOnlyInv

\* An operation starts.
LEMMA StartInv ==
  ASSUME CatalogueInv, NEW c \in Clients, NEW o \in OpSet, Start(c, o),
         o.kind \notin {"counted", "purged"}
  PROVE  CatalogueInv'
<1>1. ClientOnly(c, o)
  BY BoundsAssumption DEF Start, ClientOnly, CatalogueInv, TypeOK
<1> QED BY <1>1, HarmlessOp

\* What an operation carries.
LEMMA OpTyped ==
  ASSUME NEW o \in OpSet
  PROVE  /\ o.kind \in {"restore", "checked", "inserted"} => o.row \in Row
         /\ o.kind \in {"reclaim", "counted", "purged"} => o.vid \in Tapes
  BY DEF OpSet, Idle

\* A client that does nothing.
LEMMA IdleTyped == Idle \in OpSet /\ Idle.kind = "idle"
  BY DEF OpSet, Idle

\* Reading: what is read is kept as it was.
LEMMA ReadsInv ==
  ASSUME CatalogueInv, NEW c \in Clients, NEW f \in Files, NEW v \in Tapes, NEW n \in CopyNbs,
         ReadFile(c, f) \/ ReadCopy(c, f, v) \/ ReadRecycleLog(c, f, v, n) \/ ReadTape(c, v)
  PROVE  CatalogueInv'
<1>1. ASSUME NEW k \in {"delete", "copy"}, NEW rows, rows \subseteq RowsOf(f),
             Start(c, [kind |-> k, file |-> f, rows |-> rows, gone |-> FALSE])
      PROVE  CatalogueInv'
  <2>1. rows \subseteq Row
    BY <1>1 DEF CatalogueInv, TypeOK, RowsOf
  <2>2. [kind |-> k, file |-> f, rows |-> rows, gone |-> FALSE] \in OpSet
    BY <2>1 DEF OpSet
  <2> QED BY <1>1, <2>1, <2>2, StartInv
<1>2. CASE ReadFile(c, f)
  BY <1>1, <1>2 DEF ReadFile
<1>3. CASE ReadCopy(c, f, v)
  BY <1>1, <1>3 DEF ReadCopy
<1>4. CASE ReadRecycleLog(c, f, v, n)
  <2> DEFINE matches == {e \in recycleLog : e.row.file = f /\ e.row.vid = v /\ e.row.copyNb = n}
             r == (CHOOSE e \in matches : TRUE).row
  <2>1. Cardinality(matches) = 1 /\ Start(c, [kind |-> "restore", row |-> r])
    BY <1>4 DEF ReadRecycleLog
  <2> HIDE DEF matches
  <2>2. matches # {}
    <3>1. Cardinality({}) = 0
      BY FS_EmptySet
    <3> QED BY <2>1, <3>1
  <2>3. (CHOOSE e \in matches : TRUE) \in matches
    BY <2>2
  <2>4. r \in Row
    BY <2>3 DEF CatalogueInv, TypeOK, matches
  <2> HIDE DEF r
  <2>5. [kind |-> "restore", row |-> r] \in OpSet
    BY <2>4 DEF OpSet
  <2> QED BY <2>1, <2>5, StartInv
<1>5. CASE ReadTape(c, v)
  <2>1. [kind |-> "reclaim", vid |-> v] \in OpSet
    BY DEF OpSet
  <2> QED BY <2>1, <1>5, StartInv DEF ReadTape
<1> QED BY <1>2, <1>3, <1>4, <1>5

\* The operation o goes on as p.
Became(p, o, k, b) == p = [o EXCEPT !.kind = k, !.gone = b]

\* What a deletion carries when it goes on or is repeated.
LEMMA DeletionTyped ==
  ASSUME NEW o \in OpSet, o.kind \in {"delete", "copy", "move", "remove"},
         NEW k \in {"delete", "copy", "move", "remove"}, NEW b \in BOOLEAN,
         NEW p, Became(p, o, k, b)
  PROVE  p \in OpSet /\ p.kind = k
<1>1. o \in [kind : {"delete", "copy", "move", "remove"}, file : Files, rows : SUBSET Row,
             gone : BOOLEAN]
  BY DEF OpSet, Idle
<1> QED BY <1>1 DEF OpSet, Became

\* The clients' other steps that change no row.
LEMMA ClientStepsInv ==
  ASSUME CatalogueInv, NEW c \in Clients,
         CheckRestore(c) \/ GetNbFilesOnTape(c) \/ DeleteFilesFromRecycleLog(c)
         \/ DeleteFromRecycleLog(c) \/ Crash(c) \/ CopyToRecycleLog(c)
  PROVE  CatalogueInv'
<1>1. op[c] \in OpSet
  BY DEF CatalogueInv, TypeOK
<1>2. CASE CheckRestore(c)
  <2> DEFINE r == op[c].row
             o == IF \E s \in RowsOf(r.file) : SameCopy(r, s) THEN Idle
                  ELSE [kind |-> "checked", row |-> r, new |-> RowsOf(r.file) = {}]
  <2>1. r \in Row
    BY <1>1, <1>2 DEF CheckRestore, OpSet, Idle
  <2>2. ClientOnly(c, o)
    BY <1>2 DEF CheckRestore, ClientOnly, clientFrame, CatalogueInv, TypeOK
  <2> HIDE DEF r
  <2>3. o \in OpSet /\ o.kind \in {"idle", "checked"}
    BY <2>1, IdleTyped DEF OpSet
  <2> HIDE DEF o
  <2> QED BY <2>2, <2>3, HarmlessOp
<1>3. CASE GetNbFilesOnTape(c)
  <2> DEFINE v == op[c].vid
             o == [kind |-> "counted", vid |-> v]
  <2>1. v \in Tapes
    BY <1>1, <1>3 DEF GetNbFilesOnTape, OpSet, Idle
  <2>2. \/ Empty(v) /\ ClientOnly(c, o)
        \/ ClientOnly(c, Idle)
    BY <1>3 DEF GetNbFilesOnTape, ClientOnly, clientFrame, CatalogueInv, TypeOK
  <2>3. CASE Empty(v) /\ ClientOnly(c, o)
    <3> HIDE DEF v
    <3>1. o \in OpSet /\ op'[c] = o /\ tapeFile' = tapeFile
      BY <2>1, <2>3 DEF OpSet, ClientOnly, CatalogueInv, TypeOK
    <3>2. ReclaimedEmpty(c)'
      BY <3>1, <2>3 DEF ReclaimedEmpty, Empty, RowsOn
    <3> QED BY <3>1, <3>2, <2>3, ClientOnlyInv
  <2>4. CASE ClientOnly(c, Idle)
    BY <2>4, IdleTyped, HarmlessOp
  <2> QED BY <2>2, <2>3, <2>4
<1>4. CASE DeleteFilesFromRecycleLog(c)
  <2> DEFINE v == op[c].vid
             o == [kind |-> "purged", vid |-> v]
  <2>1. v \in Tapes
    BY <1>1, <1>4 DEF DeleteFilesFromRecycleLog, OpSet, Idle
  <2>2. /\ ClientOnly(c, o)
        /\ recycleLog' = {e \in recycleLog : e.row.vid # v}
        /\ v \in stale \/ RowsOn(v) = {}
    BY <1>4 DEF DeleteFilesFromRecycleLog, ClientOnly, clientFrame, CatalogueInv,
       TypeOK, ReclaimedEmpty
  <2> HIDE DEF v
  <2>3. o \in OpSet /\ op'[c] = o /\ tapeFile' = tapeFile /\ stale' = stale
    BY <2>1, <2>2 DEF OpSet, ClientOnly, CatalogueInv, TypeOK
  <2>4. ReclaimedEmpty(c)'
    BY <2>2, <2>3 DEF ReclaimedEmpty, RowsOn
  <2> QED BY <2>2, <2>3, <2>4, ClientOnlyInv
<1>5. CASE DeleteFromRecycleLog(c) \/ Crash(c)
  <2>1. ClientOnly(c, Idle)
    BY <1>5, BoundsAssumption DEF DeleteFromRecycleLog, Crash, ClientOnly, clientFrame,
       CatalogueInv, TypeOK
  <2> QED BY <2>1, IdleTyped, HarmlessOp
<1>6. CASE CopyToRecycleLog(c)
  <2> DEFINE k == IF op[c].kind = "delete" THEN "move" ELSE "remove"
             b == op[c].file \notin archiveFile
             o == [op[c] EXCEPT !.kind = k, !.gone = b]
  <2>1. op[c].kind \in {"delete", "copy"} /\ ClientOnly(c, o)
    BY <1>6 DEF CopyToRecycleLog, ClientOnly, CatalogueInv, TypeOK
  <2>2. k \in {"move", "remove"} /\ b \in BOOLEAN
    OBVIOUS
  <2> HIDE DEF k, b
  <2>3. Became(o, op[c], k, b)
    BY DEF Became
  <2> HIDE DEF o
  <2>4. o \in OpSet /\ o.kind = k
    BY <1>1, <2>1, <2>2, <2>3, DeletionTyped
  <2> QED BY <2>1, <2>2, <2>4, HarmlessOp
<1> QED BY <1>2, <1>3, <1>4, <1>5, <1>6

\* A tape is declared full, or not.
LEMMA FullInv ==
  ASSUME CatalogueInv, NEW v \in Tapes, NEW b \in BOOLEAN, full' = [full EXCEPT ![v] = b],
         ops' \in 0..MaxOps,
         UNCHANGED <<lastFSeq, archiveFile, tapeFile, recycleLog, medium, session, op, writes, stale,
                     restored>>
  PROVE  CatalogueInv'
<1>1. TypeOK'
  BY DEF CatalogueInv, TypeOK
<1>2. RowsKept' /\ OneRowPerCopy' /\ OneBatch'
  BY DEF CatalogueInv, RowsKept, Kept, OnMedium, OneRowPerCopy, OneBatch
<1>3. \A u \in Tapes : SessionAppends(u)' /\ OldSelected(u)'
  BY DEF CatalogueInv, SessionAppends, OldSelected, Locked, BatchRows
<1>4. \A c \in Clients : ReclaimedEmpty(c)'
  BY DEF CatalogueInv, ReclaimedEmpty, RowsOn
<1> QED BY <1>1, <1>2, <1>3, <1>4 DEF CatalogueInv

-----------------------------------------------------------------------------
\* Rows are deleted: those the transaction has copied before are in the recycle log.
LEMMA DeletionRows ==
  ASSUME CatalogueInv, NEW c \in Clients, MoveArchiveFile(c) \/ DeleteTapeFileCopy(c)
  PROVE  /\ \E log, gone : RowsChange({}, log, gone)
         /\ \E o \in OpSet : o.kind \in {"idle", "delete", "copy"} /\ op' = [op EXCEPT ![c] = o]
         /\ ops' \in 0..MaxOps /\ UNCHANGED <<tapeVars, restored>>
         /\ archiveFile' \subseteq Files /\ stale' \subseteq Tapes
         /\ \A r \in tapeFile' : r.file \in archiveFile'
<1> DEFINE o == op[c]
           log == Inserted(o)
<1>1. /\ o.kind \in {"move", "remove"} /\ o \in OpSet
      /\ UNCHANGED <<tapeVars, restored>> /\ \E k \in {"delete", "copy"} : Answer(c, k)
  BY DEF MoveArchiveFile, DeleteTapeFileCopy, CommitDeletion, CatalogueInv, TypeOK
<1>2. log \subseteq Row
  <2>1. \A x \in OpSet : x.kind \in {"move", "remove"} => x.rows \subseteq Row
    BY DEF OpSet, Idle
  <2>2. Inserted(o) \subseteq o.rows
    BY DEF Inserted
  <2> QED BY <1>1, <2>1, <2>2
<1>3. /\ \E p \in OpSet : p.kind \in {"idle", "delete", "copy"} /\ op' = [op EXCEPT ![c] = p]
      /\ ops' \in 0..MaxOps
  <2>1. PICK k \in {"delete", "copy"} : Answer(c, k)
    BY <1>1
  <2>2. PICK p : p = [o EXCEPT !.kind = k, !.gone = FALSE]
    OBVIOUS
  <2>3. p \in OpSet /\ p.kind = k
    <3>1. Became(p, o, k, FALSE)
      BY <2>2 DEF Became
    <3> HIDE DEF o
    <3> QED BY <1>1, <3>1, DeletionTyped
  <2>4. \/ op' = [op EXCEPT ![c] = Idle] /\ ops' = ops
        \/ op' = [op EXCEPT ![c] = p] /\ ops < MaxOps /\ ops' = ops + 1
    BY <2>1, <2>2 DEF Answer, CatalogueInv, TypeOK
  <2>5. ops' \in 0..MaxOps
    BY <2>4, BoundsAssumption DEF CatalogueInv, TypeOK
  <2> QED BY <2>3, <2>4, <2>5, IdleTyped
<1>4. PICK gone :
        /\ gone = RowsOf(o.file) \/ gone = RowsAt(o.rows)
        /\ recycleLog' = Logged(log)
        /\ tapeFile' = tapeFile \ gone
        /\ stale' = stale \union VidsOf((log \ tapeFile) \union (gone \ log))
        /\ \/ archiveFile' = archiveFile
           \/ archiveFile' = archiveFile \ {o.file} /\ gone = RowsOf(o.file)
  BY DEF MoveArchiveFile, DeleteTapeFileCopy, CommitDeletion, Inserted
<1>5. gone \subseteq tapeFile
  BY <1>4 DEF RowsOf, RowsAt
<1> HIDE DEF o, log
<1>6. \A r \in gone : r \in log \/ r.vid \in stale'
  BY <1>4 DEF VidsOf
<1>7. \A r \in log : r \in tapeFile \/ r.vid \in stale'
  BY <1>4 DEF VidsOf
<1>8. lastFSeq' = lastFSeq /\ medium' = medium /\ \A v \in Tapes : lastFSeq[v] <= lastFSeq[v]
  BY <1>1 DEF tapeVars, CatalogueInv, TypeOK
<1>9. RowsChange({}, log, gone)
  BY <1>2, <1>4, <1>5, <1>6, <1>7, <1>8 DEF RowsChange
<1>10. archiveFile' \subseteq Files /\ stale' \subseteq Tapes
  BY <1>2, <1>4, <1>5 DEF CatalogueInv, TypeOK, VidsOf, Row
<1>11. \A r \in tapeFile' : r.file \in archiveFile'
  BY <1>4 DEF CatalogueInv, TypeOK, RowsOf
<1> QED BY <1>1, <1>3, <1>9, <1>10, <1>11

\* A deletion keeps the invariant.
LEMMA DeletionInv ==
  ASSUME CatalogueInv, NEW c \in Clients, MoveArchiveFile(c) \/ DeleteTapeFileCopy(c)
  PROVE  CatalogueInv'
<1>1. PICK log, gone : RowsChange({}, log, gone)
  BY DeletionRows
<1>2. /\ ops' \in 0..MaxOps /\ UNCHANGED <<tapeVars, restored>>
      /\ archiveFile' \subseteq Files /\ stale' \subseteq Tapes
      /\ \A r \in tapeFile' : r.file \in archiveFile'
  BY DeletionRows
<1>o. PICK o \in OpSet : o.kind \in {"idle", "delete", "copy"} /\ op' = [op EXCEPT ![c] = o]
  BY DeletionRows
<1>3. op' \in [Clients -> OpSet] /\ \A d \in Clients : op'[d] = op[d] \/ op'[d] = o
  BY <1>o DEF CatalogueInv, TypeOK
<1>4. tapeFile' \subseteq Row /\ \A e \in recycleLog' : e.row \in Row
  BY <1>1, RowsTyped
<1>5. TypeOK'
  BY <1>2, <1>3, <1>4 DEF CatalogueInv, TypeOK, tapeVars
<1>6. RowsKept' /\ \A d \in Clients : ReclaimedEmpty(d)'
  BY <1>o, <1>1, <1>3, <1>5, RowsStayTrue
<1>7. tapeFile' \subseteq tapeFile
  BY <1>1 DEF RowsChange
<1>8. \A v \in Tapes : SessionAppends(v)' /\ OldSelected(v)'
  BY <1>2, <1>7 DEF CatalogueInv, SessionAppends, OldSelected, Locked, BatchRows,
     tapeVars
<1>9. OneBatch' /\ OneRowPerCopy'
  BY <1>2, <1>7 DEF CatalogueInv, OneBatch, OneRowPerCopy, tapeVars
<1> QED BY <1>5, <1>6, <1>8, <1>9 DEF CatalogueInv

\* A restore that is not refused: the row is inserted, other rows of the copy go to the
\* recycle log, and the tape is marked unless the recycle log still has the row.
LEMMA RestoreRows ==
  ASSUME CatalogueInv, NEW c \in Clients, InsertTapeFile(c), op'[c].kind # "idle"
  PROVE  /\ op[c].row \in Row
         /\ RowsChange({op[c].row}, OldCopies({op[c].row}), OldCopies({op[c].row}))
         /\ op' = [op EXCEPT ![c] = [kind |-> "inserted", row |-> op[c].row]]
         /\ ops' \in 0..MaxOps /\ UNCHANGED tapeVars
         /\ restored' = restored \union {x \in {op[c].row} : \E v \in Tapes : Reported(v, op[c].row)}
         /\ RowsAt({op[c].row}) = {}
         /\ archiveFile' \subseteq Files /\ stale' \subseteq Tapes
         /\ \A r \in tapeFile' : r.file \in archiveFile'
<1> PICK r : r = op[c].row
  OBVIOUS
<1> DEFINE new == IF op[c].new THEN {r.file} ELSE {}
           old == OldCopies({r})
<1>1. r \in Row
  <2>1. op[c] \in OpSet /\ op[c].kind = "checked"
    BY DEF InsertTapeFile, CatalogueInv, TypeOK
  <2> QED BY <2>1, OpTyped
<1>2. UNCHANGED tapeVars /\ ops' \in 0..MaxOps
  BY DEF InsertTapeFile, clientFrame, CatalogueInv, TypeOK
<1>3. /\ CanInsert({r}, archiveFile \union new)
      /\ archiveFile' = archiveFile \union new
      /\ recycleLog' = Logged(old)
      /\ tapeFile' = (tapeFile \union {r}) \ old
      /\ stale' = stale \union ({r.vid} \intersect BeingReclaimed)
                        \union {v \in {r.vid} : \A e \in recycleLog : e.row # r}
      /\ restored' = restored \union {x \in {r} : \E v \in Tapes : Reported(v, r)}
      /\ op' = [op EXCEPT ![c] = [kind |-> "inserted", row |-> r]]
  <2>1. op' # [op EXCEPT ![c] = Idle]
    BY IdleTyped DEF CatalogueInv, TypeOK
  <2> QED BY <2>1 DEF InsertTapeFile
<1>4. new \subseteq Files
  BY <1>1 DEF Row
<1> HIDE DEF new
<1>5. old \subseteq tapeFile
  BY DEF OldCopies
<1>6. r.vid \in stale' \/ (Kept(r)' /\ r.vid \notin BeingReclaimed)
  <2> SUFFICES ASSUME r.vid \notin stale' PROVE Kept(r)' /\ r.vid \notin BeingReclaimed
    OBVIOUS
  <2>1. r.vid \notin stale /\ r.vid \notin BeingReclaimed /\ \E e \in recycleLog : e.row = r
    BY <1>3
  <2>2. Kept(r)
    BY <2>1 DEF CatalogueInv, RowsKept
  <2> QED BY <2>1, <2>2, <1>2 DEF Kept, OnMedium, tapeVars
<1>7. lastFSeq' = lastFSeq /\ medium' = medium /\ \A v \in Tapes : lastFSeq[v] <= lastFSeq[v]
  BY <1>2 DEF tapeVars, CatalogueInv, TypeOK
<1> HIDE DEF old
<1>8. RowsChange({r}, old, old)
  BY <1>1, <1>3, <1>5, <1>6, <1>7 DEF RowsChange, CatalogueInv, TypeOK
<1>9. archiveFile' \subseteq Files /\ stale' \subseteq Tapes
  BY <1>1, <1>3, <1>4 DEF CatalogueInv, TypeOK, Row
<1>10. \A q \in tapeFile' : q.file \in archiveFile'
  BY <1>3 DEF CatalogueInv, TypeOK, CanInsert
<1>11. RowsAt({r}) = {}
  BY <1>3 DEF CanInsert
<1> QED BY <1>1, <1>2, <1>3, <1>8, <1>9, <1>10, <1>11 DEF old

\* A restore, refused or not, keeps the invariant.
LEMMA InsertTapeFileInv ==
  ASSUME CatalogueInv, NEW c \in Clients, InsertTapeFile(c)
  PROVE  CatalogueInv'
<1>1. CASE op'[c].kind = "idle"
  <2>1. op'[c] # [kind |-> "inserted", row |-> op[c].row]
    BY <1>1
  <2>2. op' # [op EXCEPT ![c] = [kind |-> "inserted", row |-> op[c].row]]
    BY <2>1 DEF CatalogueInv, TypeOK
  <2>3. ClientOnly(c, Idle)
    BY <2>2 DEF InsertTapeFile, ClientOnly, clientFrame, CatalogueInv, TypeOK
  <2> QED BY <2>3, IdleTyped, HarmlessOp
<1>2. CASE op'[c].kind # "idle"
  <2> DEFINE r == op[c].row
             old == OldCopies({r})
             o == [kind |-> "inserted", row |-> r]
  <2>1. /\ r \in Row /\ RowsChange({r}, old, old)
        /\ op' = [op EXCEPT ![c] = o]
        /\ ops' \in 0..MaxOps /\ UNCHANGED tapeVars
        /\ restored' = restored \union {x \in {r} : \E v \in Tapes : Reported(v, r)}
        /\ RowsAt({r}) = {}
        /\ archiveFile' \subseteq Files /\ stale' \subseteq Tapes
        /\ \A q \in tapeFile' : q.file \in archiveFile'
    BY <1>2, RestoreRows
  <2> HIDE DEF r, old
  <2>2. o \in OpSet /\ o.kind = "inserted"
    BY <2>1 DEF OpSet
  <2> HIDE DEF o
  <2>3. op' \in [Clients -> OpSet] /\ \A d \in Clients : op'[d] = op[d] \/ op'[d] = o
    BY <2>1, <2>2 DEF CatalogueInv, TypeOK
  <2>4. tapeFile' \subseteq Row /\ \A e \in recycleLog' : e.row \in Row
    BY <2>1, RowsTyped
  <2>5. TypeOK'
    BY <2>1, <2>3, <2>4 DEF CatalogueInv, TypeOK, tapeVars
  <2>6. RowsKept' /\ \A d \in Clients : ReclaimedEmpty(d)'
    BY <2>1, <2>2, <2>3, <2>5, RowsStayTrue
  <2>7. tapeFile' \subseteq (tapeFile \union {r}) \ old /\ restored \subseteq restored'
    BY <2>1 DEF RowsChange, old, OldCopies
  <2>8. ASSUME NEW v \in Tapes PROVE SessionAppends(v)' /\ OldSelected(v)'
    <3>1. SessionAppends(v)'
      BY <2>1 DEF CatalogueInv, SessionAppends, tapeVars
    <3>2. session' = session /\ BatchRows(v, session[v])' = BatchRows(v, session[v])
      BY <2>1 DEF tapeVars, BatchRows
    <3>3. OldSelected(v)'
      <4> SUFFICES ASSUME Locked(v), NEW q \in tapeFile', NEW b \in BatchRows(v, session[v]),
                          SameCopy(q, b)
                   PROVE  q \in restored' \/ q \in session[v].old \/ At(q) = At(b)
        BY <3>2 DEF OldSelected, Locked, SameCopy, At
      <4>1. CASE q = r
        BY <4>1, <2>1 DEF Reported
      <4>2. CASE q \in tapeFile
        BY <4>2, <2>7 DEF CatalogueInv, OldSelected
      <4> QED BY <4>1, <4>2, <2>7
    <3> QED BY <3>1, <3>3
  <2>9. OneRowPerCopy'
    <3> SUFFICES ASSUME NEW x \in tapeFile', NEW y \in tapeFile', SameCopy(x, y), x # y
                 PROVE  x \in restored' \/ y \in restored'
      BY DEF OneRowPerCopy, SameCopy
    <3>1. ASSUME NEW z \in tapeFile', SameCopy(r, z) PROVE z = r
      <4>1. SUFFICES ASSUME z \in tapeFile, z \notin old PROVE FALSE
        BY <2>7, <3>1
      <4>2. At(z) # At(r)
        BY <2>1, <4>1 DEF RowsAt
      <4> QED BY <3>1, <4>1, <4>2 DEF old, OldCopies, SameCopy
    <3>2. CASE x \in tapeFile /\ y \in tapeFile
      BY <2>7, <3>2 DEF CatalogueInv, OneRowPerCopy
    <3>3. CASE x = r \/ y = r
      BY <3>1, <3>3 DEF SameCopy
    <3> QED BY <2>7, <3>2, <3>3
  <2>10. OneBatch'
    BY <2>1 DEF CatalogueInv, OneBatch, tapeVars
  <2> QED BY <2>5, <2>6, <2>8, <2>9, <2>10 DEF CatalogueInv
<1> QED BY <1>1, <1>2

\* A purged tape starts again at its beginning: no row and no deleted file is on it, and no
\* transaction.
LEMMA ResetInv ==
  ASSUME CatalogueInv, NEW c \in Clients, ResetTapeCounters(c)
  PROVE  CatalogueInv'
<1> DEFINE v == op[c].vid
<1>1. v \in Tapes
  <2>1. op[c] \in OpSet /\ op[c].kind = "purged"
    BY DEF ResetTapeCounters, CatalogueInv, TypeOK
  <2> QED BY <2>1, OpTyped
<1>2. /\ ~ Locked(v) /\ lastFSeq' = [lastFSeq EXCEPT ![v] = 0] /\ full' = [full EXCEPT ![v] = FALSE]
      /\ op' = [op EXCEPT ![c] = Idle]
      /\ UNCHANGED <<archiveFile, tapeFile, recycleLog, medium, session, writes, ops, stale, restored>>
      /\ v \in stale \/ (RowsOn(v) = {} /\ \A e \in recycleLog : e.row.vid # v)
  BY DEF ResetTapeCounters, CatalogueInv, ReclaimedEmpty
<1> HIDE DEF v
<1>3. /\ op' \in [Clients -> OpSet] /\ \A d \in Clients : op'[d] = op[d] \/ op'[d] = Idle
      /\ lastFSeq' \in [Tapes -> 0..MaxFSeq] /\ lastFSeq'[v] = 0
      /\ \A u \in Tapes : u # v => lastFSeq'[u] = lastFSeq[u]
  BY <1>1, <1>2, IdleTyped, BoundsAssumption DEF CatalogueInv, TypeOK
<1>4. TypeOK'
  BY <1>2, <1>3 DEF CatalogueInv, TypeOK
<1>5. RowsKept'
  BY <1>2, <1>3 DEF CatalogueInv, TypeOK, RowsKept, Kept, OnMedium, RowsOn, Row
<1>6. ASSUME NEW u \in Tapes PROVE SessionAppends(u)' /\ OldSelected(u)'
  <2>1. OldSelected(u)'
    BY <1>2 DEF CatalogueInv, OldSelected, Locked, BatchRows
  <2>2. 0 <= Len(medium[u]) /\ 0 <= session[u].base
    BY DEF CatalogueInv, TypeOK, SessionSet
  <2>3. SessionAppends(u)'
    BY <1>2, <1>3, <2>2 DEF CatalogueInv, SessionAppends, Locked
  <2> QED BY <2>1, <2>3
<1>7. \A d \in Clients : ReclaimedEmpty(d)'
  BY <1>2, <1>3, IdleTyped DEF CatalogueInv, ReclaimedEmpty, RowsOn
<1>8. OneBatch' /\ OneRowPerCopy'
  BY <1>2 DEF CatalogueInv, OneBatch, OneRowPerCopy
<1> QED BY <1>4, <1>5, <1>6, <1>7, <1>8 DEF CatalogueInv

-----------------------------------------------------------------------------
\* The empty catalogue.
LEMMA InitInv ==
  ASSUME Init
  PROVE  CatalogueInv
<1>1. TypeOK
  <2>1. <<>> \in Seq(Item) /\ Len(<<>>) = 0
    OBVIOUS
  <2>2. session \in [Tapes -> SessionSet] /\ \A v \in Tapes : LastWritten(session[v]) <= MaxFSeq
    BY NoSessionTyped DEF Init
  <2> QED BY <2>1, <2>2, IdleTyped, BoundsAssumption DEF Init, TypeOK
<1>2. \A v \in Tapes : SessionAppends(v) /\ OldSelected(v)
  BY NoSessionTyped DEF Init, SessionAppends, OldSelected, Locked
<1>3. \A c \in Clients : ReclaimedEmpty(c)
  BY IdleTyped DEF Init, ReclaimedEmpty
<1>4. OneBatch
  <2>1. \A v \in Tapes : Len(session[v].batch) = 0
    BY NoSessionTyped DEF Init
  <2> QED BY <2>1 DEF OneBatch
<1> QED BY <1>1, <1>2, <1>3, <1>4 DEF Init, CatalogueInv, RowsKept, OneRowPerCopy

\* The steps of a session.
LEMMA SessionInv ==
  ASSUME CatalogueInv, NEW v \in Tapes, Session(v)
  PROVE  CatalogueInv'
<1>1. ops \in 0..MaxOps
  BY DEF CatalogueInv, TypeOK
<1>2. CASE EndSession(v) \/ RefuseReport(v) \/ RollbackReport(v)
  <2>1. SessionOnly(v, NoSession)
    BY <1>1, <1>2 DEF EndSession, RefuseReport, RollbackReport, SessionOnly
  <2> QED BY <2>1, SessionEnds
<1>3. CASE CommitReport(v)
  <2> DEFINE s2 == SessionRec("writing", LastWritten(session[v]), <<>>)
  <2>1. s2 \in SessionSet
    BY BoundsAssumption DEF SessionRec, SessionSet, LastWritten, CatalogueInv, TypeOK
  <2>2. RecordBatch(v) /\ session' = [session EXCEPT ![v] = s2] /\ ops' = ops
    BY <1>3 DEF CommitReport, LastWritten
  <2> HIDE DEF s2
  <2> QED BY <1>1, <2>1, <2>2, RecordBatchInv DEF s2
<1>4. CASE LoseCommit(v)
  <2> DEFINE s2 == SessionRec("retry", session[v].base, session[v].batch)
  <2>1. s2 \in SessionSet
    BY DEF SessionRec, SessionSet, CatalogueInv, TypeOK
  <2>2. /\ session' = [session EXCEPT ![v] = s2] /\ ops' \in 0..MaxOps /\ Locked(v)
        /\ \/ RecordBatch(v)
           \/ UNCHANGED <<lastFSeq, full, archiveFile, tapeFile, recycleLog, medium, writes, stale,
                          clientVars>>
    BY <1>1, <1>4, BoundsAssumption DEF LoseCommit
  <2>3. CASE RecordBatch(v)
    BY <2>1, <2>2, <2>3, RecordBatchInv
  <2>4. CASE SessionOnly(v, s2)
    BY <2>2, <2>4, LostBeforeCommit
  <2> QED BY <2>2, <2>3, <2>4 DEF SessionOnly
<1>5. CASE NoSpaceLeftOnTape(v)
  BY <1>1, <1>5, FullInv DEF NoSpaceLeftOnTape, clientVars
<1> QED BY <1>2, <1>3, <1>4, <1>5, MountTapeInv, WriteItemInv, BeginReportInv DEF
   Session

\* The steps of a client.
LEMMA ClientInv ==
  ASSUME CatalogueInv, NEW c \in Clients, Client(c)
  PROVE  CatalogueInv'
<1>1. ASSUME NEW v \in Tapes, NEW b \in BOOLEAN, SetTapeFull(c, v, b) PROVE CatalogueInv'
  <2>1. ops' \in 0..MaxOps
    BY <1>1, BoundsAssumption DEF SetTapeFull, CatalogueInv, TypeOK
  <2> QED BY <1>1, <2>1, FullInv DEF SetTapeFull
<1>2. Tapes # {} /\ Files # {} /\ CopyNbs # {}
  BY TapesAssumption
<1>3. ASSUME NEW f \in Files, ReadFile(c, f) PROVE CatalogueInv'
  BY <1>2, <1>3, ReadsInv
<1>4. ASSUME NEW f \in Files, NEW v \in Tapes, ReadCopy(c, f, v) PROVE CatalogueInv'
  BY <1>2, <1>4, ReadsInv
<1>5. ASSUME NEW f \in Files, NEW v \in Tapes, NEW n \in CopyNbs, ReadRecycleLog(c, f, v, n)
      PROVE  CatalogueInv'
  BY <1>5, ReadsInv
<1>6. ASSUME NEW v \in Tapes, ReadTape(c, v) PROVE CatalogueInv'
  BY <1>2, <1>6, ReadsInv
<1> QED BY <1>1, <1>3, <1>4, <1>5, <1>6, DeletionInv, ClientStepsInv,
   InsertTapeFileInv, ResetInv
        DEF Client

\* A stuttering step.
LEMMA StutterInv ==
  ASSUME CatalogueInv, UNCHANGED vars
  PROVE  CatalogueInv'
<1>1. TypeOK'
  BY DEF CatalogueInv, TypeOK, vars
<1>2. RowsKept' /\ OneRowPerCopy' /\ OneBatch'
  BY DEF CatalogueInv, RowsKept, Kept, OnMedium, OneRowPerCopy, OneBatch, vars
<1>3. \A u \in Tapes : SessionAppends(u)' /\ OldSelected(u)'
  BY DEF CatalogueInv, SessionAppends, OldSelected, Locked, BatchRows, vars
<1>4. \A c \in Clients : ReclaimedEmpty(c)'
  BY DEF CatalogueInv, ReclaimedEmpty, RowsOn, vars
<1> QED BY <1>1, <1>2, <1>3, <1>4 DEF CatalogueInv

\* The inductive invariant holds.
LEMMA Invariance == Spec => []CatalogueInv
<1>1. Init => CatalogueInv
  BY InitInv
<1>2. CatalogueInv /\ [Next]_vars => CatalogueInv'
  BY SessionInv, ClientInv, StutterInv DEF Next
<1> QED BY <1>1, <1>2, PTL DEF Spec

\* The type invariant.
THEOREM TypeCorrect == Spec => []TypeOK
<1>1. CatalogueInv => TypeOK
  BY DEF CatalogueInv
<1> QED BY <1>1, Invariance, PTL

\* Every row of TAPE_FILE points at a tape file that holds its copy.
THEOREM RowsAreTrueCorrect == Spec => []RowsAreTrue
<1>1. CatalogueInv => RowsAreTrue
  BY DEF CatalogueInv, RowsKept, Kept, RowsAreTrue
<1> QED BY <1>1, Invariance, PTL

\* What the recycle log offers for restoring is still on its tape.
THEOREM RecycledAreTrueCorrect == Spec => []RecycledAreTrue
<1>1. CatalogueInv => RecycledAreTrue
  BY DEF CatalogueInv, RowsKept, Kept, RecycledAreTrue
<1> QED BY <1>1, Invariance, PTL

\* A copy has one row, unless a restore put another one back while the copy was reported.
THEOREM OneRowPerCopyCorrect == Spec => []OneRowPerCopy
<1>1. CatalogueInv => OneRowPerCopy
  BY DEF CatalogueInv
<1> QED BY <1>1, Invariance, PTL

\* The steps that may remove rows are those of RowsChange.
LEMMA RowsRemoved ==
  ASSUME CatalogueInv, Next, tapeFile \ tapeFile' # {}
  PROVE  \E ins, log, gone : RowsChange(ins, log, gone)
<1>1. CASE \E v \in Tapes : Session(v)
  <2>1. PICK v \in Tapes : Session(v)
    BY <1>1
  <2>2. RecordBatch(v)
    BY <2>1 DEF Session, MountTape, EndSession, WriteItem, BeginReport, RefuseReport,
       CommitReport,
       LoseCommit, RollbackReport, NoSpaceLeftOnTape
  <2> QED BY <2>2, RecordBatchRows
<1>2. CASE \E c \in Clients : Client(c)
  <2>1. PICK c \in Clients : Client(c)
    BY <1>2
  <2>2. MoveArchiveFile(c) \/ DeleteTapeFileCopy(c) \/ InsertTapeFile(c)
    BY <2>1 DEF Client, ReadFile, ReadCopy, ReadRecycleLog, ReadTape, Start,
       CheckRestore,
       DeleteFromRecycleLog, SetTapeFull, GetNbFilesOnTape, DeleteFilesFromRecycleLog,
       ResetTapeCounters, Crash, CopyToRecycleLog
  <2>3. CASE MoveArchiveFile(c) \/ DeleteTapeFileCopy(c)
    BY <2>3, DeletionRows
  <2>4. CASE InsertTapeFile(c)
    <3>1. op' = [op EXCEPT ![c] = [kind |-> "inserted", row |-> op[c].row]]
      BY <2>4 DEF InsertTapeFile
    <3>2. op'[c].kind # "idle"
      BY <3>1 DEF CatalogueInv, TypeOK
    <3> QED BY <2>4, <3>2, RestoreRows
  <2> QED BY <2>2, <2>3, <2>4
<1> QED BY <1>1, <1>2 DEF Next

\* A row that leaves TAPE_FILE is in the recycle log.
THEOREM EntryPerDeletedFileCorrect == Spec => EntryPerDeletedFile
<1>1. CatalogueInv /\ [Next]_vars =>
        [\A r \in tapeFile \ tapeFile' : r.vid \in stale' \/ \E e \in recycleLog' : e.row = r]_vars
  <2> SUFFICES ASSUME CatalogueInv, Next, NEW r \in tapeFile \ tapeFile'
               PROVE  r.vid \in stale' \/ \E e \in recycleLog' : e.row = r
    OBVIOUS
  <2>1. PICK ins, log, gone : RowsChange(ins, log, gone)
    BY RowsRemoved
  <2> QED BY <2>1, RowsLeaveEntry
<1> QED BY <1>1, Invariance, PTL DEF Spec, EntryPerDeletedFile
=============================================================================
