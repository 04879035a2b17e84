------------------------ MODULE RecallSessionProofs ------------------------
(***************************************************************************)
(* The safety invariants of a session that reads from tape, for any number  *)
(* of files, blocks, batches and disk writers.                              *)
(***************************************************************************)
EXTENDS RecallSession, FiniteSetTheorems, TLAPS

-----------------------------------------------------------------------------
(* Where a job is                                                          *)

\* The files with a task that no disk writer took yet, the files in the hands of
\* a writer, and the files with a report that waits for the packer.
InQueue(q) == {f \in Files : \E i \in 1..Len(q) : q[i] = f}
Queued == InQueue(diskTasks)
Busy(d) == disk[d] \in {"write", "release"}
Taken == {f \in Files : \E d \in DiskThreads : Busy(d) /\ diskFile[d] = f}
Reporting == {f \in Files : \E i \in 1..Len(reports) : reports[i].file = f}

Places == {"jobs", "batch", "queue", "disk", "reports", "successful", "completed", "failed",
           "requeued", "dropped"}

Where == [p \in Places |->
    CASE p = "jobs" -> InQueue(jobs)
      [] p = "batch" -> InQueue(batch)
      [] p = "queue" -> Queued
      [] p = "disk" -> Taken
      [] p = "reports" -> Reporting
      [] p = "successful" -> successful
      [] p = "completed" -> completed
      [] p = "failed" -> failed
      [] p = "requeued" -> requeued
      [] p = "dropped" -> dropped]

\* The places w hold each file of 1..n once.
OnePlace(w, n) ==
    /\ \A p, q \in Places : p # q => w[p] \cap w[q] = {}
    /\ \A f \in Files : f <= n <=> \E p \in Places : f \in w[p]

\* A queue holds a file once; End may be there several times.
Once(q) == \A i, j \in 1..Len(q) : q[i] = q[j] /\ q[i] # End => i = j

ReportsOnce ==
    \A i, j \in 1..Len(reports) :
        reports[i].file = reports[j].file /\ reports[i].file # End => i = j

WritersApart ==
    /\ \A d, e \in DiskThreads : Busy(d) /\ Busy(e) /\ diskFile[d] = diskFile[e] => d = e
    /\ \A d \in DiskThreads : Busy(d) => diskFile[d] \in Files

\* Every job that was fetched is at one place.
JobsAccounted ==
    /\ OnePlace(Where, next - 1)
    /\ Once(jobs) /\ Once(batch) /\ Once(diskTasks) /\ Once(tapeTasks)
    /\ ReportsOnce /\ WritersApart

-----------------------------------------------------------------------------
(* What is between the tape thread and the disk writers                    *)

\* The files the tape thread has still to read, or to finish.
Reading(f) == tape = "read" /\ tapeFile = f
TapeQueued == InQueue(tapeTasks)

Mark(f, i) == fifo[f][i].mark

\* Only the last block ends the file; the tape thread has not yet sent it for a file
\* it has still to read; a file that nobody will write has no blocks.
FifoSound(f) ==
    /\ \A i \in 1..Len(fifo[f]) :
         /\ Mark(f, i) \in {"end", "cancelled"} => i = Len(fifo[f])
         /\ Mark(f, i) = "data" => f \notin verifyOnly
         /\ Mark(f, i) = "verify" => f \in verifyOnly
         /\ Mark(f, i) \in {"end", "cancelled", "failed"} => f \notin TapeQueued /\ ~ Reading(f)
         /\ f \in validated => Mark(f, i) \notin {"cancelled", "failed"}
    /\ fifo[f] # <<>> \/ f \in TapeQueued \/ Reading(f) => f \in Queued \union Taken
    /\ f \in TapeQueued => fifo[f] = <<>> /\ ~ Reading(f)
    /\ f \in TapeQueued \/ Reading(f) => f \notin validated

\* After b blocks the rest of the file is to come, in order, and a file that was not
\* validated does not end without a block that is marked as failed.
ComesWhole(f, b) ==
    /\ \A i \in 1..Len(fifo[f]) :
         /\ Mark(f, i) = "data" => fifo[f][i].n = b + i
         /\ Mark(f, i) = "end" /\ f \notin validated => i > 1 /\ Mark(f, i - 1) = "failed"
    /\ f \notin verifyOnly =>
         /\ f \in TapeQueued => b = 0
         /\ Reading(f) => b + Len(fifo[f]) = tapeBlock
         /\ f \in validated => b + Len(fifo[f]) = need[f] + 1

FilesFlow ==
    /\ \A f \in Files : FifoSound(f)
    /\ \A f \in Queued : ComesWhole(f, 0)
    /\ \A d \in DiskThreads : disk[d] = "write" => ComesWhole(diskFile[d], diskBlock[d])
    /\ \A d \in DiskThreads : disk[d] = "pop" => diskBlock[d] = 0
    /\ tape = "read" => tapeFile \in Files /\ tapeBlock < need[tapeFile]
    /\ tape # "read" => tapeBlock = 0
    /\ inj \in {"fetch", "test"} => tape = "off"

\* The tape thread only reads what was injected.
ReadAfterInjected ==
    \A f \in validated : f < next /\ f \notin InQueue(jobs) \union InQueue(batch)

\* The blocks of a file that wait for a writer; the end of the file is not a block.
Waiting(s) == IF s # <<>> /\ s[Len(s)] = EndOfFile THEN Len(s) - 1 ELSE Len(s)
Out == {b \in Files \X Nat : 1 <= b[2] /\ b[2] <= Waiting(fifo[b[1]])}
BlocksAccounted == IsFiniteSet(Out) /\ free + Cardinality(Out) = NbBlocks

\* A file whose completion was, or will be, reported was written whole.
Whole(f) == f \in validated /\ (f \in verifyOnly \/ onDisk[f] = need[f])
ReportsTrue ==
    /\ \A i \in 1..Len(reports) : /\ reports[i].type = "completed" => Whole(reports[i].file)
                                  /\ reports[i].type = "end" <=> reports[i].file = End
    /\ \A f \in successful \union completed : Whole(f)

-----------------------------------------------------------------------------
(* The end of the session                                                  *)

Exited(d) == disk[d] \in {"report", "done"}

\* Nothing is injected after the end marks, which are the last tasks.
InjectorEnds ==
    /\ reservationFailed => endSignaled /\ jobs = <<>>
    /\ inj \in {"wrapUp", "drain", "done"} => endSignaled
    /\ inj = "wait" /\ endSignaled => reservationFailed
    /\ endSignaled => inj \in {"wait", "wrapUp", "drain", "done"}
    /\ inj \notin {"pushFirst", "push"} => batch = <<>>
    /\ inj \in {"drain", "done"} => jobs = <<>>
    /\ \A i, j \in 1..Len(diskTasks) : i < j /\ diskTasks[i] = End => diskTasks[j] = End
    /\ \A i \in 1..Len(diskTasks) : diskTasks[i] = End => endSignaled
    /\ \A i \in 1..Len(tapeTasks) : tapeTasks[i] = End => endSignaled

\* A writer only ends when there are no files any more; `active' counts the others.
WritersEnd ==
    /\ \A d \in DiskThreads : disk[d] \in {"exit", "report", "done"} => endSignaled /\ Queued = {}
    /\ active = Cardinality({d \in DiskThreads : ~ Exited(d)})
    /\ diskDone <=> active = 0

\* The end of the session is the last report, and comes after all writers ended.
ReportsEnd ==
    /\ packer # "run" => diskDone /\ Reporting = {} /\ successful = {}
    /\ \A i \in 1..Len(reports) : reports[i].type = "end" => diskDone
    /\ \A i, j \in 1..Len(reports) : i < j /\ reports[i].type = "end" => reports[j].type = "end"

\* Without an error no file fails and no job is left behind.
CleanFiles ==
    /\ \A f \in Files : \A i \in 1..Len(fifo[f]) : Mark(f, i) \notin {"failed", "cancelled"}
    /\ \A d \in DiskThreads : disk[d] # "release"
    /\ \A i \in 1..Len(reports) : reports[i].type # "failed"
    /\ failed = {}

CleanJobs ==
    /\ dropped = {}
    /\ tape \notin {"cleanFailed", "flush"}
    /\ tape \in {"clean", "complete", "report", "done"} => endSignaled
    /\ \A i \in 1..Len(requests) : requests[i] = "end" => endSignaled
    /\ endSignaled => jobs = <<>>

SessionInv ==
    /\ TypeOK /\ JobsAccounted /\ FilesFlow /\ ReadAfterInjected /\ BlocksAccounted /\ ReportsTrue
    /\ InjectorEnds /\ WritersEnd /\ ReportsEnd
    /\ faults = 0 => CleanFiles /\ CleanJobs

-----------------------------------------------------------------------------
(* Moving jobs between places                                              *)

\* Files that leave one place for another are still at one place.
LEMMA Move ==
  ASSUME NEW n, NEW w, NEW v, OnePlace(w, n), NEW a \in Places, NEW b \in Places, a # b,
         NEW X, X \subseteq w[a], v[a] = w[a] \ X, v[b] = w[b] \union X,
         \A p \in Places \ {a, b} : v[p] = w[p]
  PROVE  OnePlace(v, n)
<1>1. ASSUME NEW p \in Places, NEW q \in Places, p # q PROVE v[p] \cap v[q] = {}
  BY <1>1 DEF OnePlace
<1>2. ASSUME NEW f \in Files PROVE (\E p \in Places : f \in v[p]) <=> \E p \in Places : f \in w[p]
  BY DEF OnePlace
<1> QED BY <1>1, <1>2 DEF OnePlace

\* Files that are fetched are new.
LEMMA Arrive ==
  ASSUME NEW n \in Nat, NEW k \in Nat, NEW w, NEW v, OnePlace(w, n), NEW a \in Places,
         \A p \in Places : w[p] \subseteq Files,
         v[a] = w[a] \union (n + 1)..(n + k),  n + k <= NbFiles,
         \A p \in Places \ {a} : v[p] = w[p]
  PROVE  OnePlace(v, n + k)
<1>1. Files \subseteq Nat /\ NbFiles \in Nat /\ \A f \in Nat : f \in Files <=> 1 <= f /\ f <= NbFiles
  BY RecallAssumption DEF Files
<1>2. \A p \in Places : w[p] \cap (n + 1)..(n + k) = {}
  BY <1>1 DEF OnePlace
<1>3. ASSUME NEW p \in Places, NEW q \in Places, p # q PROVE v[p] \cap v[q] = {}
  BY <1>2, <1>3 DEF OnePlace
<1>4. ASSUME NEW f \in Files PROVE f <= n + k <=> \E p \in Places : f \in v[p]
  <2>1. f \in Nat /\ f >= 1
    BY <1>1
  <2>2. f <= n + k <=> f <= n \/ f \in (n + 1)..(n + k)
    BY <2>1
  <2>3. (\E p \in Places : f \in v[p]) <=> (\E p \in Places : f \in w[p]) \/ f \in (n + 1)..(n + k)
    OBVIOUS
  <2> QED BY <2>2, <2>3 DEF OnePlace
<1> QED BY <1>3, <1>4 DEF OnePlace

\* The places, one by one.
LEMMA WhereIs ==
  /\ Where["jobs"] = InQueue(jobs) /\ Where["batch"] = InQueue(batch) /\ Where["queue"] = Queued
  /\ Where["disk"] = Taken /\ Where["reports"] = Reporting
  /\ Where["successful"] = successful /\ Where["completed"] = completed
  /\ Where["failed"] = failed /\ Where["requeued"] = requeued /\ Where["dropped"] = dropped
  BY DEF Where, Places

\* The same of the next state.
LEMMA WhereIsNext ==
  /\ Where'["jobs"] = InQueue(jobs') /\ Where'["batch"] = InQueue(batch') /\ Where'["queue"] = Queued'
  /\ Where'["disk"] = Taken' /\ Where'["reports"] = Reporting'
  /\ Where'["successful"] = successful' /\ Where'["completed"] = completed'
  /\ Where'["failed"] = failed' /\ Where'["requeued"] = requeued' /\ Where'["dropped"] = dropped'
  BY DEF Where, Places

\* A file is a positive number, and not the mark that ends a queue.
LEMMA FilesAre == Files \subseteq Nat /\ End \notin Files /\ NbFiles \in Nat
  BY RecallAssumption DEF Files, End

\* The jobs of a queue.
LEMMA RangeInQueue ==
  ASSUME NEW q \in Seq(Files) PROVE Range(q) = InQueue(q)
  BY DEF Range, InQueue

\* A task is put at the end of a queue.
LEMMA PushTask ==
  ASSUME NEW q \in Seq(Files \union {End}), NEW x \in Files \union {End}, x \notin InQueue(q), Once(q)
  PROVE  /\ Append(q, x) \in Seq(Files \union {End}) /\ Once(Append(q, x))
         /\ InQueue(Append(q, x)) = InQueue(q) \union ({x} \ {End})
<1>n. PICK n \in Nat : n = Len(q)
  OBVIOUS
<1>1. /\ Append(q, x) \in Seq(Files \union {End}) /\ Len(Append(q, x)) = n + 1
      /\ Append(q, x)[n + 1] = x /\ \A i \in 1..n : Append(q, x)[i] = q[i] /\ q[i] \in Files \union {End}
      /\ 1..n + 1 = (1..n) \union {n + 1} /\ n + 1 \notin 1..n
  BY <1>n
<1> DEFINE r == Append(q, x)
<1> HIDE DEF r
<1>2. /\ Len(r) = n + 1 /\ r[n + 1] = x /\ \A i \in 1..n : r[i] = q[i]
  BY <1>1 DEF r
<1>3. \A i \in 1..n : q[i] = x => x = End
  BY <1>n DEF InQueue
<1>4. Once(r)
  BY <1>n, <1>1, <1>2, <1>3 DEF Once
<1>5. InQueue(r) = InQueue(q) \union ({x} \ {End})
  BY <1>n, <1>1, <1>2, FilesAre DEF InQueue
<1> QED BY <1>1, <1>4, <1>5 DEF r

\* End marks are put at the end of a queue.
LEMMA PushEnds ==
  ASSUME NEW q \in Seq(Files \union {End}), NEW k \in Nat, Once(q)
  PROVE  LET r == q \o [i \in 1..k |-> End]
         IN  /\ r \in Seq(Files \union {End}) /\ Once(r) /\ InQueue(r) = InQueue(q)
             /\ (\A i, j \in 1..Len(q) : i < j /\ q[i] = End => q[j] = End) =>
                  \A i, j \in 1..Len(r) : i < j /\ r[i] = End => r[j] = End
<1> DEFINE e == [i \in 1..k |-> End]
           r == q \o e
<1>n. PICK n \in Nat : n = Len(q)
  OBVIOUS
<1>1. e \in Seq(Files \union {End}) /\ Len(e) = k /\ \A i \in 1..k : e[i] = End
  OBVIOUS
<1> HIDE DEF e
<1>2. /\ r \in Seq(Files \union {End}) /\ Len(r) = n + k
      /\ \A i \in 1..n : r[i] = q[i]
      /\ \A i \in 1..n + k : i > n => r[i] = e[i - n]
  BY <1>n, <1>1
<1> HIDE DEF r
<1>3. \A i \in 1..n + k : i > n => r[i] = End
  <2> SUFFICES ASSUME NEW i \in 1..n + k, i > n PROVE r[i] = End
    OBVIOUS
  <2>1. i - n \in 1..k
    OBVIOUS
  <2> QED BY <1>1, <1>2, <2>1
<1>4. \A i \in 1..n + k : i > n \/ i \in 1..n
  OBVIOUS
<1>4a. 1..n \subseteq 1..n + k
  OBVIOUS
<1>5. Once(r)
  BY <1>n, <1>2, <1>3, <1>4 DEF Once
<1>6. InQueue(r) = InQueue(q)
  BY <1>n, <1>2, <1>3, <1>4, <1>4a, FilesAre DEF InQueue
<1>7. (\A i, j \in 1..Len(q) : i < j /\ q[i] = End => q[j] = End) =>
        \A i, j \in 1..Len(r) : i < j /\ r[i] = End => r[j] = End
  BY <1>n, <1>2, <1>3, <1>4
<1> QED BY <1>2, <1>5, <1>6, <1>7 DEF r, e

\* The first task is taken from a queue.
LEMMA PopQueue ==
  ASSUME NEW q \in Seq(Files \union {End}), q # <<>>, Once(q)
  PROVE  /\ Tail(q) \in Seq(Files \union {End}) /\ Once(Tail(q)) /\ Head(q) \in Files \union {End}
         /\ InQueue(Tail(q)) = InQueue(q) \ {Head(q)}
         /\ Head(q) # End => Head(q) \in InQueue(q)
<1>n. PICK n \in Nat : n = Len(q) /\ n > 0
  OBVIOUS
<1>1. /\ Tail(q) \in Seq(Files \union {End}) /\ Head(q) = q[1] /\ q[1] \in Files \union {End}
      /\ Len(Tail(q)) = n - 1 /\ \A i \in 1..n - 1 : Tail(q)[i] = q[i + 1]
  BY <1>n
<1> DEFINE t == Tail(q)
<1>2. Len(t) = n - 1 /\ \A i \in 1..n - 1 : t[i] = q[i + 1] /\ i + 1 \in 1..n /\ i + 1 # 1
  BY <1>1
<1> HIDE DEF t
<1>3. \A i \in 1..n : i = 1 \/ \E j \in 1..n - 1 : i = j + 1
  <2> SUFFICES ASSUME NEW i \in 1..n, i # 1 PROVE \E j \in 1..n - 1 : i = j + 1
    OBVIOUS
  <2>1. i - 1 \in 1..n - 1 /\ i = (i - 1) + 1
    OBVIOUS
  <2> QED BY <2>1
<1>4. Once(t)
  BY <1>n, <1>2 DEF Once
<1>5. 1 \in 1..n
  BY <1>n
<1>6. ASSUME NEW f \in Files PROVE f \in InQueue(t) <=> f \in InQueue(q) /\ f # q[1]
  <2>1. f \in InQueue(t) <=> \E j \in 1..n - 1 : q[j + 1] = f
    BY <1>2 DEF InQueue
  <2>2. f \in InQueue(q) <=> \E i \in 1..n : q[i] = f
    BY <1>n DEF InQueue
  <2>3. ASSUME NEW j \in 1..n - 1, q[j + 1] = f PROVE f # q[1]
    BY <1>n, <1>2, <1>5, <2>3, FilesAre DEF Once
  <2> QED BY <1>2, <1>3, <2>1, <2>2, <2>3
<1>7. InQueue(t) = InQueue(q) \ {Head(q)}
  BY <1>1, <1>6 DEF InQueue
<1>8. Head(q) # End => Head(q) \in InQueue(q)
  BY <1>n, <1>1, <1>5 DEF InQueue
<1> QED BY <1>1, <1>4, <1>7, <1>8 DEF t

\* The jobs that a fetch adds are the next ones.
LEMMA FetchedJobs ==
  ASSUME InjectorOK, SynchronousFetch, Once(jobs), InQueue(jobs) \subseteq 1..next - 1
  PROVE  \E k \in Nat : /\ next' = next + k /\ next + k - 1 <= NbFiles /\ next' \in 1..NbFiles + 1
                        /\ jobs' \in Seq(Files) /\ Once(jobs')
                        /\ InQueue(jobs') = InQueue(jobs) \union (next - 1 + 1)..(next - 1 + k)
                        /\ k = 0 => jobs' = jobs
<1>1. PICK k \in 0..HoldLimit - Len(jobs) : /\ next + k - 1 <= NbFiles /\ next' = next + k
                                            /\ jobs' = jobs \o [i \in 1..k |-> next + i - 1]
  BY Zenon DEF SynchronousFetch
<1>n. PICK n \in Nat : n = Len(jobs)
  BY DEF InjectorOK
<1>h. HoldLimit \in Nat
  BY RecallAssumption DEF HoldLimit
<1>2. k \in Nat /\ next \in Nat /\ next >= 1 /\ NbFiles \in Nat /\ next' \in 1..NbFiles + 1
  BY <1>1, <1>h, <1>n, RecallAssumption DEF InjectorOK
<1> DEFINE e == [i \in 1..k |-> next + i - 1]
<1>3. e \in Seq(Files) /\ Len(e) = k /\ \A i \in 1..k : e[i] = next + i - 1
  BY <1>1, <1>2 DEF Files
<1> HIDE DEF e
<1>4. /\ jobs' \in Seq(Files) /\ Len(jobs') = n + k
      /\ \A i \in 1..n : jobs'[i] = jobs[i]
      /\ \A i \in 1..n + k : i > n => jobs'[i] = e[i - n]
  BY <1>1, <1>2, <1>3, <1>n DEF InjectorOK, e
<1>5. \A i \in 1..n + k : i > n => jobs'[i] = next - 1 + (i - n) /\ i - n \in 1..k
  <2> SUFFICES ASSUME NEW i \in 1..n + k, i > n
               PROVE  jobs'[i] = next - 1 + (i - n) /\ i - n \in 1..k
    OBVIOUS
  <2>1. i - n \in 1..k
    BY <1>2
  <2> QED BY <1>2, <1>3, <1>4, <2>1
<1>6. \A i \in 1..n + k : i > n \/ i \in 1..n
  BY <1>2
<1>7. \A i \in 1..n : jobs[i] \in 1..next - 1 /\ jobs[i] \in InQueue(jobs)
  BY <1>n DEF InQueue, InjectorOK
<1>8. Once(jobs')
  <2> SUFFICES ASSUME NEW i \in 1..n + k, NEW j \in 1..n + k, jobs'[i] = jobs'[j] PROVE i = j
    BY <1>4 DEF Once
  <2>1. CASE i \in 1..n /\ j \in 1..n
    BY <1>n, <1>4, <1>7, <2>1, FilesAre DEF Once, InjectorOK, End
  <2>2. CASE i \in 1..n /\ j > n
    BY <1>2, <1>4, <1>5, <1>7, <2>2
  <2>3. CASE i > n /\ j \in 1..n
    BY <1>2, <1>4, <1>5, <1>7, <2>3
  <2>4. CASE i > n /\ j > n
    BY <1>2, <1>5, <2>4
  <2> QED BY <1>6, <2>1, <2>2, <2>3, <2>4
<1>9. InQueue(jobs') = InQueue(jobs) \union (next - 1 + 1)..(next - 1 + k)
  <2>1. ASSUME NEW f \in InQueue(jobs') PROVE f \in InQueue(jobs) \union (next - 1 + 1)..(next - 1 + k)
    <3>1. PICK i \in 1..n + k : f = jobs'[i]
      BY <1>4 DEF InQueue
    <3>2. CASE i \in 1..n
      BY <1>4, <1>7, <3>1, <3>2
    <3>3. CASE i > n
      BY <1>2, <1>5, <3>1, <3>3
    <3> QED BY <1>6, <3>2, <3>3
  <2>2. ASSUME NEW f \in InQueue(jobs) PROVE f \in InQueue(jobs')
    <3>1. PICK i \in 1..n : f = jobs[i]
      BY <1>n DEF InQueue
    <3>2. i \in 1..n + k /\ jobs'[i] = f
      BY <1>2, <1>4, <3>1
    <3> QED BY <1>4, <3>2 DEF InQueue
  <2>3. ASSUME NEW f \in (next - 1 + 1)..(next - 1 + k) PROVE f \in InQueue(jobs')
    <3>1. PICK m \in 1..k : f = next - 1 + m
      <4>1. f - (next - 1) \in 1..k /\ f = next - 1 + (f - (next - 1))
        BY <1>2
      <4> QED BY <4>1
    <3>2. n + m \in 1..n + k /\ n + m > n /\ (n + m) - n = m
      BY <1>2
    <3>3. jobs'[n + m] = f
      BY <1>5, <3>1, <3>2
    <3>4. f \in Files
      BY <1>1, <1>2 DEF Files
    <3> QED BY <1>4, <3>2, <3>3, <3>4 DEF InQueue
  <2> QED BY <2>1, <2>2, <2>3
<1>10. k = 0 => jobs' = jobs
  <2> SUFFICES ASSUME k = 0 PROVE jobs' = jobs
    OBVIOUS
  <2>1. Len(jobs') = Len(jobs) /\ \A i \in 1..Len(jobs) : jobs'[i] = jobs[i]
    BY <1>n, <1>4
  <2> QED BY <1>4, <2>1 DEF InjectorOK
<1> QED BY <1>1, <1>2, <1>4, <1>8, <1>9, <1>10

\* The jobs of a batch are jobs that are held, each once.
LEMMA BatchJobs ==
  ASSUME InjectorOK, NEW s \in Batches, Once(jobs)
  PROVE  s \in Seq(Files) /\ Once(s) /\ InQueue(s) \subseteq InQueue(jobs) /\ Len(s) <= Len(jobs)
<1>n. PICK n \in Nat : n = Len(jobs)
  BY DEF InjectorOK
<1>e. \A i \in 1..n : jobs[i] \in Files
  BY <1>n DEF InjectorOK
<1>1. CASE n = 0
  <2>1. s = <<>>
    BY <1>n, <1>1 DEF Batches
  <2> QED BY <1>n, <2>1 DEF Once, InQueue
<1>2. CASE n # 0
  <2>1. PICK k \in 1..n : \/ s \in {[i \in 1..k |-> jobs[o[i]]] : o \in Injection(1..k, 1..n)}
                          \/ s = SubSeq(jobs, 1, k)
    BY <1>n, <1>2 DEF Batches
  <2>2. PICK o \in [1..k -> 1..n] : /\ \A i, j \in 1..k : o[i] = o[j] => i = j
                                    /\ s = [i \in 1..k |-> jobs[o[i]]]
    <3>1. CASE s \in {[i \in 1..k |-> jobs[o[i]]] : o \in Injection(1..k, 1..n)}
      BY <3>1 DEF Injection, IsInjective
    <3>2. CASE s = SubSeq(jobs, 1, k)
      <4> DEFINE o == [i \in 1..k |-> i]
      <4>1. o \in [1..k -> 1..n] /\ \A i \in 1..k : o[i] = i
        OBVIOUS
      <4>2. s = [i \in 1..k |-> jobs[i]]
        BY <1>n, <3>2 DEF InjectorOK
      <4>3. [i \in 1..k |-> jobs[i]] = [i \in 1..k |-> jobs[o[i]]]
        BY <4>1
      <4> HIDE DEF o
      <4> QED BY <4>1, <4>2, <4>3
    <3> QED BY <2>1, <3>1, <3>2
  <2>3. \A i \in 1..k : o[i] \in 1..n /\ s[i] = jobs[o[i]] /\ s[i] \in Files
    BY <1>e, <2>2
  <2>4. s \in Seq(Files) /\ Len(s) = k
    BY <1>e, <2>2
  <2>5. Once(s)
    BY <1>n, <2>2, <2>3, <2>4 DEF Once
  <2>6. InQueue(s) \subseteq InQueue(jobs)
    BY <1>n, <2>3, <2>4 DEF InQueue
  <2> QED BY <1>n, <2>4, <2>5, <2>6
<1> QED BY <1>1, <1>2

\* The jobs that are kept are the others.
LEMMA KeptJobs ==
  ASSUME InjectorOK, NEW s \in Batches, Once(jobs), NEW t \in Kept(s)
  PROVE  t \in Seq(Files) /\ Once(t) /\ InQueue(t) = InQueue(jobs) \ InQueue(s)
<1>n. PICK n \in Nat : n = Len(jobs)
  BY DEF InjectorOK
<1>1. s \in Seq(Files) /\ Len(s) <= n /\ Len(s) \in Nat
  BY <1>n, BatchJobs
<1>2. Range(jobs) = InQueue(jobs) /\ Range(s) = InQueue(s)
  BY <1>1, RangeInQueue DEF InjectorOK
<1>m. PICK m \in Nat : m = n - Len(s)
  BY <1>1
<1>3. /\ t \in [1..m -> InQueue(jobs) \ InQueue(s)]
      /\ \A x \in InQueue(jobs) \ InQueue(s) : \E i \in 1..m : t[i] = x
      /\ \A i, j \in 1..m : i < j => \E a, b \in 1..n : a < b /\ t[i] = jobs[a] /\ t[j] = jobs[b]
  <2>1. /\ t \in Surjection(1..m, InQueue(jobs) \ InQueue(s))
        /\ \A i, j \in DOMAIN t :
             i < j => \E a, b \in 1..n : a < b /\ t[i] = jobs[a] /\ t[j] = jobs[b]
    BY <1>n, <1>m, <1>2 DEF Kept
  <2>2. DOMAIN t = 1..m
    BY <2>1 DEF Surjection
  <2> QED BY <2>1, <2>2 DEF Surjection
<1>4. t \in Seq(Files) /\ Len(t) = m
  BY <1>3 DEF InQueue
<1>5. Once(t)
  <2> SUFFICES ASSUME NEW i \in 1..m, NEW j \in 1..m, t[i] = t[j], i < j PROVE FALSE
    BY <1>4 DEF Once
  <2>1. PICK a \in 1..n, b \in 1..n : a < b /\ t[i] = jobs[a] /\ t[j] = jobs[b]
    BY <1>3
  <2>2. jobs[a] \in Files /\ jobs[a] # End /\ jobs[a] = jobs[b]
    <3>1. jobs[a] = jobs[b]
      BY <2>1
    <3>2. a \in 1..Len(jobs) /\ jobs \in Seq(Files)
      BY <1>n DEF InjectorOK
    <3>3. jobs[a] \in Files
      BY <3>2
    <3> QED BY <3>1, <3>3, FilesAre
  <2>3. a = b
    BY <1>n, <2>2 DEF Once
  <2> QED BY <2>1, <2>3
<1>6. InQueue(t) = InQueue(jobs) \ InQueue(s)
  BY <1>3, <1>4 DEF InQueue
<1> QED BY <1>4, <1>5, <1>6

\* Files move from a place to another one, and no job is fetched.
LEMMA Moved ==
  ASSUME OnePlace(Where, next - 1), next' = next, NEW a \in Places, NEW b \in Places, a # b,
         NEW X, X \subseteq Where[a], Where'[a] = Where[a] \ X, Where'[b] = Where[b] \union X,
         \A p \in Places \ {a, b} : Where'[p] = Where[p]
  PROVE  OnePlace(Where, next - 1)'
<1>1. PICK w, v : w = Where /\ v = Where'
  OBVIOUS
<1>2. OnePlace(w, next - 1)
  BY <1>1
<1>3. OnePlace(v, next - 1)
  BY <1>1, <1>2, Move
<1> QED BY <1>1, <1>3

\* Files move from a place to two other ones.
Apart(w, v, a, b, c, X, T) ==
    /\ a \in Places /\ b \in Places /\ c \in Places /\ a # b /\ a # c /\ b # c
    /\ X \subseteq w[a] /\ T \subseteq X
    /\ v[a] = w[a] \ X /\ v[b] = w[b] \union (X \ T) /\ v[c] = w[c] \union T
    /\ \A p \in Places \ {a, b, c} : v[p] = w[p]

LEMMA MovedApart ==
  ASSUME NEW n, NEW w, NEW v, OnePlace(w, n),
         NEW a, NEW b, NEW c, NEW X, NEW T, Apart(w, v, a, b, c, X, T)
  PROVE  OnePlace(v, n)
<1>1. /\ a \in Places /\ b \in Places /\ c \in Places /\ a # b /\ a # c /\ b # c
      /\ X \subseteq w[a] /\ T \subseteq X
      /\ v[a] = w[a] \ X /\ v[b] = w[b] \union (X \ T) /\ v[c] = w[c] \union T
      /\ \A p \in Places \ {a, b, c} : v[p] = w[p]
  BY DEF Apart
<1>2. PICK u : u = [p \in Places |-> IF p = a THEN w[a] \ T ELSE IF p = c THEN w[c] \union T ELSE w[p]]
  OBVIOUS
<1>3. u[a] = w[a] \ T /\ u[c] = w[c] \union T /\ \A p \in Places \ {a, c} : u[p] = w[p]
  BY <1>1, <1>2
<1>4. T \subseteq w[a]
  BY <1>1
<1>5. OnePlace(u, n)
  BY <1>1, <1>3, <1>4, Move
<1>6. PICK Y : Y = X \ T
  OBVIOUS
<1>7. /\ v[a] = u[a] \ Y /\ v[b] = u[b] \union Y /\ Y \subseteq u[a]
      /\ \A p \in Places \ {a, b} : v[p] = u[p]
  BY <1>1, <1>3, <1>6
<1> QED BY <1>1, <1>5, <1>7, Move

\* No job moves.
LEMMA NotMoved ==
  ASSUME OnePlace(Where, next - 1), next' = next, \A p \in Places : Where'[p] = Where[p]
  PROVE  OnePlace(Where, next - 1)'
<1>1. PICK w, v : w = Where /\ v = Where'
  OBVIOUS
<1>2. OnePlace(w, next - 1)
  BY <1>1
<1>3. OnePlace(v, next - 1)
  BY <1>1, <1>2 DEF OnePlace
<1> QED BY <1>1, <1>3

\* A fact about the fields of a report.
LEMMA ReportFields ==
  ASSUME NEW r \in ReportSet
  PROVE  r.type \in {"completed", "failed", "end"} /\ r.file \in Files \union {End}
  BY DEF ReportSet

\* A report is queued.
LEMMA ReportPut ==
  ASSUME reports \in Seq(ReportSet), NEW r \in ReportSet, reports' = Append(reports, r)
  PROVE  /\ reports' \in Seq(ReportSet)
         /\ Reporting' = Reporting \union ({r.file} \ {End})
         /\ ReportsOnce /\ r.file \notin Reporting => ReportsOnce'
         /\ \E n \in Nat : /\ n = Len(reports) /\ Len(reports') = n + 1 /\ reports'[n + 1] = r
                           /\ \A i \in 1..n : reports'[i] = reports[i]
                           /\ \A i \in 1..n + 1 : i \in 1..n \/ i = n + 1
<1>n. PICK n \in Nat : n = Len(reports)
  OBVIOUS
<1>1. /\ reports' \in Seq(ReportSet) /\ Len(reports') = n + 1 /\ reports'[n + 1] = r
      /\ \A i \in 1..n : reports'[i] = reports[i] /\ reports[i] \in ReportSet
      /\ 1..n + 1 = (1..n) \union {n + 1} /\ n + 1 \notin 1..n
  BY <1>n
<1>2. Reporting' = Reporting \union ({r.file} \ {End})
  <2>1. r.file \in Files \union {End}
    BY ReportFields
  <2>2. ASSUME NEW f \in Files
        PROVE  f \in Reporting' <=> f \in Reporting \/ r.file = f
    BY <1>n, <1>1 DEF Reporting
  <2> QED BY <2>1, <2>2, FilesAre DEF Reporting
<1>3. ASSUME ReportsOnce, r.file \notin Reporting PROVE ReportsOnce'
  <2>1. \A i \in 1..n : reports[i].file \in Files \union {End}
    BY <1>1, ReportFields
  <2>2. \A i \in 1..n : reports[i].file = r.file => r.file = End
    BY <1>n, <1>3, <2>1 DEF Reporting
  <2>3. ASSUME NEW i \in 1..n + 1, NEW j \in 1..n + 1, reports'[i].file = reports'[j].file,
               reports'[i].file # End
        PROVE  i = j
    <3>1. CASE i \in 1..n /\ j \in 1..n
      BY <1>n, <1>1, <1>3, <2>3, <3>1 DEF ReportsOnce
    <3>2. CASE i = n + 1 /\ j \in 1..n
      BY <1>1, <2>2, <2>3, <3>2
    <3>3. CASE i \in 1..n /\ j = n + 1
      BY <1>1, <2>2, <2>3, <3>3
    <3> QED BY <1>1, <3>1, <3>2, <3>3
  <2> QED BY <1>1, <2>3 DEF ReportsOnce
<1> QED BY <1>n, <1>1, <1>2, <1>3

\* A report is taken.
LEMMA ReportTaken ==
  ASSUME reports \in Seq(ReportSet), reports # <<>>, reports' = Tail(reports), ReportsOnce
  PROVE  /\ reports' \in Seq(ReportSet) /\ Head(reports) \in ReportSet
         /\ Reporting' = Reporting \ {Head(reports).file}
         /\ Head(reports).file # End => Head(reports).file \in Reporting
         /\ ReportsOnce'
         /\ \E n \in Nat : /\ n + 1 = Len(reports) /\ Len(reports') = n
                           /\ Head(reports) = reports[1]
                           /\ \A i \in 1..n : reports'[i] = reports[i + 1] /\ i + 1 \in 1..n + 1
<1>n. PICK n \in Nat : n + 1 = Len(reports)
  <2>1. Len(reports) \in Nat /\ Len(reports) > 0
    OBVIOUS
  <2>2. (Len(reports) - 1) \in Nat /\ (Len(reports) - 1) + 1 = Len(reports)
    BY <2>1
  <2> QED BY <2>2
<1>1. /\ reports' \in Seq(ReportSet) /\ Head(reports) = reports[1] /\ reports[1] \in ReportSet
      /\ Len(reports') = n /\ \A i \in 1..n : reports'[i] = reports[i + 1]
  BY <1>n
<1>2. \A i \in 1..n : i + 1 \in 1..n + 1 /\ i + 1 # 1
  OBVIOUS
<1>3. \A i \in 1..n + 1 : i = 1 \/ \E j \in 1..n : i = j + 1
  <2> SUFFICES ASSUME NEW i \in 1..n + 1, i # 1 PROVE \E j \in 1..n : i = j + 1
    OBVIOUS
  <2>1. i - 1 \in 1..n /\ i = (i - 1) + 1
    OBVIOUS
  <2> QED BY <2>1
<1>4. 1 \in 1..n + 1
  OBVIOUS
<1>5. ASSUME NEW f \in Files PROVE f \in Reporting' <=> f \in Reporting /\ f # reports[1].file
  <2>1. f \in Reporting' <=> \E j \in 1..n : reports[j + 1].file = f
    BY <1>1 DEF Reporting
  <2>2. f \in Reporting <=> \E i \in 1..n + 1 : reports[i].file = f
    BY <1>n DEF Reporting
  <2>3. ASSUME NEW j \in 1..n, reports[j + 1].file = f PROVE f # reports[1].file
    BY <1>n, <1>2, <1>4, <2>3, FilesAre DEF ReportsOnce
  <2> QED BY <1>2, <1>3, <2>1, <2>2, <2>3
<1>6. Reporting' = Reporting \ {Head(reports).file}
  BY <1>1, <1>5 DEF Reporting
<1>7. Head(reports).file # End => Head(reports).file \in Reporting
  BY <1>n, <1>1, <1>4, ReportFields DEF Reporting
<1>8. ReportsOnce'
  <2> SUFFICES ASSUME NEW i \in 1..n, NEW j \in 1..n, reports'[i].file = reports'[j].file,
                      reports'[i].file # End
               PROVE  i = j
    BY <1>1 DEF ReportsOnce
  <2>1. i + 1 = j + 1
    BY <1>n, <1>1, <1>2 DEF ReportsOnce
  <2> QED BY <2>1
<1> QED BY <1>n, <1>1, <1>2, <1>6, <1>7, <1>8

-----------------------------------------------------------------------------
(* What the parts of the invariant depend on                               *)

\* The errors are counted.
LEMMA FaultGrows ==
  ASSUME faults \in 0..MaxFaults, Fault \/ UNCHANGED faults
  PROVE  faults' \in 0..MaxFaults /\ (faults' = 0 => faults = 0 /\ UNCHANGED faults)
  BY RecallAssumption DEF Fault

\* The flow of the files depends on these variables only ...
LEMMA FlowFrame ==
  ASSUME FilesFlow, TapeQueued' = TapeQueued, Queued' = Queued,
         UNCHANGED <<fifo, need, verifyOnly, tape, tapeFile, tapeBlock, validated, disk, diskFile,
                     diskBlock>>,
         inj' \in {"fetch", "test"} => tape = "off"
  PROVE  FilesFlow'
<1>1. Taken' = Taken /\ \A f : Reading(f)' <=> Reading(f)
  BY DEF Taken, Busy, Reading
<1>2. \A f, i : Mark(f, i)' = Mark(f, i)
  BY DEF Mark
<1>3. \A f : FifoSound(f)' <=> FifoSound(f)
  BY <1>1, <1>2 DEF FifoSound
<1>4. \A f, b : ComesWhole(f, b)' <=> ComesWhole(f, b)
  BY <1>1, <1>2 DEF ComesWhole
<1> QED BY <1>3, <1>4 DEF FilesFlow

\* ... and so do the account of the blocks,
LEMMA BlocksFrame ==
  ASSUME BlocksAccounted, UNCHANGED <<fifo, free>>
  PROVE  BlocksAccounted'
  BY DEF BlocksAccounted, Out

\* the truth of the reports,
LEMMA ReportsFrame ==
  ASSUME ReportsTrue, UNCHANGED <<reports, validated, onDisk, need, verifyOnly, successful, completed>>
  PROVE  ReportsTrue'
  BY DEF ReportsTrue, Whole

\* the order of their end,
LEMMA ReportsEndFrame ==
  ASSUME ReportsEnd, UNCHANGED <<packer, diskDone, reports, successful>>
  PROVE  ReportsEnd'
  BY DEF ReportsEnd, Reporting

\* the end marks
LEMMA InjectorFrame ==
  ASSUME InjectorEnds, UNCHANGED <<injVars, tapeTasks, diskTasks>>
  PROVE  InjectorEnds'
  BY DEF InjectorEnds, injVars

\* and the end of the writers.
LEMMA WritersFrame ==
  ASSUME WritersEnd, UNCHANGED <<disk, active, diskDone, endSignaled>>, Queued' = Queued
  PROVE  WritersEnd'
  BY DEF WritersEnd, Exited

-----------------------------------------------------------------------------
(* The task injector                                                       *)

\* The parts of the state the injector leaves alone.
InjectorOnly ==
    UNCHANGED <<useRAO, need, verifyOnly, reports, free, fifo, tapeFile, tapeBlock, validated,
                tapeDone, diskDone, diskVars, packerVars>>

\* What the steps of the injector have in common.
LEMMA InjectorKeeps ==
  ASSUME SessionInv, InjectorOnly
  PROVE  /\ BlocksAccounted' /\ ReportsTrue' /\ ReportsEnd' /\ DisksOK' /\ Reporting' = Reporting
         /\ Taken' = Taken /\ ReportsOnce' /\ WritersApart'
         /\ (tape' \in {"mount", tape} => TapeOK')
         /\ CleanFiles => CleanFiles'
<1>1. /\ UNCHANGED <<need, verifyOnly, reports, free, fifo, validated, diskDone>>
      /\ UNCHANGED <<disk, diskFile, diskBlock, verifying, active, onDisk>>
      /\ UNCHANGED <<packer, successful, completed, failed, tapeFile, tapeBlock, tapeDone>>
  BY DEF InjectorOnly, diskVars, packerVars
<1>2. BlocksAccounted' /\ ReportsTrue' /\ ReportsEnd'
  BY <1>1, BlocksFrame, ReportsFrame, ReportsEndFrame DEF SessionInv
<1>3. DisksOK' /\ Reporting' = Reporting /\ Taken' = Taken /\ ReportsOnce' /\ WritersApart'
  BY <1>1 DEF SessionInv, TypeOK, DisksOK, Reporting, Taken, Busy, JobsAccounted, ReportsOnce,
              WritersApart
<1>4. tape' \in {"mount", tape} => TapeOK'
  BY <1>1 DEF SessionInv, TypeOK, TapeOK
<1>5. CleanFiles => CleanFiles'
  BY <1>1 DEF CleanFiles, Mark
<1> QED BY <1>2, <1>3, <1>4, <1>5

\* The end marks are the last tasks.
LEMMA EndMarks ==
  ASSUME SessionInv, SignalEndDataMovement
  PROVE  /\ tapeTasks' \in Seq(Files \union {End}) /\ diskTasks' \in Seq(Files \union {End})
         /\ Once(tapeTasks') /\ Once(diskTasks') /\ TapeQueued' = TapeQueued /\ Queued' = Queued
         /\ endSignaled' = TRUE
         /\ \A i, j \in 1..Len(diskTasks') : i < j /\ diskTasks'[i] = End => diskTasks'[j] = End
<1>1. /\ tapeTasks \in Seq(Files \union {End}) /\ diskTasks \in Seq(Files \union {End})
      /\ Once(tapeTasks) /\ Once(diskTasks)
      /\ \A i, j \in 1..Len(diskTasks) : i < j /\ diskTasks[i] = End => diskTasks[j] = End
  BY DEF SessionInv, TypeOK, QueuesOK, JobsAccounted, InjectorEnds
<1>2. endSignaled' = TRUE
  BY DEF SignalEndDataMovement
<1>3. CASE UNCHANGED <<tapeTasks, diskTasks>>
  BY <1>1, <1>2, <1>3 DEF TapeQueued, Queued
<1>4. CASE /\ tapeTasks' = Append(tapeTasks, End)
           /\ diskTasks' = diskTasks \o [i \in 1..Cardinality(DiskThreads) |-> End]
  <2>1. /\ tapeTasks' \in Seq(Files \union {End}) /\ Once(tapeTasks')
        /\ InQueue(tapeTasks') = InQueue(tapeTasks)
    <3>1. End \notin InQueue(tapeTasks) /\ {End} \ {End} = {}
      BY FilesAre DEF InQueue
    <3>2. PICK e \in Files \union {End} : e = End
      OBVIOUS
    <3>3. /\ Append(tapeTasks, e) \in Seq(Files \union {End}) /\ Once(Append(tapeTasks, e))
          /\ InQueue(Append(tapeTasks, e)) = InQueue(tapeTasks) \union ({e} \ {End})
      BY <1>1, <3>1, <3>2, PushTask
    <3>4. tapeTasks' = Append(tapeTasks, e)
      BY <1>4, <3>2
    <3> QED BY <3>1, <3>2, <3>3, <3>4
  <2>2. Cardinality(DiskThreads) \in Nat
    BY RecallAssumption, FS_CardinalityType
  <2>3. PICK m \in Nat : m = Cardinality(DiskThreads)
    BY <2>2
  <2>4. /\ diskTasks' \in Seq(Files \union {End}) /\ Once(diskTasks')
        /\ InQueue(diskTasks') = InQueue(diskTasks)
        /\ \A i, j \in 1..Len(diskTasks') : i < j /\ diskTasks'[i] = End => diskTasks'[j] = End
    <3>1. diskTasks' = diskTasks \o [i \in 1..m |-> End]
      BY <1>4, <2>3
    <3> QED BY <1>1, <3>1, PushEnds
  <2> QED BY <1>2, <2>1, <2>4 DEF TapeQueued, Queued
<1> QED BY <1>3, <1>4 DEF SignalEndDataMovement

\* A step of the injector keeps the invariant when it keeps the parts it may disturb.
LEMMA InjectorAssembled ==
  ASSUME SessionInv, InjectorOnly, QueuesOK', InjectorOK', OutcomesOK', tape' \in {"mount", tape},
         OnePlace(Where, next - 1)', Once(jobs'), Once(batch'), Once(diskTasks'), Once(tapeTasks'),
         FilesFlow', ReadAfterInjected', InjectorEnds', WritersEnd',
         faults' = 0 => faults = 0, faults' = 0 /\ CleanJobs => CleanJobs'
  PROVE  SessionInv'
<1>1. /\ BlocksAccounted' /\ ReportsTrue' /\ ReportsEnd' /\ DisksOK' /\ ReportsOnce' /\ WritersApart'
      /\ TapeOK' /\ (CleanFiles => CleanFiles')
  BY InjectorKeeps
<1>2. TypeOK'
  BY <1>1 DEF TypeOK
<1>3. JobsAccounted'
  BY <1>1 DEF JobsAccounted
<1>4. faults' = 0 => CleanFiles' /\ CleanJobs'
  BY <1>1 DEF SessionInv
<1> QED BY <1>1, <1>2, <1>3, <1>4 DEF SessionInv

\* A step that injects nothing does not disturb the tape thread or the disk writers.
LEMMA InjectorQuiet ==
  ASSUME SessionInv, InjectorOnly, Queued' = Queued, TapeQueued' = TapeQueued, tape' = tape,
         inj' \in {"fetch", "test"} => inj = "fetch", endSignaled => endSignaled'
  PROVE  FilesFlow' /\ WritersEnd'
<1>1. UNCHANGED <<fifo, need, verifyOnly, tapeFile, tapeBlock, validated, disk, diskFile, diskBlock,
                  active, diskDone>>
  BY DEF InjectorOnly, diskVars
<1>2. inj' \in {"fetch", "test"} => tape = "off"
  BY DEF SessionInv, FilesFlow
<1>3. FilesFlow'
  BY <1>1, <1>2, FlowFrame DEF SessionInv
<1>4. WritersEnd'
  BY <1>1 DEF SessionInv, WritersEnd, Exited
<1> QED BY <1>3, <1>4

\* The injector fetches jobs.
LEMMA FetchKeeps ==
  ASSUME SessionInv, InjectorOnly, SynchronousFetch,
         UNCHANGED <<tapeTasks, diskTasks, batch, reservationFailed, endSignaled, tape, requeued,
                     dropped, faults>>,
         inj' \in {"test", "empty", "first", "inject"}, inj \in {"fetch", "rao", "wait"},
         inj' = "test" => inj = "fetch", inj = "wait" => ~ reservationFailed,
         lastCall' \in BOOLEAN, raoPromise' \in BOOLEAN, firstTasksInjected' \in BOOLEAN,
         requests' \in Seq({"more", "last", "end"}),
         CleanJobs => \A i \in 1..Len(requests') : requests'[i] = "end" => endSignaled
  PROVE  SessionInv'
<1>0. /\ UNCHANGED <<useRAO, need, verifyOnly, reports, free, fifo>>
      /\ UNCHANGED <<packer, successful, completed, failed>>
  BY DEF InjectorOnly, packerVars
<1>1. /\ InjectorOK /\ Once(jobs) /\ OnePlace(Where, next - 1) /\ next \in Nat /\ next >= 1
      /\ NbFiles \in Nat /\ OutcomesOK /\ Once(batch) /\ Once(diskTasks) /\ Once(tapeTasks)
  BY RecallAssumption DEF SessionInv, TypeOK, InjectorOK, JobsAccounted
<1>2. \A p \in Places : Where[p] \subseteq Files
  BY <1>1, WhereIs DEF Places, InQueue, Queued, Taken, Reporting, OutcomesOK
<1>3. InQueue(jobs) \subseteq 1..next - 1
  <2> SUFFICES ASSUME NEW f \in InQueue(jobs) PROVE f \in 1..next - 1
    OBVIOUS
  <2>1. f \in Files /\ f \in Where["jobs"] /\ "jobs" \in Places
    BY WhereIs DEF InQueue, Places
  <2>2. f <= next - 1
    BY <1>1, <2>1 DEF OnePlace
  <2> QED BY <1>1, <2>1, <2>2 DEF Files
<1>4. PICK k \in Nat : /\ next' = next + k /\ next + k - 1 <= NbFiles /\ next' \in 1..NbFiles + 1
                       /\ jobs' \in Seq(Files) /\ Once(jobs')
                       /\ InQueue(jobs') = InQueue(jobs) \union (next - 1 + 1)..(next - 1 + k)
  BY <1>1, <1>3, FetchedJobs
<1>5. OnePlace(Where, next - 1)'
  <2>1. /\ Where'["jobs"] = Where["jobs"] \union (next - 1 + 1)..(next - 1 + k)
        /\ \A p \in Places \ {"jobs"} : Where'[p] = Where[p]
    <3>1. Reporting' = Reporting /\ Taken' = Taken /\ Queued' = Queued
      BY InjectorKeeps DEF Queued
    <3> QED BY <1>0, <1>4, <3>1, WhereIs, WhereIsNext DEF Places
  <2>2. PICK w, v : w = Where /\ v = Where'
    OBVIOUS
  <2>3. PICK m \in Nat : m = next - 1
    BY <1>1
  <2>4. OnePlace(w, m) /\ m + k <= NbFiles /\ "jobs" \in Places
    BY <1>1, <1>4, <2>2, <2>3 DEF Places
  <2>5. OnePlace(v, m + k)
    BY <1>2, <2>1, <2>2, <2>3, <2>4, Arrive
  <2>6. m + k = next' - 1
    BY <1>1, <1>4, <2>3
  <2> QED BY <2>2, <2>5, <2>6
<1>6. ~ endSignaled
  BY DEF SessionInv, InjectorEnds
<1>7. QueuesOK' /\ InjectorOK' /\ OutcomesOK'
  BY <1>0, <1>1, <1>4 DEF SessionInv, TypeOK, QueuesOK, InjectorOK, OutcomesOK
<1>8. FilesFlow' /\ WritersEnd'
  BY InjectorQuiet DEF Queued, TapeQueued
<1>9. ReadAfterInjected'
  <2>1. UNCHANGED validated /\ validated \subseteq Nat
    BY FilesAre DEF InjectorOnly, SessionInv, TypeOK, TapeOK
  <2>2. \A f \in validated : f < next + k /\ f \notin (next - 1 + 1)..(next - 1 + k)
    BY <1>1, <2>1 DEF SessionInv, ReadAfterInjected
  <2> QED BY <1>4, <2>1, <2>2 DEF SessionInv, ReadAfterInjected
<1>10. InjectorEnds'
  BY <1>6 DEF SessionInv, InjectorEnds
<1>11. CleanJobs => CleanJobs'
  BY <1>6 DEF CleanJobs
<1> QED BY <1>1, <1>4, <1>5, <1>7, <1>8, <1>9, <1>10, <1>11, InjectorAssembled

\* Jobs the injector holds are requeued or dropped, and the session may be ended.
LEMMA JobsLeave ==
  ASSUME SessionInv, InjectorOnly, UNCHANGED <<tape, batch, next>>,
         SignalEndDataMovement \/ UNCHANGED <<tapeTasks, diskTasks, endSignaled>>,
         jobs' \in Seq(Files), Once(jobs'), NEW X, X \subseteq InQueue(jobs),
         InQueue(jobs') = InQueue(jobs) \ X,
         \/ requeued' = requeued \union X /\ UNCHANGED dropped
         \/ dropped' = dropped \union X /\ UNCHANGED requeued
         \/ \E T \in SUBSET X : requeued' = requeued \union (X \ T) /\ dropped' = dropped \union T,
         Fault \/ UNCHANGED faults,
         inj' \in {"empty", "wait", "wrapUp", "drain", "done", "dead"},
         requests' \in Seq({"more", "last", "end"}), lastCall' \in BOOLEAN,
         reservationFailed' \in BOOLEAN, raoPromise' \in BOOLEAN, firstTasksInjected' \in BOOLEAN,
         InjectorEnds', faults' = 0 /\ faults = 0 /\ CleanJobs => CleanJobs'
  PROVE  SessionInv'
<1>0. /\ UNCHANGED <<useRAO, need, verifyOnly, reports, free, fifo, validated>>
      /\ UNCHANGED <<packer, successful, completed, failed>>
  BY DEF InjectorOnly, packerVars
<1>1. /\ InjectorOK /\ QueuesOK /\ OutcomesOK /\ OnePlace(Where, next - 1) /\ Once(batch)
      /\ Once(tapeTasks) /\ Once(diskTasks) /\ ReadAfterInjected
  BY DEF SessionInv, TypeOK, JobsAccounted
<1>2. /\ tapeTasks' \in Seq(Files \union {End}) /\ diskTasks' \in Seq(Files \union {End})
      /\ Once(tapeTasks') /\ Once(diskTasks') /\ TapeQueued' = TapeQueued /\ Queued' = Queued
      /\ endSignaled' \in BOOLEAN /\ (endSignaled => endSignaled')
  <2>1. CASE SignalEndDataMovement
    BY <2>1, EndMarks
  <2>2. CASE UNCHANGED <<tapeTasks, diskTasks, endSignaled>>
    BY <1>1, <2>2 DEF QueuesOK, InjectorOK, TapeQueued, Queued
  <2> QED BY <2>1, <2>2
<1>3. faults' \in 0..MaxFaults /\ (faults' = 0 => faults = 0)
  BY <1>1, FaultGrows DEF OutcomesOK
<1>4. X \subseteq Files
  BY DEF InQueue
<1>5. QueuesOK' /\ InjectorOK' /\ OutcomesOK'
  BY <1>0, <1>1, <1>2, <1>3, <1>4 DEF QueuesOK, InjectorOK, OutcomesOK
<1>6. OnePlace(Where, next - 1)'
  <2>1. Reporting' = Reporting /\ Taken' = Taken
    BY InjectorKeeps
  <2>2. /\ X \subseteq Where["jobs"] /\ Where'["jobs"] = Where["jobs"] \ X
        /\ \A p \in Places \ {"jobs", "requeued", "dropped"} : Where'[p] = Where[p]
    BY <1>0, <1>2, <2>1, WhereIs, WhereIsNext DEF Places
  <2>3. CASE requeued' = requeued \union X /\ UNCHANGED dropped
    <3>1. /\ Where'["requeued"] = Where["requeued"] \union X
          /\ \A p \in Places \ {"jobs", "requeued"} : Where'[p] = Where[p]
          /\ "jobs" \in Places /\ "requeued" \in Places
      BY <2>2, <2>3, WhereIs, WhereIsNext DEF Places
    <3> QED BY <1>1, <2>2, <3>1, Moved
  <2>4. CASE dropped' = dropped \union X /\ UNCHANGED requeued
    <3>1. /\ Where'["dropped"] = Where["dropped"] \union X
          /\ \A p \in Places \ {"jobs", "dropped"} : Where'[p] = Where[p]
          /\ "jobs" \in Places /\ "dropped" \in Places
      BY <2>2, <2>4, WhereIs, WhereIsNext DEF Places
    <3> QED BY <1>1, <2>2, <3>1, Moved
  <2>5. CASE \E T \in SUBSET X : requeued' = requeued \union (X \ T) /\ dropped' = dropped \union T
    <3>1. PICK T \in SUBSET X : requeued' = requeued \union (X \ T) /\ dropped' = dropped \union T
      BY <2>5
    <3>2. /\ Where'["requeued"] = Where["requeued"] \union (X \ T)
          /\ Where'["dropped"] = Where["dropped"] \union T
          /\ "jobs" \in Places /\ "requeued" \in Places /\ "dropped" \in Places
      BY <3>1, WhereIs, WhereIsNext DEF Places
    <3>3. OnePlace(Where, next - 1) /\ next' = next /\ T \subseteq X
      BY <1>1, <3>1
    <3>4. Apart(Where, Where', "jobs", "requeued", "dropped", X, T)
      BY <2>2, <3>2, <3>3 DEF Apart
    <3>5. PICK w, v : w = Where /\ v = Where'
      OBVIOUS
    <3>6. OnePlace(v, next - 1)
      BY ONLY <3>3, <3>4, <3>5, MovedApart
    <3> QED BY <3>3, <3>5, <3>6
  <2> QED BY <2>3, <2>4, <2>5
<1>7. FilesFlow' /\ WritersEnd'
  BY <1>2, InjectorQuiet
<1>8. ReadAfterInjected'
  BY <1>0, <1>1 DEF ReadAfterInjected
<1>9. faults' = 0 /\ CleanJobs => CleanJobs'
  BY <1>3
<1> QED BY <1>1, <1>2, <1>3, <1>5, <1>6, <1>7, <1>8, <1>9, InjectorAssembled

\* What is requeued, and what is left to the garbage collector.
LEMMA RequeuedJobs ==
  ASSUME InjectorOK, OutcomesOK, RequeueJobs(jobs)
  PROVE  /\ \E T \in SUBSET InQueue(jobs) :
              requeued' = requeued \union (InQueue(jobs) \ T) /\ dropped' = dropped \union T
         /\ Fault \/ UNCHANGED faults
         /\ faults' = 0 => requeued' = requeued \union InQueue(jobs) /\ UNCHANGED dropped
<1>1. PICK s : s = Range(jobs)
  OBVIOUS
<1>2. s = InQueue(jobs)
  BY <1>1, RangeInQueue DEF InjectorOK
<1>3. PICK t \in SUBSET s : /\ requeued' = requeued \union (s \ t) /\ dropped' = dropped \union t
                           /\ \/ t = {} /\ UNCHANGED faults
                              \/ t # {} /\ Fault
  BY <1>1 DEF RequeueJobs
<1>4. faults' = 0 => ~ Fault
  BY RecallAssumption DEF Fault, OutcomesOK
<1> QED BY <1>2, <1>3, <1>4

\* The first jobs are tried.
LEMMA TestReservationKeeps ==
  ASSUME SessionInv, TestReservation
  PROVE  SessionInv'
<1>0. /\ InjectorOnly /\ inj = "test"
      /\ UNCHANGED <<requests, tapeTasks, diskTasks, next, batch, lastCall, reservationFailed,
                     endSignaled, raoPromise, firstTasksInjected>>
  BY DEF TestReservation, InjectorOnly, setup, queues, flags
<1>1. /\ InjectorOK /\ QueuesOK /\ OutcomesOK /\ JobsAccounted /\ InjectorEnds /\ ~ endSignaled
      /\ ReadAfterInjected
  BY <1>0 DEF SessionInv, TypeOK, InjectorEnds
<1>2. CASE /\ inj' = (IF useRAO THEN "rao" ELSE "first") /\ tape' = "mount"
           /\ UNCHANGED <<jobs, requeued, dropped, faults>>
  <2>1. /\ UNCHANGED <<useRAO, need, verifyOnly, reports, free, fifo, tapeFile, tapeBlock, validated>>
        /\ UNCHANGED <<packer, successful, completed, failed>>
        /\ UNCHANGED <<disk, diskFile, diskBlock, active, diskDone>>
    BY <1>0 DEF InjectorOnly, packerVars, diskVars
  <2>2. inj' \in {"rao", "first"}
    BY <1>2
  <2>3. QueuesOK' /\ InjectorOK' /\ OutcomesOK'
    BY <1>0, <1>1, <1>2, <2>1, <2>2 DEF QueuesOK, InjectorOK, OutcomesOK
  <2>4. Reporting' = Reporting /\ Taken' = Taken /\ Queued' = Queued /\ TapeQueued' = TapeQueued
    BY <1>0, InjectorKeeps DEF Queued, TapeQueued
  <2>5. OnePlace(Where, next - 1)'
    <3>1. \A p \in Places : Where'[p] = Where[p]
      BY <1>0, <1>2, <2>1, <2>4, WhereIs, WhereIsNext DEF Places
    <3> QED BY <1>0, <1>1, <3>1, NotMoved DEF JobsAccounted
  <2>6. tape = "off" /\ tapeBlock = 0
    BY <1>0 DEF SessionInv, FilesFlow
  <2>7. FilesFlow'
    <3>1. \A f : ~ Reading(f) /\ ~ Reading(f)'
      BY <1>2, <2>6 DEF Reading
    <3>2. \A f : FifoSound(f)' <=> FifoSound(f)
      BY <2>1, <2>4, <3>1 DEF FifoSound, Mark
    <3>3. \A f, b : ComesWhole(f, b)' <=> ComesWhole(f, b)
      BY <2>1, <2>4, <3>1 DEF ComesWhole, Mark
    <3> QED BY <1>2, <2>1, <2>2, <2>4, <2>6, <3>2, <3>3 DEF SessionInv, FilesFlow
  <2>8. WritersEnd'
    BY <1>0, <2>1, <2>4, WritersFrame DEF SessionInv
  <2>9. ReadAfterInjected' /\ InjectorEnds'
    BY <1>0, <1>1, <1>2, <2>1, <2>2 DEF ReadAfterInjected, InjectorEnds
  <2>10. CleanJobs => CleanJobs'
    BY <1>0, <1>1, <1>2 DEF CleanJobs
  <2> QED BY <1>0, <1>1, <1>2, <2>3, <2>5, <2>7, <2>8, <2>9, <2>10, InjectorAssembled
          DEF JobsAccounted
<1>3. CASE inj' = "empty" /\ RequeueJobs(jobs) /\ jobs' = <<>> /\ UNCHANGED tape
  <2>1. /\ \E T \in SUBSET InQueue(jobs) :
             requeued' = requeued \union (InQueue(jobs) \ T) /\ dropped' = dropped \union T
        /\ Fault \/ UNCHANGED faults
        /\ faults' = 0 => UNCHANGED dropped
    BY <1>1, <1>3, RequeuedJobs
  <2>2. jobs' \in Seq(Files) /\ Once(jobs') /\ InQueue(jobs') = InQueue(jobs) \ InQueue(jobs)
    BY <1>3 DEF Once, InQueue
  <2>3. InjectorEnds'
    BY <1>0, <1>1, <1>3 DEF InjectorEnds
  <2>4. faults' = 0 /\ CleanJobs => CleanJobs'
    BY <1>0, <1>1, <1>3, <2>1 DEF CleanJobs
  <2> QED BY <1>0, <1>1, <1>3, <2>1, <2>2, <2>3, <2>4, JobsLeave DEF InjectorOK, QueuesOK
<1> QED BY <1>2, <1>3 DEF TestReservation

\* The first jobs are fetched.
LEMMA FetchFirstKeeps ==
  ASSUME SessionInv, FetchFirst \/ WaitForPromise
  PROVE  SessionInv'
<1>1. /\ InjectorOnly /\ SynchronousFetch
      /\ UNCHANGED <<requests, tapeTasks, diskTasks, batch, lastCall, reservationFailed, endSignaled,
                     tape, raoPromise, firstTasksInjected, requeued, dropped, faults>>
  BY DEF FetchFirst, WaitForPromise, InjectorOnly, setup, queues, flags, tapeVars
<1>2. \/ inj = "fetch" /\ inj' \in {"empty", "test"}
      \/ inj = "rao" /\ inj' = "first"
  BY DEF FetchFirst, WaitForPromise
<1>3. /\ lastCall \in BOOLEAN /\ raoPromise \in BOOLEAN /\ firstTasksInjected \in BOOLEAN
      /\ requests \in Seq({"more", "last", "end"})
  BY DEF SessionInv, TypeOK, InjectorOK, QueuesOK
<1>4. CleanJobs => \A i \in 1..Len(requests') : requests'[i] = "end" => endSignaled
  BY <1>1 DEF CleanJobs
<1> QED BY <1>1, <1>2, <1>3, <1>4, FetchKeeps

\* A batch is taken from the jobs.
LEMMA ReserveSpaceKeeps ==
  ASSUME SessionInv, ReserveSpace
  PROVE  SessionInv'
<1>0. /\ InjectorOnly /\ inj \in {"first", "inject"} /\ inj' \in {"pushFirst", "push"}
      /\ UNCHANGED <<requests, tapeTasks, diskTasks, next, lastCall, reservationFailed, endSignaled,
                     tape, raoPromise, firstTasksInjected, requeued, dropped, faults>>
  BY DEF ReserveSpace, Injecting, InjectorOnly, setup, queues, flags, tapeVars
<1>1. /\ InjectorOK /\ QueuesOK /\ OutcomesOK /\ JobsAccounted /\ InjectorEnds /\ ~ endSignaled
      /\ ReadAfterInjected /\ batch = <<>> /\ Once(jobs)
  BY <1>0 DEF SessionInv, TypeOK, InjectorEnds, JobsAccounted
<1>2. /\ UNCHANGED <<useRAO, need, verifyOnly, reports, free, fifo, validated>>
      /\ UNCHANGED <<packer, successful, completed, failed>>
  BY <1>0 DEF InjectorOnly, packerVars
<1>3. PICK s \in Batches : batch' = s /\ jobs' \in Kept(s)
  BY Zenon DEF ReserveSpace
<1>4. s \in Seq(Files) /\ Once(s) /\ InQueue(s) \subseteq InQueue(jobs)
  BY <1>1, BatchJobs
<1>5. jobs' \in Seq(Files) /\ Once(jobs') /\ InQueue(jobs') = InQueue(jobs) \ InQueue(s)
  BY <1>1, <1>3, KeptJobs
<1>6. InQueue(batch) = {} /\ InQueue(batch') = InQueue(s)
  BY <1>1, <1>3 DEF InQueue
<1>7. OnePlace(Where, next - 1)'
  <2>1. Reporting' = Reporting /\ Taken' = Taken /\ Queued' = Queued
    BY <1>0, InjectorKeeps DEF Queued
  <2>2. /\ InQueue(s) \subseteq Where["jobs"] /\ Where'["jobs"] = Where["jobs"] \ InQueue(s)
        /\ Where'["batch"] = Where["batch"] \union InQueue(s)
        /\ "jobs" \in Places /\ "batch" \in Places
    BY <1>4, <1>5, <1>6, WhereIs, WhereIsNext DEF Places
  <2>3. \A p \in Places \ {"jobs", "batch"} : Where'[p] = Where[p]
    BY <1>0, <1>2, <2>1, WhereIs, WhereIsNext DEF Places
  <2> QED BY <1>0, <1>1, <2>2, <2>3, Moved DEF JobsAccounted
<1>8. QueuesOK' /\ InjectorOK' /\ OutcomesOK'
  BY <1>0, <1>1, <1>2, <1>3, <1>4, <1>5 DEF QueuesOK, InjectorOK, OutcomesOK
<1>9. FilesFlow' /\ WritersEnd'
  BY <1>0, InjectorQuiet DEF Queued, TapeQueued
<1>10. ReadAfterInjected'
  BY <1>0, <1>1, <1>2, <1>4, <1>5, <1>6 DEF ReadAfterInjected
<1>11. InjectorEnds'
  BY <1>0, <1>1 DEF InjectorEnds
<1>12. CleanJobs => CleanJobs'
  BY <1>0, <1>1 DEF CleanJobs
<1>13. Once(batch')
  BY <1>3, <1>4
<1> QED BY <1>0, <1>1, <1>5, <1>7, <1>8, <1>9, <1>10, <1>11, <1>12, <1>13, InjectorAssembled
        DEF JobsAccounted

\* There is no room: the jobs are requeued.
LEMMA ReservationFailsKeeps ==
  ASSUME SessionInv, ReservationFails
  PROVE  SessionInv'
<1>0. /\ InjectorOnly /\ SignalEndDataMovement /\ RequeueJobs(jobs) /\ jobs' = <<>>
      /\ inj \in {"first", "inject"} /\ inj' \in {"wrapUp", "wait"} /\ reservationFailed' = TRUE
      /\ firstTasksInjected' = TRUE /\ lastCall' = FALSE
      /\ UNCHANGED <<requests, next, batch, tape, raoPromise>>
  BY DEF ReservationFails, Injecting, InjectorOnly, setup, tapeVars
<1>1. /\ InjectorOK /\ QueuesOK /\ OutcomesOK /\ InjectorEnds /\ batch = <<>>
  BY <1>0 DEF SessionInv, TypeOK, InjectorEnds
<1>2. /\ \E T \in SUBSET InQueue(jobs) :
           requeued' = requeued \union (InQueue(jobs) \ T) /\ dropped' = dropped \union T
      /\ Fault \/ UNCHANGED faults
      /\ faults' = 0 => UNCHANGED dropped
  BY <1>0, <1>1, RequeuedJobs
<1>3. jobs' \in Seq(Files) /\ Once(jobs') /\ InQueue(jobs') = InQueue(jobs) \ InQueue(jobs)
  BY <1>0 DEF Once, InQueue
<1>4. endSignaled' = TRUE
      /\ \A i, j \in 1..Len(diskTasks') : i < j /\ diskTasks'[i] = End => diskTasks'[j] = End
  BY <1>0, EndMarks
<1>5. InjectorEnds'
  BY <1>0, <1>1, <1>4 DEF InjectorEnds
<1>6. faults' = 0 /\ CleanJobs => CleanJobs'
  BY <1>0, <1>2, <1>4 DEF CleanJobs
<1> QED BY <1>0, <1>1, <1>2, <1>3, <1>5, <1>6, JobsLeave DEF InjectorOK, QueuesOK

\* The reservation throws: jobs of the batch, or of all, are lost.
LEMMA ReservationThrowsKeeps ==
  ASSUME SessionInv, ReservationThrows
  PROVE  SessionInv'
<1>0. /\ InjectorOnly /\ Fault /\ ThrowJobs /\ lastCall' = FALSE
      /\ UNCHANGED <<next, batch, tape, raoPromise, firstTasksInjected, reservationFailed>>
      /\ \/ inj = "inject" /\ SignalEndDataMovement /\ inj' = "wrapUp" /\ requests' = <<>>
         \/ inj = "first" /\ inj' = "dead" /\ UNCHANGED <<requests, tapeTasks, diskTasks, endSignaled>>
  BY DEF ReservationThrows, InjectorOnly, setup, tapeVars, flags
<1>1. /\ InjectorOK /\ QueuesOK /\ InjectorEnds /\ batch = <<>> /\ ~ endSignaled
      /\ ~ reservationFailed /\ Once(jobs) /\ OutcomesOK
  BY <1>0 DEF SessionInv, TypeOK, InjectorEnds, JobsAccounted
<1>2. PICK X : /\ X \subseteq InQueue(jobs)
               /\ jobs' \in Seq(Files) /\ Once(jobs') /\ InQueue(jobs') = InQueue(jobs) \ X
               /\ \E T \in SUBSET X : requeued' = requeued \union (X \ T) /\ dropped' = dropped \union T
  <2>1. CASE (\E s \in Batches : dropped' = dropped \union Range(s) /\ jobs' \in Kept(s))
             /\ UNCHANGED requeued
    <3>1. PICK s \in Batches : dropped' = dropped \union Range(s) /\ jobs' \in Kept(s)
      BY <2>1
    <3>2. s \in Seq(Files) /\ InQueue(s) \subseteq InQueue(jobs) /\ Range(s) = InQueue(s)
      BY <1>1, BatchJobs, RangeInQueue
    <3>3. jobs' \in Seq(Files) /\ Once(jobs') /\ InQueue(jobs') = InQueue(jobs) \ InQueue(s)
      BY <1>1, <3>1, KeptJobs
    <3> QED BY <2>1, <3>1, <3>2, <3>3
  <2>2. CASE (\E t \in SUBSET Range(jobs) : /\ dropped' = dropped \union t
                                           /\ requeued' = requeued \union (Range(jobs) \ t))
             /\ jobs' = <<>>
    <3>1. Range(jobs) = InQueue(jobs)
      BY <1>1, RangeInQueue DEF InjectorOK
    <3>2. jobs' \in Seq(Files) /\ Once(jobs') /\ InQueue(jobs') = InQueue(jobs) \ InQueue(jobs)
      BY <2>2 DEF Once, InQueue
    <3> QED BY <2>2, <3>1, <3>2
  <2> QED BY <1>0, <2>1, <2>2 DEF ThrowJobs
<1>3. faults' # 0
  BY <1>0, <1>1, RecallAssumption DEF Fault, OutcomesOK
<1>4. CASE inj = "inject" /\ SignalEndDataMovement /\ inj' = "wrapUp" /\ requests' = <<>>
  <2>1. endSignaled' = TRUE
        /\ \A i, j \in 1..Len(diskTasks') : i < j /\ diskTasks'[i] = End => diskTasks'[j] = End
    BY <1>4, EndMarks
  <2>2. InjectorEnds'
    BY <1>0, <1>1, <1>4, <2>1 DEF InjectorEnds
  <2>3. requests' \in Seq({"more", "last", "end"})
    BY <1>4
  <2> QED BY <1>0, <1>1, <1>2, <1>3, <1>4, <2>2, <2>3, JobsLeave DEF InjectorOK
<1>5. CASE inj = "first" /\ inj' = "dead" /\ UNCHANGED <<requests, tapeTasks, diskTasks, endSignaled>>
  <2>1. InjectorEnds'
    BY <1>0, <1>1, <1>5 DEF InjectorEnds
  <2> QED BY <1>0, <1>1, <1>2, <1>3, <1>5, <2>1, JobsLeave DEF InjectorOK, QueuesOK
<1> QED BY <1>0, <1>4, <1>5

\* The end of an injection.
LEMMA InjectionDoneKeeps ==
  ASSUME SessionInv, InjectionDone
  PROVE  SessionInv'
<1>0. /\ InjectorOnly /\ inj \in {"pushFirst", "push"} /\ batch = <<>> /\ firstTasksInjected' = TRUE
      /\ lastCall' = FALSE
      /\ UNCHANGED <<requests, next, jobs, batch, tape, raoPromise, reservationFailed, requeued,
                     dropped, faults>>
      /\ \/ SignalEndDataMovement /\ inj' = "wrapUp" /\ jobs = <<>>
         \/ inj' = "wait" /\ UNCHANGED <<endSignaled, tapeTasks, diskTasks>>
  BY DEF InjectionDone, InjectorOnly, setup, tapeVars, EndsSession
<1>1. /\ InjectorOK /\ QueuesOK /\ InjectorEnds /\ ~ endSignaled /\ ~ reservationFailed
      /\ Once(jobs) /\ OutcomesOK
  BY <1>0 DEF SessionInv, TypeOK, InjectorEnds, JobsAccounted
<1>x. PICK X : X = {}
  OBVIOUS
<1>2. /\ jobs' \in Seq(Files) /\ Once(jobs') /\ InQueue(jobs') = InQueue(jobs) \ X
      /\ requeued' = requeued \union X /\ X \subseteq InQueue(jobs)
      /\ requests' \in Seq({"more", "last", "end"}) /\ raoPromise' \in BOOLEAN
      /\ reservationFailed' \in BOOLEAN
  BY <1>0, <1>1, <1>x DEF InjectorOK, QueuesOK
<1>3. CASE SignalEndDataMovement /\ inj' = "wrapUp" /\ jobs = <<>>
  <2>1. endSignaled' = TRUE
        /\ \A i, j \in 1..Len(diskTasks') : i < j /\ diskTasks'[i] = End => diskTasks'[j] = End
    BY <1>3, EndMarks
  <2>2. InjectorEnds'
    BY <1>0, <1>1, <1>3, <2>1 DEF InjectorEnds
  <2>3. CleanJobs => CleanJobs'
    BY <1>0, <1>3, <2>1 DEF CleanJobs
  <2> QED BY <1>0, <1>2, <1>3, <2>2, <2>3, JobsLeave
<1>4. CASE inj' = "wait" /\ UNCHANGED <<endSignaled, tapeTasks, diskTasks>>
  <2>2. InjectorEnds'
    BY <1>0, <1>1, <1>4 DEF InjectorEnds
  <2>3. CleanJobs => CleanJobs'
    BY <1>0, <1>1, <1>4 DEF CleanJobs
  <2> QED BY <1>0, <1>2, <1>4, <2>2, <2>3, JobsLeave
<1> QED BY <1>0, <1>3, <1>4

\* A request of the tape thread.
LEMMA PopRequestKeeps ==
  ASSUME SessionInv, PopRequest
  PROVE  SessionInv'
<1>0. /\ InjectorOnly /\ inj = "wait" /\ requests # <<>> /\ requests' = Tail(requests)
      /\ UNCHANGED <<batch, tape, raoPromise, firstTasksInjected, reservationFailed, requeued,
                     dropped, faults>>
  BY DEF PopRequest, InjectorOnly, setup, tapeVars, flags
<1>1. /\ InjectorOK /\ QueuesOK /\ InjectorEnds /\ Once(jobs) /\ OutcomesOK /\ batch = <<>>
      /\ (endSignaled => reservationFailed) /\ (reservationFailed => endSignaled /\ jobs = <<>>)
  BY <1>0 DEF SessionInv, TypeOK, InjectorEnds, JobsAccounted
<1>2. /\ requests' \in Seq({"more", "last", "end"})
      /\ Head(requests) = requests[1] /\ 1 \in 1..Len(requests)
      /\ \A i \in 1..Len(requests') : i + 1 \in 1..Len(requests) /\ requests'[i] = requests[i + 1]
  BY <1>0, <1>1 DEF QueuesOK
<1>3. CleanJobs => /\ \A i \in 1..Len(requests') : requests'[i] = "end" => endSignaled
                   /\ Head(requests) = "end" => endSignaled
  BY <1>2 DEF CleanJobs
<1>x. PICK X : X = {}
  OBVIOUS
<1>4. CASE Head(requests) = "end" /\ SignalEndDataMovement /\ inj' = "wrapUp"
           /\ UNCHANGED <<jobs, next, lastCall>>
  <2>1. endSignaled' = TRUE
        /\ \A i, j \in 1..Len(diskTasks') : i < j /\ diskTasks'[i] = End => diskTasks'[j] = End
    BY <1>4, EndMarks
  <2>2. InjectorEnds'
    BY <1>0, <1>1, <1>4, <2>1 DEF InjectorEnds
  <2>3. CleanJobs => CleanJobs'
    BY <1>0, <1>1, <1>3, <1>4, <2>1 DEF CleanJobs
  <2>4. /\ jobs' \in Seq(Files) /\ Once(jobs') /\ InQueue(jobs') = InQueue(jobs) \ X
        /\ requeued' = requeued \union X /\ X \subseteq InQueue(jobs) /\ lastCall' \in BOOLEAN
        /\ raoPromise' \in BOOLEAN /\ firstTasksInjected' \in BOOLEAN /\ reservationFailed' \in BOOLEAN
    BY <1>0, <1>1, <1>x, <1>4 DEF InjectorOK
  <2> QED BY <1>0, <1>2, <1>4, <2>2, <2>3, <2>4, JobsLeave
<1>5. CASE /\ reservationFailed /\ inj' \in {"wrapUp", "wait"}
           /\ UNCHANGED <<jobs, next, lastCall, endSignaled, tapeTasks, diskTasks>>
  <2>2. InjectorEnds'
    BY <1>0, <1>1, <1>5 DEF InjectorEnds
  <2>3. CleanJobs => CleanJobs'
    BY <1>0, <1>1, <1>3, <1>5 DEF CleanJobs
  <2>4. /\ jobs' \in Seq(Files) /\ Once(jobs') /\ InQueue(jobs') = InQueue(jobs) \ X
        /\ requeued' = requeued \union X /\ X \subseteq InQueue(jobs) /\ lastCall' \in BOOLEAN
        /\ raoPromise' \in BOOLEAN /\ firstTasksInjected' \in BOOLEAN /\ reservationFailed' \in BOOLEAN
    BY <1>0, <1>1, <1>x, <1>5 DEF InjectorOK
  <2> QED BY <1>0, <1>2, <1>5, <2>2, <2>3, <2>4, JobsLeave
<1>6. CASE /\ ~ reservationFailed /\ SynchronousFetch /\ lastCall' = (Head(requests) = "last")
           /\ inj' = "inject" /\ UNCHANGED <<endSignaled, tapeTasks, diskTasks>>
  <2>1. lastCall' \in BOOLEAN
    BY <1>6, Zenon
  <2>2. raoPromise' \in BOOLEAN /\ firstTasksInjected' \in BOOLEAN
    BY <1>0, <1>1 DEF InjectorOK
  <2> QED BY <1>0, <1>2, <1>3, <1>6, <2>1, <2>2, FetchKeeps
<1> QED BY <1>4, <1>5, <1>6 DEF PopRequest

\* The jobs that are still held are dropped, the requests are discarded.
LEMMA WrapUpKeeps ==
  ASSUME SessionInv, WrapUp \/ DrainRequests
  PROVE  SessionInv'
<1>0. /\ InjectorOnly /\ inj \in {"wrapUp", "drain"} /\ inj' \in {"done", "drain"}
      /\ requests' \in {requests, <<>>} /\ jobs' \in {jobs, <<>>}
      /\ inj = "drain" => UNCHANGED jobs
      /\ inj = "wrapUp" => jobs' = <<>>
      /\ UNCHANGED <<tapeTasks, diskTasks, batch, next, lastCall, tape, raoPromise,
                     firstTasksInjected, reservationFailed, endSignaled, requeued, faults>>
      /\ \/ dropped' = dropped \union Range(jobs) /\ jobs' = <<>>
         \/ dropped' = dropped /\ jobs' = jobs
  BY DEF WrapUp, DrainRequests, InjectorOnly, setup, queues, tapeVars, flags
<1>1. /\ InjectorOK /\ QueuesOK /\ InjectorEnds /\ Once(jobs) /\ endSignaled
  BY <1>0 DEF SessionInv, TypeOK, InjectorEnds, JobsAccounted
<1>2. InjectorEnds'
  BY <1>0, <1>1 DEF InjectorEnds
<1>3. CleanJobs => CleanJobs'
  <2>1. CleanJobs => Range(jobs) = {}
    BY <1>1 DEF CleanJobs, Range
  <2> QED BY <1>0, <1>1, <2>1 DEF CleanJobs
<1>4. PICK X : X = InQueue(jobs) \ InQueue(jobs')
  OBVIOUS
<1>5. /\ jobs' \in Seq(Files) /\ Once(jobs') /\ InQueue(jobs') = InQueue(jobs) \ X
      /\ dropped' = dropped \union X /\ X \subseteq InQueue(jobs)
  <2>1. CASE dropped' = dropped \union Range(jobs) /\ jobs' = <<>>
    <3>1. InQueue(jobs') = {} /\ Once(jobs') /\ Range(jobs) = InQueue(jobs)
      BY <1>1, <2>1, RangeInQueue DEF InQueue, Once, InjectorOK
    <3> QED BY <1>4, <2>1, <3>1
  <2>2. CASE dropped' = dropped /\ jobs' = jobs
    BY <1>1, <1>4, <2>2 DEF InjectorOK
  <2> QED BY <1>0, <2>1, <2>2
<1>6. /\ requests' \in Seq({"more", "last", "end"}) /\ lastCall' \in BOOLEAN
      /\ raoPromise' \in BOOLEAN /\ firstTasksInjected' \in BOOLEAN /\ reservationFailed' \in BOOLEAN
  <2>1. requests \in Seq({"more", "last", "end"}) /\ <<>> \in Seq({"more", "last", "end"})
    BY <1>1 DEF QueuesOK
  <2>2. requests' \in Seq({"more", "last", "end"})
    BY <1>0, <2>1
  <2> QED BY <1>0, <1>1, <2>2 DEF InjectorOK
<1> QED BY <1>0, <1>2, <1>3, <1>5, <1>6, JobsLeave

\* A job that the injector holds has no blocks and no tasks.
LEMMA HeldIsUntouched ==
  ASSUME SessionInv, NEW f \in InQueue(jobs) \union InQueue(batch)
  PROVE  /\ f \in Files /\ f \notin Queued /\ f \notin Taken /\ f \notin TapeQueued
         /\ ~ Reading(f) /\ f \notin validated /\ fifo[f] = <<>>
<1>1. f \in Files
  BY DEF InQueue
<1>2. f \notin Queued /\ f \notin Taken
  BY WhereIs DEF SessionInv, JobsAccounted, OnePlace, Places
<1>3. FifoSound(f)
  BY <1>1 DEF SessionInv, FilesFlow
<1>4. f \notin TapeQueued /\ ~ Reading(f) /\ fifo[f] = <<>>
  BY <1>2, <1>3 DEF FifoSound
<1>5. f \notin validated
  BY DEF SessionInv, ReadAfterInjected
<1> QED BY <1>1, <1>2, <1>4, <1>5

\* A job becomes a task of the tape thread and one of the disk writers.
LEMMA InjectTaskKeeps ==
  ASSUME SessionInv, InjectTask
  PROVE  SessionInv'
<1>0. /\ InjectorOnly /\ inj \in {"pushFirst", "push"} /\ batch # <<>> /\ batch' = Tail(batch)
      /\ UNCHANGED <<requests, next, jobs, inj, lastCall, tape, raoPromise, firstTasksInjected,
                     reservationFailed, endSignaled, requeued, dropped, faults>>
  BY DEF InjectTask, InjectorOnly, setup, tapeVars, flags
<1>1. /\ InjectorOK /\ QueuesOK /\ InjectorEnds /\ OutcomesOK /\ JobsAccounted
      /\ ~ endSignaled /\ ~ reservationFailed
  BY <1>0 DEF SessionInv, TypeOK, InjectorEnds
<1>2. /\ UNCHANGED <<useRAO, need, verifyOnly, reports, free, fifo, tapeFile, tapeBlock, validated>>
      /\ UNCHANGED <<packer, successful, completed, failed>>
      /\ UNCHANGED <<disk, diskFile, diskBlock, active, diskDone>>
  BY <1>0 DEF InjectorOnly, packerVars, diskVars
<1>3. PICK f : f = Head(batch)
  OBVIOUS
<1>4. /\ f \in Files /\ f \in InQueue(batch) /\ Tail(batch) \in Seq(Files) /\ Once(batch')
      /\ InQueue(batch') = InQueue(batch) \ {f}
  <2>1. batch \in Seq(Files \union {End}) /\ Once(batch) /\ Tail(batch) \in Seq(Files)
        /\ Head(batch) \in Files
    BY <1>0, <1>1 DEF InjectorOK, JobsAccounted
  <2> QED BY <1>0, <1>3, <2>1, PopQueue, FilesAre
<1>5. /\ f \notin Queued /\ f \notin Taken /\ f \notin TapeQueued /\ ~ Reading(f)
      /\ f \notin validated /\ fifo[f] = <<>>
  BY <1>4, HeldIsUntouched
<1>6. diskTasks' = Append(diskTasks, f) /\ tapeTasks' = Append(tapeTasks, f)
  BY <1>3 DEF InjectTask
<1>7. /\ diskTasks' \in Seq(Files \union {End}) /\ Once(diskTasks') /\ Queued' = Queued \union {f}
      /\ tapeTasks' \in Seq(Files \union {End}) /\ Once(tapeTasks')
      /\ TapeQueued' = TapeQueued \union {f}
  <2>1. {f} \ {End} = {f} /\ f \in Files \union {End}
    BY <1>4, FilesAre
  <2>2. /\ diskTasks \in Seq(Files \union {End}) /\ Once(diskTasks)
        /\ tapeTasks \in Seq(Files \union {End}) /\ Once(tapeTasks)
    BY <1>1 DEF QueuesOK, JobsAccounted
  <2>3. /\ diskTasks' \in Seq(Files \union {End}) /\ Once(diskTasks')
        /\ InQueue(diskTasks') = InQueue(diskTasks) \union ({f} \ {End})
    BY <1>5, <1>6, <2>1, <2>2, PushTask DEF Queued
  <2>4. /\ tapeTasks' \in Seq(Files \union {End}) /\ Once(tapeTasks')
        /\ InQueue(tapeTasks') = InQueue(tapeTasks) \union ({f} \ {End})
    BY <1>5, <1>6, <2>1, <2>2, PushTask DEF TapeQueued
  <2> QED BY <2>1, <2>3, <2>4 DEF Queued, TapeQueued
<1>8. OnePlace(Where, next - 1)'
  <2>1. Reporting' = Reporting /\ Taken' = Taken
    BY <1>0, InjectorKeeps
  <2>2. PICK X : X = {f}
    OBVIOUS
  <2>3. /\ X \subseteq Where["batch"] /\ Where'["batch"] = Where["batch"] \ X
        /\ Where'["queue"] = Where["queue"] \union X
        /\ "queue" \in Places /\ "batch" \in Places
    BY <1>4, <1>7, <2>2, WhereIs, WhereIsNext DEF Places
  <2>4. \A p \in Places \ {"batch", "queue"} : Where'[p] = Where[p]
    BY <1>0, <1>2, <2>1, WhereIs, WhereIsNext DEF Places
  <2> QED BY <1>0, <1>1, <2>3, <2>4, Moved DEF JobsAccounted
<1>9. QueuesOK' /\ InjectorOK' /\ OutcomesOK'
  BY <1>0, <1>1, <1>2, <1>4, <1>7 DEF QueuesOK, InjectorOK, OutcomesOK
<1>10. FilesFlow'
  <2>1. FilesFlow /\ WritersApart
    BY <1>1 DEF SessionInv, JobsAccounted
  <2>2. \A g : Reading(g)' <=> Reading(g)
    BY <1>0, <1>2 DEF Reading
  <2>3. Taken' = Taken
    BY <1>0, InjectorKeeps
  <2>4. ASSUME NEW g \in Files PROVE FifoSound(g)'
    <3>1. CASE g = f
      <4>1. fifo'[f] = <<>> /\ Len(fifo'[f]) = 0 /\ f \in Queued'
        BY <1>2, <1>5, <1>7
      <4> QED BY <1>2, <1>5, <2>2, <3>1, <4>1 DEF FifoSound
    <3>2. CASE g # f
      BY <1>2, <1>7, <2>1, <2>2, <2>3, <3>2 DEF FilesFlow, FifoSound, Mark
    <3> QED BY <3>1, <3>2
  <2>5. ASSUME NEW g \in Files, g # f, NEW b, ComesWhole(g, b) PROVE ComesWhole(g, b)'
    BY <1>2, <1>7, <2>2, <2>5 DEF ComesWhole, Mark
  <2>6. ComesWhole(f, 0)'
    BY <1>2, <1>5, <2>2 DEF ComesWhole, Mark
  <2>7. \A g \in Queued' : ComesWhole(g, 0)'
    BY <1>7, <2>1, <2>5, <2>6 DEF FilesFlow, Queued, InQueue
  <2>8. ASSUME NEW d \in DiskThreads, disk'[d] = "write" PROVE ComesWhole(diskFile[d], diskBlock[d])'
    <3>1. disk[d] = "write" /\ Busy(d) /\ diskFile[d] \in Files /\ diskFile[d] # f
      BY <1>2, <1>5, <2>1, <2>8 DEF Busy, Taken, WritersApart
    <3>2. ComesWhole(diskFile[d], diskBlock[d])
      BY <2>1, <3>1 DEF FilesFlow
    <3> QED BY <1>2, <2>5, <3>1, <3>2
  <2> QED BY <1>0, <1>2, <2>1, <2>4, <2>7, <2>8 DEF FilesFlow
<1>11. WritersEnd'
  BY <1>0, <1>1, <1>2 DEF SessionInv, WritersEnd, Exited
<1>12. ReadAfterInjected'
  BY <1>0, <1>2, <1>4 DEF SessionInv, ReadAfterInjected
<1>13. InjectorEnds'
  <2>1. \A i \in 1..Len(diskTasks') : diskTasks'[i] # End
    <3>1. diskTasks \in Seq(Files \union {End}) /\ \A i \in 1..Len(diskTasks) : diskTasks[i] # End
      BY <1>1 DEF InjectorEnds, QueuesOK
    <3> QED BY <1>4, <1>6, <3>1, FilesAre
  <2>2. \A i \in 1..Len(tapeTasks') : tapeTasks'[i] # End
    <3>1. tapeTasks \in Seq(Files \union {End}) /\ \A i \in 1..Len(tapeTasks) : tapeTasks[i] # End
      BY <1>1 DEF InjectorEnds, QueuesOK
    <3> QED BY <1>4, <1>6, <3>1, FilesAre
  <2> QED BY <1>0, <1>1, <2>1, <2>2 DEF InjectorEnds
<1>14. CleanJobs => CleanJobs'
  BY <1>0 DEF CleanJobs
<1> QED BY <1>0, <1>1, <1>4, <1>7, <1>8, <1>9, <1>10, <1>11, <1>12, <1>13, <1>14, InjectorAssembled
        DEF JobsAccounted

\* The steps of the injector keep the invariant.
LEMMA InjectorStep ==
  ASSUME SessionInv, Injector
  PROVE  SessionInv'
  BY FetchFirstKeeps, TestReservationKeeps, ReserveSpaceKeeps, ReservationFailsKeeps,
     ReservationThrowsKeeps, InjectTaskKeeps, InjectionDoneKeeps, PopRequestKeeps, WrapUpKeeps
     DEF Injector

-----------------------------------------------------------------------------
(* The report packer                                                       *)

\* The parts of the state the packer leaves alone.
PackerOnly ==
    UNCHANGED <<setup, requests, tapeTasks, diskTasks, free, fifo, flags, injVars, tapeVars,
                diskVars, requeued>>

\* A report and the jobs that were successful before are flushed together; some of
\* them fail.
FlushMoves(w, v, X, Y, T) ==
    /\ X \subseteq w["reports"] /\ v["reports"] = w["reports"] \ X
    /\ Y \subseteq w["successful"] /\ v["successful"] = w["successful"] \ Y
    /\ T \subseteq X \union Y
    /\ v["completed"] = w["completed"] \union ((X \union Y) \ T)
    /\ v["dropped"] = w["dropped"] \union T
    /\ \A p \in Places \ {"reports", "successful", "completed", "dropped"} : v[p] = w[p]

LEMMA Flushed ==
  ASSUME NEW n, NEW w, NEW v, OnePlace(w, n), NEW X, NEW Y, NEW T, FlushMoves(w, v, X, Y, T)
  PROVE  OnePlace(v, n)
<1>2. PICK a, b, c, d : a = "reports" /\ b = "completed" /\ c = "successful" /\ d = "dropped"
  OBVIOUS
<1>3. /\ a \in Places /\ b \in Places /\ c \in Places /\ d \in Places
      /\ a # b /\ a # c /\ a # d /\ b # c /\ b # d /\ c # d
  BY <1>2 DEF Places
<1>4. /\ X \subseteq w[a] /\ Y \subseteq w[c] /\ T \subseteq X \union Y
      /\ v[a] = w[a] \ X /\ v[c] = w[c] \ Y
      /\ v[b] = w[b] \union ((X \union Y) \ T) /\ v[d] = w[d] \union T
      /\ \A p \in Places \ {a, b, c, d} : v[p] = w[p]
  BY <1>2 DEF FlushMoves
<1>5. PICK u : u = [p \in Places |-> IF p = a THEN w[a] \ X ELSE IF p = b THEN w[b] \union X ELSE w[p]]
  OBVIOUS
<1>6. u[a] = w[a] \ X /\ u[b] = w[b] \union X /\ \A p \in Places \ {a, b} : u[p] = w[p]
  BY <1>3, <1>5
<1>7. OnePlace(u, n)
  BY <1>3, <1>4, <1>6, Move
<1>8. PICK t : t = [p \in Places |-> IF p = c THEN u[c] \ Y ELSE IF p = b THEN u[b] \union Y ELSE u[p]]
  OBVIOUS
<1>9. t[c] = u[c] \ Y /\ t[b] = u[b] \union Y /\ \A p \in Places \ {c, b} : t[p] = u[p]
  BY <1>3, <1>8
<1>10. OnePlace(t, n)
  <2>1. Y \subseteq u[c]
    BY <1>3, <1>4, <1>6
  <2> QED BY <1>3, <1>7, <1>9, <2>1, Move
<1>11. w[a] \cap w[b] = {} /\ w[c] \cap w[b] = {}
  BY <1>3, <1>4 DEF OnePlace
<1>12. /\ T \subseteq t[b] /\ v[b] = t[b] \ T
  BY <1>3, <1>4, <1>6, <1>9, <1>11
<1>13. v[d] = t[d] \union T
  BY <1>3, <1>4, <1>6, <1>9
<1>14. ASSUME NEW p \in Places \ {b, d} PROVE v[p] = t[p]
  BY <1>3, <1>4, <1>6, <1>9
<1> QED BY <1>3, <1>10, <1>12, <1>13, <1>14, Move

\* A step of the packer keeps the invariant when it keeps the parts it may disturb.
LEMMA PackerAssembled ==
  ASSUME SessionInv, PackerOnly, reports' \in Seq(ReportSet), OutcomesOK',
         OnePlace(Where, next - 1)', ReportsOnce', ReportsTrue', ReportsEnd',
         faults' = 0 => faults = 0,
         faults' = 0 /\ CleanFiles /\ CleanJobs =>
           /\ \A i \in 1..Len(reports') : reports'[i].type # "failed"
           /\ failed' = {} /\ dropped' = {}
  PROVE  SessionInv'
<1>1. /\ UNCHANGED <<useRAO, need, verifyOnly, requests, tapeTasks, diskTasks, free, fifo>>
      /\ UNCHANGED <<raoPromise, firstTasksInjected, tapeDone, diskDone>>
      /\ UNCHANGED <<injVars, inj, next, jobs, batch, lastCall, reservationFailed, endSignaled>>
      /\ UNCHANGED <<tape, tapeFile, tapeBlock, validated>>
      /\ UNCHANGED <<disk, diskFile, diskBlock, verifying, active, onDisk>>
  BY DEF PackerOnly, setup, flags, injVars, tapeVars, diskVars
<1>2. TypeOK'
  <2>1. QueuesOK /\ InjectorOK /\ TapeOK /\ DisksOK
    BY DEF SessionInv, TypeOK
  <2>2. QueuesOK'
    BY <1>1, <2>1 DEF QueuesOK
  <2>3. InjectorOK'
    BY <1>1, <2>1 DEF InjectorOK
  <2>4. TapeOK' /\ DisksOK'
    BY <1>1, <2>1 DEF TapeOK, DisksOK
  <2> QED BY <2>2, <2>3, <2>4 DEF TypeOK
<1>3. Queued' = Queued /\ TapeQueued' = TapeQueued
  BY <1>1 DEF Queued, TapeQueued
<1>4. JobsAccounted'
  BY <1>1 DEF SessionInv, JobsAccounted, WritersApart, Busy
<1>5. FilesFlow'
  <2>1. inj' \in {"fetch", "test"} => tape = "off"
    BY <1>1 DEF SessionInv, FilesFlow
  <2> QED BY <1>1, <1>3, <2>1, FlowFrame DEF SessionInv
<1>6. ReadAfterInjected' /\ BlocksAccounted' /\ InjectorEnds' /\ WritersEnd'
  BY <1>1, <1>3, BlocksFrame, InjectorFrame, WritersFrame DEF SessionInv, ReadAfterInjected
<1>7. faults' = 0 => CleanFiles' /\ CleanJobs'
  <2> SUFFICES ASSUME faults' = 0 PROVE CleanFiles' /\ CleanJobs'
    OBVIOUS
  <2>1. CleanFiles /\ CleanJobs
    BY DEF SessionInv
  <2> QED BY <1>1, <2>1 DEF CleanFiles, CleanJobs, Mark
<1> QED BY <1>2, <1>4, <1>5, <1>6, <1>7 DEF SessionInv

\* What a step that takes a report starts from.
LEMMA ReportNext ==
  ASSUME SessionInv, NEW t, NextReport(t)
  PROVE  \E r \in ReportSet :
           /\ r = Head(reports) /\ r.type = t /\ (r.file = End <=> t = "end")
           /\ reports' \in Seq(ReportSet) /\ ReportsOnce' /\ Reporting' = Reporting \ {r.file}
           /\ r.file # End => r.file \in Reporting /\ r.file \in Files
           /\ t = "completed" => Whole(r.file)
           /\ t = "end" => diskDone /\ \A i \in 1..Len(reports') : reports'[i].type = "end"
           /\ \A i \in 1..Len(reports') :
                \E j \in 1..Len(reports) : reports'[i] = reports[j]
           /\ \A i, j \in 1..Len(reports') :
                i < j /\ reports'[i].type = "end" => reports'[j].type = "end"
<1>1. reports \in Seq(ReportSet) /\ reports # <<>> /\ reports' = Tail(reports) /\ ReportsOnce
      /\ Head(reports).type = t
  BY DEF SessionInv, TypeOK, QueuesOK, NextReport, JobsAccounted
<1>2. /\ reports' \in Seq(ReportSet) /\ Head(reports) \in ReportSet
      /\ Reporting' = Reporting \ {Head(reports).file}
      /\ Head(reports).file # End => Head(reports).file \in Reporting
      /\ ReportsOnce'
  BY <1>1, ReportTaken
<1>3. PICK n \in Nat : /\ n + 1 = Len(reports) /\ Len(reports') = n
                       /\ Head(reports) = reports[1]
                       /\ \A i \in 1..n : reports'[i] = reports[i + 1] /\ i + 1 \in 1..n + 1
  BY <1>1, ReportTaken
<1>4. 1 \in 1..n + 1 /\ \A i \in 1..n : 1 < i + 1
  OBVIOUS
<1>5. PICK r \in ReportSet : r = Head(reports)
  BY <1>2
<1>6. r.file = End <=> t = "end"
  BY <1>1, <1>3, <1>4, <1>5 DEF SessionInv, ReportsTrue
<1>7. t = "completed" => Whole(r.file)
  BY <1>1, <1>3, <1>4, <1>5 DEF SessionInv, ReportsTrue
<1>8. t = "end" => diskDone /\ \A i \in 1..n : reports'[i].type = "end"
  BY <1>1, <1>3, <1>4, <1>5 DEF SessionInv, ReportsEnd
<1>9. \A i, j \in 1..n : i < j /\ reports'[i].type = "end" => reports'[j].type = "end"
  <2> SUFFICES ASSUME NEW i \in 1..n, NEW j \in 1..n, i < j, reports'[i].type = "end"
               PROVE  reports'[j].type = "end"
    OBVIOUS
  <2>1. i + 1 < j + 1 /\ i + 1 \in 1..Len(reports) /\ j + 1 \in 1..Len(reports)
    BY <1>3
  <2> QED BY <1>3, <2>1 DEF SessionInv, ReportsEnd
<1>10. \A i \in 1..n : \E j \in 1..Len(reports) : reports'[i] = reports[j]
  BY <1>3
<1>11. r.file # End => r.file \in Files
  BY <1>2, <1>5 DEF Reporting
<1> QED BY <1>1, <1>2, <1>3, <1>5, <1>6, <1>7, <1>8, <1>9, <1>10, <1>11

\* What the packer's places are.
LEMMA PackerPlaces ==
  ASSUME SessionInv, PackerOnly
  PROVE  \A p \in {"jobs", "batch", "queue", "disk", "requeued"} : Where'[p] = Where[p]
<1>1. UNCHANGED <<jobs, batch, diskTasks, disk, diskFile, requeued>>
  BY DEF PackerOnly, injVars, diskVars
<1>2. Queued' = Queued /\ Taken' = Taken
  BY <1>1 DEF Queued, Taken, Busy
<1> QED BY <1>1, <1>2, WhereIs, WhereIsNext

\* A job is reported as completed, and the completed jobs may be flushed.
LEMMA ReportSuccessfulKeeps ==
  ASSUME SessionInv, ReportSuccessful
  PROVE  SessionInv'
<1>0. PackerOnly /\ NextReport("completed") /\ UNCHANGED <<packer, failed, next>>
  BY DEF ReportSuccessful, PackerOnly, injVars
<1>r. PICK r \in ReportSet :
        /\ r = Head(reports) /\ r.type = "completed" /\ r.file # End
        /\ reports' \in Seq(ReportSet) /\ ReportsOnce' /\ Reporting' = Reporting \ {r.file}
        /\ r.file \in Reporting /\ r.file \in Files /\ Whole(r.file)
        /\ \A i \in 1..Len(reports') : \E j \in 1..Len(reports) : reports'[i] = reports[j]
        /\ \A i, j \in 1..Len(reports') :
             i < j /\ reports'[i].type = "end" => reports'[j].type = "end"
  BY <1>0, ReportNext
<1>x. PICK X, Y : X = {r.file} /\ Y = successful
  OBVIOUS
<1>1. /\ OutcomesOK /\ ReportsTrue /\ ReportsEnd /\ OnePlace(Where, next - 1)
  BY DEF SessionInv, TypeOK, JobsAccounted
<1>2. /\ UNCHANGED <<need, verifyOnly, validated, onDisk, diskDone>> /\ packer = "run"
  BY <1>0 DEF PackerOnly, setup, tapeVars, diskVars, flags, NextReport
<1>3. \/ successful' = successful \union X /\ UNCHANGED <<completed, dropped, faults>>
      \/ /\ successful' = {}
         /\ \E T \in SUBSET (X \union Y) :
              /\ completed' = completed \union ((X \union Y) \ T) /\ dropped' = dropped \union T
              /\ \/ T = {} /\ UNCHANGED faults
                 \/ T # {} /\ Fault
  <2>1. PICK s : s = successful \union {r.file}
    OBVIOUS
  <2>2. s = X \union Y
    BY <1>x, <2>1
  <2>3. \/ successful' = s /\ UNCHANGED <<completed, dropped, faults>>
        \/ successful' = {} /\ FlushSuccessful(s)
    BY <1>r, <2>1 DEF ReportSuccessful
  <2>4. CASE successful' = {} /\ FlushSuccessful(s)
    BY <2>2, <2>4 DEF FlushSuccessful
  <2> QED BY <1>x, <2>2, <2>3, <2>4
<1>4. /\ faults' \in 0..MaxFaults /\ (faults' = 0 => faults = 0)
      /\ (faults' = 0 => UNCHANGED faults)
  BY <1>1, <1>3, FaultGrows DEF OutcomesOK
<1>5. OutcomesOK'
  BY <1>0, <1>r, <1>x, <1>1, <1>3, <1>4, requeued' = requeued DEF OutcomesOK, PackerOnly
<1>6. OnePlace(Where, next - 1)'
  <2>1. /\ \A p \in {"jobs", "batch", "queue", "disk", "requeued"} : Where'[p] = Where[p]
        /\ Where'["failed"] = Where["failed"] /\ X \subseteq Where["reports"]
        /\ Where'["reports"] = Where["reports"] \ X
        /\ "reports" \in Places /\ "successful" \in Places /\ "completed" \in Places
        /\ "dropped" \in Places
    BY <1>0, <1>r, <1>x, PackerPlaces, WhereIs, WhereIsNext DEF Places
  <2>2. CASE successful' = successful \union X /\ UNCHANGED <<completed, dropped, faults>>
    <3>1. /\ Where'["successful"] = Where["successful"] \union X
          /\ \A p \in Places \ {"reports", "successful"} : Where'[p] = Where[p]
      BY <2>1, <2>2, WhereIs, WhereIsNext DEF Places
    <3> QED BY <1>0, <1>1, <2>1, <3>1, Moved
  <2>3. CASE successful' = {} /\ \E T \in SUBSET (X \union Y) :
               completed' = completed \union ((X \union Y) \ T) /\ dropped' = dropped \union T
    <3>1. PICK T \in SUBSET (X \union Y) :
            completed' = completed \union ((X \union Y) \ T) /\ dropped' = dropped \union T
      BY <2>3
    <3>2. /\ Where'["successful"] = Where["successful"] \ Y
          /\ Y \subseteq Where["successful"]
          /\ Where'["completed"] = Where["completed"] \union ((X \union Y) \ T)
          /\ Where'["dropped"] = Where["dropped"] \union T
      BY <1>x, <2>3, <3>1, WhereIs, WhereIsNext DEF Places
    <3>3. \A p \in Places \ {"reports", "successful", "completed", "dropped"} : Where'[p] = Where[p]
      BY <2>1 DEF Places
    <3>4. OnePlace(Where, next - 1) /\ next' = next /\ T \subseteq X \union Y
      BY <1>0, <1>1, <3>1
    <3>5. FlushMoves(Where, Where', X, Y, T)
      BY <2>1, <3>2, <3>3, <3>4 DEF FlushMoves
    <3>6. PICK w, v : w = Where /\ v = Where'
      OBVIOUS
    <3>7. OnePlace(v, next - 1)
      BY ONLY <3>4, <3>5, <3>6, Flushed
    <3> QED BY <3>4, <3>6, <3>7
  <2> QED BY <1>3, <2>2, <2>3
<1>7. ReportsTrue'
  <2>1. \A f : Whole(f)' <=> Whole(f)
    BY <1>2 DEF Whole
  <2>2. \A f \in successful' \union completed' : Whole(f)
    BY <1>r, <1>x, <1>1, <1>3 DEF ReportsTrue
  <2>3. \A i \in 1..Len(reports') : /\ reports'[i].type = "completed" => Whole(reports'[i].file)
                                    /\ reports'[i].type = "end" <=> reports'[i].file = End
    BY <1>r, <1>1 DEF ReportsTrue
  <2> QED BY <2>1, <2>2, <2>3 DEF ReportsTrue, Whole
<1>8. ReportsEnd'
  <2>1. \A i \in 1..Len(reports') : reports'[i].type = "end" => diskDone
    BY <1>r, <1>1 DEF ReportsEnd
  <2> QED BY <1>0, <1>r, <1>2, <2>1 DEF ReportsEnd
<1>9. faults' = 0 /\ CleanFiles /\ CleanJobs =>
        /\ \A i \in 1..Len(reports') : reports'[i].type # "failed"
        /\ failed' = {} /\ dropped' = {}
  <2> SUFFICES ASSUME faults' = 0, CleanFiles, CleanJobs
               PROVE  /\ \A i \in 1..Len(reports') : reports'[i].type # "failed"
                      /\ failed' = {} /\ dropped' = {}
    OBVIOUS
  <2>1. ~ Fault
    BY <1>1, RecallAssumption DEF Fault, OutcomesOK
  <2> QED BY <1>0, <1>r, <1>3, <2>1 DEF CleanFiles, CleanJobs
<1> QED BY <1>0, <1>r, <1>4, <1>5, <1>6, <1>7, <1>8, <1>9, PackerAssembled

\* A job is reported as failed, or its report fails.
LEMMA ReportErrorKeeps ==
  ASSUME SessionInv, ReportError \/ ReportThrows
  PROVE  SessionInv'
<1>0. /\ PackerOnly /\ UNCHANGED <<packer, successful, completed, next, requeued>>
      /\ \/ /\ NextReport("failed") /\ failed' = failed \union {Head(reports).file}
            /\ UNCHANGED <<dropped, faults>>
         \/ /\ \E t \in {"completed", "failed"} : NextReport(t)
            /\ Fault /\ dropped' = dropped \union {Head(reports).file} /\ UNCHANGED failed
  BY DEF ReportError, ReportThrows, PackerOnly, injVars, packerVars
<1>t. PICK t \in {"completed", "failed"} :
        /\ NextReport(t)
        /\ \/ t = "failed" /\ failed' = failed \union {Head(reports).file} /\ UNCHANGED <<dropped, faults>>
           \/ Fault /\ dropped' = dropped \union {Head(reports).file} /\ UNCHANGED failed
  BY <1>0
<1>r. PICK r \in ReportSet :
        /\ r = Head(reports) /\ r.type = t /\ r.file # End
        /\ reports' \in Seq(ReportSet) /\ ReportsOnce' /\ Reporting' = Reporting \ {r.file}
        /\ r.file \in Reporting /\ r.file \in Files
        /\ \A i \in 1..Len(reports') : \E j \in 1..Len(reports) : reports'[i] = reports[j]
        /\ \A i, j \in 1..Len(reports') :
             i < j /\ reports'[i].type = "end" => reports'[j].type = "end"
  BY <1>t, ReportNext
<1>x. PICK X : X = {r.file}
  OBVIOUS
<1>1. /\ OutcomesOK /\ ReportsTrue /\ ReportsEnd /\ OnePlace(Where, next - 1)
  BY DEF SessionInv, TypeOK, JobsAccounted
<1>2. /\ UNCHANGED <<need, verifyOnly, validated, onDisk, diskDone>> /\ packer = "run"
      /\ reports # <<>> /\ Head(reports).type = t
  BY <1>0, <1>t DEF PackerOnly, setup, tapeVars, diskVars, flags, NextReport
<1>3. /\ faults' \in 0..MaxFaults /\ (faults' = 0 => faults = 0)
      /\ (faults' = 0 => UNCHANGED faults)
  BY <1>t, <1>1, FaultGrows DEF OutcomesOK
<1>4. OutcomesOK'
  BY <1>0, <1>t, <1>r, <1>1, <1>3 DEF OutcomesOK
<1>5. OnePlace(Where, next - 1)'
  <2>1. /\ \A p \in {"jobs", "batch", "queue", "disk", "requeued", "successful", "completed"} :
             Where'[p] = Where[p]
        /\ X \subseteq Where["reports"] /\ Where'["reports"] = Where["reports"] \ X
        /\ "reports" \in Places /\ "failed" \in Places /\ "dropped" \in Places
    BY <1>0, <1>r, <1>x, PackerPlaces, WhereIs, WhereIsNext DEF Places
  <2>2. CASE failed' = failed \union X /\ UNCHANGED dropped
    <3>1. /\ Where'["failed"] = Where["failed"] \union X
          /\ \A p \in Places \ {"reports", "failed"} : Where'[p] = Where[p]
      BY <2>1, <2>2, WhereIs, WhereIsNext DEF Places
    <3> QED BY <1>0, <1>1, <2>1, <3>1, Moved
  <2>3. CASE dropped' = dropped \union X /\ UNCHANGED failed
    <3>1. /\ Where'["dropped"] = Where["dropped"] \union X
          /\ \A p \in Places \ {"reports", "dropped"} : Where'[p] = Where[p]
      BY <2>1, <2>3, WhereIs, WhereIsNext DEF Places
    <3> QED BY <1>0, <1>1, <2>1, <3>1, Moved
  <2> QED BY <1>t, <1>r, <1>x, <2>2, <2>3
<1>6. ReportsTrue'
  <2>1. \A f : Whole(f)' <=> Whole(f)
    BY <1>2 DEF Whole
  <2>2. \A f \in successful' \union completed' : Whole(f)
    BY <1>0, <1>1 DEF ReportsTrue
  <2>3. \A i \in 1..Len(reports') : /\ reports'[i].type = "completed" => Whole(reports'[i].file)
                                    /\ reports'[i].type = "end" <=> reports'[i].file = End
    BY <1>r, <1>1 DEF ReportsTrue
  <2> QED BY <2>1, <2>2, <2>3 DEF ReportsTrue, Whole
<1>7. ReportsEnd'
  <2>1. \A i \in 1..Len(reports') : reports'[i].type = "end" => diskDone
    BY <1>r, <1>1 DEF ReportsEnd
  <2> QED BY <1>0, <1>r, <1>2, <2>1 DEF ReportsEnd
<1>8. faults' = 0 /\ CleanFiles /\ CleanJobs =>
        /\ \A i \in 1..Len(reports') : reports'[i].type # "failed"
        /\ failed' = {} /\ dropped' = {}
  <2> SUFFICES ASSUME faults' = 0, CleanFiles, CleanJobs PROVE FALSE
    OBVIOUS
  <2>1. ~ Fault
    BY <1>1, RecallAssumption DEF Fault, OutcomesOK
  <2>2. 1 \in 1..Len(reports) /\ Head(reports) = reports[1]
    BY <1>2 DEF SessionInv, TypeOK, QueuesOK
  <2> QED BY <1>t, <1>2, <2>1, <2>2 DEF CleanFiles
<1> QED BY <1>0, <1>r, <1>3, <1>4, <1>5, <1>6, <1>7, <1>8, PackerAssembled

\* The end of the session: the successful jobs are flushed.
LEMMA ReportEndKeeps ==
  ASSUME SessionInv, ReportEnd
  PROVE  SessionInv'
<1>0. /\ PackerOnly /\ NextReport("end") /\ packer' = "finish" /\ successful' = {}
      /\ UNCHANGED <<failed, next, requeued>>
      /\ \E T \in SUBSET successful :
           /\ completed' = completed \union (successful \ T) /\ dropped' = dropped \union T
           /\ \/ T = {} /\ UNCHANGED faults
              \/ T # {} /\ Fault
  BY DEF ReportEnd, PackerOnly, injVars, FlushSuccessful
<1>r. PICK r \in ReportSet :
        /\ r = Head(reports) /\ r.file = End /\ diskDone
        /\ reports' \in Seq(ReportSet) /\ ReportsOnce' /\ Reporting' = Reporting \ {r.file}
        /\ \A i \in 1..Len(reports') : reports'[i].type = "end"
        /\ \A i \in 1..Len(reports') : \E j \in 1..Len(reports) : reports'[i] = reports[j]
  BY <1>0, ReportNext
<1>y. PICK Y : Y = successful
  OBVIOUS
<1>1. /\ OutcomesOK /\ ReportsTrue /\ ReportsEnd /\ OnePlace(Where, next - 1)
  BY DEF SessionInv, TypeOK, JobsAccounted
<1>2. /\ UNCHANGED <<need, verifyOnly, validated, onDisk, diskDone>>
  BY <1>0 DEF PackerOnly, setup, tapeVars, diskVars, flags
<1>3. /\ faults' \in 0..MaxFaults /\ (faults' = 0 => faults = 0)
      /\ (faults' = 0 => UNCHANGED faults)
  BY <1>0, <1>1, FaultGrows DEF OutcomesOK
<1>4. OutcomesOK'
  BY <1>0, <1>1, <1>3 DEF OutcomesOK
<1>5. Reporting' = Reporting /\ Reporting' = {}
  <2>1. \A i \in 1..Len(reports') : reports'[i].file = End
    BY <1>r, <1>1 DEF ReportsTrue
  <2>2. Reporting' = {}
    BY <2>1, FilesAre DEF Reporting
  <2>3. Reporting \subseteq Files
    BY DEF Reporting
  <2> QED BY <1>r, <2>2, <2>3, FilesAre
<1>6. OnePlace(Where, next - 1)'
  <2>1. /\ \A p \in {"jobs", "batch", "queue", "disk", "requeued", "failed", "reports"} :
             Where'[p] = Where[p]
        /\ Y \subseteq Where["successful"] /\ Where'["successful"] = Where["successful"] \ Y
        /\ "successful" \in Places /\ "completed" \in Places /\ "dropped" \in Places
    BY <1>0, <1>y, <1>5, PackerPlaces, WhereIs, WhereIsNext DEF Places
  <2>2. PICK T \in SUBSET Y : completed' = completed \union (Y \ T) /\ dropped' = dropped \union T
    BY <1>0, <1>y
  <2>3. /\ Where'["completed"] = Where["completed"] \union (Y \ T)
        /\ Where'["dropped"] = Where["dropped"] \union T
    BY <2>2, WhereIs, WhereIsNext DEF Places
  <2>4. \A p \in Places \ {"successful", "completed", "dropped"} : Where'[p] = Where[p]
    BY <2>1 DEF Places
  <2>5. OnePlace(Where, next - 1) /\ next' = next /\ T \subseteq Y
    BY <1>0, <1>1, <2>2
  <2>6. Apart(Where, Where', "successful", "completed", "dropped", Y, T)
    BY <2>1, <2>3, <2>4, <2>5 DEF Apart
  <2>7. PICK w, v : w = Where /\ v = Where'
    OBVIOUS
  <2>8. OnePlace(v, next - 1)
    BY ONLY <2>5, <2>6, <2>7, MovedApart
  <2> QED BY <2>5, <2>7, <2>8
<1>7. ReportsTrue'
  <2>1. \A f : Whole(f)' <=> Whole(f)
    BY <1>2 DEF Whole
  <2>2. \A f \in successful' \union completed' : Whole(f)
    BY <1>0, <1>1 DEF ReportsTrue
  <2>3. \A i \in 1..Len(reports') : /\ reports'[i].type = "completed" => Whole(reports'[i].file)
                                    /\ reports'[i].type = "end" <=> reports'[i].file = End
    BY <1>r, <1>1 DEF ReportsTrue
  <2> QED BY <2>1, <2>2, <2>3 DEF ReportsTrue, Whole
<1>8. ReportsEnd'
  BY <1>0, <1>r, <1>2, <1>5 DEF ReportsEnd
<1>9. faults' = 0 /\ CleanFiles /\ CleanJobs =>
        /\ \A i \in 1..Len(reports') : reports'[i].type # "failed"
        /\ failed' = {} /\ dropped' = {}
  <2> SUFFICES ASSUME faults' = 0, CleanFiles, CleanJobs
               PROVE  /\ \A i \in 1..Len(reports') : reports'[i].type # "failed"
                      /\ failed' = {} /\ dropped' = {}
    OBVIOUS
  <2>1. ~ Fault
    BY <1>1, RecallAssumption DEF Fault, OutcomesOK
  <2> QED BY <1>0, <1>r, <2>1 DEF CleanFiles, CleanJobs
<1> QED BY <1>0, <1>r, <1>3, <1>4, <1>6, <1>7, <1>8, <1>9, PackerAssembled

\* The reports that are left are thrown away: they are of no file.
LEMMA DiscardReportsKeeps ==
  ASSUME SessionInv, DiscardReports
  PROVE  SessionInv'
<1>0. /\ PackerOnly /\ packer = "finish" /\ packer' = "done" /\ reports' = <<>>
      /\ UNCHANGED <<successful, completed, failed, next, requeued, dropped, faults>>
  BY DEF DiscardReports, PackerOnly, injVars
<1>1. /\ OutcomesOK /\ ReportsTrue /\ ReportsEnd /\ OnePlace(Where, next - 1)
  BY DEF SessionInv, TypeOK, JobsAccounted
<1>2. UNCHANGED <<need, verifyOnly, validated, onDisk, diskDone>>
  BY <1>0 DEF PackerOnly, setup, tapeVars, diskVars, flags
<1>3. reports' \in Seq(ReportSet) /\ Reporting' = {} /\ Reporting = {} /\ ReportsOnce'
  BY <1>0, <1>1 DEF Reporting, ReportsOnce, ReportsEnd
<1>4. OutcomesOK'
  BY <1>0, <1>1 DEF OutcomesOK
<1>5. OnePlace(Where, next - 1)'
  <2>1. \A p \in Places : Where'[p] = Where[p]
    BY <1>0, <1>3, PackerPlaces, WhereIs, WhereIsNext DEF Places
  <2> QED BY <1>0, <1>1, <2>1, NotMoved
<1>6. ReportsTrue' /\ ReportsEnd'
  BY <1>0, <1>1, <1>2, <1>3 DEF ReportsTrue, ReportsEnd, Whole
<1>7. CleanFiles /\ CleanJobs => /\ \A i \in 1..Len(reports') : reports'[i].type # "failed"
                                 /\ failed' = {} /\ dropped' = {}
  BY <1>0 DEF CleanFiles, CleanJobs
<1> QED BY <1>0, <1>3, <1>4, <1>5, <1>6, <1>7, PackerAssembled

\* The steps of the report packer keep the invariant.
LEMMA PackerStep ==
  ASSUME SessionInv, ReportPacker
  PROVE  SessionInv'
  BY ReportSuccessfulKeeps, ReportErrorKeeps, ReportEndKeeps, DiscardReportsKeeps DEF ReportPacker

-----------------------------------------------------------------------------
(* Blocks                                                                  *)

\* A block is known by its mark, and the end of the file by its own.
LEMMA BlockMarks ==
  ASSUME NEW x \in Blocks
  PROVE  /\ x.mark \in {"data", "verify", "failed", "cancelled", "end"}
         /\ x = EndOfFile <=> x.mark = "end"
         /\ x.mark = "data" => x.n \in 1..MaxBlocks
         /\ x.mark # "data" => x.n = 0
  BY DEF Blocks, Block, Marked, EndOfFile

\* The blocks the tape thread makes.
LEMMA NewBlocks ==
  /\ \A n \in 1..MaxBlocks : Block(n) \in Blocks /\ Block(n).mark = "data" /\ Block(n).n = n
  /\ \A m \in {"verify", "failed", "cancelled", "end"} : Marked(m) \in Blocks /\ Marked(m).mark = m
  /\ EndOfFile \in Blocks /\ EndOfFile.mark = "end"
  BY DEF Blocks, Block, Marked, EndOfFile

\* The blocks that wait are a finite number.
LEMMA WaitingIs ==
  ASSUME NEW q \in Seq(Blocks)
  PROVE  /\ Waiting(q) \in Nat
         /\ (\A i \in 1..Len(q) : q[i].mark # "end") => Waiting(q) = Len(q)
         /\ q # <<>> /\ q[Len(q)] = EndOfFile => Waiting(q) = Len(q) - 1
  BY NewBlocks DEF Waiting

\* A block is taken from the pool for f.
LEMMA OutGrows ==
  ASSUME BlocksAccounted, NEW f \in Files, Waiting(fifo[f]) \in Nat,
         Waiting(fifo'[f]) = Waiting(fifo[f]) + 1,
         \A g \in Files \ {f} : fifo'[g] = fifo[g],
         free \in 0..NbBlocks, free > 0, free' = free - 1
  PROVE  BlocksAccounted' /\ free' \in 0..NbBlocks
<1>1. PICK w \in Nat : w = Waiting(fifo[f])
  OBVIOUS
<1>2. PICK b : b = <<f, w + 1>>
  OBVIOUS
<1>3. \A x \in Files \X Nat : x \in Out' <=> x \in Out \/ x = b
  <2> SUFFICES ASSUME NEW g \in Files, NEW i \in Nat
               PROVE  <<g, i>> \in Out' <=> <<g, i>> \in Out \/ <<g, i>> = b
    OBVIOUS
  <2>1. <<g, i>> \in Out' <=> 1 <= i /\ i <= Waiting(fifo'[g])
    BY DEF Out
  <2>2. <<g, i>> \in Out <=> 1 <= i /\ i <= Waiting(fifo[g])
    BY DEF Out
  <2>3. CASE g = f
    <3>1. 1 <= i /\ i <= w + 1 <=> (1 <= i /\ i <= w) \/ i = w + 1
      OBVIOUS
    <3> QED BY <1>1, <1>2, <2>1, <2>2, <2>3, <3>1
  <2>4. CASE g # f
    BY <1>2, <2>1, <2>2, <2>4
  <2> QED BY <2>3, <2>4
<1>4. b \in Files \X Nat /\ b \notin Out
  BY <1>1, <1>2 DEF Out
<1>5. Out' = Out \union {b}
  <2>1. Out \subseteq Files \X Nat /\ Out' \subseteq Files \X Nat
    BY DEF Out
  <2> QED BY <1>3, <1>4, <2>1
<1>6. IsFiniteSet(Out) /\ free + Cardinality(Out) = NbBlocks
  BY DEF BlocksAccounted
<1>7. IsFiniteSet(Out') /\ Cardinality(Out') = Cardinality(Out) + 1 /\ Cardinality(Out) \in Nat
  BY <1>4, <1>5, <1>6, FS_AddElement, FS_CardinalityType
<1> QED BY <1>6, <1>7, RecallAssumption DEF BlocksAccounted

\* A block of f comes back.
LEMMA OutShrinks ==
  ASSUME BlocksAccounted, NEW f \in Files, Waiting(fifo'[f]) \in Nat,
         Waiting(fifo[f]) = Waiting(fifo'[f]) + 1,
         \A g \in Files \ {f} : fifo'[g] = fifo[g],
         free \in 0..NbBlocks, free' = free + 1
  PROVE  BlocksAccounted' /\ free' \in 0..NbBlocks
<1>1. PICK w \in Nat : w = Waiting(fifo'[f])
  OBVIOUS
<1>2. PICK b : b = <<f, w + 1>>
  OBVIOUS
<1>3. \A x \in Files \X Nat : x \in Out <=> x \in Out' \/ x = b
  <2> SUFFICES ASSUME NEW g \in Files, NEW i \in Nat
               PROVE  <<g, i>> \in Out <=> <<g, i>> \in Out' \/ <<g, i>> = b
    OBVIOUS
  <2>1. <<g, i>> \in Out' <=> 1 <= i /\ i <= Waiting(fifo'[g])
    BY DEF Out
  <2>2. <<g, i>> \in Out <=> 1 <= i /\ i <= Waiting(fifo[g])
    BY DEF Out
  <2>3. CASE g = f
    <3>1. 1 <= i /\ i <= w + 1 <=> (1 <= i /\ i <= w) \/ i = w + 1
      OBVIOUS
    <3> QED BY <1>1, <1>2, <2>1, <2>2, <2>3, <3>1
  <2>4. CASE g # f
    BY <1>2, <2>1, <2>2, <2>4
  <2> QED BY <2>3, <2>4
<1>4. b \in Files \X Nat /\ b \notin Out' /\ b \in Out
  BY <1>1, <1>2 DEF Out
<1>5. Out' = Out \ {b}
  <2>1. Out \subseteq Files \X Nat /\ Out' \subseteq Files \X Nat
    BY DEF Out
  <2> QED BY <1>3, <1>4, <2>1
<1>6. IsFiniteSet(Out) /\ free + Cardinality(Out) = NbBlocks
  BY DEF BlocksAccounted
<1>7. /\ IsFiniteSet(Out') /\ Cardinality(Out') = Cardinality(Out) - 1
      /\ Cardinality(Out) \in Nat /\ Cardinality(Out') \in Nat
  BY <1>4, <1>5, <1>6, FS_RemoveElement, FS_CardinalityType
<1> QED BY <1>6, <1>7, RecallAssumption DEF BlocksAccounted

\* The end of f is taken: it is not a block.
LEMMA OutSame ==
  ASSUME BlocksAccounted, \A g \in Files : Waiting(fifo'[g]) = Waiting(fifo[g]), free' = free
  PROVE  BlocksAccounted'
<1>1. Out' = Out
  <2>1. ASSUME NEW x \in Files \X Nat PROVE x \in Out' <=> x \in Out
    BY DEF Out
  <2> QED BY <2>1 DEF Out
<1> QED BY <1>1 DEF BlocksAccounted

\* The queue r of a file is q and one block b more, and the end of the file when `ends'.
Pushed(q, r, b, ends) ==
    \E n, m \in Nat :
        /\ n = Len(q) /\ m = Len(r) /\ r[n + 1] = b /\ \A i \in 1..n : r[i] = q[i]
        /\ ends \/ m = n + 1
        /\ ends => m = n + 2 /\ r[n + 2] = EndOfFile
        /\ \A i \in 1..m : i \in 1..n \/ i = n + 1 \/ (ends /\ i = n + 2)

\* One block, or a block and the end of the file, is put into the queue of a file.
LEMMA PutBlocks ==
  ASSUME NEW q \in Seq(Blocks), NEW b \in Blocks, b.mark # "end",
         \A i \in 1..Len(q) : q[i].mark # "end", NEW s, NEW ends \in BOOLEAN,
         s = IF ends THEN <<b, EndOfFile>> ELSE <<b>>
  PROVE  /\ q \o s \in Seq(Blocks) /\ Waiting(q) \in Nat /\ Waiting(q \o s) = Waiting(q) + 1
         /\ Pushed(q, q \o s, b, ends)
<1>n. PICK n \in Nat : n = Len(q)
  OBVIOUS
<1>0. EndOfFile \in Blocks /\ EndOfFile.mark = "end"
  BY NewBlocks
<1>w. Waiting(q) = n
  BY <1>n, WaitingIs
<1>1. CASE ~ ends
  <2>0. s = <<b>>
    BY <1>1
  <2>1. /\ q \o s \in Seq(Blocks) /\ Len(q \o s) = n + 1
        /\ (q \o s)[n + 1] = b /\ \A i \in 1..n : (q \o s)[i] = q[i]
    <3>1. /\ q \o <<b>> \in Seq(Blocks) /\ Len(q \o <<b>>) = n + 1
          /\ (q \o <<b>>)[n + 1] = b /\ \A i \in 1..n : (q \o <<b>>)[i] = q[i]
      BY ONLY <1>n, q \in Seq(Blocks), b \in Blocks
    <3> QED BY ONLY <2>0, <3>1
  <2>2. \A i \in 1..n + 1 : i \in 1..n \/ i = n + 1
    OBVIOUS
  <2>3. Waiting(q \o s) = n + 1
    <3>1. \A i \in 1..n + 1 : (q \o s)[i].mark # "end"
      BY <1>n, <2>1, <2>2
    <3> QED BY <2>1, <3>1, WaitingIs
  <2>4. PICK r : r = q \o s
    OBVIOUS
  <2>5. Pushed(q, r, b, ends)
    BY <1>n, <1>1, <2>1, <2>2, <2>4 DEF Pushed
  <2> QED BY <1>w, <2>1, <2>3, <2>4, <2>5
<1>2. CASE ends
  <2>0. s = <<b, EndOfFile>>
    BY <1>2
  <2>1. /\ q \o s \in Seq(Blocks) /\ Len(q \o s) = n + 2
        /\ (q \o s)[n + 1] = b /\ (q \o s)[n + 2] = EndOfFile
        /\ \A i \in 1..n : (q \o s)[i] = q[i]
    <3>1. PICK e \in Blocks : e = EndOfFile
      BY <1>0
    <3>2. /\ q \o <<b, e>> \in Seq(Blocks) /\ Len(q \o <<b, e>>) = n + 2
          /\ (q \o <<b, e>>)[n + 1] = b /\ (q \o <<b, e>>)[n + 2] = e
          /\ \A i \in 1..n : (q \o <<b, e>>)[i] = q[i]
      BY ONLY <1>n, q \in Seq(Blocks), b \in Blocks, e \in Blocks
    <3> QED BY ONLY <2>0, <3>1, <3>2
  <2>2. \A i \in 1..n + 2 : i \in 1..n \/ i = n + 1 \/ i = n + 2
    OBVIOUS
  <2>3. Waiting(q \o s) = n + 1
    <3>1. q \o s # <<>> /\ (q \o s)[Len(q \o s)] = EndOfFile
      BY <2>1
    <3>2. Waiting(q \o s) = Len(q \o s) - 1
      BY <2>1, <3>1, WaitingIs
    <3> QED BY <2>1, <3>2
  <2>4. PICK r : r = q \o s
    OBVIOUS
  <2>5. Pushed(q, r, b, ends)
    BY <1>n, <1>2, <2>1, <2>2, <2>4 DEF Pushed
  <2> QED BY <1>w, <2>1, <2>3, <2>4, <2>5
<1> QED BY <1>1, <1>2

\* The first block is taken.
LEMMA TakeBlock ==
  ASSUME NEW q \in Seq(Blocks), q # <<>>,
         \A i \in 1..Len(q) : q[i].mark = "end" => i = Len(q)
  PROVE  /\ Tail(q) \in Seq(Blocks) /\ Head(q) \in Blocks
         /\ Waiting(q) \in Nat /\ Waiting(Tail(q)) \in Nat
         /\ Head(q) # EndOfFile => Waiting(q) = Waiting(Tail(q)) + 1
         /\ Head(q) = EndOfFile => Waiting(q) = Waiting(Tail(q)) /\ Tail(q) = <<>> /\ Len(q) = 1
         /\ \E n \in Nat : /\ Len(q) = n + 1 /\ Len(Tail(q)) = n /\ Head(q) = q[1] /\ 1 \in 1..n + 1
                           /\ \A i \in 1..n : Tail(q)[i] = q[i + 1] /\ i + 1 \in 1..n + 1
<1>n. PICK n \in Nat : Len(q) = n + 1
  <2>1. Len(q) \in Nat /\ Len(q) > 0
    OBVIOUS
  <2>2. (Len(q) - 1) \in Nat /\ (Len(q) - 1) + 1 = Len(q)
    BY <2>1
  <2> QED BY <2>2
<1>1. /\ Tail(q) \in Seq(Blocks) /\ Head(q) = q[1] /\ q[1] \in Blocks /\ Len(Tail(q)) = n
      /\ \A i \in 1..n : Tail(q)[i] = q[i + 1]
  BY <1>n
<1>2. 1 \in 1..n + 1 /\ \A i \in 1..n : i + 1 \in 1..n + 1
  OBVIOUS
<1>3. Waiting(q) \in Nat /\ Waiting(Tail(q)) \in Nat
  BY <1>1, WaitingIs
<1>4. Head(q) = EndOfFile => Waiting(q) = Waiting(Tail(q)) /\ Tail(q) = <<>> /\ Len(q) = 1
  <2> SUFFICES ASSUME Head(q) = EndOfFile
               PROVE  Waiting(q) = Waiting(Tail(q)) /\ Tail(q) = <<>> /\ Len(q) = 1
    OBVIOUS
  <2>1. q[1].mark = "end"
    BY <1>1, NewBlocks
  <2>2. n + 1 = 1
    BY <1>n, <1>2, <2>1
  <2>3. n = 0 /\ Tail(q) = <<>>
    BY <1>1, <2>2
  <2>4. Waiting(q) = 0 /\ Waiting(Tail(q)) = 0
    BY <1>n, <1>1, <2>3 DEF Waiting
  <2> QED BY <1>n, <2>3, <2>4
<1>5. Head(q) # EndOfFile => Waiting(q) = Waiting(Tail(q)) + 1
  <2> SUFFICES ASSUME Head(q) # EndOfFile PROVE Waiting(q) = Waiting(Tail(q)) + 1
    OBVIOUS
  <2>1. CASE n = 0
    <3>0. \A s \in Seq(Blocks) : Len(s) = 0 => s = <<>>
      OBVIOUS
    <3>1. Tail(q) = <<>> /\ Len(Tail(q)) = 0
      BY <1>1, <2>1, <3>0
    <3>2. Waiting(Tail(q)) = 0
      BY <3>1 DEF Waiting
    <3>3. Len(q) = 1
      BY <1>n, <2>1
    <3>4. q[Len(q)] # EndOfFile
      BY <1>1, <3>3
    <3>5. Waiting(q) = 1
      BY <3>3, <3>4 DEF Waiting
    <3> QED BY <3>2, <3>5
  <2>2. CASE n # 0
    <3>1. Tail(q)[n] = q[n + 1] /\ Tail(q) # <<>> /\ q # <<>>
      BY <1>1, <2>2
    <3> QED BY <1>n, <1>1, <2>2, <3>1 DEF Waiting
  <2> QED BY <2>1, <2>2
<1> QED BY <1>n, <1>1, <1>2, <1>3, <1>4, <1>5

-----------------------------------------------------------------------------
(* The tape thread                                                         *)

\* The parts of the state the tape thread leaves alone.
TapeOnly ==
    UNCHANGED <<setup, diskTasks, firstTasksInjected, diskDone, injVars, diskVars, packerVars,
                requeued, dropped>>

\* The variables of TapeOnly, one by one, and what is read from them.
LEMMA TapeOnlyIs ==
  ASSUME TapeOnly
  PROVE  /\ UNCHANGED <<useRAO, need, verifyOnly, diskTasks, firstTasksInjected, diskDone>>
         /\ UNCHANGED <<inj, next, jobs, batch, lastCall, reservationFailed, endSignaled>>
         /\ UNCHANGED <<disk, diskFile, diskBlock, verifying, active, onDisk>>
         /\ UNCHANGED <<packer, successful, completed, failed, requeued, dropped>>
         /\ Queued' = Queued /\ Taken' = Taken
<1>1. /\ UNCHANGED <<useRAO, need, verifyOnly, diskTasks, firstTasksInjected, diskDone>>
      /\ UNCHANGED <<inj, next, jobs, batch, lastCall, reservationFailed, endSignaled>>
      /\ UNCHANGED <<disk, diskFile, diskBlock, verifying, active, onDisk>>
      /\ UNCHANGED <<packer, successful, completed, failed, requeued, dropped>>
  BY DEF TapeOnly, setup, injVars, diskVars, packerVars
<1> QED BY <1>1 DEF Queued, Taken, Busy

\* A step of the tape thread keeps the invariant when it keeps the parts it may disturb.
LEMMA TapeAssembled ==
  ASSUME SessionInv, TapeOnly, QueuesOK', TapeOK', raoPromise' \in BOOLEAN,
         Fault \/ UNCHANGED faults, Once(tapeTasks'), Reporting' = Reporting, ReportsOnce',
         FilesFlow', ReadAfterInjected', BlocksAccounted', ReportsTrue', ReportsEnd',
         \A i \in 1..Len(tapeTasks') : tapeTasks'[i] = End => endSignaled,
         faults' = 0 /\ faults = 0 /\ CleanFiles /\ CleanJobs => CleanFiles' /\ CleanJobs'
  PROVE  SessionInv'
<1>1. /\ UNCHANGED <<useRAO, need, verifyOnly, diskTasks, firstTasksInjected, diskDone>>
      /\ UNCHANGED <<inj, next, jobs, batch, lastCall, reservationFailed, endSignaled>>
      /\ UNCHANGED <<disk, diskFile, diskBlock, verifying, active, onDisk>>
      /\ UNCHANGED <<packer, successful, completed, failed, requeued, dropped>>
      /\ Queued' = Queued /\ Taken' = Taken
  BY TapeOnlyIs
<1>2. faults' \in 0..MaxFaults /\ (faults' = 0 => faults = 0)
  BY FaultGrows DEF SessionInv, TypeOK, OutcomesOK
<1>3. TypeOK'
  <2>1. InjectorOK /\ DisksOK /\ OutcomesOK
    BY DEF SessionInv, TypeOK
  <2>2. InjectorOK'
    BY <1>1, <2>1 DEF InjectorOK
  <2>3. DisksOK' /\ OutcomesOK'
    BY <1>1, <1>2, <2>1 DEF DisksOK, OutcomesOK
  <2> QED BY <2>2, <2>3 DEF TypeOK
<1>4. JobsAccounted'
  <2>1. JobsAccounted
    BY DEF SessionInv
  <2>2. \A p \in Places : Where'[p] = Where[p]
    BY <1>1, WhereIs, WhereIsNext DEF Places
  <2>3. OnePlace(Where, next - 1)'
    BY <1>1, <2>1, <2>2, NotMoved DEF JobsAccounted
  <2> QED BY <1>1, <2>1, <2>3 DEF JobsAccounted, WritersApart, Busy
<1>5. InjectorEnds' /\ WritersEnd'
  <2>1. WritersEnd'
    BY <1>1, WritersFrame DEF SessionInv
  <2> QED BY <1>1, <2>1 DEF SessionInv, InjectorEnds
<1>6. faults' = 0 => CleanFiles' /\ CleanJobs'
  BY <1>2 DEF SessionInv
<1> QED BY <1>3, <1>4, <1>5, <1>6 DEF SessionInv

\* The tape thread only touches the file f.
LEMMA TapeFlow ==
  ASSUME SessionInv, TapeOnly, NEW f \in Files, tape # "off",
         \A g \in Files \ {f} :
           /\ fifo'[g] = fifo[g] /\ (g \in TapeQueued' <=> g \in TapeQueued)
           /\ ~ Reading(g) /\ ~ Reading(g)' /\ (g \in validated' <=> g \in validated),
         FifoSound(f)', \A b \in Nat : ComesWhole(f, b) => ComesWhole(f, b)',
         tape' = "read" => tapeFile' \in Files /\ tapeBlock' < need[tapeFile'],
         tape' # "read" => tapeBlock' = 0
  PROVE  FilesFlow'
<1>1. /\ UNCHANGED <<need, verifyOnly, inj, disk, diskFile, diskBlock>>
      /\ Queued' = Queued /\ Taken' = Taken
  BY TapeOnlyIs
<1>2. FilesFlow /\ WritersApart /\ DisksOK
  BY DEF SessionInv, JobsAccounted, TypeOK
<1>3. ASSUME NEW g \in Files \ {f} PROVE FifoSound(g)'
  BY <1>1, <1>2, <1>3 DEF FilesFlow, FifoSound, Mark
<1>4. ASSUME NEW g \in Files \ {f}, NEW b, ComesWhole(g, b) PROVE ComesWhole(g, b)'
  BY <1>1, <1>4 DEF ComesWhole, Mark
<1>5. ASSUME NEW g \in Queued' PROVE ComesWhole(g, 0)'
  <2>1. g \in Files /\ ComesWhole(g, 0)
    BY <1>1, <1>2 DEF FilesFlow, Queued, InQueue
  <2> QED BY <1>4, <2>1
<1>6. ASSUME NEW d \in DiskThreads, disk'[d] = "write" PROVE ComesWhole(diskFile[d], diskBlock[d])'
  <2>1. disk[d] = "write" /\ diskFile[d] \in Files /\ diskBlock[d] \in Nat
    BY <1>1, <1>2, <1>6, RecallAssumption DEF Busy, WritersApart, DisksOK
  <2>2. PICK g, b : g = diskFile[d] /\ b = diskBlock[d]
    OBVIOUS
  <2>3. ComesWhole(g, b)
    BY <1>2, <2>1, <2>2 DEF FilesFlow
  <2>4. ComesWhole(g, b)'
    BY <1>4, <2>1, <2>2, <2>3
  <2> QED BY <1>1, <2>2, <2>4
<1>7. inj \notin {"fetch", "test"}
  BY <1>2 DEF FilesFlow
<1> QED BY <1>1, <1>2, <1>3, <1>5, <1>6, <1>7 DEF FilesFlow

\* A step between two files.
LEMMA TapeStill ==
  ASSUME SessionInv, TapeOnly, tape \notin {"off", "read"}, tape' # "read",
         UNCHANGED <<tapeBlock, validated>>, TapeQueued' = TapeQueued, UNCHANGED <<fifo, free>>
  PROVE  FilesFlow' /\ BlocksAccounted' /\ ReadAfterInjected'
<1>1. /\ UNCHANGED <<need, verifyOnly, inj, next, jobs, batch, disk, diskFile, diskBlock>>
      /\ Queued' = Queued /\ Taken' = Taken
  BY TapeOnlyIs
<1>2. FilesFlow
  BY DEF SessionInv
<1>3. \A f : ~ Reading(f) /\ ~ Reading(f)'
  BY DEF Reading
<1>4. \A f : FifoSound(f)' <=> FifoSound(f)
  BY <1>1, <1>3 DEF FifoSound, Mark
<1>5. \A f, b : ComesWhole(f, b)' <=> ComesWhole(f, b)
  BY <1>1, <1>3 DEF ComesWhole, Mark
<1>6. FilesFlow'
  BY <1>1, <1>2, <1>4, <1>5 DEF FilesFlow
<1>7. BlocksAccounted' /\ ReadAfterInjected'
  BY <1>1, BlocksFrame DEF SessionInv, ReadAfterInjected
<1> QED BY <1>6, <1>7

\* The end of the session is reported when all threads are done.
LEMMA EndReported ==
  ASSUME SessionInv, ReportEndOfSession,
         UNCHANGED <<validated, onDisk, need, verifyOnly, successful, completed, packer, diskDone>>
  PROVE  /\ reports' \in Seq(ReportSet) /\ Reporting' = Reporting
         /\ ReportsOnce' /\ ReportsTrue' /\ ReportsEnd'
         /\ CleanFiles => \A i \in 1..Len(reports') : reports'[i].type # "failed"
<1>1. reports \in Seq(ReportSet) /\ ReportsOnce /\ ReportsTrue /\ ReportsEnd
  BY DEF SessionInv, TypeOK, QueuesOK, JobsAccounted
<1>2. CASE reports' = reports
  BY <1>1, <1>2, ReportsFrame, ReportsEndFrame DEF Reporting, ReportsOnce, CleanFiles
<1>3. CASE diskDone /\ reports' = Append(reports, EndReport)
  <2>0. EndReport \in ReportSet /\ EndReport.file = End /\ EndReport.type = "end"
    BY DEF ReportSet, EndReport
  <2>1. PICK r \in ReportSet : r = EndReport /\ r.file = End /\ r.type = "end"
    BY <2>0
  <2>2. End \notin Reporting /\ {End} \ {End} = {}
    BY FilesAre DEF Reporting
  <2>3. reports' = Append(reports, r)
    BY <1>3, <2>1
  <2>4. /\ reports' \in Seq(ReportSet) /\ Reporting' = Reporting \union ({r.file} \ {End})
        /\ ReportsOnce /\ r.file \notin Reporting => ReportsOnce'
    BY <1>1, <2>3, ReportPut
  <2>5. PICK n \in Nat : /\ n = Len(reports) /\ Len(reports') = n + 1 /\ reports'[n + 1] = r
                         /\ \A i \in 1..n : reports'[i] = reports[i]
                         /\ \A i \in 1..n + 1 : i \in 1..n \/ i = n + 1
    BY <1>1, <2>3, ReportPut
  <2>6. Reporting' = Reporting /\ ReportsOnce'
    BY <1>1, <2>1, <2>2, <2>4
  <2>7. ReportsTrue'
    BY <1>1, <2>1, <2>5 DEF ReportsTrue, Whole
  <2>8. ReportsEnd'
    <3>1. \A i, j \in 1..n + 1 : i < j /\ reports'[i].type = "end" => reports'[j].type = "end"
      <4> SUFFICES ASSUME NEW i \in 1..n + 1, NEW j \in 1..n + 1, i < j, reports'[i].type = "end"
                   PROVE  reports'[j].type = "end"
        OBVIOUS
      <4>1. CASE j = n + 1
        BY <2>1, <2>5, <4>1
      <4>2. CASE j \in 1..n
        <5>1. i \in 1..n
          BY <4>2
        <5> QED BY <1>1, <2>5, <4>2, <5>1 DEF ReportsEnd
      <4> QED BY <2>5, <4>1, <4>2
    <3>2. packer' # "run" => diskDone' /\ Reporting' = {} /\ successful' = {}
      BY <1>1, <2>6 DEF ReportsEnd
    <3> QED BY <1>3, <2>5, <3>1, <3>2 DEF ReportsEnd
  <2>9. CleanFiles => \A i \in 1..Len(reports') : reports'[i].type # "failed"
    BY <2>1, <2>5 DEF CleanFiles
  <2> QED BY <2>4, <2>6, <2>7, <2>8, <2>9
<1> QED BY <1>2, <1>3 DEF ReportEndOfSession, AllThreadsDone

\* The steps of the tape thread before it has a task and after it had its last one.
LEMMA TapeControlKeeps ==
  ASSUME SessionInv,
         \/ MountTape \/ OpenReadSessionFails \/ WaitForFirstTasks \/ TapeCleaning
         \/ SetTapeDone \/ TapeReportsEnd
  PROVE  SessionInv'
<1>0. /\ TapeOnly
      /\ UNCHANGED <<tapeTasks, free, fifo, tapeFile, tapeBlock, validated>>
      /\ tape \in {"mount", "label", "clean", "cleanFailed", "complete", "report"}
      /\ tape' \in {"label", "cleanFailed", "pop", "complete", "flush", "report", "done"}
      /\ Fault \/ UNCHANGED faults
      /\ ReportEndOfSession \/ UNCHANGED reports
      /\ UNCHANGED requests \/ (tape \in {"clean", "cleanFailed"} /\ requests' = Append(requests, "end"))
      /\ tape' \in {"complete", "flush", "report", "done"} =>
           \/ tape \in {"complete", "report"} \/ (tape = "clean" /\ tape' = "complete")
           \/ (tape = "cleanFailed" /\ tape' = "flush")
      /\ tape' = "cleanFailed" => Fault
      /\ tape' # "flush" \/ tape = "cleanFailed"
      /\ tapeDone' \in {TRUE, tapeDone} /\ raoPromise' \in {useRAO, raoPromise}
  BY DEF MountTape, OpenReadSessionFails, WaitForFirstTasks, TapeCleaning, SetTapeDone,
         TapeReportsEnd, TapeOnly, queues, flags, setup
<1>1. /\ UNCHANGED <<useRAO, need, verifyOnly, diskTasks, diskDone, inj, endSignaled, jobs, disk>>
      /\ UNCHANGED <<onDisk, packer, successful, completed, failed, dropped>>
  BY <1>0, TapeOnlyIs
<1>2. /\ QueuesOK /\ TapeOK /\ InjectorOK /\ OutcomesOK /\ Once(tapeTasks) /\ ReportsTrue
      /\ ReportsEnd /\ ReportsOnce
  BY DEF SessionInv, TypeOK, JobsAccounted
<1>3. /\ reports' \in Seq(ReportSet) /\ Reporting' = Reporting
      /\ ReportsOnce' /\ ReportsTrue' /\ ReportsEnd'
      /\ CleanFiles => \A i \in 1..Len(reports') : reports'[i].type # "failed"
  <2>1. CASE ReportEndOfSession
    BY <1>0, <1>1, <2>1, EndReported
  <2>2. CASE UNCHANGED reports
    <3>1. ReportsTrue' /\ ReportsEnd'
      BY <1>0, <1>1, <1>2, <2>2, ReportsFrame, ReportsEndFrame
    <3> QED BY <1>2, <2>2, <3>1 DEF QueuesOK, Reporting, ReportsOnce, CleanFiles
  <2> QED BY <1>0, <2>1, <2>2
<1>4. requests' \in Seq({"more", "last", "end"})
  <2>1. requests \in Seq({"more", "last", "end"})
    BY <1>2 DEF QueuesOK
  <2> QED BY <1>0, <2>1
<1>5. QueuesOK'
  BY <1>0, <1>1, <1>2, <1>3, <1>4 DEF QueuesOK
<1>6. TapeOK' /\ raoPromise' \in BOOLEAN
  BY <1>0, <1>2 DEF TapeOK, InjectorOK, QueuesOK
<1>7. FilesFlow' /\ BlocksAccounted' /\ ReadAfterInjected'
  BY <1>0, TapeStill DEF TapeQueued
<1>8. \A i \in 1..Len(tapeTasks') : tapeTasks'[i] = End => endSignaled
  BY <1>0 DEF SessionInv, InjectorEnds
<1>9. faults' = 0 /\ faults = 0 /\ CleanFiles /\ CleanJobs => CleanFiles' /\ CleanJobs'
  <2> SUFFICES ASSUME faults' = 0, faults = 0, CleanFiles, CleanJobs PROVE CleanFiles' /\ CleanJobs'
    OBVIOUS
  <2>1. ~ Fault
    BY DEF Fault
  <2>2. CleanFiles'
    BY <1>0, <1>1, <1>3 DEF CleanFiles, Mark
  <2>3. tape' \notin {"cleanFailed", "flush"}
    BY <1>0, <2>1 DEF CleanJobs
  <2>4. tape' \in {"clean", "complete", "report", "done"} => endSignaled
    BY <1>0 DEF CleanJobs
  <2>5. \A i \in 1..Len(requests') : requests'[i] = "end" => endSignaled
    <3>1. CASE UNCHANGED requests
      BY <3>1 DEF CleanJobs
    <3>2. CASE tape \in {"clean", "cleanFailed"} /\ requests' = Append(requests, "end")
      BY <3>2 DEF CleanJobs
    <3> QED BY <1>0, <3>1, <3>2
  <2>6. dropped' = {} /\ (endSignaled' => jobs' = <<>>)
    BY <1>1 DEF CleanJobs
  <2> QED BY <1>1, <2>2, <2>3, <2>4, <2>5, <2>6 DEF CleanJobs
<1> QED BY <1>0, <1>2, <1>3, <1>5, <1>6, <1>7, <1>8, <1>9, TapeAssembled

\* The tape thread takes a task, or cancels one.
LEMMA TaskTaken ==
  ASSUME SessionInv, tapeTasks # <<>>, tapeTasks' = Tail(tapeTasks)
  PROVE  /\ tapeTasks' \in Seq(Files \union {End}) /\ Once(tapeTasks')
         /\ TapeQueued' = TapeQueued \ {Head(tapeTasks)} /\ Head(tapeTasks) \in Files \union {End}
         /\ Head(tapeTasks) # End => Head(tapeTasks) \in TapeQueued
         /\ \A i \in 1..Len(tapeTasks') : tapeTasks'[i] = End => endSignaled
         /\ Head(tapeTasks) = End => endSignaled
<1>1. tapeTasks \in Seq(Files \union {End}) /\ Once(tapeTasks)
      /\ \A i \in 1..Len(tapeTasks) : tapeTasks[i] = End => endSignaled
  BY DEF SessionInv, TypeOK, QueuesOK, JobsAccounted, InjectorEnds
<1>2. /\ tapeTasks' \in Seq(Files \union {End}) /\ Once(tapeTasks')
      /\ InQueue(tapeTasks') = InQueue(tapeTasks) \ {Head(tapeTasks)}
      /\ Head(tapeTasks) \in Files \union {End}
      /\ Head(tapeTasks) # End => Head(tapeTasks) \in InQueue(tapeTasks)
  BY <1>1, PopQueue
<1>3. /\ Head(tapeTasks) = tapeTasks[1] /\ 1 \in 1..Len(tapeTasks)
      /\ \A i \in 1..Len(tapeTasks') : i + 1 \in 1..Len(tapeTasks) /\ tapeTasks'[i] = tapeTasks[i + 1]
  BY <1>1
<1> QED BY <1>1, <1>2, <1>3 DEF TapeQueued

\* The tape thread takes its next task.
LEMMA PopTaskKeeps ==
  ASSUME SessionInv, PopTask
  PROVE  SessionInv'
<1>0. /\ TapeOnly /\ tape = "pop" /\ tapeTasks # <<>> /\ tapeTasks' = Tail(tapeTasks)
      /\ tapeFile' = Head(tapeTasks)
      /\ tape' = IF Head(tapeTasks) = End THEN "clean" ELSE "read"
      /\ UNCHANGED <<reports, free, fifo, tapeBlock, validated, raoPromise, tapeDone, faults>>
      /\ requests' \in {requests, Append(requests, "last"), Append(requests, "more")}
  BY DEF PopTask, TapeOnly, flags, setup
<1>1. /\ UNCHANGED <<useRAO, need, verifyOnly, diskTasks, diskDone, inj, endSignaled, jobs, disk>>
      /\ UNCHANGED <<onDisk, packer, successful, completed, failed, dropped, next, batch>>
      /\ Queued' = Queued /\ Taken' = Taken
  BY <1>0, TapeOnlyIs
<1>2. /\ QueuesOK /\ TapeOK /\ InjectorOK /\ ReportsTrue /\ ReportsEnd /\ ReportsOnce /\ FilesFlow
  BY DEF SessionInv, TypeOK, JobsAccounted
<1>3. /\ tapeTasks' \in Seq(Files \union {End}) /\ Once(tapeTasks')
      /\ TapeQueued' = TapeQueued \ {Head(tapeTasks)} /\ Head(tapeTasks) \in Files \union {End}
      /\ Head(tapeTasks) # End => Head(tapeTasks) \in TapeQueued
      /\ \A i \in 1..Len(tapeTasks') : tapeTasks'[i] = End => endSignaled
      /\ Head(tapeTasks) = End => endSignaled
  BY <1>0, TaskTaken
<1>4. requests' \in Seq({"more", "last", "end"})
  <2>1. requests \in Seq({"more", "last", "end"})
    BY <1>2 DEF QueuesOK
  <2>2. /\ Append(requests, "last") \in Seq({"more", "last", "end"})
        /\ Append(requests, "more") \in Seq({"more", "last", "end"})
    BY <2>1
  <2> QED BY <1>0, <2>1, <2>2
<1>5. QueuesOK' /\ TapeOK' /\ raoPromise' \in BOOLEAN
  BY <1>0, <1>1, <1>2, <1>3, <1>4 DEF QueuesOK, TapeOK, InjectorOK
<1>6. /\ Reporting' = Reporting /\ ReportsOnce' /\ ReportsTrue' /\ ReportsEnd' /\ BlocksAccounted'
      /\ ReadAfterInjected'
  BY <1>0, <1>1, <1>2, ReportsFrame, ReportsEndFrame, BlocksFrame
     DEF Reporting, ReportsOnce, SessionInv, ReadAfterInjected
<1>7. FilesFlow'
  <2>1. CASE Head(tapeTasks) = End
    <3>1. TapeQueued' = TapeQueued /\ tape' = "clean"
      BY <1>0, <1>3, <2>1, FilesAre DEF TapeQueued, InQueue
    <3> QED BY <1>0, <3>1, TapeStill
  <2>2. CASE Head(tapeTasks) # End
    <3>1. PICK f \in Files : f = Head(tapeTasks)
      BY <1>3, <2>2
    <3>2. /\ tape' = "read" /\ tapeFile' = f /\ tapeBlock = 0 /\ f \in TapeQueued
          /\ f \notin TapeQueued' /\ \A g : ~ Reading(g)
          /\ Reading(f)' /\ \A g \in Files \ {f} : ~ Reading(g)'
      BY <1>0, <1>2, <1>3, <2>2, <3>1 DEF Reading, FilesFlow
    <3>3. FifoSound(f) /\ fifo[f] = <<>> /\ Len(fifo'[f]) = 0
      BY <1>0, <1>2, <3>2 DEF FilesFlow, FifoSound
    <3>4. FifoSound(f)'
      BY <1>0, <1>1, <3>2, <3>3 DEF FifoSound
    <3>5. \A b \in Nat : ComesWhole(f, b) => ComesWhole(f, b)'
      <4> SUFFICES ASSUME NEW b \in Nat, ComesWhole(f, b) PROVE ComesWhole(f, b)'
        OBVIOUS
      <4>1. f \notin verifyOnly => b = 0
        BY <3>2 DEF ComesWhole
      <4>2. f \notin validated
        BY <3>2, <3>3 DEF FifoSound
      <4> QED BY <1>0, <1>1, <3>2, <3>3, <4>1, <4>2 DEF ComesWhole
    <3>6. tapeBlock' < need[tapeFile']
      BY <1>0, <1>2, <3>1, <3>2 DEF QueuesOK
    <3> QED BY <1>0, <1>3, <3>1, <3>2, <3>4, <3>5, <3>6, TapeFlow
  <2> QED BY <2>1, <2>2
<1>8. CleanFiles /\ CleanJobs => CleanFiles' /\ CleanJobs'
  <2> SUFFICES ASSUME CleanFiles, CleanJobs PROVE CleanFiles' /\ CleanJobs'
    OBVIOUS
  <2>1. CleanFiles'
    BY <1>0, <1>1 DEF CleanFiles, Mark
  <2>2. \A i \in 1..Len(requests') : requests'[i] = "end" => endSignaled
    <3>1. requests \in Seq({"more", "last", "end"})
      BY <1>2 DEF QueuesOK
    <3>2. CASE requests' = requests
      BY <3>2 DEF CleanJobs
    <3>3. CASE requests' = Append(requests, "last")
      BY <3>1, <3>3 DEF CleanJobs
    <3>4. CASE requests' = Append(requests, "more")
      BY <3>1, <3>4 DEF CleanJobs
    <3> QED BY <1>0, <3>2, <3>3, <3>4
  <2>3. tape' \in {"clean", "read"} /\ (tape' = "clean" => endSignaled)
    BY <1>0, <1>3
  <2> QED BY <1>1, <2>1, <2>2, <2>3 DEF CleanJobs
<1> QED BY <1>0, <1>3, <1>5, <1>6, <1>7, <1>8, TapeAssembled

\* A block, perhaps with the end of the file, is pushed for a file with a tape task.
PushedFor(f, b, ends) == PushBlocks(f, IF ends THEN <<b, EndOfFile>> ELSE <<b>>)

\* Such a block goes to the end of the queue, and the pool is one block smaller.
LEMMA BlocksPushed ==
  ASSUME SessionInv, NEW f \in Files, f \in TapeQueued \/ Reading(f), NEW b \in Blocks,
         b.mark # "end", NEW ends \in BOOLEAN, PushedFor(f, b, ends)
  PROVE  /\ fifo' \in [Files -> Seq(Blocks)] /\ free' \in 0..NbBlocks /\ BlocksAccounted'
         /\ \A g \in Files \ {f} : fifo'[g] = fifo[g]
         /\ \A i \in 1..Len(fifo[f]) : Mark(f, i) \in {"data", "verify"}
         /\ Pushed(fifo[f], fifo'[f], b, ends)
<1>1. /\ fifo \in [Files -> Seq(Blocks)] /\ free \in 0..NbBlocks /\ FifoSound(f)
      /\ BlocksAccounted
  BY DEF SessionInv, TypeOK, QueuesOK, FilesFlow
<1>s. PICK s : s = IF ends THEN <<b, EndOfFile>> ELSE <<b>>
  OBVIOUS
<1>2. /\ free > 0 /\ free' = free - 1 /\ fifo' = [fifo EXCEPT ![f] = fifo[f] \o s]
  BY <1>s DEF PushBlocks, PushedFor
<1>3. PICK q \in Seq(Blocks) : q = fifo[f]
  BY <1>1
<1>4. \A i \in 1..Len(q) : q[i].mark \in {"data", "verify"}
  <2> SUFFICES ASSUME NEW i \in 1..Len(q) PROVE q[i].mark \in {"data", "verify"}
    OBVIOUS
  <2>1. q[i] \in Blocks
    OBVIOUS
  <2>2. q[i].mark \in {"data", "verify", "failed", "cancelled", "end"}
    BY <2>1, BlockMarks
  <2>3. q[i].mark \notin {"end", "cancelled", "failed"}
    BY <1>1, <1>3 DEF FifoSound, Mark
  <2> QED BY <2>2, <2>3
<1>5. /\ q \o s \in Seq(Blocks) /\ Waiting(q) \in Nat /\ Waiting(q \o s) = Waiting(q) + 1
      /\ Pushed(q, q \o s, b, ends)
  <2>1. \A i \in 1..Len(q) : q[i].mark # "end"
    BY <1>4
  <2> QED BY <1>s, <2>1, PutBlocks
<1>6. /\ fifo'[f] = q \o s /\ \A g \in Files \ {f} : fifo'[g] = fifo[g]
      /\ fifo' \in [Files -> Seq(Blocks)]
  BY <1>1, <1>2, <1>3, <1>5
<1>7. BlocksAccounted' /\ free' \in 0..NbBlocks
  <2>1. Waiting(fifo[f]) \in Nat /\ Waiting(fifo'[f]) = Waiting(fifo[f]) + 1
    BY <1>3, <1>5, <1>6
  <2> QED BY <1>1, <1>2, <1>6, <2>1, OutGrows
<1>8. Pushed(fifo[f], fifo'[f], b, ends)
  BY <1>3, <1>5, <1>6
<1>9. \A i \in 1..Len(fifo[f]) : Mark(f, i) \in {"data", "verify"}
  BY <1>3, <1>4 DEF Mark
<1> QED BY <1>6, <1>7, <1>8, <1>9

\* A step that pushes a block keeps the invariant when it keeps the flow of its file.
LEMMA PushAssembled ==
  ASSUME SessionInv, TapeOnly, NEW f \in Files, f \in TapeQueued \/ Reading(f), NEW b \in Blocks,
         b.mark # "end", NEW ends \in BOOLEAN, PushedFor(f, b, ends),
         UNCHANGED <<requests, reports, raoPromise>>, Fault \/ UNCHANGED faults,
         tapeTasks' \in Seq(Files \union {End}), Once(tapeTasks'),
         \A i \in 1..Len(tapeTasks') : tapeTasks'[i] = End => endSignaled,
         TapeOK', FilesFlow', validated' \in {validated, validated \union {f}},
         faults' = 0 /\ faults = 0 /\ CleanJobs =>
           b.mark \notin {"failed", "cancelled"} /\ tape' \in {"read", "pop"}
  PROVE  SessionInv'
<1>1. /\ UNCHANGED <<useRAO, need, verifyOnly, diskTasks, diskDone, inj, endSignaled, jobs, disk>>
      /\ UNCHANGED <<onDisk, packer, successful, completed, failed, dropped, next, batch>>
      /\ Queued' = Queued /\ Taken' = Taken
  BY TapeOnlyIs
<1>2. /\ QueuesOK /\ ReportsTrue /\ ReportsEnd /\ ReportsOnce /\ FilesFlow /\ InjectorOK
      /\ ReadAfterInjected /\ OnePlace(Where, next - 1)
  BY DEF SessionInv, TypeOK, JobsAccounted
<1>3. /\ fifo' \in [Files -> Seq(Blocks)] /\ free' \in 0..NbBlocks /\ BlocksAccounted'
      /\ \A g \in Files \ {f} : fifo'[g] = fifo[g]
      /\ Pushed(fifo[f], fifo'[f], b, ends)
  BY BlocksPushed
<1>4. PICK n \in Nat, m \in Nat :
              /\ n = Len(fifo[f]) /\ m = Len(fifo'[f])
              /\ fifo'[f][n + 1] = b /\ \A i \in 1..n : fifo'[f][i] = fifo[f][i]
              /\ ends => m = n + 2 /\ fifo'[f][n + 2] = EndOfFile
              /\ \A i \in 1..m : i \in 1..n \/ i = n + 1 \/ (ends /\ i = n + 2)
  BY <1>3 DEF Pushed
<1>5. QueuesOK' /\ raoPromise' \in BOOLEAN
  BY <1>1, <1>2, <1>3 DEF QueuesOK, InjectorOK
<1>6. Reporting' = Reporting /\ ReportsOnce' /\ ReportsEnd'
  BY <1>1, <1>2, ReportsEndFrame DEF Reporting, ReportsOnce
<1>7. ReportsTrue'
  <2>1. \A g : Whole(g) => Whole(g)'
    BY <1>1 DEF Whole
  <2> QED BY <1>1, <1>2, <2>1 DEF ReportsTrue
<1>8. ReadAfterInjected'
  <2>1. f \in Queued \union Taken
    BY <1>2 DEF FilesFlow, FifoSound
  <2>2. PICK w : w = Where
    OBVIOUS
  <2>3. /\ w["jobs"] = InQueue(jobs) /\ w["batch"] = InQueue(batch)
        /\ w["queue"] = Queued /\ w["disk"] = Taken
    BY <2>2, WhereIs
  <2>4. /\ \A p, q \in Places : p # q => w[p] \cap w[q] = {}
        /\ f <= next - 1 <=> \E p \in Places : f \in w[p]
    BY <1>2, <2>2 DEF OnePlace
  <2>5. f <= next - 1 /\ f \notin InQueue(jobs) \union InQueue(batch)
    BY <2>1, <2>3, <2>4 DEF Places
  <2>6. f < next
    BY <1>2, <2>5, FilesAre DEF InjectorOK
  <2> QED BY <1>1, <1>2, <2>5, <2>6 DEF ReadAfterInjected
<1>9. faults' = 0 /\ faults = 0 /\ CleanFiles /\ CleanJobs => CleanFiles' /\ CleanJobs'
  <2> SUFFICES ASSUME faults' = 0, faults = 0, CleanFiles, CleanJobs PROVE CleanFiles' /\ CleanJobs'
    OBVIOUS
  <2>1. ASSUME NEW g \in Files, NEW i \in 1..Len(fifo'[g])
        PROVE  fifo'[g][i].mark \notin {"failed", "cancelled"}
    <3>1. CASE g # f
      BY <1>3, <2>1, <3>1 DEF CleanFiles, Mark
    <3>2. CASE g = f /\ i \in 1..n
      BY <1>4, <3>2 DEF CleanFiles, Mark
    <3>3. CASE g = f /\ i = n + 1
      BY <1>4, <3>3
    <3>4. CASE g = f /\ ends /\ i = n + 2
      BY <1>4, <3>4, NewBlocks
    <3> QED BY <1>4, <2>1, <3>1, <3>2, <3>3, <3>4
  <2>2. CleanFiles'
    BY <1>1, <2>1 DEF CleanFiles, Mark
  <2>3. CleanJobs'
    BY <1>1 DEF CleanJobs
  <2> QED BY <2>2, <2>3
<1> QED BY <1>3, <1>5, <1>6, <1>7, <1>8, <1>9, TapeAssembled

\* A block of the file is read, perhaps the last one.
LEMMA ReadBlockKeeps ==
  ASSUME SessionInv, ReadBlock
  PROVE  SessionInv'
<1>1. /\ FilesFlow /\ QueuesOK /\ TapeOK /\ Once(tapeTasks) /\ InjectorEnds
  BY DEF SessionInv, TypeOK, JobsAccounted
<1>2. PICK f \in Files : f = tapeFile /\ tape = "read"
  BY <1>1 DEF ReadBlock, FilesFlow
<1>3. PICK t \in Nat : t = tapeBlock /\ t + 1 <= need[f] /\ need[f] \in 1..MaxBlocks
  BY <1>1, <1>2, RecallAssumption DEF FilesFlow, QueuesOK, TapeOK
<1>4. PICK b : b = ReadContents(f, t + 1)
  OBVIOUS
<1>5. /\ b \in Blocks /\ b.mark # "end" /\ b.mark \notin {"failed", "cancelled"}
      /\ f \in verifyOnly => b.mark = "verify"
      /\ f \notin verifyOnly => b.mark = "data" /\ b.n = t + 1
  <2>1. t + 1 \in 1..MaxBlocks
    BY <1>3, RecallAssumption
  <2> QED BY <1>4, <2>1, NewBlocks DEF ReadContents
<1>6. /\ TapeOnly
      /\ UNCHANGED <<requests, reports, raoPromise, tapeTasks, tapeDone, faults>>
      /\ \/ t + 1 < need[f] /\ PushedFor(f, b, FALSE) /\ tapeBlock' = t + 1
            /\ UNCHANGED <<tape, tapeFile, validated>>
         \/ t + 1 = need[f] /\ PushedFor(f, b, TRUE) /\ validated' = validated \union {f}
            /\ tape' = "pop" /\ tapeFile' = End /\ tapeBlock' = 0
  BY <1>2, <1>3, <1>4 DEF ReadBlock, TapeOnly, PushedFor, ReadTaskOver, queues, flags
<1>7. PICK ends \in BOOLEAN : ends <=> t + 1 = need[f]
  OBVIOUS
<1>7a. /\ PushedFor(f, b, ends)
       /\ ends => /\ validated' = validated \union {f} /\ tape' = "pop" /\ tapeFile' = End
                  /\ tapeBlock' = 0
       /\ ~ ends => t + 1 < need[f] /\ tapeBlock' = t + 1 /\ UNCHANGED <<tape, tapeFile, validated>>
  <2>1. CASE t + 1 < need[f]
    <3>1. ~ ends /\ t + 1 # need[f]
      BY <1>3, <1>7, <2>1
    <3> QED BY <1>6, <2>1, <3>1 DEF PushedFor
  <2>2. CASE t + 1 = need[f]
    <3>1. ends /\ ~ (t + 1 < need[f])
      BY <1>3, <1>7, <2>2
    <3> QED BY <1>6, <2>2, <3>1 DEF PushedFor
  <2> QED BY <1>6, <2>1, <2>2
<1>8. Reading(f) /\ f \notin TapeQueued /\ TapeQueued' = TapeQueued /\ f \notin validated /\ FifoSound(f)
  BY <1>1, <1>2, <1>6 DEF Reading, FilesFlow, FifoSound, TapeQueued
<1>9. /\ \A g \in Files \ {f} : fifo'[g] = fifo[g]
      /\ \A i \in 1..Len(fifo[f]) : Mark(f, i) \in {"data", "verify"}
      /\ Pushed(fifo[f], fifo'[f], b, ends)
  BY <1>5, <1>7a, <1>8, BlocksPushed
<1>10. PICK n \in Nat, m \in Nat :
        /\ n = Len(fifo[f]) /\ m = Len(fifo'[f])
        /\ fifo'[f][n + 1] = b /\ \A i \in 1..n : fifo'[f][i] = fifo[f][i]
        /\ ends \/ m = n + 1
        /\ ends => m = n + 2 /\ fifo'[f][n + 2] = EndOfFile
        /\ \A i \in 1..m : i \in 1..n \/ i = n + 1 \/ (ends /\ i = n + 2)
  BY <1>9 DEF Pushed
<1>11. /\ UNCHANGED <<need, verifyOnly>> /\ Queued' = Queued /\ Taken' = Taken
  BY <1>6, TapeOnlyIs
<1>12. /\ (Reading(f)' <=> ~ ends) /\ \A g \in Files \ {f} : ~ Reading(g) /\ ~ Reading(g)'
       /\ f \in validated' <=> ends
  BY <1>2, <1>7a, <1>8 DEF Reading
<1>m. /\ \A i \in 1..n : fifo'[f][i].mark \in {"data", "verify"} /\ fifo'[f][i].mark = fifo[f][i].mark
      /\ fifo'[f][n + 1].mark = b.mark /\ b.mark \in {"data", "verify"}
      /\ ends => fifo'[f][n + 2].mark = "end"
  BY <1>5, <1>9, <1>10, NewBlocks DEF Mark
<1>13. FifoSound(f)'
  <2>1. ASSUME NEW i \in 1..m
        PROVE  /\ fifo'[f][i].mark \in {"end", "cancelled"} => i = m
               /\ fifo'[f][i].mark = "data" => f \notin verifyOnly
               /\ fifo'[f][i].mark = "verify" => f \in verifyOnly
               /\ fifo'[f][i].mark \in {"end", "cancelled", "failed"} => ends
               /\ fifo'[f][i].mark \notin {"cancelled", "failed"}
    <3>1. CASE i \in 1..n
      BY <1>8, <1>10, <1>m, <3>1 DEF FifoSound, Mark
    <3>2. CASE i = n + 1
      BY <1>5, <1>m, <3>2
    <3>3. CASE ends /\ i = n + 2
      BY <1>10, <1>m, <3>3
    <3> QED BY <1>10, <2>1, <3>1, <3>2, <3>3
  <2>2. f \in Queued' \union Taken'
    BY <1>8, <1>11 DEF FifoSound
  <2> QED BY <1>8, <1>10, <1>11, <1>12, <2>1, <2>2 DEF FifoSound, Mark
<1>14. \A c \in Nat : ComesWhole(f, c) => ComesWhole(f, c)'
  <2> SUFFICES ASSUME NEW c \in Nat, ComesWhole(f, c) PROVE ComesWhole(f, c)'
    OBVIOUS
  <2>1. f \notin verifyOnly => c + n = t
    BY <1>2, <1>3, <1>8, <1>10 DEF ComesWhole
  <2>2. ASSUME NEW i \in 1..m
        PROVE  /\ fifo'[f][i].mark = "data" => fifo'[f][i].n = c + i
               /\ fifo'[f][i].mark = "end" => ends
    <3>1. CASE i \in 1..n
      BY <1>10, <1>m, <3>1 DEF ComesWhole, Mark
    <3>2. CASE i = n + 1
      <4>1. f \notin verifyOnly => c + (n + 1) = t + 1
        BY <2>1
      <4>2. fifo'[f][i] = b /\ (f \in verifyOnly => b.mark # "data")
        BY <1>5, <1>10, <3>2
      <4> QED BY <1>5, <3>2, <4>1, <4>2
    <3>3. CASE ends /\ i = n + 2
      BY <1>10, <1>m, <3>3
    <3> QED BY <1>10, <2>2, <3>1, <3>2, <3>3
  <2>3. f \notin verifyOnly => (~ ends => c + m = tapeBlock') /\ (ends => c + m = need[f] + 1)
    <3>1. PICK k \in Nat : k = need[f]
      BY <1>3, RecallAssumption
    <3>2. (ends => t + 1 = k /\ m = n + 2) /\ (~ ends => tapeBlock' = t + 1 /\ m = n + 1)
      BY <1>7, <1>7a, <1>10, <3>1
    <3>3. f \notin verifyOnly => (~ ends => c + m = t + 1) /\ (ends => c + m = k + 1)
      BY ONLY <2>1, <3>2, c \in Nat, n \in Nat, m \in Nat, t \in Nat, k \in Nat
    <3> QED BY <3>1, <3>2, <3>3
  <2> QED BY <1>8, <1>10, <1>11, <1>12, <2>2, <2>3 DEF ComesWhole, Mark
<1>15. tape' = "read" => tapeFile' \in Files /\ tapeBlock' < need[tapeFile']
  BY <1>2, <1>7a
<1>16. FilesFlow'
  <2>1. tape' # "read" => tapeBlock' = 0
    BY <1>2, <1>7a
  <2>2. \A g \in Files \ {f} : g \in validated' <=> g \in validated
    BY <1>7a
  <2>3. \A g \in Files \ {f} :
          /\ fifo'[g] = fifo[g] /\ (g \in TapeQueued' <=> g \in TapeQueued)
          /\ ~ Reading(g) /\ ~ Reading(g)' /\ (g \in validated' <=> g \in validated)
    BY <1>8, <1>9, <1>12, <2>2
  <2> QED BY <1>2, <1>6, <1>13, <1>14, <1>15, <2>1, <2>3, TapeFlow
<1>17. TapeOK' /\ validated' \in {validated, validated \union {f}} /\ tape' \in {"read", "pop"}
  <2>1. tapeBlock' \in 0..MaxBlocks
    BY <1>3, <1>7a, RecallAssumption
  <2> QED BY <1>1, <1>2, <1>6, <1>7a, <2>1 DEF TapeOK
<1>18. /\ tapeTasks' \in Seq(Files \union {End}) /\ Once(tapeTasks')
       /\ \A i \in 1..Len(tapeTasks') : tapeTasks'[i] = End => endSignaled
  BY <1>1, <1>6 DEF QueuesOK, InjectorEnds
<1> QED BY <1>5, <1>6, <1>7a, <1>8, <1>16, <1>17, <1>18, PushAssembled

\* The file cannot be read.
LEMMA ReadErrorKeeps ==
  ASSUME SessionInv, ReportErrorToDiskTask
  PROVE  SessionInv'
<1>1. /\ FilesFlow /\ QueuesOK /\ TapeOK /\ Once(tapeTasks) /\ InjectorEnds /\ OutcomesOK
  BY DEF SessionInv, TypeOK, JobsAccounted
<1>2. PICK f \in Files : f = tapeFile /\ tape = "read"
  BY <1>1 DEF ReportErrorToDiskTask, FilesFlow
<1>3. PICK b \in Blocks : b = Marked("failed") /\ b.mark = "failed"
  BY NewBlocks
<1>4. PICK ends \in BOOLEAN : ends
  OBVIOUS
<1>6. /\ TapeOnly
      /\ UNCHANGED <<requests, reports, raoPromise, tapeTasks, tapeDone, validated>>
      /\ Fault /\ PushedFor(f, b, ends) /\ tape' = "pop" /\ tapeFile' = End /\ tapeBlock' = 0
  BY <1>2, <1>3, <1>4
     DEF ReportErrorToDiskTask, TapeOnly, PushedFor, ReadTaskOver, FailedMark, queues, flags
<1>8. Reading(f) /\ f \notin TapeQueued /\ TapeQueued' = TapeQueued /\ f \notin validated /\ FifoSound(f)
  BY <1>1, <1>2, <1>6 DEF Reading, FilesFlow, FifoSound, TapeQueued
<1>9. /\ \A g \in Files \ {f} : fifo'[g] = fifo[g]
      /\ \A i \in 1..Len(fifo[f]) : Mark(f, i) \in {"data", "verify"}
      /\ Pushed(fifo[f], fifo'[f], b, ends)
  BY <1>3, <1>6, <1>8, BlocksPushed
<1>10. PICK n \in Nat, m \in Nat :
        /\ n = Len(fifo[f]) /\ m = Len(fifo'[f])
        /\ fifo'[f][n + 1] = b /\ \A i \in 1..n : fifo'[f][i] = fifo[f][i]
        /\ m = n + 2 /\ fifo'[f][n + 2] = EndOfFile
        /\ \A i \in 1..m : i \in 1..n \/ i = n + 1 \/ i = n + 2
  BY <1>4, <1>9 DEF Pushed
<1>11. /\ UNCHANGED <<need, verifyOnly>> /\ Queued' = Queued /\ Taken' = Taken
  BY <1>6, TapeOnlyIs
<1>12. \A g : ~ Reading(g)' /\ (g # f => ~ Reading(g))
  BY <1>2, <1>6 DEF Reading
<1>m. /\ \A i \in 1..n : fifo'[f][i].mark \in {"data", "verify"} /\ fifo'[f][i].mark = fifo[f][i].mark
      /\ fifo'[f][n + 1].mark = "failed" /\ fifo'[f][n + 2].mark = "end"
  BY <1>3, <1>9, <1>10, NewBlocks DEF Mark
<1>13. FifoSound(f)'
  <2>1. ASSUME NEW i \in 1..m
        PROVE  /\ fifo'[f][i].mark \in {"end", "cancelled"} => i = m
               /\ fifo'[f][i].mark = "data" => f \notin verifyOnly
               /\ fifo'[f][i].mark = "verify" => f \in verifyOnly
    <3>1. CASE i \in 1..n
      BY <1>8, <1>10, <1>m, <3>1 DEF FifoSound, Mark
    <3>2. CASE i \in {n + 1, n + 2}
      BY <1>10, <1>m, <3>2
    <3> QED BY <1>10, <2>1, <3>1, <3>2
  <2>2. f \in Queued' \union Taken'
    BY <1>8, <1>11 DEF FifoSound
  <2> QED BY <1>6, <1>8, <1>10, <1>11, <1>12, <2>1, <2>2 DEF FifoSound, Mark
<1>14. \A c \in Nat : ComesWhole(f, c) => ComesWhole(f, c)'
  <2> SUFFICES ASSUME NEW c \in Nat, ComesWhole(f, c) PROVE ComesWhole(f, c)'
    OBVIOUS
  <2>2. ASSUME NEW i \in 1..m
        PROVE  /\ fifo'[f][i].mark = "data" => fifo'[f][i].n = c + i
               /\ fifo'[f][i].mark = "end" => i > 1 /\ fifo'[f][i - 1].mark = "failed"
    <3>1. CASE i \in 1..n
      BY <1>10, <1>m, <3>1 DEF ComesWhole, Mark
    <3>2. CASE i = n + 1
      BY <1>m, <3>2
    <3>3. CASE i = n + 2
      <4>1. i > 1 /\ i - 1 = n + 1
        BY <3>3
      <4> QED BY <1>m, <3>3, <4>1
    <3> QED BY <1>10, <2>2, <3>1, <3>2, <3>3
  <2> QED BY <1>6, <1>8, <1>10, <1>11, <1>12, <2>2 DEF ComesWhole, Mark
<1>16. FilesFlow'
  BY <1>2, <1>6, <1>8, <1>9, <1>12, <1>13, <1>14, TapeFlow
<1>17. TapeOK' /\ faults' # 0
  BY <1>1, <1>6, RecallAssumption DEF TapeOK, OutcomesOK, Fault
<1>18. /\ tapeTasks' \in Seq(Files \union {End}) /\ Once(tapeTasks')
       /\ \A i \in 1..Len(tapeTasks') : tapeTasks'[i] = End => endSignaled
  BY <1>1, <1>6 DEF QueuesOK, InjectorEnds
<1> QED BY <1>3, <1>6, <1>8, <1>16, <1>17, <1>18, PushAssembled

\* After an error the remaining tasks are cancelled.
LEMMA FlushTaskKeeps ==
  ASSUME SessionInv, FlushTask
  PROVE  SessionInv'
<1>0. /\ TapeOnly /\ tape = "flush" /\ tapeTasks # <<>> /\ tapeTasks' = Tail(tapeTasks)
      /\ UNCHANGED <<requests, reports, tapeFile, tapeBlock, validated, raoPromise, tapeDone, faults>>
  BY DEF FlushTask, TapeOnly, flags
<1>1. /\ FilesFlow /\ QueuesOK /\ TapeOK /\ InjectorOK /\ ReportsTrue /\ ReportsEnd /\ ReportsOnce
  BY DEF SessionInv, TypeOK, JobsAccounted
<1>2. /\ UNCHANGED <<useRAO, need, verifyOnly, diskDone, onDisk, packer, successful, completed>>
      /\ Queued' = Queued /\ Taken' = Taken /\ diskTasks' = diskTasks
  BY <1>0, TapeOnlyIs
<1>3. /\ tapeTasks' \in Seq(Files \union {End}) /\ Once(tapeTasks')
      /\ TapeQueued' = TapeQueued \ {Head(tapeTasks)} /\ Head(tapeTasks) \in Files \union {End}
      /\ Head(tapeTasks) # End => Head(tapeTasks) \in TapeQueued
      /\ \A i \in 1..Len(tapeTasks') : tapeTasks'[i] = End => endSignaled
  BY <1>0, TaskTaken
<1>4. CASE Head(tapeTasks) = End
  <2>1. tape' = "complete" /\ UNCHANGED <<free, fifo>> /\ TapeQueued' = TapeQueued
    BY <1>3, <1>4, FilesAre DEF FlushTask, TapeQueued, InQueue
  <2>2. FilesFlow' /\ BlocksAccounted' /\ ReadAfterInjected'
    BY <1>0, <2>1, TapeStill
  <2>3. /\ Reporting' = Reporting /\ ReportsOnce' /\ ReportsTrue' /\ ReportsEnd'
    BY <1>0, <1>1, <1>2, ReportsFrame, ReportsEndFrame DEF Reporting, ReportsOnce
  <2>4. QueuesOK' /\ TapeOK' /\ raoPromise' \in BOOLEAN
    BY <1>0, <1>1, <1>2, <1>3, <2>1 DEF QueuesOK, TapeOK, InjectorOK
  <2>5. ~ CleanJobs
    BY <1>0 DEF CleanJobs
  <2> QED BY <1>0, <1>3, <2>2, <2>3, <2>4, <2>5, TapeAssembled
<1>5. CASE Head(tapeTasks) # End
  <2>1. PICK f \in Files : f = Head(tapeTasks) /\ f \in TapeQueued
    BY <1>3, <1>5
  <2>2. PICK b \in Blocks : b = Marked("cancelled") /\ b.mark = "cancelled"
    BY NewBlocks
  <2>3. PICK ends \in BOOLEAN : ~ ends
    OBVIOUS
  <2>4. PushedFor(f, b, ends) /\ tape' = tape
    BY <1>5, <2>1, <2>2, <2>3 DEF FlushTask, PushedFor
  <2>5. /\ fifo[f] = <<>> /\ Len(fifo[f]) = 0 /\ f \notin validated /\ f \in Queued \union Taken
        /\ FifoSound(f)
    BY <1>1, <2>1 DEF FilesFlow, FifoSound
  <2>6. \A g \in Files \ {f} : fifo'[g] = fifo[g] /\ (g \in TapeQueued' <=> g \in TapeQueued)
    BY <1>3, <2>1, <2>2, <2>4, BlocksPushed
  <2>7. Pushed(fifo[f], fifo'[f], b, ends)
    BY <2>1, <2>2, <2>4, BlocksPushed
  <2>8. Len(fifo'[f]) = 1 /\ fifo'[f][1] = b /\ \A i \in 1..1 : i = 1
    BY <2>3, <2>5, <2>7 DEF Pushed
  <2>9. \A g : ~ Reading(g) /\ ~ Reading(g)'
    BY <1>0, <2>4 DEF Reading
  <2>10. FifoSound(f)'
    BY <1>0, <1>2, <1>3, <2>1, <2>2, <2>5, <2>8, <2>9 DEF FifoSound, Mark
  <2>11. \A c \in Nat : ComesWhole(f, c) => ComesWhole(f, c)'
    BY <1>0, <1>3, <2>1, <2>2, <2>5, <2>8, <2>9 DEF ComesWhole, Mark
  <2>12. FilesFlow'
    BY <1>0, <1>1, <2>4, <2>6, <2>9, <2>10, <2>11, TapeFlow DEF FilesFlow
  <2>13. TapeOK' /\ ~ CleanJobs
    BY <1>0, <1>1, <2>4 DEF TapeOK, CleanJobs
  <2> QED BY <1>0, <1>3, <2>1, <2>2, <2>4, <2>12, <2>13, PushAssembled
<1> QED BY <1>4, <1>5

\* A step of the tape thread.
LEMMA TapeStep ==
  ASSUME SessionInv, TapeThread
  PROVE  SessionInv'
  BY TapeControlKeeps, PopTaskKeeps, ReadBlockKeeps, ReadErrorKeeps, FlushTaskKeeps DEF TapeThread

-----------------------------------------------------------------------------
(* The disk writers                                                        *)

\* The parts of the state a disk writer leaves alone.
DiskOnly ==
    UNCHANGED <<setup, requests, tapeTasks, raoPromise, firstTasksInjected, tapeDone, injVars,
                tapeVars, packerVars, requeued>>

\* The variables of DiskOnly, one by one, and what is read from them.
LEMMA DiskOnlyIs ==
  ASSUME DiskOnly
  PROVE  /\ UNCHANGED <<useRAO, need, verifyOnly, requests, tapeTasks>>
         /\ UNCHANGED <<raoPromise, firstTasksInjected, tapeDone>>
         /\ UNCHANGED <<inj, next, jobs, batch, lastCall, reservationFailed, endSignaled>>
         /\ UNCHANGED <<tape, tapeFile, tapeBlock, validated>>
         /\ UNCHANGED <<packer, successful, completed, failed, requeued>>
         /\ TapeQueued' = TapeQueued /\ \A f : Reading(f)' <=> Reading(f)
<1>1. /\ UNCHANGED <<useRAO, need, verifyOnly, requests, tapeTasks>>
      /\ UNCHANGED <<raoPromise, firstTasksInjected, tapeDone>>
      /\ UNCHANGED <<inj, next, jobs, batch, lastCall, reservationFailed, endSignaled>>
      /\ UNCHANGED <<tape, tapeFile, tapeBlock, validated>>
      /\ UNCHANGED <<packer, successful, completed, failed, requeued>>
  BY DEF DiskOnly, setup, injVars, tapeVars, packerVars
<1> QED BY <1>1 DEF TapeQueued, Reading

\* A step of a writer keeps the invariant when it keeps the parts it may disturb.
LEMMA DiskAssembled ==
  ASSUME SessionInv, DiskOnly, diskTasks' \in Seq(Files \union {End}), reports' \in Seq(ReportSet),
         free' \in 0..NbBlocks, fifo' \in [Files -> Seq(Blocks)], DisksOK', dropped' \subseteq Files,
         Fault \/ UNCHANGED faults, Once(diskTasks'), OnePlace(Where, next - 1)', ReportsOnce',
         WritersApart', FilesFlow', BlocksAccounted', ReportsTrue', WritersEnd', ReportsEnd',
         \A i, j \in 1..Len(diskTasks') : i < j /\ diskTasks'[i] = End => diskTasks'[j] = End,
         \A i \in 1..Len(diskTasks') : diskTasks'[i] = End => endSignaled,
         faults' = 0 /\ faults = 0 /\ CleanFiles /\ CleanJobs => CleanFiles' /\ dropped' = {}
  PROVE  SessionInv'
<1>1. /\ UNCHANGED <<useRAO, need, verifyOnly, requests, tapeTasks>>
      /\ UNCHANGED <<raoPromise, firstTasksInjected, tapeDone>>
      /\ UNCHANGED <<inj, next, jobs, batch, lastCall, reservationFailed, endSignaled>>
      /\ UNCHANGED <<tape, tapeFile, tapeBlock, validated>>
      /\ UNCHANGED <<packer, successful, completed, failed, requeued>>
  BY DiskOnlyIs
<1>2. faults' \in 0..MaxFaults /\ (faults' = 0 => faults = 0)
  BY FaultGrows DEF SessionInv, TypeOK, OutcomesOK
<1>3. TypeOK'
  <2>1. QueuesOK /\ InjectorOK /\ TapeOK /\ OutcomesOK
    BY DEF SessionInv, TypeOK
  <2>2. QueuesOK'
    BY <1>1, <2>1 DEF QueuesOK
  <2>3. InjectorOK'
    BY <1>1, <2>1 DEF InjectorOK
  <2>4. TapeOK' /\ OutcomesOK'
    BY <1>1, <1>2, <2>1 DEF TapeOK, OutcomesOK
  <2> QED BY <2>2, <2>3, <2>4 DEF TypeOK
<1>4. JobsAccounted'
  BY <1>1 DEF SessionInv, JobsAccounted
<1>5. ReadAfterInjected'
  BY <1>1 DEF SessionInv, ReadAfterInjected
<1>6. InjectorEnds'
  BY <1>1 DEF SessionInv, InjectorEnds
<1>7. faults' = 0 => CleanFiles' /\ CleanJobs'
  BY <1>1, <1>2 DEF SessionInv, CleanJobs
<1> QED BY <1>3, <1>4, <1>5, <1>6, <1>7 DEF SessionInv

\* A writer d only touches the file f.
LEMMA DiskFlow ==
  ASSUME SessionInv, DiskOnly, NEW d \in DiskThreads, NEW f \in Files,
         \A g \in Files \ {f} : /\ fifo'[g] = fifo[g] /\ (g \in Queued' <=> g \in Queued)
                                /\ (g \in Taken' <=> g \in Taken),
         \A e \in DiskThreads \ {d} :
           /\ disk'[e] = disk[e] /\ diskFile'[e] = diskFile[e] /\ diskBlock'[e] = diskBlock[e]
           /\ Busy(e) => diskFile[e] # f,
         FifoSound(f)', f \notin Queued', disk'[d] = "pop" => diskBlock'[d] = 0,
         disk'[d] = "write" => ComesWhole(diskFile[d], diskBlock[d])'
  PROVE  FilesFlow'
<1>1. /\ UNCHANGED <<need, verifyOnly, inj, tape, tapeFile, tapeBlock, validated>>
      /\ TapeQueued' = TapeQueued /\ \A g : Reading(g)' <=> Reading(g)
  BY DiskOnlyIs
<1>2. FilesFlow /\ WritersApart /\ DisksOK
  BY DEF SessionInv, JobsAccounted, TypeOK
<1>3. ASSUME NEW g \in Files \ {f} PROVE FifoSound(g)'
  BY <1>1, <1>2, <1>3 DEF FilesFlow, FifoSound, Mark
<1>4. ASSUME NEW g \in Files \ {f}, NEW b, ComesWhole(g, b) PROVE ComesWhole(g, b)'
  BY <1>1, <1>4 DEF ComesWhole, Mark
<1>5. ASSUME NEW g \in Queued' PROVE ComesWhole(g, 0)'
  <2>1. g \in Files \ {f}
    BY DEF Queued, InQueue
  <2>2. ComesWhole(g, 0)
    BY <1>2, <2>1 DEF FilesFlow
  <2> QED BY <1>4, <2>1, <2>2
<1>6. ASSUME NEW e \in DiskThreads, disk'[e] = "write" PROVE ComesWhole(diskFile[e], diskBlock[e])'
  <2>1. CASE e = d
    BY <1>6, <2>1
  <2>2. CASE e # d
    <3>1. disk[e] = "write" /\ Busy(e)
      BY <1>6, <2>2 DEF Busy
    <3>2. diskFile[e] \in Files \ {f}
      BY <1>2, <2>2, <3>1 DEF WritersApart
    <3>3. PICK g, b : g = diskFile[e] /\ b = diskBlock[e]
      OBVIOUS
    <3>4. ComesWhole(g, b)
      BY <1>2, <3>1, <3>3 DEF FilesFlow
    <3>5. ComesWhole(g, b)'
      BY <1>4, <3>2, <3>3, <3>4
    <3> QED BY <2>2, <3>3, <3>5
  <2> QED BY <2>1, <2>2
<1>7. \A e \in DiskThreads : disk'[e] = "pop" => diskBlock'[e] = 0
  BY <1>2 DEF FilesFlow
<1> QED BY <1>1, <1>2, <1>3, <1>5, <1>6, <1>7 DEF FilesFlow

\* While a writer is not finished, nobody has reported the end of the session.
LEMMA WriterKeepsOpen ==
  ASSUME SessionInv, NEW d \in DiskThreads, ~ Exited(d)
  PROVE  /\ ~ diskDone /\ packer = "run" /\ active > 0
         /\ \A i \in 1..Len(reports) : reports[i].type # "end"
<1>1. PICK S : S = {e \in DiskThreads : ~ Exited(e)}
  OBVIOUS
<1>2. /\ active = Cardinality(S) /\ (diskDone <=> active = 0) /\ ReportsEnd
  BY <1>1 DEF SessionInv, WritersEnd
<1>3. IsFiniteSet(S) /\ d \in S
  BY <1>1, RecallAssumption, FS_Subset
<1>4. Cardinality(S) \in Nat /\ Cardinality(S) # 0
  BY <1>3, FS_CardinalityType, FS_EmptySet
<1> QED BY <1>2, <1>4 DEF ReportsEnd

\* The queue r of a file is q without its first block x.
Popped(q, r, x) ==
    \E n \in Nat : /\ Len(q) = n + 1 /\ Len(r) = n /\ x = q[1] /\ 1 \in 1..n + 1
                   /\ \A i \in 1..n : r[i] = q[i + 1] /\ i + 1 \in 1..n + 1

\* A writer takes a block of its file, which goes back to the pool.
LEMMA BlockTaken ==
  ASSUME SessionInv, NEW d \in DiskThreads, Busy(d), PopBlock(d)
  PROVE  \E f \in Files, x \in Blocks :
           /\ f = diskFile[d] /\ x = FirstBlock(d) /\ f \in Taken /\ f \notin Queued
           /\ fifo' \in [Files -> Seq(Blocks)] /\ free' \in 0..NbBlocks /\ BlocksAccounted'
           /\ \A g \in Files \ {f} : fifo'[g] = fifo[g]
           /\ x = EndOfFile => fifo'[f] = <<>>
           /\ Popped(fifo[f], fifo'[f], x) /\ FifoSound(f)
           /\ \A e \in DiskThreads \ {d} : Busy(e) => diskFile[e] # f
<1>1. /\ fifo \in [Files -> Seq(Blocks)] /\ free \in 0..NbBlocks /\ BlocksAccounted
      /\ WritersApart /\ OnePlace(Where, next - 1)
  BY DEF SessionInv, TypeOK, QueuesOK, JobsAccounted
<1>2. PICK f \in Files : f = diskFile[d] /\ f \in Taken
  BY <1>1 DEF WritersApart, Taken
<1>3. FifoSound(f)
  BY DEF SessionInv, FilesFlow
<1>4. PICK q \in Seq(Blocks) : q = fifo[f] /\ q # <<>>
  BY <1>1, <1>2 DEF PopBlock
<1>5. \A i \in 1..Len(q) : q[i].mark = "end" => i = Len(q)
  BY <1>3, <1>4 DEF FifoSound, Mark
<1>6. /\ Tail(q) \in Seq(Blocks) /\ Head(q) \in Blocks
      /\ Waiting(q) \in Nat /\ Waiting(Tail(q)) \in Nat
      /\ Head(q) # EndOfFile => Waiting(q) = Waiting(Tail(q)) + 1
      /\ Head(q) = EndOfFile => Waiting(q) = Waiting(Tail(q)) /\ Tail(q) = <<>>
  BY <1>4, <1>5, TakeBlock
<1>7. PICK n \in Nat : /\ Len(q) = n + 1 /\ Len(Tail(q)) = n /\ Head(q) = q[1] /\ 1 \in 1..n + 1
                       /\ \A i \in 1..n : Tail(q)[i] = q[i + 1] /\ i + 1 \in 1..n + 1
  BY <1>4, <1>5, TakeBlock
<1>8. PICK r, x : r = Tail(q) /\ x = Head(q)
  OBVIOUS
<1>9. x \in Blocks /\ x = FirstBlock(d)
  BY <1>2, <1>4, <1>6, <1>8 DEF FirstBlock
<1>10. /\ fifo'[f] = r /\ \A g \in Files \ {f} : fifo'[g] = fifo[g]
       /\ fifo' \in [Files -> Seq(Blocks)]
       /\ free' = IF x = EndOfFile THEN free ELSE free + 1
  BY <1>1, <1>2, <1>4, <1>6, <1>8, <1>9 DEF PopBlock, ReleaseBlock
<1>11. BlocksAccounted' /\ free' \in 0..NbBlocks
  <2>1. CASE x = EndOfFile
    <3>1. \A g \in Files : Waiting(fifo'[g]) = Waiting(fifo[g])
      BY <1>4, <1>6, <1>8, <1>10, <2>1
    <3> QED BY <1>1, <1>10, <2>1, <3>1, OutSame
  <2>2. CASE x # EndOfFile
    <3>1. Waiting(fifo'[f]) \in Nat /\ Waiting(fifo[f]) = Waiting(fifo'[f]) + 1
      BY <1>4, <1>6, <1>8, <1>10, <2>2
    <3> QED BY <1>1, <1>10, <2>2, <3>1, OutShrinks
  <2> QED BY <2>1, <2>2
<1>12. Popped(q, r, x)
  BY <1>7, <1>8 DEF Popped
<1>13. f \notin Queued
  <2>1. PICK w : w = Where
    OBVIOUS
  <2>2. w["queue"] = Queued /\ w["disk"] = Taken
    BY <2>1, WhereIs
  <2>3. w["queue"] \cap w["disk"] = {}
    BY <1>1, <2>1 DEF OnePlace, Places
  <2> QED BY <1>2, <2>2, <2>3
<1>14. \A e \in DiskThreads \ {d} : Busy(e) => diskFile[e] # f
  BY <1>1, <1>2 DEF WritersApart
<1>15. x = EndOfFile => fifo'[f] = <<>>
  BY <1>6, <1>8, <1>10
<1>16. Popped(fifo[f], fifo'[f], x)
  BY <1>4, <1>10, <1>12
<1> QED BY <1>2, <1>3, <1>9, <1>10, <1>11, <1>13, <1>14, <1>15, <1>16

\* What is left in the queue of the file is as sound as before.
LEMMA RestIsSound ==
  ASSUME DiskOnly, NEW f \in Files, NEW x \in Blocks, Popped(fifo[f], fifo'[f], x), FifoSound(f),
         f \in Taken' \/ x.mark \in {"end", "cancelled"}, fifo' \in [Files -> Seq(Blocks)],
         fifo \in [Files -> Seq(Blocks)]
  PROVE  FifoSound(f)'
<1>1. /\ UNCHANGED <<verifyOnly, validated>>
      /\ TapeQueued' = TapeQueued /\ \A g : Reading(g)' <=> Reading(g)
  BY DiskOnlyIs
<1>2. PICK n \in Nat : /\ Len(fifo[f]) = n + 1 /\ Len(fifo'[f]) = n /\ x = fifo[f][1] /\ 1 \in 1..n + 1
                       /\ \A i \in 1..n : fifo'[f][i] = fifo[f][i + 1] /\ i + 1 \in 1..n + 1
  BY DEF Popped
<1>3. ASSUME NEW i \in 1..n
      PROVE  /\ fifo'[f][i].mark \in {"end", "cancelled"} => i = n
             /\ fifo'[f][i].mark = "data" => f \notin verifyOnly
             /\ fifo'[f][i].mark = "verify" => f \in verifyOnly
             /\ fifo'[f][i].mark \in {"end", "cancelled", "failed"} => f \notin TapeQueued /\ ~ Reading(f)
             /\ f \in validated => fifo'[f][i].mark \notin {"cancelled", "failed"}
  <2>1. fifo'[f][i] = fifo[f][i + 1] /\ i + 1 \in 1..n + 1 /\ (i + 1 = n + 1 => i = n)
    BY <1>2
  <2> QED BY <1>2, <2>1 DEF FifoSound, Mark
<1>4. f \notin TapeQueued /\ (f \in TapeQueued \/ Reading(f) => f \notin validated)
  <2>1. fifo[f] # <<>>
    BY <1>2
  <2> QED BY <2>1 DEF FifoSound
<1>5. fifo'[f] # <<>> \/ f \in TapeQueued \/ Reading(f) => f \in Queued' \union Taken'
  <2>1. CASE f \in Taken'
    BY <2>1
  <2>2. CASE x.mark \in {"end", "cancelled"}
    <3>1. 1 = n + 1 /\ f \notin TapeQueued /\ ~ Reading(f)
      BY <1>2, <2>2 DEF FifoSound, Mark
    <3>2. \A s \in Seq(Blocks) : Len(s) = 0 => s = <<>>
      OBVIOUS
    <3>3. fifo'[f] = <<>>
      BY <1>2, <3>1, <3>2
    <3> QED BY <3>1, <3>3
  <2> QED BY <2>1, <2>2
<1> QED BY <1>1, <1>2, <1>3, <1>4, <1>5 DEF FifoSound, Mark

\* What a writer that has written c blocks finds next.
LEMMA WriterFinds ==
  ASSUME DiskOnly, NEW f \in Files, NEW x \in Blocks, Popped(fifo[f], fifo'[f], x), FifoSound(f),
         NEW c \in Nat, ComesWhole(f, c), need[f] \in Nat, tapeBlock \in Nat
  PROVE  /\ x.mark = "data" => x.n = c + 1 /\ ComesWhole(f, c + 1)'
         /\ x.mark = "verify" => ComesWhole(f, c)'
         /\ x.mark = "end" => f \in validated /\ (f \notin verifyOnly => c = need[f])
<1>1. /\ UNCHANGED <<need, verifyOnly, validated, tapeBlock>>
      /\ TapeQueued' = TapeQueued /\ \A g : Reading(g)' <=> Reading(g)
  BY DiskOnlyIs
<1>2. PICK n \in Nat : /\ Len(fifo[f]) = n + 1 /\ Len(fifo'[f]) = n /\ x = fifo[f][1] /\ 1 \in 1..n + 1
                       /\ \A i \in 1..n : fifo'[f][i] = fifo[f][i + 1] /\ i + 1 \in 1..n + 1
  BY DEF Popped
<1>3. PICK k \in Nat, t \in Nat : k = need[f] /\ t = tapeBlock
  OBVIOUS
<1>4. /\ f \notin TapeQueued
      /\ f \notin verifyOnly => /\ Reading(f) => c + (n + 1) = t
                                /\ f \in validated => c + (n + 1) = k + 1
  <2>1. fifo[f] # <<>>
    BY <1>2
  <2> QED BY <1>2, <1>3, <2>1 DEF FifoSound, ComesWhole
<1>5. ASSUME x.mark # "failed", NEW i \in 1..n, fifo'[f][i].mark = "end", f \notin validated
      PROVE  i > 1 /\ fifo'[f][i - 1].mark = "failed"
  <2>1. fifo[f][i + 1].mark = "end" /\ i + 1 \in 1..n + 1
    BY <1>2, <1>5
  <2>2. fifo[f][(i + 1) - 1].mark = "failed"
    BY <1>2, <1>5, <2>1 DEF ComesWhole, Mark
  <2>3. (i + 1) - 1 = i
    OBVIOUS
  <2>4. i > 1
    <3>1. i # 1
      BY <1>2, <1>5, <2>2, <2>3
    <3> QED BY <3>1
  <2>5. i - 1 \in 1..n /\ (i - 1) + 1 = i
    BY <2>4
  <2>6. fifo'[f][i - 1] = fifo[f][i]
    BY <1>2, <2>5
  <2> QED BY <2>2, <2>3, <2>4, <2>6
<1>6. ASSUME x.mark = "data" PROVE x.n = c + 1 /\ ComesWhole(f, c + 1)'
  <2>1. x.n = c + 1
    BY <1>2, <1>6 DEF ComesWhole, Mark
  <2>2. ASSUME NEW i \in 1..n, fifo'[f][i].mark = "data" PROVE fifo'[f][i].n = (c + 1) + i
    <3>1. fifo[f][i + 1].mark = "data" /\ i + 1 \in 1..n + 1 /\ fifo'[f][i] = fifo[f][i + 1]
      BY <1>2, <2>2
    <3>2. fifo[f][i + 1].n = c + (i + 1)
      BY <1>2, <3>1 DEF ComesWhole, Mark
    <3>3. c + (i + 1) = (c + 1) + i
      OBVIOUS
    <3> QED BY <3>1, <3>2, <3>3
  <2>3. /\ f \notin verifyOnly => /\ Reading(f) => (c + 1) + n = t
                                  /\ f \in validated => (c + 1) + n = k + 1
    BY <1>4
  <2>4. ASSUME NEW i \in 1..n, fifo'[f][i].mark = "end", f \notin validated
        PROVE  i > 1 /\ fifo'[f][i - 1].mark = "failed"
    BY <1>5, <1>6, <2>4
  <2> QED BY <1>1, <1>2, <1>3, <1>4, <2>1, <2>2, <2>3, <2>4 DEF ComesWhole, Mark
<1>7. ASSUME x.mark = "verify" PROVE ComesWhole(f, c)'
  <2>1. f \in verifyOnly
    BY <1>2, <1>7 DEF FifoSound, Mark
  <2>2. \A i \in 1..n : fifo'[f][i].mark # "data"
    BY <1>2, <2>1 DEF FifoSound, Mark
  <2>3. ASSUME NEW i \in 1..n, fifo'[f][i].mark = "end", f \notin validated
        PROVE  i > 1 /\ fifo'[f][i - 1].mark = "failed"
    BY <1>5, <1>7, <2>3
  <2> QED BY <1>1, <1>2, <2>1, <2>2, <2>3 DEF ComesWhole, Mark
<1>8. ASSUME x.mark = "end" PROVE f \in validated /\ (f \notin verifyOnly => c = need[f])
  <2>1. 1 = n + 1
    BY <1>2, <1>8 DEF FifoSound, Mark
  <2>2. f \in validated
    BY <1>2, <1>8 DEF ComesWhole, Mark
  <2> QED BY <1>3, <1>4, <2>1, <2>2
<1> QED BY <1>6, <1>7, <1>8

\* A writer goes on with its file, or gives it up.
LEMMA StillBusy ==
  ASSUME SessionInv, DiskOnly, NEW d \in DiskThreads, Busy(d), PopBlock(d),
         NEW v \in {"write", "release"}, disk' = [disk EXCEPT ![d] = v],
         NEW c \in 0..MaxBlocks, diskBlock' = [diskBlock EXCEPT ![d] = c],
         v = "write" => ComesWhole(diskFile[d], c)',
         verifying' \in [DiskThreads -> BOOLEAN], Fault \/ UNCHANGED faults,
         UNCHANGED <<diskTasks, reports, diskFile, active, onDisk, diskDone, dropped>>,
         faults' = 0 /\ faults = 0 /\ CleanFiles => v = "write"
  PROVE  SessionInv'
<1>1. /\ UNCHANGED <<need, verifyOnly, next, jobs, batch, endSignaled, validated>>
      /\ UNCHANGED <<packer, successful, completed, failed, requeued>>
  BY DiskOnlyIs
<1>2. /\ QueuesOK /\ DisksOK /\ OutcomesOK /\ JobsAccounted /\ ReportsTrue /\ ReportsEnd
      /\ InjectorEnds /\ WritersEnd
  BY DEF SessionInv, TypeOK
<1>3. PICK f \in Files, x \in Blocks :
           /\ f = diskFile[d] /\ x = FirstBlock(d) /\ f \in Taken /\ f \notin Queued
           /\ fifo' \in [Files -> Seq(Blocks)] /\ free' \in 0..NbBlocks /\ BlocksAccounted'
           /\ \A g \in Files \ {f} : fifo'[g] = fifo[g]
           /\ Popped(fifo[f], fifo'[f], x) /\ FifoSound(f)
           /\ \A e \in DiskThreads \ {d} : Busy(e) => diskFile[e] # f
  BY BlockTaken
<1>4. /\ disk'[d] = v /\ diskBlock'[d] = c
      /\ \A e \in DiskThreads \ {d} : disk'[e] = disk[e] /\ diskBlock'[e] = diskBlock[e]
  BY <1>2 DEF DisksOK
<1>5. \A e \in DiskThreads : Busy(e)' <=> Busy(e)
  BY <1>4 DEF Busy
<1>6. Queued' = Queued /\ Taken' = Taken /\ Reporting' = Reporting
  BY <1>5 DEF Queued, Taken, Reporting
<1>7. DisksOK'
  BY <1>2 DEF DisksOK
<1>8. OnePlace(Where, next - 1)'
  <2>1. \A p \in Places : Where'[p] = Where[p]
    BY <1>1, <1>6, WhereIs, WhereIsNext DEF Places
  <2> QED BY <1>1, <1>2, <2>1, NotMoved DEF JobsAccounted
<1>9. WritersApart' /\ ReportsOnce'
  BY <1>2, <1>5 DEF JobsAccounted, WritersApart, ReportsOnce
<1>10. FifoSound(f)'
  BY <1>2, <1>3, <1>6, RestIsSound DEF QueuesOK
<1>11. FilesFlow'
  BY <1>3, <1>4, <1>6, <1>10, DiskFlow
<1>12. ReportsTrue' /\ ReportsEnd'
  BY <1>1, <1>2, ReportsFrame, ReportsEndFrame
<1>13. WritersEnd'
  <2>1. \A e \in DiskThreads : Exited(e)' <=> Exited(e)
    BY <1>4 DEF Exited, Busy
  <2>2. {e \in DiskThreads : ~ Exited(e)}' = {e \in DiskThreads : ~ Exited(e)}
    BY <2>1
  <2>3. \A e \in DiskThreads : disk'[e] \in {"exit", "report", "done"} => endSignaled' /\ Queued' = {}
    BY <1>1, <1>2, <1>4, <1>6 DEF WritersEnd
  <2> QED BY <1>2, <2>2, <2>3 DEF WritersEnd
<1>14. faults' = 0 /\ faults = 0 /\ CleanFiles /\ CleanJobs => CleanFiles' /\ dropped' = {}
  <2> SUFFICES ASSUME faults' = 0, faults = 0, CleanFiles, CleanJobs PROVE CleanFiles' /\ dropped' = {}
    OBVIOUS
  <2>1. ASSUME NEW g \in Files, NEW i \in 1..Len(fifo'[g])
        PROVE  fifo'[g][i].mark \notin {"failed", "cancelled"}
    <3>1. CASE g # f
      BY <1>3, <2>1, <3>1 DEF CleanFiles, Mark
    <3>2. CASE g = f
      <4>1. i + 1 \in 1..Len(fifo[f]) /\ fifo'[f][i] = fifo[f][i + 1]
        BY <1>3, <2>1, <3>2 DEF Popped
      <4> QED BY <3>2, <4>1 DEF CleanFiles, Mark
    <3> QED BY <3>1, <3>2
  <2>2. \A e \in DiskThreads : disk'[e] # "release"
    BY <1>4 DEF CleanFiles
  <2>3. CleanFiles'
    BY <1>1, <2>1, <2>2 DEF CleanFiles, Mark
  <2> QED BY <2>3 DEF CleanJobs
<1>15. /\ diskTasks' \in Seq(Files \union {End}) /\ Once(diskTasks') /\ reports' \in Seq(ReportSet)
       /\ dropped' \subseteq Files
       /\ \A i, j \in 1..Len(diskTasks') : i < j /\ diskTasks'[i] = End => diskTasks'[j] = End
       /\ \A i \in 1..Len(diskTasks') : diskTasks'[i] = End => endSignaled
  BY <1>2 DEF QueuesOK, JobsAccounted, OutcomesOK, InjectorEnds
<1> QED BY <1>3, <1>7, <1>8, <1>9, <1>11, <1>12, <1>13, <1>14, <1>15, DiskAssembled

\* A block is written, or ignored.
LEMMA WriteBlockKeeps ==
  ASSUME SessionInv, NEW d \in DiskThreads, WriteBlock(d)
  PROVE  SessionInv'
<1>0. /\ DiskOnly /\ disk[d] = "write" /\ Busy(d) /\ PopBlock(d)
      /\ UNCHANGED <<diskTasks, reports, disk, diskFile, active, onDisk, diskDone, dropped, faults>>
  BY DEF WriteBlock, DiskOnly, Busy, queues, flags
<1>1. DisksOK /\ QueuesOK /\ TapeOK /\ FilesFlow
  BY DEF SessionInv, TypeOK
<1>2. PICK f \in Files, x \in Blocks :
           f = diskFile[d] /\ x = FirstBlock(d) /\ Popped(fifo[f], fifo'[f], x) /\ FifoSound(f)
  BY <1>0, BlockTaken
<1>3. PICK c \in Nat : c = diskBlock[d] /\ c \in 0..MaxBlocks
  BY <1>1, RecallAssumption DEF DisksOK
<1>4. ComesWhole(f, c)
  BY <1>0, <1>1, <1>2, <1>3 DEF FilesFlow
<1>5. need[f] \in Nat /\ tapeBlock \in Nat
  BY <1>1, RecallAssumption DEF QueuesOK, TapeOK
<1>6. /\ x.mark = "data" => x.n = c + 1 /\ ComesWhole(f, c + 1)'
      /\ x.mark = "verify" => ComesWhole(f, c)'
  BY <1>0, <1>2, <1>4, <1>5, WriterFinds
<1>7. PICK b \in 0..MaxBlocks :
        /\ diskBlock' = [diskBlock EXCEPT ![d] = b] /\ ComesWhole(f, b)'
        /\ verifying' \in [DiskThreads -> BOOLEAN]
  <2>1. CASE x.mark = "verify"
    <3>1. diskBlock' = diskBlock /\ verifying' = [verifying EXCEPT ![d] = TRUE]
      BY <1>2, <2>1 DEF WriteBlock
    <3>2. diskBlock' = [diskBlock EXCEPT ![d] = c]
      BY <1>1, <1>3, <3>1 DEF DisksOK
    <3>3. verifying' \in [DiskThreads -> BOOLEAN]
      BY <1>1, <3>1 DEF DisksOK
    <3> QED BY <1>3, <1>6, <2>1, <3>2, <3>3
  <2>2. CASE x.mark = "data"
    <3>1. diskBlock' = [diskBlock EXCEPT ![d] = diskBlock[d] + 1] /\ verifying' = verifying
      BY <1>2, <2>2 DEF WriteBlock
    <3>2. c + 1 \in 0..MaxBlocks
      BY <1>6, <2>2, BlockMarks, RecallAssumption
    <3> QED BY <1>1, <1>3, <1>6, <2>2, <3>1, <3>2 DEF DisksOK
  <2> QED BY <1>2, <2>1, <2>2 DEF WriteBlock
<1>8. disk' = [disk EXCEPT ![d] = "write"]
  BY <1>0, <1>1 DEF DisksOK
<1>9. ComesWhole(diskFile[d], b)'
  BY <1>0, <1>2, <1>7
<1> QED BY <1>0, <1>7, <1>8, <1>9, StillBusy

\* The file is given up, with an error of the disk or because of the block.
LEMMA WriteErrorKeeps ==
  ASSUME SessionInv, NEW d \in DiskThreads, WriteError(d) \/ CloseError(d)
  PROVE  SessionInv'
<1>0. /\ DiskOnly /\ disk[d] = "write" /\ Busy(d) /\ PopBlock(d) /\ disk' = [disk EXCEPT ![d] = "release"]
      /\ UNCHANGED <<diskTasks, reports, diskFile, diskBlock, verifying, active, onDisk, diskDone, dropped>>
      /\ Fault \/ (UNCHANGED faults /\ WrongBlock(d) /\ FirstBlock(d).mark \in {"data", "failed"})
  BY DEF WriteError, CloseError, DiskOnly, Busy, queues, flags
<1>1. DisksOK /\ QueuesOK /\ TapeOK /\ FilesFlow /\ OutcomesOK
  BY DEF SessionInv, TypeOK
<1>2. PICK f \in Files, x \in Blocks :
           f = diskFile[d] /\ x = FirstBlock(d) /\ Popped(fifo[f], fifo'[f], x) /\ FifoSound(f)
  BY <1>0, BlockTaken
<1>3. PICK c \in Nat : c = diskBlock[d] /\ c \in 0..MaxBlocks
  BY <1>1, RecallAssumption DEF DisksOK
<1>4. ComesWhole(f, c)
  BY <1>0, <1>1, <1>2, <1>3 DEF FilesFlow
<1>5. need[f] \in Nat /\ tapeBlock \in Nat
  BY <1>1, RecallAssumption DEF QueuesOK, TapeOK
<1>6. x.mark = "data" => x.n = c + 1
  BY <1>0, <1>2, <1>4, <1>5, WriterFinds
<1>7. ~ (faults' = 0 /\ faults = 0 /\ CleanFiles)
  <2> SUFFICES ASSUME faults' = 0, faults = 0, CleanFiles PROVE FALSE
    OBVIOUS
  <2>1. ~ Fault
    BY DEF Fault
  <2>2. x.mark = "failed"
    BY <1>0, <1>2, <1>3, <1>6, <2>1 DEF WrongBlock
  <2>3. fifo[f][1] = x /\ 1 \in 1..Len(fifo[f])
    BY <1>2 DEF Popped
  <2> QED BY <2>2, <2>3 DEF CleanFiles, Mark
<1>8. diskBlock' = [diskBlock EXCEPT ![d] = c] /\ verifying' \in [DiskThreads -> BOOLEAN]
  BY <1>0, <1>1, <1>3 DEF DisksOK
<1> QED BY <1>0, <1>3, <1>7, <1>8, StillBusy

\* A writer is done with its file f, which goes to another place.
LEMMA TaskOver ==
  ASSUME SessionInv, DiskOnly, NEW d \in DiskThreads, Busy(d), PopBlock(d), WriteTaskOver(d),
         FirstBlock(d).mark \in {"end", "cancelled"},
         onDisk' \in [Files -> 0..MaxBlocks], UNCHANGED <<diskTasks, active, diskDone, faults>>,
         reports' \in Seq(ReportSet), ReportsOnce', ReportsTrue', ReportsEnd', dropped' \subseteq Files,
         NEW p \in {"reports", "dropped"},
         Reporting' = Reporting \union (IF p = "reports" THEN {diskFile[d]} ELSE {}),
         dropped' = dropped \union (IF p = "dropped" THEN {diskFile[d]} ELSE {}),
         faults = 0 /\ CleanFiles /\ CleanJobs =>
           dropped' = {} /\ \A i \in 1..Len(reports') : reports'[i].type # "failed"
  PROVE  SessionInv'
<1>1. /\ UNCHANGED <<need, verifyOnly, next, jobs, batch, endSignaled, validated>>
      /\ UNCHANGED <<packer, successful, completed, failed, requeued>>
  BY DiskOnlyIs
<1>2. /\ QueuesOK /\ DisksOK /\ OutcomesOK /\ JobsAccounted /\ InjectorEnds /\ WritersEnd
  BY DEF SessionInv, TypeOK
<1>3. PICK f \in Files, x \in Blocks :
           /\ f = diskFile[d] /\ x = FirstBlock(d) /\ f \in Taken /\ f \notin Queued
           /\ fifo' \in [Files -> Seq(Blocks)] /\ free' \in 0..NbBlocks /\ BlocksAccounted'
           /\ \A g \in Files \ {f} : fifo'[g] = fifo[g]
           /\ Popped(fifo[f], fifo'[f], x) /\ FifoSound(f)
           /\ \A e \in DiskThreads \ {d} : Busy(e) => diskFile[e] # f
  BY BlockTaken
<1>4. /\ disk'[d] = "pop" /\ diskBlock'[d] = 0
      /\ \A e \in DiskThreads \ {d} :
           disk'[e] = disk[e] /\ diskBlock'[e] = diskBlock[e] /\ diskFile'[e] = diskFile[e]
  BY <1>2 DEF DisksOK, WriteTaskOver
<1>5. /\ ~ Busy(d)' /\ \A e \in DiskThreads \ {d} : Busy(e)' <=> Busy(e)
  BY <1>4 DEF Busy
<1>6. Queued' = Queued /\ Taken' = Taken \ {f}
  <2>1. Queued' = Queued
    BY DEF Queued
  <2>2. ASSUME NEW g \in Files PROVE g \in Taken' <=> g \in Taken /\ g # f
    <3>1. g \in Taken' <=> \E e \in DiskThreads \ {d} : Busy(e) /\ diskFile[e] = g
      BY <1>4, <1>5 DEF Taken
    <3>2. g \in Taken <=> \E e \in DiskThreads : Busy(e) /\ diskFile[e] = g
      BY DEF Taken
    <3> QED BY <1>3, <3>1, <3>2
  <2> QED BY <2>1, <2>2 DEF Taken
<1>7. DisksOK'
  <2>1. /\ disk' \in [DiskThreads -> {"pop", "write", "release", "exit", "report", "done"}]
        /\ diskFile' \in [DiskThreads -> Files \union {End}]
    BY <1>2 DEF DisksOK, WriteTaskOver
  <2>2. diskBlock' \in [DiskThreads -> 0..MaxBlocks] /\ verifying' \in [DiskThreads -> BOOLEAN]
    BY <1>2, RecallAssumption DEF DisksOK, WriteTaskOver
  <2> QED BY <1>2, <2>1, <2>2 DEF DisksOK
<1>8. OnePlace(Where, next - 1)'
  <2>1. PICK X : X = {f}
    OBVIOUS
  <2>2. PICK a, b : a = "disk" /\ b = p
    OBVIOUS
  <2>3. a \in Places /\ b \in Places /\ a # b
    BY <2>2 DEF Places
  <2>4. X \subseteq Where[a] /\ Where'[a] = Where[a] \ X
    BY <1>3, <1>6, <2>1, <2>2, WhereIs, WhereIsNext
  <2>5. Where'[b] = Where[b] \union X
    <3>1. CASE p = "reports"
      BY <1>3, <2>1, <2>2, <3>1, WhereIs, WhereIsNext
    <3>2. CASE p = "dropped"
      BY <1>3, <2>1, <2>2, <3>2, WhereIs, WhereIsNext
    <3> QED BY <3>1, <3>2
  <2>6. \A q \in Places \ {a, b} : Where'[q] = Where[q]
    <3>1. CASE p = "reports"
      <4>1. dropped' = dropped
        BY <3>1
      <4> QED BY <1>1, <1>6, <2>2, <3>1, <4>1, WhereIs, WhereIsNext DEF Places
    <3>2. CASE p = "dropped"
      <4>1. Reporting' = Reporting
        BY <3>2
      <4> QED BY <1>1, <1>6, <2>2, <3>2, <4>1, WhereIs, WhereIsNext DEF Places
    <3> QED BY <3>1, <3>2
  <2> QED BY <1>1, <1>2, <2>3, <2>4, <2>5, <2>6, Moved DEF JobsAccounted
<1>9. WritersApart'
  BY <1>2, <1>4, <1>5 DEF JobsAccounted, WritersApart
<1>10. FifoSound(f)'
  BY <1>2, <1>3, RestIsSound DEF QueuesOK
<1>11. FilesFlow'
  <2>1. \A g \in Files \ {f} : /\ fifo'[g] = fifo[g] /\ (g \in Queued' <=> g \in Queued)
                               /\ (g \in Taken' <=> g \in Taken)
    BY <1>3, <1>6
  <2>2. f \notin Queued'
    BY <1>3, <1>6
  <2>3. \A e \in DiskThreads \ {d} :
          /\ disk'[e] = disk[e] /\ diskFile'[e] = diskFile[e] /\ diskBlock'[e] = diskBlock[e]
          /\ Busy(e) => diskFile[e] # f
    BY <1>3, <1>4
  <2>4. (disk'[d] = "pop" => diskBlock'[d] = 0) /\ disk'[d] # "write"
    BY <1>4
  <2> QED BY <1>10, <2>1, <2>2, <2>3, <2>4, DiskFlow
<1>13. WritersEnd'
  <2>1. \A e \in DiskThreads : Exited(e)' <=> Exited(e)
    BY <1>4 DEF Exited, Busy
  <2>2. {e \in DiskThreads : ~ Exited(e)}' = {e \in DiskThreads : ~ Exited(e)}
    BY <2>1
  <2>3. \A e \in DiskThreads : disk'[e] \in {"exit", "report", "done"} => endSignaled' /\ Queued' = {}
    BY <1>1, <1>2, <1>4, <1>6 DEF WritersEnd
  <2> QED BY <1>2, <2>2, <2>3 DEF WritersEnd
<1>14. faults' = 0 /\ faults = 0 /\ CleanFiles /\ CleanJobs => CleanFiles' /\ dropped' = {}
  <2> SUFFICES ASSUME faults' = 0, faults = 0, CleanFiles, CleanJobs PROVE CleanFiles' /\ dropped' = {}
    OBVIOUS
  <2>1. ASSUME NEW g \in Files, NEW i \in 1..Len(fifo'[g])
        PROVE  fifo'[g][i].mark \notin {"failed", "cancelled"}
    <3>1. CASE g # f
      BY <1>3, <2>1, <3>1 DEF CleanFiles, Mark
    <3>2. CASE g = f
      <4>1. i + 1 \in 1..Len(fifo[f]) /\ fifo'[f][i] = fifo[f][i + 1]
        BY <1>3, <2>1, <3>2 DEF Popped
      <4> QED BY <3>2, <4>1 DEF CleanFiles, Mark
    <3> QED BY <3>1, <3>2
  <2>2. \A e \in DiskThreads : disk'[e] # "release"
    BY <1>4 DEF CleanFiles
  <2>3. CleanFiles'
    BY <1>1, <2>1, <2>2 DEF CleanFiles, Mark
  <2> QED BY <2>3
<1>15. /\ diskTasks' \in Seq(Files \union {End}) /\ Once(diskTasks')
       /\ \A i, j \in 1..Len(diskTasks') : i < j /\ diskTasks'[i] = End => diskTasks'[j] = End
       /\ \A i \in 1..Len(diskTasks') : diskTasks'[i] = End => endSignaled
  BY <1>2 DEF QueuesOK, JobsAccounted, InjectorEnds
<1> QED BY <1>3, <1>7, <1>8, <1>9, <1>11, <1>13, <1>14, <1>15, DiskAssembled

\* A cancelled file is dropped.
LEMMA CancelTaskKeeps ==
  ASSUME SessionInv, NEW d \in DiskThreads, CancelTask(d)
  PROVE  SessionInv'
<1>0. /\ DiskOnly /\ disk[d] = "write" /\ Busy(d) /\ PopBlock(d) /\ WriteTaskOver(d)
      /\ FirstBlock(d).mark = "cancelled" /\ dropped' = dropped \union {diskFile[d]}
      /\ UNCHANGED <<diskTasks, reports, active, onDisk, diskDone, faults>>
  BY DEF CancelTask, DiskOnly, Busy, queues, flags
<1>1. /\ DisksOK /\ QueuesOK /\ OutcomesOK /\ ReportsOnce /\ ReportsTrue /\ ReportsEnd
  BY DEF SessionInv, TypeOK, JobsAccounted
<1>2. PICK f \in Files, x \in Blocks :
           f = diskFile[d] /\ x = FirstBlock(d) /\ Popped(fifo[f], fifo'[f], x)
  BY <1>0, BlockTaken
<1>3. ~ CleanFiles
  <2>1. fifo[f][1] = x /\ 1 \in 1..Len(fifo[f])
    BY <1>2 DEF Popped
  <2> QED BY <1>0, <1>2, <2>1 DEF CleanFiles, Mark
<1>4. UNCHANGED <<need, verifyOnly, validated, packer, successful, completed>>
  BY <1>0, DiskOnlyIs
<1>5. ReportsTrue' /\ ReportsEnd' /\ ReportsOnce' /\ Reporting' = Reporting
  BY <1>0, <1>1, <1>4, ReportsFrame, ReportsEndFrame DEF ReportsOnce, Reporting
<1>6. onDisk' \in [Files -> 0..MaxBlocks] /\ reports' \in Seq(ReportSet) /\ dropped' \subseteq Files
  BY <1>0, <1>1, <1>2 DEF DisksOK, QueuesOK, OutcomesOK
<1>7. PICK p \in {"reports", "dropped"} : p = "dropped"
  OBVIOUS
<1>8. /\ Reporting' = Reporting \union (IF p = "reports" THEN {diskFile[d]} ELSE {})
      /\ dropped' = dropped \union (IF p = "dropped" THEN {diskFile[d]} ELSE {})
  BY <1>0, <1>5, <1>7
<1> QED BY <1>0, <1>3, <1>5, <1>6, <1>8, TaskOver

\* The outcome of the file of a busy writer is reported.
LEMMA JobReported ==
  ASSUME SessionInv, DiskOnly, NEW d \in DiskThreads, Busy(d), NEW t \in {"completed", "failed"},
         ReportJob(d, t), diskFile[d] \in Files, diskFile[d] \in Taken,
         \A g \in Files \ {diskFile[d]} : onDisk'[g] = onDisk[g],
         t = "completed" => /\ diskFile[d] \in validated
                            /\ \/ diskFile[d] \in verifyOnly
                               \/ onDisk'[diskFile[d]] = need[diskFile[d]],
         diskDone' = diskDone
  PROVE  /\ reports' \in Seq(ReportSet) /\ Reporting' = Reporting \union {diskFile[d]}
         /\ ReportsOnce' /\ ReportsTrue' /\ ReportsEnd'
         /\ CleanFiles /\ t = "completed" => \A i \in 1..Len(reports') : reports'[i].type # "failed"
<1>1. /\ reports \in Seq(ReportSet) /\ ReportsOnce /\ ReportsTrue /\ ReportsEnd /\ OutcomesOK
      /\ OnePlace(Where, next - 1)
  BY DEF SessionInv, TypeOK, QueuesOK, JobsAccounted
<1>2. PICK f \in Files : f = diskFile[d]
  OBVIOUS
<1>3. PICK r : r = [type |-> t, file |-> f]
  OBVIOUS
<1>4. r \in ReportSet /\ r.type = t /\ r.file = f /\ reports' = Append(reports, r)
  BY <1>2, <1>3 DEF ReportSet, ReportJob
<1>5. f \notin Reporting \union successful \union completed
  <2>1. PICK w : w = Where
    OBVIOUS
  <2>2. w["reports"] = Reporting /\ w["disk"] = Taken /\ w["successful"] = successful
        /\ w["completed"] = completed
    BY <2>1, WhereIs
  <2>3. \A p \in Places : p # "disk" => w["disk"] \cap w[p] = {}
    BY <1>1, <2>1 DEF OnePlace, Places
  <2> QED BY <1>2, <2>2, <2>3 DEF Places
<1>6. f # End /\ {f} \ {End} = {f}
  BY FilesAre
<1>7. /\ reports' \in Seq(ReportSet) /\ Reporting' = Reporting \union {f} /\ ReportsOnce'
  BY <1>1, <1>4, <1>5, <1>6, ReportPut
<1>8. PICK n \in Nat : /\ n = Len(reports) /\ Len(reports') = n + 1 /\ reports'[n + 1] = r
                       /\ \A i \in 1..n : reports'[i] = reports[i]
                       /\ \A i \in 1..n + 1 : i \in 1..n \/ i = n + 1
  BY <1>1, <1>4, ReportPut
<1>9. /\ UNCHANGED <<need, verifyOnly, validated, packer, successful, completed>>
  BY DiskOnlyIs
<1>10. packer = "run" /\ \A i \in 1..n : reports[i].type # "end"
  <2>1. ~ Exited(d)
    BY DEF Busy, Exited
  <2> QED BY <1>8, <2>1, WriterKeepsOpen
<1>11. \A i \in 1..n + 1 : reports'[i].type # "end"
  BY <1>4, <1>8, <1>10
<1>12. ReportsTrue'
  <2>1. \A g \in Files \ {f} : Whole(g) => Whole(g)'
    BY <1>2, <1>9 DEF Whole
  <2>2. ASSUME NEW i \in 1..n + 1
        PROVE  /\ reports'[i].type = "completed" => Whole(reports[i].file)'
               /\ reports'[i].type = "end" <=> reports'[i].file = End
    <3>1. CASE i \in 1..n
      <4>1. PICK g : g = reports[i].file
        OBVIOUS
      <4>2. reports[i] \in ReportSet /\ g \in Files \union {End}
        BY <1>1, <1>8, <3>1, <4>1, ReportFields
      <4>3. g # f
        BY <1>5, <1>8, <3>1, <4>1 DEF Reporting
      <4>4. reports[i].type = "completed" => Whole(g) /\ g # End
        BY <1>1, <1>8, <1>10, <3>1, <4>1 DEF ReportsTrue
      <4>5. reports[i].type = "completed" => Whole(g)'
        BY <2>1, <4>2, <4>3, <4>4
      <4>6. reports'[i] = reports[i] /\ (reports[i].type = "end" <=> reports[i].file = End)
        BY <1>1, <1>8, <3>1 DEF ReportsTrue
      <4> QED BY <4>1, <4>5, <4>6
    <3>2. CASE i = n + 1
      <4>1. reports'[i].type = t /\ reports'[i].file = f
        BY <1>4, <1>8, <3>2
      <4>2. t = "completed" => Whole(f)'
        BY <1>2, <1>9 DEF Whole
      <4> QED BY <1>6, <4>1, <4>2
    <3> QED BY <1>8, <2>2, <3>1, <3>2
  <2>3. ASSUME NEW g \in successful \union completed PROVE Whole(g)'
    <3>1. Whole(g) /\ g \in Files \ {f}
      BY <1>1, <1>5 DEF ReportsTrue, OutcomesOK
    <3> QED BY <2>1, <3>1
  <2> QED BY <1>8, <1>9, <2>2, <2>3 DEF ReportsTrue
<1>13. ReportsEnd'
  BY <1>8, <1>9, <1>10, <1>11 DEF ReportsEnd
<1>14. CleanFiles /\ t = "completed" => \A i \in 1..n + 1 : reports'[i].type # "failed"
  BY <1>4, <1>8 DEF CleanFiles
<1> QED BY <1>2, <1>7, <1>8, <1>12, <1>13, <1>14

\* The file is closed and its completion reported.
LEMMA CloseFileKeeps ==
  ASSUME SessionInv, NEW d \in DiskThreads, CloseFile(d)
  PROVE  SessionInv'
<1>0. /\ DiskOnly /\ disk[d] = "write" /\ Busy(d) /\ PopBlock(d) /\ WriteTaskOver(d)
      /\ FirstBlock(d) = EndOfFile /\ ReportJob(d, "completed")
      /\ onDisk' = [onDisk EXCEPT ![diskFile[d]] = diskBlock[d]]
      /\ UNCHANGED <<diskTasks, active, diskDone, dropped, faults>>
  BY DEF CloseFile, DiskOnly, Busy, flags
<1>1. /\ DisksOK /\ QueuesOK /\ TapeOK /\ OutcomesOK /\ FilesFlow
  BY DEF SessionInv, TypeOK
<1>2. PICK f \in Files, x \in Blocks :
           /\ f = diskFile[d] /\ x = FirstBlock(d) /\ f \in Taken
           /\ Popped(fifo[f], fifo'[f], x) /\ FifoSound(f)
  BY <1>0, BlockTaken
<1>3. PICK c \in Nat : c = diskBlock[d] /\ c \in 0..MaxBlocks
  BY <1>1, RecallAssumption DEF DisksOK
<1>4. ComesWhole(f, c)
  BY <1>0, <1>1, <1>2, <1>3 DEF FilesFlow
<1>5. need[f] \in Nat /\ tapeBlock \in Nat /\ x.mark = "end"
  BY <1>0, <1>1, <1>2, NewBlocks, RecallAssumption DEF QueuesOK, TapeOK
<1>6. f \in validated /\ (f \notin verifyOnly => c = need[f])
  BY <1>0, <1>2, <1>4, <1>5, WriterFinds
<1>7. /\ onDisk' \in [Files -> 0..MaxBlocks] /\ onDisk'[f] = c
      /\ \A g \in Files \ {f} : onDisk'[g] = onDisk[g]
  BY <1>0, <1>1, <1>2, <1>3 DEF DisksOK
<1>8. PICK t \in {"completed", "failed"} : t = "completed"
  OBVIOUS
<1>9. /\ reports' \in Seq(ReportSet) /\ Reporting' = Reporting \union {diskFile[d]}
      /\ ReportsOnce' /\ ReportsTrue' /\ ReportsEnd'
      /\ CleanFiles /\ t = "completed" => \A i \in 1..Len(reports') : reports'[i].type # "failed"
  <2>1. ReportJob(d, t) /\ diskFile[d] \in Files /\ diskFile[d] \in Taken
    BY <1>0, <1>2, <1>8
  <2>2. \A g \in Files \ {diskFile[d]} : onDisk'[g] = onDisk[g]
    BY <1>2, <1>7
  <2>3. /\ diskFile[d] \in validated
        /\ diskFile[d] \in verifyOnly \/ onDisk'[diskFile[d]] = need[diskFile[d]]
    BY <1>2, <1>6, <1>7
  <2> QED BY <1>0, <2>1, <2>2, <2>3, JobReported
<1>10. PICK p \in {"reports", "dropped"} : p = "reports"
  OBVIOUS
<1>11. /\ Reporting' = Reporting \union (IF p = "reports" THEN {diskFile[d]} ELSE {})
       /\ dropped' = dropped \union (IF p = "dropped" THEN {diskFile[d]} ELSE {})
  BY <1>0, <1>9, <1>10
<1>12. /\ dropped' \subseteq Files /\ (CleanJobs => dropped' = {})
       /\ FirstBlock(d).mark \in {"end", "cancelled"}
  BY <1>0, <1>1, <1>2, <1>5 DEF OutcomesOK, CleanJobs
<1> QED BY <1>0, <1>7, <1>8, <1>9, <1>11, <1>12, TaskOver

\* The blocks of a file that was given up come back, then its failure is reported.
LEMMA ReleaseKeeps ==
  ASSUME SessionInv, NEW d \in DiskThreads, ReleaseAllBlock(d)
  PROVE  SessionInv'
<1>0. /\ DiskOnly /\ disk[d] = "release" /\ Busy(d) /\ PopBlock(d)
      /\ UNCHANGED <<diskTasks, active, onDisk, diskDone, dropped, faults>>
  BY DEF ReleaseAllBlock, DiskOnly, Busy, flags
<1>1. /\ DisksOK /\ QueuesOK /\ OutcomesOK
  BY DEF SessionInv, TypeOK
<1>2. ~ CleanFiles
  BY <1>0 DEF CleanFiles
<1>3. CASE FirstBlock(d) # EndOfFile
  <2>1. UNCHANGED <<disk, diskFile, diskBlock, verifying, reports>>
    BY <1>3 DEF ReleaseAllBlock
  <2>2. PICK c \in 0..MaxBlocks : c = diskBlock[d]
    BY <1>1 DEF DisksOK
  <2>3. /\ disk' = [disk EXCEPT ![d] = "release"] /\ diskBlock' = [diskBlock EXCEPT ![d] = c]
        /\ verifying' \in [DiskThreads -> BOOLEAN]
    BY <1>0, <1>1, <2>1, <2>2 DEF DisksOK
  <2> QED BY <1>0, <1>2, <2>1, <2>3, StillBusy
<1>4. CASE FirstBlock(d) = EndOfFile
  <2>1. ReportJob(d, "failed") /\ WriteTaskOver(d) /\ FirstBlock(d).mark = "end"
    BY <1>4, NewBlocks DEF ReleaseAllBlock
  <2>2. PICK f \in Files : f = diskFile[d] /\ f \in Taken
    BY <1>0, BlockTaken
  <2>3. PICK t \in {"completed", "failed"} : t = "failed"
    OBVIOUS
  <2>4. /\ reports' \in Seq(ReportSet) /\ Reporting' = Reporting \union {diskFile[d]}
        /\ ReportsOnce' /\ ReportsTrue' /\ ReportsEnd'
    <3>1. ReportJob(d, t) /\ diskFile[d] \in Files /\ diskFile[d] \in Taken
      BY <2>1, <2>2, <2>3
    <3>2. \A g \in Files \ {diskFile[d]} : onDisk'[g] = onDisk[g]
      BY <1>0
    <3> QED BY <1>0, <2>3, <3>1, <3>2, JobReported
  <2>5. PICK p \in {"reports", "dropped"} : p = "reports"
    OBVIOUS
  <2>6. /\ Reporting' = Reporting \union (IF p = "reports" THEN {diskFile[d]} ELSE {})
        /\ dropped' = dropped \union (IF p = "dropped" THEN {diskFile[d]} ELSE {})
    BY <1>0, <2>4, <2>5
  <2>7. dropped' \subseteq Files /\ onDisk' \in [Files -> 0..MaxBlocks]
    BY <1>0, <1>1 DEF OutcomesOK, DisksOK
  <2> QED BY <1>0, <1>2, <2>1, <2>4, <2>6, <2>7, TaskOver
<1> QED BY <1>3, <1>4

\* A writer takes a task, or the mark that there are no more.
LEMMA DiskPopKeeps ==
  ASSUME SessionInv, NEW d \in DiskThreads, DiskPop(d)
  PROVE  SessionInv'
<1>0. /\ DiskOnly /\ disk[d] = "pop" /\ diskTasks # <<>> /\ diskTasks' = Tail(diskTasks)
      /\ diskFile' = [diskFile EXCEPT ![d] = Head(diskTasks)]
      /\ disk' = [disk EXCEPT ![d] = IF Head(diskTasks) = End THEN "exit" ELSE "write"]
      /\ UNCHANGED <<reports, free, fifo, diskBlock, verifying, active, onDisk, diskDone>>
      /\ UNCHANGED <<dropped, faults>>
  BY DEF DiskPop, DiskOnly, flags
<1>1. /\ UNCHANGED <<need, verifyOnly, next, jobs, batch, endSignaled, validated, tape, tapeFile>>
      /\ UNCHANGED <<packer, successful, completed, failed, requeued, inj, tapeBlock>>
      /\ TapeQueued' = TapeQueued /\ \A g : Reading(g)' <=> Reading(g)
  BY <1>0, DiskOnlyIs
<1>2. /\ QueuesOK /\ DisksOK /\ OutcomesOK /\ JobsAccounted /\ InjectorEnds /\ WritersEnd
      /\ ReportsTrue /\ ReportsEnd /\ FilesFlow
  BY DEF SessionInv, TypeOK
<1>3. PICK h : h = Head(diskTasks)
  OBVIOUS
<1>4. /\ diskTasks' \in Seq(Files \union {End}) /\ Once(diskTasks') /\ h \in Files \union {End}
      /\ Queued' = Queued \ {h} /\ (h # End => h \in Queued)
  BY <1>0, <1>2, <1>3, PopQueue DEF QueuesOK, JobsAccounted, Queued
<1>5. PICK n \in Nat : /\ Len(diskTasks) = n + 1 /\ Len(diskTasks') = n /\ h = diskTasks[1]
                       /\ \A i \in 1..n : diskTasks'[i] = diskTasks[i + 1] /\ i + 1 \in 1..n + 1
  <2>1. diskTasks \in Seq(Files \union {End})
    BY <1>2 DEF QueuesOK
  <2>2. Len(diskTasks) \in Nat /\ Len(diskTasks) > 0
    BY <1>0, <2>1
  <2>3. PICK n \in Nat : Len(diskTasks) = n + 1
    <3>1. (Len(diskTasks) - 1) \in Nat /\ (Len(diskTasks) - 1) + 1 = Len(diskTasks)
      BY <2>2
    <3> QED BY <3>1
  <2>4. \A i \in 1..n : i + 1 \in 1..n + 1
    OBVIOUS
  <2> QED BY <1>0, <1>3, <2>1, <2>3, <2>4
<1>6. /\ \A i, j \in 1..Len(diskTasks') : i < j /\ diskTasks'[i] = End => diskTasks'[j] = End
      /\ \A i \in 1..Len(diskTasks') : diskTasks'[i] = End => endSignaled
  <2>1. ASSUME NEW i \in 1..n, NEW j \in 1..n, i < j, diskTasks'[i] = End PROVE diskTasks'[j] = End
    <3>1. i + 1 < j + 1 /\ i + 1 \in 1..n + 1 /\ j + 1 \in 1..n + 1
      BY <2>1
    <3> QED BY <1>2, <1>5, <2>1, <3>1 DEF InjectorEnds
  <2>2. ASSUME NEW i \in 1..n, diskTasks'[i] = End PROVE endSignaled
    BY <1>2, <1>5, <2>2 DEF InjectorEnds
  <2> QED BY <1>5, <2>1, <2>2
<1>7. /\ disk'[d] \in {"exit", "write"} /\ (disk'[d] = "exit" <=> h = End) /\ diskFile'[d] = h
      /\ \A e \in DiskThreads \ {d} : disk'[e] = disk[e] /\ diskFile'[e] = diskFile[e]
      /\ \A e \in DiskThreads : diskBlock'[e] = diskBlock[e]
  BY <1>0, <1>2, <1>3 DEF DisksOK
<1>8. /\ ~ Busy(d) /\ (Busy(d)' <=> h # End) /\ \A e \in DiskThreads \ {d} : Busy(e)' <=> Busy(e)
  BY <1>0, <1>7 DEF Busy
<1>9. DisksOK'
  <2>1. /\ disk' \in [DiskThreads -> {"pop", "write", "release", "exit", "report", "done"}]
        /\ diskFile' \in [DiskThreads -> Files \union {End}]
    BY <1>0, <1>2, <1>3, <1>4 DEF DisksOK
  <2> QED BY <1>0, <1>2, <2>1 DEF DisksOK
<1>10. /\ ReportsTrue' /\ ReportsEnd' /\ ReportsOnce' /\ Reporting' = Reporting /\ BlocksAccounted'
  BY <1>0, <1>1, <1>2, ReportsFrame, ReportsEndFrame, BlocksFrame
     DEF JobsAccounted, ReportsOnce, Reporting, SessionInv
<1>11. Taken' = Taken \union ({h} \ {End})
  <2>1. ASSUME NEW g \in Files PROVE g \in Taken' <=> g \in Taken \/ (h # End /\ g = h)
    BY <1>7, <1>8 DEF Taken
  <2> QED BY <1>4, <2>1 DEF Taken
<1>12. {e \in DiskThreads : ~ Exited(e)}' = {e \in DiskThreads : ~ Exited(e)}
  <2>1. \A e \in DiskThreads : Exited(e)' <=> Exited(e)
    BY <1>0, <1>7 DEF Exited
  <2> QED BY <2>1
<1>13. CleanFiles => CleanFiles'
  <2>1. \A e \in DiskThreads : disk'[e] = "release" => disk[e] = "release"
    BY <1>7
  <2> QED BY <1>0, <1>1, <2>1 DEF CleanFiles, Mark
<1>14. CASE h = End
  <2>1. Queued = {} /\ endSignaled
    <3>1. \A i \in 1..n + 1 : diskTasks[i] = End
      <4> SUFFICES ASSUME NEW i \in 1..n + 1, i # 1 PROVE diskTasks[i] = End
        BY <1>5, <1>14
      <4>1. 1 < i /\ 1 \in 1..n + 1
        OBVIOUS
      <4> QED BY <1>2, <1>5, <1>14, <4>1 DEF InjectorEnds
    <3>2. 1 \in 1..n + 1
      OBVIOUS
    <3> QED BY <1>2, <1>5, <3>1, <3>2, FilesAre DEF Queued, InQueue, InjectorEnds
  <2>2. Queued' = Queued /\ Taken' = Taken
    BY <1>4, <1>11, <1>14, <2>1
  <2>3. OnePlace(Where, next - 1)'
    <3>1. \A p \in Places : Where'[p] = Where[p]
      BY <1>0, <1>1, <1>10, <2>2, WhereIs, WhereIsNext DEF Places
    <3> QED BY <1>1, <1>2, <3>1, NotMoved DEF JobsAccounted
  <2>4. WritersApart'
    BY <1>2, <1>7, <1>8, <1>14 DEF JobsAccounted, WritersApart
  <2>5. WritersEnd'
    BY <1>0, <1>1, <1>2, <1>12, <2>1, <2>2 DEF WritersEnd
  <2>6. FilesFlow'
    <3>1. \A g : FifoSound(g)' <=> FifoSound(g)
      BY <1>0, <1>1, <2>2 DEF FifoSound, Mark
    <3>2. \A g, b : ComesWhole(g, b)' <=> ComesWhole(g, b)
      BY <1>0, <1>1 DEF ComesWhole, Mark
    <3>3. \A e \in DiskThreads : disk'[e] = "write" => ComesWhole(diskFile[e], diskBlock[e])'
      <4> SUFFICES ASSUME NEW e \in DiskThreads, disk'[e] = "write"
                   PROVE  ComesWhole(diskFile[e], diskBlock[e])'
        OBVIOUS
      <4>1. e # d /\ disk[e] = "write" /\ diskFile'[e] = diskFile[e] /\ diskBlock'[e] = diskBlock[e]
        BY <1>7, <1>14
      <4>2. ComesWhole(diskFile[e], diskBlock[e])
        BY <1>2, <4>1 DEF FilesFlow
      <4>3. PICK g, b : g = diskFile[e] /\ b = diskBlock[e]
        OBVIOUS
      <4>4. ComesWhole(g, b)'
        BY <3>2, <4>2, <4>3
      <4> QED BY <4>1, <4>3, <4>4
    <3>4. \A e \in DiskThreads : disk'[e] = "pop" => diskBlock'[e] = 0
      BY <1>2, <1>7 DEF FilesFlow
    <3> QED BY <1>1, <1>2, <2>1, <2>2, <3>1, <3>3, <3>4 DEF FilesFlow
  <2> QED BY <1>0, <1>2, <1>4, <1>6, <1>9, <1>10, <1>13, <2>3, <2>4, <2>5, <2>6, DiskAssembled
          DEF QueuesOK, OutcomesOK, CleanJobs
<1>15. CASE h # End
  <2>1. PICK f \in Files : f = h /\ f \in Queued /\ f \notin Queued'
    BY <1>4, <1>15
  <2>2. f \notin Taken
    <3>1. PICK w : w = Where
      OBVIOUS
    <3>2. w["queue"] = Queued /\ w["disk"] = Taken
      BY <3>1, WhereIs
    <3>3. w["queue"] \cap w["disk"] = {}
      BY <1>2, <3>1 DEF JobsAccounted, OnePlace, Places
    <3> QED BY <2>1, <3>2, <3>3
  <2>3. /\ Queued' = Queued \ {f} /\ Taken' = Taken \union {f}
    BY <1>4, <1>11, <1>15, <2>1
  <2>4. OnePlace(Where, next - 1)'
    <3>1. PICK X : X = {f}
      OBVIOUS
    <3>2. PICK a, b : a = "queue" /\ b = "disk"
      OBVIOUS
    <3>3. a \in Places /\ b \in Places /\ a # b
      BY <3>2 DEF Places
    <3>4. X \subseteq Where[a] /\ Where'[a] = Where[a] \ X /\ Where'[b] = Where[b] \union X
      BY <2>1, <2>3, <3>1, <3>2, WhereIs, WhereIsNext
    <3>5. \A q \in Places \ {a, b} : Where'[q] = Where[q]
      BY <1>0, <1>1, <1>10, <3>2, WhereIs, WhereIsNext DEF Places
    <3> QED BY <1>1, <1>2, <3>3, <3>4, <3>5, Moved DEF JobsAccounted
  <2>5. \A e \in DiskThreads \ {d} : Busy(e) => diskFile[e] # f
    BY <2>2 DEF Taken
  <2>6. WritersApart'
    BY <1>2, <1>7, <1>8, <2>1, <2>5 DEF JobsAccounted, WritersApart
  <2>7. WritersEnd'
    <3>1. \A e \in DiskThreads : disk'[e] \in {"exit", "report", "done"} => endSignaled' /\ Queued' = {}
      BY <1>1, <1>2, <1>7, <1>15, <2>3 DEF WritersEnd
    <3> QED BY <1>0, <1>2, <1>12, <3>1 DEF WritersEnd
  <2>8. FifoSound(f)'
    <3>1. FifoSound(f)
      BY <1>2 DEF FilesFlow
    <3> QED BY <1>0, <1>1, <2>3, <3>1 DEF FifoSound, Mark
  <2>9. ComesWhole(diskFile[d], diskBlock[d])'
    <3>1. ComesWhole(f, 0) /\ diskBlock[d] = 0
      BY <1>0, <1>2, <2>1 DEF FilesFlow
    <3>2. ComesWhole(f, 0)'
      BY <1>0, <1>1, <3>1 DEF ComesWhole, Mark
    <3> QED BY <1>7, <2>1, <3>1, <3>2
  <2>10. FilesFlow'
    <3>1. disk'[d] # "pop"
      BY <1>7
    <3>2. \A g \in Files \ {f} : /\ fifo'[g] = fifo[g] /\ (g \in Queued' <=> g \in Queued)
                                 /\ (g \in Taken' <=> g \in Taken)
      BY <1>0, <2>3
    <3>3. \A e \in DiskThreads \ {d} :
            /\ disk'[e] = disk[e] /\ diskFile'[e] = diskFile[e] /\ diskBlock'[e] = diskBlock[e]
            /\ Busy(e) => diskFile[e] # f
      BY <1>7, <2>5
    <3> QED BY <1>0, <2>1, <2>8, <2>9, <3>1, <3>2, <3>3, DiskFlow
  <2> QED BY <1>0, <1>2, <1>4, <1>6, <1>9, <1>10, <1>13, <2>4, <2>6, <2>7, <2>10, DiskAssembled
          DEF QueuesOK, OutcomesOK, CleanJobs
<1> QED BY <1>14, <1>15

\* A step of a writer that has no task: only `disk', `active' and the flag may change.
LEMMA IdleAssembled ==
  ASSUME SessionInv, DiskOnly, NEW d \in DiskThreads, disk[d] \in {"exit", "report"},
         NEW v \in {"report", "done"}, disk' = [disk EXCEPT ![d] = v],
         UNCHANGED <<diskTasks, free, fifo, diskFile, diskBlock, verifying, onDisk, dropped, faults>>,
         active' \in 0..Cardinality(DiskThreads), diskDone' \in BOOLEAN,
         active' = Cardinality({e \in DiskThreads : ~ Exited(e)}'), diskDone' <=> active' = 0,
         reports' \in Seq(ReportSet), Reporting' = Reporting,
         ReportsOnce', ReportsTrue', ReportsEnd',
         CleanFiles => \A i \in 1..Len(reports') : reports'[i].type # "failed"
  PROVE  SessionInv'
<1>1. /\ UNCHANGED <<need, verifyOnly, next, jobs, batch, endSignaled, validated, tape, tapeFile>>
      /\ UNCHANGED <<packer, successful, completed, failed, requeued, inj, tapeBlock>>
      /\ TapeQueued' = TapeQueued /\ \A g : Reading(g)' <=> Reading(g)
  BY DiskOnlyIs
<1>2. /\ QueuesOK /\ DisksOK /\ OutcomesOK /\ JobsAccounted /\ InjectorEnds /\ WritersEnd
      /\ FilesFlow /\ BlocksAccounted
  BY DEF SessionInv, TypeOK
<1>3. disk'[d] = v /\ \A e \in DiskThreads \ {d} : disk'[e] = disk[e]
  BY <1>2 DEF DisksOK
<1>4. \A e \in DiskThreads : Busy(e)' <=> Busy(e)
  BY <1>3 DEF Busy
<1>5. Queued' = Queued /\ Taken' = Taken
  BY <1>4 DEF Queued, Taken
<1>6. DisksOK'
  BY <1>2 DEF DisksOK
<1>7. OnePlace(Where, next - 1)'
  <2>1. \A p \in Places : Where'[p] = Where[p]
    BY <1>1, <1>5, WhereIs, WhereIsNext DEF Places
  <2> QED BY <1>1, <1>2, <2>1, NotMoved DEF JobsAccounted
<1>8. WritersApart'
  BY <1>2, <1>4 DEF JobsAccounted, WritersApart
<1>9. FilesFlow'
  <2>1. \A g : FifoSound(g)' <=> FifoSound(g)
    BY <1>1, <1>5 DEF FifoSound, Mark
  <2>2. \A g, b : ComesWhole(g, b)' <=> ComesWhole(g, b)
    BY <1>1 DEF ComesWhole, Mark
  <2>3. \A e \in DiskThreads : /\ disk'[e] = "write" => disk[e] = "write"
                               /\ disk'[e] = "pop" => disk[e] = "pop"
    BY <1>3
  <2> QED BY <1>1, <1>2, <1>5, <2>1, <2>2, <2>3 DEF FilesFlow
<1>10. WritersEnd'
  <2>1. endSignaled /\ Queued = {}
    BY <1>2 DEF WritersEnd
  <2> QED BY <1>1, <1>5, <2>1 DEF WritersEnd
<1>11. CleanFiles => CleanFiles'
  <2>1. \A e \in DiskThreads : disk'[e] = "release" => disk[e] = "release"
    BY <1>3
  <2> QED BY <1>1, <2>1 DEF CleanFiles, Mark
<1>12. BlocksAccounted'
  BY <1>2, BlocksFrame
<1> QED BY <1>2, <1>6, <1>7, <1>8, <1>9, <1>10, <1>11, <1>12, DiskAssembled
        DEF QueuesOK, OutcomesOK, CleanJobs, JobsAccounted, InjectorEnds

\* A writer ends; the last one sets the flag.
LEMMA DiskExitKeeps ==
  ASSUME SessionInv, NEW d \in DiskThreads, DiskExit(d)
  PROVE  SessionInv'
<1>0. /\ DiskOnly /\ disk[d] = "exit" /\ active' = active - 1 /\ diskDone' = (active = 1)
      /\ disk' = [disk EXCEPT ![d] = IF active = 1 THEN "report" ELSE "done"]
      /\ UNCHANGED <<diskTasks, reports, free, fifo, diskFile, diskBlock, verifying, onDisk>>
      /\ UNCHANGED <<dropped, faults>>
  BY DEF DiskExit, DiskOnly, queues
<1>1. /\ DisksOK /\ WritersEnd /\ ReportsTrue /\ ReportsEnd /\ ReportsOnce /\ QueuesOK
  BY DEF SessionInv, TypeOK, JobsAccounted
<1>2. PICK v \in {"report", "done"} : disk' = [disk EXCEPT ![d] = v]
  BY <1>0
<1>3. ~ Exited(d)
  BY <1>0 DEF Exited
<1>4. /\ ~ diskDone /\ packer = "run" /\ active > 0
      /\ \A i \in 1..Len(reports) : reports[i].type # "end"
  BY <1>3, WriterKeepsOpen
<1>5. PICK S, T : S = {e \in DiskThreads : ~ Exited(e)} /\ T = {e \in DiskThreads : ~ Exited(e)}'
  OBVIOUS
<1>6. T = S \ {d} /\ d \in S
  <2>1. /\ Exited(d)' /\ \A e \in DiskThreads \ {d} : Exited(e)' <=> Exited(e)
    BY <1>1, <1>2 DEF Exited, DisksOK
  <2> QED BY <1>3, <1>5, <2>1
<1>7. IsFiniteSet(S) /\ IsFiniteSet(DiskThreads)
  BY <1>5, RecallAssumption, FS_Subset
<1>8. Cardinality(T) = Cardinality(S) - 1
  BY <1>6, <1>7, FS_RemoveElement
<1>9. active = Cardinality(S) /\ active \in 0..Cardinality(DiskThreads)
      /\ Cardinality(DiskThreads) \in Nat
  BY <1>1, <1>5, <1>7, FS_CardinalityType DEF WritersEnd, DisksOK
<1>10. /\ active' = Cardinality(T) /\ active' \in 0..Cardinality(DiskThreads)
       /\ diskDone' \in BOOLEAN /\ (diskDone' <=> active' = 0)
  <2>1. PICK k \in Nat : k = Cardinality(DiskThreads)
    BY <1>9
  <2>2. active \in 1..k /\ active' = active - 1 /\ active' = Cardinality(T)
    BY <1>0, <1>4, <1>8, <1>9, <2>1
  <2>3. active' \in 0..k /\ (active = 1 <=> active' = 0)
    BY <2>2
  <2> QED BY <1>0, <2>1, <2>2, <2>3
<1>11. UNCHANGED <<need, verifyOnly, validated, packer, successful, completed>>
  BY <1>0, DiskOnlyIs
<1>12. /\ reports' \in Seq(ReportSet) /\ Reporting' = Reporting /\ ReportsOnce' /\ ReportsTrue'
       /\ CleanFiles => \A i \in 1..Len(reports') : reports'[i].type # "failed"
  BY <1>0, <1>1, <1>11, ReportsFrame DEF QueuesOK, Reporting, ReportsOnce, CleanFiles
<1>13. ReportsEnd'
  BY <1>0, <1>4, <1>11 DEF ReportsEnd
<1> QED BY <1>0, <1>2, <1>5, <1>10, <1>12, <1>13, IdleAssembled

\* The last writer reports the end of the session when the tape thread is done.
LEMMA DiskReportsEndKeeps ==
  ASSUME SessionInv, NEW d \in DiskThreads, DiskReportsEnd(d)
  PROVE  SessionInv'
<1>0. /\ DiskOnly /\ disk[d] = "report" /\ ReportEndOfSession /\ disk' = [disk EXCEPT ![d] = "done"]
      /\ UNCHANGED <<diskTasks, free, fifo, diskFile, diskBlock, verifying, onDisk, active, diskDone>>
      /\ UNCHANGED <<dropped, faults>>
  BY DEF DiskReportsEnd, DiskOnly, flags
<1>1. DisksOK /\ WritersEnd
  BY DEF SessionInv, TypeOK
<1>2. {e \in DiskThreads : ~ Exited(e)}' = {e \in DiskThreads : ~ Exited(e)}
  <2>1. \A e \in DiskThreads : Exited(e)' <=> Exited(e)
    BY <1>0, <1>1 DEF Exited, DisksOK
  <2> QED BY <2>1
<1>3. /\ active' = Cardinality({e \in DiskThreads : ~ Exited(e)}') /\ (diskDone' <=> active' = 0)
      /\ active' \in 0..Cardinality(DiskThreads) /\ diskDone' \in BOOLEAN
  BY <1>0, <1>1, <1>2 DEF WritersEnd, DisksOK
<1>4. UNCHANGED <<need, verifyOnly, validated, packer, successful, completed>>
  BY <1>0, DiskOnlyIs
<1>5. /\ reports' \in Seq(ReportSet) /\ Reporting' = Reporting
      /\ ReportsOnce' /\ ReportsTrue' /\ ReportsEnd'
      /\ CleanFiles => \A i \in 1..Len(reports') : reports'[i].type # "failed"
  BY <1>0, <1>4, EndReported
<1> QED BY <1>0, <1>3, <1>5, IdleAssembled

\* A step of a disk writer.
LEMMA DiskStep ==
  ASSUME SessionInv, NEW d \in DiskThreads, DiskThread(d)
  PROVE  SessionInv'
  BY DiskPopKeeps, WriteBlockKeeps, CancelTaskKeeps, WriteErrorKeeps, CloseFileKeeps, ReleaseKeeps,
     DiskExitKeeps, DiskReportsEndKeeps DEF DiskThread

-----------------------------------------------------------------------------
(* The theorems                                                            *)

\* The session starts with no job fetched, all blocks free and all writers waiting.
LEMMA InvInit ==
  ASSUME Init
  PROVE  SessionInv
<1>0. Cardinality(DiskThreads) \in Nat /\ Cardinality(DiskThreads) # 0
  BY RecallAssumption, FS_CardinalityType, FS_EmptySet
<1>1. TypeOK
  <2>1. QueuesOK
    BY RecallAssumption DEF Init, QueuesOK, Files
  <2>2. InjectorOK
    <3>1. /\ raoPromise \in BOOLEAN /\ firstTasksInjected \in BOOLEAN /\ lastCall \in BOOLEAN
          /\ reservationFailed \in BOOLEAN /\ endSignaled \in BOOLEAN
      BY Zenon DEF Init
    <3>2. inj = "fetch" /\ next \in 1..NbFiles + 1 /\ jobs \in Seq(Files) /\ batch \in Seq(Files)
      BY RecallAssumption DEF Init
    <3> QED BY <3>1, <3>2 DEF InjectorOK
  <2>3. TapeOK
    <3>1. tapeDone \in BOOLEAN /\ tape = "off" /\ validated = {} /\ tapeFile = End
      BY Zenon DEF Init
    <3>2. tapeBlock \in 0..MaxBlocks
      BY RecallAssumption DEF Init
    <3> QED BY <3>1, <3>2 DEF TapeOK
  <2>4. DisksOK
    <3>1. /\ disk = [d \in DiskThreads |-> "pop"] /\ diskFile = [d \in DiskThreads |-> End]
          /\ verifying = [d \in DiskThreads |-> FALSE] /\ diskDone \in BOOLEAN
      BY Zenon DEF Init
    <3>2. /\ diskBlock \in [DiskThreads -> 0..MaxBlocks] /\ onDisk \in [Files -> 0..MaxBlocks]
          /\ active \in 0..Cardinality(DiskThreads)
      BY <1>0, RecallAssumption DEF Init
    <3> QED BY <3>1, <3>2 DEF DisksOK
  <2>5. OutcomesOK
    BY RecallAssumption DEF Init, OutcomesOK
  <2> QED BY <2>1, <2>2, <2>3, <2>4, <2>5 DEF TypeOK
<1>2. Queued = {} /\ Taken = {} /\ Reporting = {} /\ TapeQueued = {}
  BY DEF Init, Queued, InQueue, Taken, Busy, Reporting, TapeQueued
<1>3. JobsAccounted
  <2>1. PICK w : w = Where
    OBVIOUS
  <2>2. \A p \in Places : w[p] = {}
    <3>1. InQueue(jobs) = {} /\ InQueue(batch) = {}
      BY DEF Init, InQueue
    <3> QED BY <1>2, <2>1, <3>1, WhereIs DEF Init, Places
  <2>3. next - 1 = 0 /\ \A f \in Files : ~ (f <= 0)
    BY RecallAssumption DEF Init, Files
  <2>4. OnePlace(w, next - 1)
    BY <2>2, <2>3 DEF OnePlace
  <2>5. Once(jobs) /\ Once(batch) /\ Once(diskTasks) /\ Once(tapeTasks) /\ ReportsOnce
    BY DEF Init, Once, ReportsOnce
  <2>6. WritersApart
    BY DEF Init, WritersApart, Busy
  <2> QED BY <2>1, <2>4, <2>5, <2>6 DEF JobsAccounted
<1>4. FilesFlow
  <2>1. \A f \in Files : fifo[f] = <<>> /\ Len(fifo[f]) = 0 /\ ~ Reading(f)
    BY DEF Init, Reading
  <2>2. \A f \in Files : FifoSound(f)
    BY <1>2, <2>1 DEF FifoSound
  <2> QED BY <1>2, <2>2 DEF Init, FilesFlow
<1>5. ReadAfterInjected /\ ReportsTrue
  BY DEF Init, ReadAfterInjected, ReportsTrue
<1>6. BlocksAccounted
  <2>1. Out = {}
    <3>1. \A f \in Files : Waiting(fifo[f]) = 0
      BY DEF Init, Waiting
    <3> QED BY <3>1 DEF Out
  <2> QED BY <2>1, FS_EmptySet, RecallAssumption DEF Init, BlocksAccounted
<1>7. InjectorEnds
  BY DEF Init, InjectorEnds
<1>8. WritersEnd
  <2>1. {d \in DiskThreads : ~ Exited(d)} = DiskThreads
    BY DEF Init, Exited
  <2> QED BY <1>0, <2>1 DEF Init, WritersEnd
<1>9. ReportsEnd
  BY DEF Init, ReportsEnd
<1>10. CleanFiles /\ CleanJobs
  BY DEF Init, CleanFiles, CleanJobs
<1> QED BY <1>1, <1>3, <1>4, <1>5, <1>6, <1>7, <1>8, <1>9, <1>10 DEF SessionInv

\* A step that changes nothing.
LEMMA StutterKeeps ==
  ASSUME SessionInv, UNCHANGED vars
  PROVE  SessionInv'
<1>1. /\ PackerOnly
      /\ UNCHANGED <<reports, packer, successful, completed, failed, dropped, faults, next>>
      /\ UNCHANGED <<jobs, batch, diskTasks, disk, diskFile, requeued>>
      /\ UNCHANGED <<validated, onDisk, need, verifyOnly, diskDone>>
  BY DEF vars, PackerOnly, setup, queues, flags, injVars, tapeVars, diskVars, packerVars
<1>2. /\ reports \in Seq(ReportSet) /\ OutcomesOK /\ OnePlace(Where, next - 1) /\ ReportsOnce
      /\ ReportsTrue /\ ReportsEnd
  BY DEF SessionInv, TypeOK, QueuesOK, JobsAccounted
<1>3. OutcomesOK' /\ ReportsOnce' /\ ReportsTrue' /\ ReportsEnd'
  BY <1>1, <1>2, ReportsFrame, ReportsEndFrame DEF OutcomesOK, ReportsOnce
<1>4. OnePlace(Where, next - 1)'
  <2>1. \A p \in Places : Where'[p] = Where[p]
    <3>1. Queued' = Queued /\ Taken' = Taken /\ Reporting' = Reporting
      BY <1>1 DEF Queued, Taken, Busy, Reporting
    <3> QED BY <1>1, <3>1, WhereIs, WhereIsNext DEF Places
  <2> QED BY <1>1, <1>2, <2>1, NotMoved
<1> QED BY <1>1, <1>2, <1>3, <1>4, PackerAssembled DEF CleanFiles, CleanJobs

\* The invariant is inductive.
LEMMA InvNext ==
  ASSUME SessionInv, [Next]_vars
  PROVE  SessionInv'
<1>1. CASE Injector
  BY <1>1, InjectorStep
<1>2. CASE TapeThread
  BY <1>2, TapeStep
<1>3. ASSUME NEW d \in DiskThreads, DiskThread(d) PROVE SessionInv'
  BY <1>3, DiskStep
<1>4. CASE ReportPacker
  BY <1>4, PackerStep
<1>5. CASE UNCHANGED vars
  BY <1>5, StutterKeeps
<1> QED BY <1>1, <1>2, <1>3, <1>4, <1>5 DEF Next

\* The invariant holds in every state of a session.
THEOREM InvCorrect == Spec => []SessionInv
<1>1. Init => SessionInv
  BY InvInit
<1>2. SessionInv /\ [Next]_vars => SessionInv'
  BY InvNext
<1> QED BY <1>1, <1>2, PTL DEF Spec

\* The variables keep their types: the pool of RecallMemoryManager never holds more
\* blocks than it created, and the count of disk writers never falls below zero.
THEOREM TypeCorrect == Spec => []TypeOK
<1>1. SessionInv => TypeOK
  BY DEF SessionInv
<1> QED BY <1>1, InvCorrect, PTL

\* A job that RecallReportPacker takes as successful was read whole, its checksum
\* validated, and written whole to a disk file that was closed, whatever errors the
\* tape, the disks and the scheduler had.
THEOREM DeliveredIsWholeCorrect == Spec => []DeliveredIsWhole
<1>1. SessionInv => DeliveredIsWhole
  BY DEF SessionInv, ReportsTrue, Whole, DeliveredIsWhole
<1> QED BY <1>1, InvCorrect, PTL

\* No job gets two of the outcomes successful, failed, requeued and dropped.
THEOREM OneOutcomeCorrect == Spec => []OneOutcome
<1>1. SessionInv => OneOutcome
  <2> SUFFICES ASSUME SessionInv PROVE OneOutcome
    OBVIOUS
  <2>1. PICK w : w = Where
    OBVIOUS
  <2>2. /\ w["successful"] = successful /\ w["completed"] = completed
        /\ w["failed"] = failed /\ w["requeued"] = requeued /\ w["dropped"] = dropped
    BY <2>1, WhereIs
  <2>3. \A p, q \in Places : p # q => w[p] \cap w[q] = {}
    BY <2>1 DEF SessionInv, JobsAccounted, OnePlace
  <2>4. /\ (successful \union completed) \cap failed = {}
        /\ (successful \union completed) \cap requeued = {}
        /\ (successful \union completed) \cap dropped = {}
        /\ failed \cap requeued = {} /\ failed \cap dropped = {} /\ requeued \cap dropped = {}
    BY <2>2, <2>3 DEF Places
  <2>5. PICK a, b, c, e : /\ a = successful \union completed /\ b = failed
                          /\ c = requeued /\ e = dropped
    OBVIOUS
  <2>6. /\ a \cap b = {} /\ a \cap c = {} /\ a \cap e = {} /\ b \cap c = {} /\ b \cap e = {}
        /\ c \cap e = {}
    BY <2>4, <2>5
  <2>7. \A i, j \in 1..4 : i # j => <<a, b, c, e>>[i] \cap <<a, b, c, e>>[j] = {}
    <3> SUFFICES ASSUME NEW i \in {1, 2, 3, 4}, NEW j \in {1, 2, 3, 4}, i # j
                 PROVE  <<a, b, c, e>>[i] \cap <<a, b, c, e>>[j] = {}
      OBVIOUS
    <3> QED BY <2>6
  <2> QED BY <2>5, <2>7 DEF OneOutcome
<1> QED BY <1>1, InvCorrect, PTL

\* When all threads have ended, every job the session fetched has an outcome, and
\* without an error it is delivered or requeued.
THEOREM NoJobForgottenCorrect == Spec => []NoJobForgotten
<1>1. SessionInv => NoJobForgotten
  <2> SUFFICES ASSUME SessionInv, Ended
               PROVE  /\ completed \union failed \union requeued \union dropped = 1..next - 1
                      /\ faults = 0 => completed \union requeued = 1..next - 1
    BY DEF NoJobForgotten
  <2>1. /\ InQueue(jobs) = {} /\ InQueue(batch) = {}
    BY DEF Ended, SessionInv, InjectorEnds, InQueue
  <2>2. Queued = {} /\ Taken = {}
    <3>1. PICK d \in DiskThreads : TRUE
      BY RecallAssumption
    <3> QED BY <3>1 DEF Ended, SessionInv, WritersEnd, Taken, Busy
  <2>3. Reporting = {} /\ successful = {}
    BY DEF Ended, SessionInv, ReportsEnd
  <2>4. PICK w : w = Where
    OBVIOUS
  <2>5. /\ w["jobs"] = {} /\ w["batch"] = {} /\ w["queue"] = {} /\ w["disk"] = {}
        /\ w["reports"] = {} /\ w["successful"] = {} /\ w["completed"] = completed
        /\ w["failed"] = failed /\ w["requeued"] = requeued /\ w["dropped"] = dropped
    BY <2>1, <2>2, <2>3, <2>4, WhereIs
  <2>6. \A f \in Files : f <= next - 1 <=> f \in completed \union failed \union requeued \union dropped
    BY <2>4, <2>5 DEF SessionInv, JobsAccounted, OnePlace, Places
  <2>7. completed \union failed \union requeued \union dropped \subseteq Files
    BY DEF SessionInv, TypeOK, OutcomesOK
  <2>8. next \in 1..NbFiles + 1 /\ NbFiles \in Nat
    BY RecallAssumption DEF SessionInv, TypeOK, InjectorOK
  <2>9. \A f : f \in 1..next - 1 <=> f \in Files /\ f <= next - 1
    BY <2>8 DEF Files
  <2>10. completed \union failed \union requeued \union dropped = 1..next - 1
    BY <2>6, <2>7, <2>9
  <2>11. faults = 0 => failed = {} /\ dropped = {}
    BY DEF SessionInv, CleanFiles, CleanJobs
  <2> QED BY <2>10, <2>11
<1> QED BY <1>1, InvCorrect, PTL

\* When all threads have ended, all blocks are back in the pool.
THEOREM BlocksComeBackCorrect == Spec => []BlocksComeBack
<1>1. SessionInv => BlocksComeBack
  <2> SUFFICES ASSUME SessionInv, Ended PROVE free = NbBlocks
    BY DEF BlocksComeBack
  <2>1. Queued = {} /\ Taken = {}
    <3>1. PICK d \in DiskThreads : TRUE
      BY RecallAssumption
    <3> QED BY <3>1 DEF Ended, SessionInv, WritersEnd, Taken, Busy
  <2>2. \A f \in Files : fifo[f] = <<>>
    BY <2>1 DEF SessionInv, FilesFlow, FifoSound
  <2>3. \A f \in Files : Waiting(fifo[f]) = 0
    BY <2>2 DEF Waiting
  <2>4. Out = {}
    BY <2>3 DEF Out
  <2>5. free + Cardinality(Out) = NbBlocks /\ free \in 0..NbBlocks
    BY DEF SessionInv, BlocksAccounted, TypeOK, QueuesOK
  <2> QED BY <2>4, <2>5, FS_EmptySet, RecallAssumption
<1> QED BY <1>1, InvCorrect, PTL
=============================================================================
