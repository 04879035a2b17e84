------------------------ MODULE MigrationSessionProofs ------------------------
(***************************************************************************)
(* The safety properties of a session that writes to tape, for any number   *)
(* of files, blocks, disk readers and faults.                               *)
(*                                                                          *)
(* The inductive invariant has five parts besides the types: the order of   *)
(* the tasks in the queues, the whereabouts of the memory blocks, what the  *)
(* tape thread knows of the tape, what the report packer may believe, and   *)
(* what a session without faults looks like.                                *)
(***************************************************************************)
EXTENDS MigrationSession, FiniteSetTheorems, TLAPS

-----------------------------------------------------------------------------
(* The invariant                                                           *)

\* The end marks the injector has put in each queue.
Marks == IF inj \in {"drain", "done"} THEN 1 ELSE 0

\* The last file that was queued.
Injected == next - 1 - Len(batch)

\* The files among the entries of a queue of tasks: m end marks come last.
InLine(q, m) == IF q = <<>> THEN 0 ELSE Len(q) - m

\* The last file that was taken from a queue, when n is the last that entered it.
Taken(q, n, m) == n - InLine(q, m)

\* The files of a queue follow each other up to n, the end mark follows them.
InOrder(q, n, m) ==
    /\ InLine(q, m) <= n
    /\ \A i \in 1..Len(q) : q[i] = IF i + m > Len(q) THEN End ELSE Taken(q, n, m) + i

TapeTaken == Taken(tapeTasks, Injected, Marks)
MmTaken == Taken(clients, Injected, Marks)

TasksInOrder ==
    /\ Len(batch) <= next - 1
    /\ inj # "inject" => batch = <<>>
    /\ \A i \in 1..Len(batch) : batch[i] = Injected + i
    /\ InOrder(tapeTasks, Injected, Marks)
    /\ InOrder(clients, Injected, Marks)
    /\ after = "end" \/ tape = "done" => Marks = 1 /\ tapeTasks = <<>>

\* The blocks out of the pool: the i-th block of f was provided and did not come
\* back yet.
Out == {b \in Files \X (1..MaxBlocks) : popped[b[1]] < b[2] /\ b[2] <= provided[b[1]]}

\* As long as no block was pushed twice, every block is in the pool or in one place of
\* one pipeline.
PoolCounted ==
    /\ pool + Cardinality(Out) = NbBlocks
    /\ \A f \in Files : Pushed(f) + ready[f] = provided[f]

\* A tape task is over when its blocks have all come back.
TapeActive == tape \in {"data", "circulate"}

BlocksAccounted ==
    /\ \A f \in Files : f > MmTaken => provided[f] = 0
    /\ mm = "serve" => mmFile \in Files /\ mmFile = MmTaken /\ provided[mmFile] < need[mmFile]
    /\ \A f \in Files :
         f <= TapeTaken => popped[f] = need[f] \/ f \in abandoned \/ (TapeActive /\ f = tapeFile)
    /\ doubled = {} => PoolCounted
    /\ \A d \in DiskThreads :
         /\ disk[d] \notin {"idle", "done", "dead"} => diskFile[d] \in Files
         /\ disk[d] = "again" => doubled # {}

OnTape(f, what) == f <= Len(onTape) /\ onTape[f] = <<f, what>>

\* The tape thread may still write.
Writing ==
    \/ tape \in {"mount", "next", "data", "flush"}
    \/ tape = "circulate" /\ after # "drain"
    \/ tape = "clean" /\ after = "end"

\* What `after' may be in a state of the tape thread.
AfterMatches ==
    /\ tape \in {"mount", "next", "data", "drain", "done"} => after = "none"
    /\ tape = "flush" => after \in {"none", "end"}
    /\ tape = "circulate" => after \in {"skip", "recover", "error", "full", "drain"}
    /\ tape = "clean" => after \in {"end", "error", "full"}

TapePosition ==
    /\ AfterMatches
    /\ TapeActive => tapeFile \in Files /\ tapeFile = TapeTaken
    /\ Writing => Len(onTape) = TapeTaken
    /\ tape = "data" => lastFSeq + 1 = tapeFile /\ OnTape(tapeFile, "partial")
    /\ after = "skip" => lastFSeq + 1 = tapeFile /\ OnTape(tapeFile, "placeholder")
    /\ after \in {"recover", "error"} /\ tape = "circulate" => OnTape(tapeFile, "partial")
    /\ tape \in {"mount", "next", "data"} \/ after \in {"skip", "recover"} =>
         files < FilesBeforeFlush

\* Nothing will change an incomplete file on tape any more.
LeftPartial(f) == OnTape(f, "partial") /\ (tape = "data" => f # Len(onTape))

ReportIs(i, kind) == i \in 1..Len(reports) /\ reports[i].kind = kind

ReportsTrue ==
    /\ \A i \in 1..Len(reports) :
         /\ ReportIs(i, "ok") => OnTape(reports[i].file, "file")
         /\ ReportIs(i, "skip") => OnTape(reports[i].file, "placeholder")
         /\ ReportIs(i, "error") => LeftPartial(reports[i].file)
    /\ \A f \in successful \union reported : OnTape(f, "file")
    /\ \A f \in skipped : OnTape(f, "placeholder")
    /\ packer = "run" => \A f \in failed : OnTape(f, "placeholder") \/ LeftPartial(f)

\* A file is reported once, and a flush after it.
ReportedOnce ==
    /\ \A i \in 1..Len(reports) :
         ReportIs(i, "ok") =>
           /\ reports[i].file \notin successful \union reported
           /\ \A j \in 1..Len(reports) :
                ReportIs(j, "ok") /\ reports[j].file = reports[i].file => j = i
    /\ successful \intersect reported = {}
    /\ reported \intersect failed \subseteq lostAnswer

FlushCovers ==
    /\ \A f \in reported : f <= safe
    /\ \A i \in 1..Len(reports) :
         ReportIs(i, "flush") =>
           /\ \A f \in successful : f <= safe
           /\ \A j \in 1..i : ReportIs(j, "ok") => reports[j].file <= safe

\* A report of f waits for the packer.
OkWaits(f) == \E i \in 1..Len(reports) : ReportIs(i, "ok") /\ reports[i].file = f

\* Without a fault the disk readers read all they want ...
CleanPipes ==
    /\ errorFlag = FALSE /\ doubled = {}
    /\ \A d \in DiskThreads : disk[d] \notin {"again", "fail", "circulate", "dead"}
    /\ \A f \in Files : \A i \in 1..Len(data[f]) : data[f][i] = "ok"

\* ... every task writes its file, and every file is reported to the packer ...
CleanSession ==
    /\ errorHappened = FALSE /\ abandoned = {}
    /\ tape \notin {"circulate", "drain"} /\ after \in {"none", "end"}
    /\ Len(onTape) = TapeTaken
    /\ lastFSeq = IF tape = "data" THEN Len(onTape) - 1 ELSE Len(onTape)
    /\ \A i \in 1..Len(reports) : reports[i].kind \in {"ok", "flush", "end"}
    /\ \A f \in 1..lastFSeq : f \in reported \union successful \/ OkWaits(f)

\* ... and at its end the last flush has been reported after the last file.
CleanEnd ==
    /\ tape \in {"clean", "done"} =>
         /\ \A i \in 1..Len(reports) :
              ReportIs(i, "ok") => \E j \in i..Len(reports) : ReportIs(j, "flush")
         /\ successful # {} => \E j \in 1..Len(reports) : ReportIs(j, "flush")
    /\ \A i \in 1..Len(reports) : ReportIs(i, "end") => i = Len(reports) /\ tape = "done"
    /\ packer # "run" => tape = "done" /\ successful = {} /\ reports = <<>>

SessionInv ==
    /\ TypeOK
    /\ TasksInOrder
    /\ BlocksAccounted
    /\ TapePosition
    /\ ReportsTrue
    /\ ReportedOnce
    /\ FlushCovers
    /\ faults = 0 => CleanPipes /\ CleanSession /\ CleanEnd

-----------------------------------------------------------------------------
(* Queues of tasks                                                         *)

\* A queue without entries is the empty one.
LEMMA EmptyQueue ==
  ASSUME NEW q \in Seq(Files \union {End})
  PROVE  q = <<>> <=> Len(q) = 0
  OBVIOUS

\* FilesFrom() lists k files from f on.
LEMMA FilesFromIs ==
  ASSUME NEW f \in Nat, NEW k \in Nat, f >= 1, f + k <= NbFiles + 1
  PROVE  /\ FilesFrom(f, k) \in Seq(Files) /\ Len(FilesFrom(f, k)) = k
         /\ \A i \in 1..k : FilesFrom(f, k)[i] = f + i - 1
<1>1. \A i \in 1..k : f + i - 1 \in Files
  BY MigrationAssumption DEF Files
<1> QED BY <1>1 DEF FilesFrom

\* A file joins the queue.
LEMMA PushFile ==
  ASSUME NEW q \in Seq(Files \union {End}), NEW n \in Nat, n + 1 \in Files, InOrder(q, n, 0)
  PROVE  /\ InOrder(Append(q, n + 1), n + 1, 0)
         /\ Taken(Append(q, n + 1), n + 1, 0) = Taken(q, n, 0)
<1>1. Append(q, n + 1) # <<>> /\ Len(Append(q, n + 1)) = Len(q) + 1
  OBVIOUS
<1>2. InLine(Append(q, n + 1), 0) = Len(q) + 1 /\ InLine(q, 0) = Len(q)
  BY <1>1 DEF InLine
<1> QED BY <1>1, <1>2 DEF InOrder, Taken

\* The end mark joins the queue.
LEMMA PushMark ==
  ASSUME NEW q \in Seq(Files \union {End}), NEW n \in Nat, InOrder(q, n, 0)
  PROVE  /\ InOrder(Append(q, End), n, 1)
         /\ Taken(Append(q, End), n, 1) = Taken(q, n, 0)
<1>1. Append(q, End) # <<>> /\ Len(Append(q, End)) = Len(q) + 1
  OBVIOUS
<1>2. InLine(Append(q, End), 1) = Len(q) /\ InLine(q, 0) = Len(q)
  BY <1>1 DEF InLine
<1> QED BY <1>1, <1>2 DEF InOrder, Taken

\* What the consumer of a queue finds: the file that follows the last one it took, or
\* the end mark when it has taken them all.
LEMMA PopHead ==
  ASSUME NEW q \in Seq(Files \union {End}), q # <<>>, NEW n \in Nat, NEW m \in {0, 1},
         InOrder(q, n, m)
  PROVE  /\ Tail(q) \in Seq(Files \union {End}) /\ Head(q) \in Files \union {End}
         /\ InOrder(Tail(q), n, m)
         /\ Head(q) # End => /\ Head(q) = Taken(q, n, m) + 1
                             /\ Taken(Tail(q), n, m) = Head(q)
         /\ Head(q) = End => /\ m = 1 /\ Tail(q) = <<>>
                             /\ Taken(q, n, m) = n /\ Taken(Tail(q), n, m) = n
<1>1. /\ Len(q) \in Nat /\ Len(q) > 0 /\ Len(Tail(q)) = Len(q) - 1 /\ Head(q) = q[1]
      /\ Tail(q) \in Seq(Files \union {End}) /\ Head(q) \in Files \union {End}
      /\ \A i \in 1..Len(q) - 1 : Tail(q)[i] = q[i + 1]
  OBVIOUS
<1>2. InLine(q, m) = Len(q) - m
  BY DEF InLine
<1>3. CASE Len(q) = 1
  <2>1. Tail(q) = <<>> /\ Len(Tail(q)) = 0
    <3>1. Len(Tail(q)) = 0
      BY <1>1, <1>3
    <3> QED BY <1>1, <3>1, EmptyQueue, Zenon
  <2>2. InLine(Tail(q), m) = 0
    BY <2>1 DEF InLine
  <2>3. InOrder(Tail(q), n, m)
    <3>1. InOrder(<<>>, n, m)
      BY DEF InOrder, InLine
    <3> QED BY <2>1, <3>1
  <2>4. m = 0 => Head(q) = n
    BY <1>1, <1>2, <1>3 DEF InOrder, Taken
  <2>5. m = 1 => Head(q) = End
    BY <1>1, <1>3 DEF InOrder
  <2>6. m = 0 => Head(q) # End
    BY <1>2, <1>3, <2>4 DEF InOrder, End
  <2>7. Taken(q, n, m) = n - 1 + m /\ Taken(Tail(q), n, m) = n
    BY <1>2, <1>3, <2>2 DEF Taken
  <2> QED BY <1>1, <2>1, <2>3, <2>4, <2>5, <2>6, <2>7
<1>4. CASE Len(q) > 1
  <2>1. Tail(q) # <<>>
    <3>1. Len(Tail(q)) # 0
      BY <1>1, <1>4
    <3> QED BY <1>1, <3>1, EmptyQueue, Zenon
  <2>2. InLine(Tail(q), m) = Len(q) - 1 - m
    BY <1>1, <2>1 DEF InLine
  <2>3. Head(q) = n - Len(q) + m + 1 /\ Head(q) # End
    BY <1>1, <1>2, <1>4 DEF InOrder, Taken, End
  <2>4. Taken(Tail(q), n, m) = Head(q) /\ Head(q) = Taken(q, n, m) + 1
    BY <1>1, <1>2, <2>2, <2>3 DEF Taken
  <2>5. InOrder(Tail(q), n, m)
    <3>1. InLine(Tail(q), m) <= n
      BY <1>1, <1>2, <2>2 DEF InOrder
    <3>2. ASSUME NEW i \in 1..Len(Tail(q))
          PROVE  Tail(q)[i] = IF i + m > Len(Tail(q)) THEN End ELSE Taken(Tail(q), n, m) + i
      <4>1. i + 1 \in 1..Len(q) /\ Tail(q)[i] = q[i + 1]
        BY <1>1
      <4>2. Taken(Tail(q), n, m) = Taken(q, n, m) + 1 /\ Taken(q, n, m) \in Int
        BY <1>1, <1>2, <2>2 DEF Taken
      <4>3. q[i + 1] = IF i + 1 + m > Len(q) THEN End ELSE Taken(q, n, m) + (i + 1)
        BY <4>1 DEF InOrder
      <4> QED BY <1>1, <4>1, <4>2, <4>3
    <3> QED BY <3>1, <3>2 DEF InOrder
  <2> QED BY <1>1, <2>3, <2>4, <2>5
<1> QED BY <1>1, <1>3, <1>4

-----------------------------------------------------------------------------
(* The task injector                                                       *)

\* What no step of the injector touches.
InjectorFrame == UNCHANGED <<need, errorFlag, reports, pool, pipes, mmVars, diskVars, tapeVars,
                             packerVars, crashed>>

\* The count of faults does not go down.
FaultsGrow == faults' \in 0..MaxFaults /\ (faults' = 0 => faults = 0)

LEMMA FaultGrows == TypeOK /\ (Fault \/ UNCHANGED faults) => FaultsGrow
  BY MigrationAssumption DEF TypeOK, DisksOK, Fault, FaultsGrow

\* The injector's variables have values of arithmetic.
LEMMA InjectorNumbers ==
  ASSUME TypeOK, TasksInOrder
  PROVE  /\ Injected \in Nat /\ Injected <= NbFiles /\ Injected + Len(batch) = next - 1
         /\ Marks \in {0, 1} /\ next \in Nat /\ Len(batch) \in Nat
  BY MigrationAssumption DEF TypeOK, QueuesOK, TasksInOrder, Injected, Marks

\* The end marks leave the queues in order.
LEMMA EndMarks ==
  ASSUME TypeOK, TasksInOrder, inj \in {"check", "wait", "inject"}, batch = <<>>,
         SignalEndDataMovement, batch' = batch, next' = next, after' = after, tape' = tape
  PROVE  TasksInOrder' /\ TapeTaken' = TapeTaken /\ MmTaken' = MmTaken
<1>1. Marks = 0 /\ Marks' = 1 /\ Injected' = Injected
  BY DEF Marks, SignalEndDataMovement, Injected
<1>2. Injected \in Nat
  BY InjectorNumbers
<1>3. /\ InOrder(tapeTasks', Injected, 1) /\ Taken(tapeTasks', Injected, 1) = TapeTaken
      /\ InOrder(clients', Injected, 1) /\ Taken(clients', Injected, 1) = MmTaken
  BY <1>1, <1>2, PushMark DEF TypeOK, QueuesOK, TasksInOrder, SignalEndDataMovement, TapeTaken,
                              MmTaken
<1>4. TapeTaken' = TapeTaken /\ MmTaken' = MmTaken
  BY <1>1, <1>3 DEF TapeTaken, MmTaken
<1>5. ~ (after = "end" \/ tape = "done")
  BY <1>1 DEF TasksInOrder
<1> QED BY <1>1, <1>3, <1>4, <1>5 DEF TasksInOrder, Injected

\* ... and of their types.
LEMMA EndMarksType ==
  ASSUME TypeOK, SignalEndDataMovement, UNCHANGED <<next, batch>>,
         requests' \in Seq({"more", "last", "end"}), wrapUp' \in BOOLEAN
  PROVE  QueuesOK'
<1>1. Cardinality(DiskThreads) \in Nat
  BY MigrationAssumption, FS_CardinalityType
<1>2. [i \in 1..Cardinality(DiskThreads) |-> End] \in Seq(Files \union {End})
  BY <1>1
<1>3. diskTasks' \in Seq(Files \union {End})
  BY <1>2 DEF TypeOK, QueuesOK, SignalEndDataMovement
<1> QED BY <1>3 DEF TypeOK, QueuesOK, SignalEndDataMovement

\* A step of the injector moves the end of the queues of tasks and nothing else.
LEMMA InjectorStep ==
  ASSUME TypeOK, TasksInOrder, Injector
  PROVE  /\ QueuesOK' /\ TasksInOrder' /\ TapeTaken' = TapeTaken /\ MmTaken' = MmTaken
         /\ InjectorFrame /\ FaultsGrow
<1> USE MigrationAssumption
<1>0. UNCHANGED <<after, tape>> /\ InjectorFrame /\ FaultsGrow
  BY FaultGrows DEF Injector, InjectorCheck, GetNextJobBatch, GetNextJobBatchError, InjectFile,
         InjectionDone, DrainRequests, tapeVars, InjectorFrame
<1>r. requests # <<>> => Tail(requests) \in Seq({"more", "last", "end"})
  BY DEF TypeOK, QueuesOK
<1>1. CASE InjectorCheck
  <2>1. CASE SignalEndDataMovement
    BY <1>0, <1>1, <2>1, EndMarks, EndMarksType DEF InjectorCheck, TypeOK, QueuesOK, TasksInOrder
  <2>2. CASE inj' = "wait" /\ UNCHANGED <<tapeTasks, diskTasks, clients>>
    BY <1>0, <1>1, <2>2 DEF InjectorCheck, TypeOK, QueuesOK, TasksInOrder, TapeTaken, MmTaken,
                            Injected, Marks
  <2> QED BY <1>1, <2>1, <2>2 DEF InjectorCheck
<1>2. CASE GetNextJobBatch
  <2>1. CASE SignalEndDataMovement /\ UNCHANGED <<batch, wrapUp, next>>
    BY <1>0, <1>r, <1>2, <2>1, EndMarks, EndMarksType
       DEF GetNextJobBatch, TypeOK, QueuesOK, TasksInOrder
  <2>2. CASE inj' = "check" /\ UNCHANGED <<batch, wrapUp, next, tapeTasks, diskTasks, clients>>
    BY <1>0, <1>r, <1>2, <2>2 DEF GetNextJobBatch, TypeOK, QueuesOK, TasksInOrder, TapeTaken,
                                  MmTaken, Injected, Marks
  <2>3. ASSUME NEW k \in 0..MaxFiles, k > 0, next + k - 1 <= NbFiles,
               batch' = FilesFrom(next, k), next' = next + k, wrapUp' \in BOOLEAN,
               inj' = "inject", UNCHANGED <<tapeTasks, diskTasks, clients>>
        PROVE  QueuesOK' /\ TasksInOrder' /\ TapeTaken' = TapeTaken /\ MmTaken' = MmTaken
    <3>1. /\ next \in Nat /\ next >= 1 /\ batch = <<>> /\ Len(batch) = 0
          /\ Marks = 0 /\ Marks' = 0
      BY <1>2, <2>3 DEF TypeOK, QueuesOK, GetNextJobBatch, TasksInOrder, Marks
    <3>2. /\ batch' \in Seq(Files) /\ Len(batch') = k
          /\ \A i \in 1..k : batch'[i] = next + i - 1
      BY <2>3, <3>1, FilesFromIs
    <3>3. Injected = next - 1 /\ Injected' = Injected
      BY <2>3, <3>1, <3>2 DEF Injected
    <3>4. TapeTaken' = TapeTaken /\ MmTaken' = MmTaken
      BY <2>3, <3>1, <3>3 DEF TapeTaken, MmTaken
    <3>5. QueuesOK'
      BY <1>r, <1>2, <2>3, <3>1, <3>2 DEF TypeOK, QueuesOK, GetNextJobBatch
    <3>6. TasksInOrder'
      BY <1>0, <2>3, <3>1, <3>2, <3>3, <3>4 DEF TasksInOrder
    <3> QED BY <3>4, <3>5, <3>6
  <2>4. PICK k \in 0..MaxFiles :
          /\ k = 0 \/ (Head(requests) # "end" /\ next + k - 1 <= NbFiles)
          /\ \/ inj' = "check" /\ UNCHANGED <<batch, wrapUp, next, tapeTasks, diskTasks, clients>>
             \/ SignalEndDataMovement /\ UNCHANGED <<batch, wrapUp, next>>
             \/ /\ k > 0
                /\ batch' = FilesFrom(next, k) /\ next' = next + k
                /\ wrapUp' \in IF 2 * k < MaxFiles THEN BOOLEAN ELSE {FALSE}
                /\ inj' = "inject" /\ UNCHANGED <<tapeTasks, diskTasks, clients>>
    BY <1>2, Zenon DEF GetNextJobBatch
  <2>5. CASE /\ k > 0
             /\ batch' = FilesFrom(next, k) /\ next' = next + k
             /\ wrapUp' \in IF 2 * k < MaxFiles THEN BOOLEAN ELSE {FALSE}
             /\ inj' = "inject" /\ UNCHANGED <<tapeTasks, diskTasks, clients>>
    <3>1. wrapUp' \in BOOLEAN
      BY <2>5, Zenon
    <3>2. next + k - 1 <= NbFiles
      BY <2>4, <2>5
    <3> QED BY <1>0, <2>3, <2>5, <3>1, <3>2
  <2> QED BY <1>0, <2>1, <2>2, <2>4, <2>5
<1>3. CASE GetNextJobBatchError
  BY <1>0, <1>r, <1>3, EndMarks, EndMarksType
     DEF GetNextJobBatchError, TypeOK, QueuesOK, TasksInOrder
<1>4. CASE InjectFile
  <2>1. /\ Injected \in Nat /\ Injected + Len(batch) = next - 1 /\ Len(batch) > 0
        /\ Head(batch) = Injected + 1 /\ Head(batch) \in Files /\ Tail(batch) \in Seq(Files)
        /\ Len(Tail(batch)) = Len(batch) - 1
        /\ \A i \in 1..Len(batch) - 1 : Tail(batch)[i] = Injected + 1 + i
    <3>1. /\ inj = "inject" /\ batch # <<>> /\ batch \in Seq(Files)
          /\ Injected \in Nat /\ Injected + Len(batch) = next - 1
          /\ \A i \in 1..Len(batch) : batch[i] = Injected + i
      BY <1>4, InjectorNumbers DEF InjectFile, TypeOK, QueuesOK, TasksInOrder
    <3>2. /\ Len(batch) \in Nat /\ Len(batch) > 0 /\ Head(batch) = batch[1]
          /\ Head(batch) \in Files /\ Tail(batch) \in Seq(Files)
          /\ Len(Tail(batch)) = Len(batch) - 1
          /\ \A i \in 1..Len(batch) - 1 : Tail(batch)[i] = batch[i + 1]
      BY <3>1
    <3> QED BY <3>1, <3>2
  <2>2. Marks = 0 /\ Marks' = 0 /\ Injected' = Injected + 1
    BY <1>4, <2>1 DEF InjectFile, Marks, Injected, injVars, TypeOK, QueuesOK
  <2>3. /\ InOrder(tapeTasks', Injected + 1, 0) /\ Taken(tapeTasks', Injected + 1, 0) = TapeTaken
        /\ InOrder(clients', Injected + 1, 0) /\ Taken(clients', Injected + 1, 0) = MmTaken
    BY <1>4, <2>1, <2>2, PushFile DEF InjectFile, TypeOK, QueuesOK, TasksInOrder, TapeTaken,
                                      MmTaken
  <2>4. TapeTaken' = TapeTaken /\ MmTaken' = MmTaken
    BY <2>2, <2>3 DEF TapeTaken, MmTaken
  <2>5. QueuesOK'
    BY <1>4, <2>1 DEF InjectFile, TypeOK, QueuesOK
  <2>6. TasksInOrder'
    BY <1>0, <1>4, <2>1, <2>2, <2>3 DEF InjectFile, TasksInOrder, TypeOK, QueuesOK
  <2> QED BY <1>0, <2>4, <2>5, <2>6
<1>5. CASE InjectionDone
  <2>1. CASE SignalEndDataMovement
    BY <1>0, <1>5, <2>1, EndMarks, EndMarksType DEF InjectionDone, TypeOK, QueuesOK
  <2>2. CASE inj' = "check" /\ UNCHANGED <<tapeTasks, diskTasks, clients>>
    BY <1>0, <1>5, <2>2 DEF InjectionDone, TypeOK, QueuesOK, TasksInOrder, TapeTaken, MmTaken,
                            Injected, Marks
  <2> QED BY <1>5, <2>1, <2>2 DEF InjectionDone
<1>6. CASE DrainRequests
  BY <1>0, <1>r, <1>6 DEF DrainRequests, TypeOK, QueuesOK, TasksInOrder, TapeTaken, MmTaken,
                          Injected, Marks
<1> QED BY <1>1, <1>2, <1>3, <1>4, <1>5, <1>6 DEF Injector

-----------------------------------------------------------------------------
(* Memory blocks                                                           *)

\* The blocks out of the pool can be counted.
LEMMA OutFinite == IsFiniteSet(Out) /\ Cardinality(Out) \in Nat
<1>1. IsFiniteSet(Files) /\ IsFiniteSet(1..MaxBlocks)
  BY MigrationAssumption, FS_Interval DEF Files
<1>2. IsFiniteSet(Files \X (1..MaxBlocks))
  BY <1>1, FS_Product
<1>3. Out \subseteq Files \X (1..MaxBlocks)
  BY DEF Out
<1>4. IsFiniteSet(Out)
  BY <1>2, <1>3, FS_Subset
<1> QED BY <1>4, FS_CardinalityType

\* What the types say of the pipeline of a file.
LEMMA Pipe ==
  ASSUME PipesOK, NEW f \in Files
  PROVE  /\ need[f] \in 1..MaxBlocks /\ data[f] \in Seq({"ok", "failed", "cancelled"})
         /\ provided[f] \in Nat /\ ready[f] \in Nat /\ popped[f] \in Nat /\ Len(data[f]) \in Nat
         /\ popped[f] + Len(data[f]) <= need[f] /\ provided[f] <= need[f]
         /\ pool \in Nat /\ NbBlocks \in Nat
  BY MigrationAssumption DEF PipesOK, Pushed

\* The memory manager gives a block to a pipeline.
LEMMA BlockProvidedType ==
  ASSUME PipesOK, NEW f \in Files, provided[f] < need[f], pool > 0, pool' = pool - 1,
         provided' = [provided EXCEPT ![f] = @ + 1], ready' = [ready EXCEPT ![f] = @ + 1],
         UNCHANGED <<need, data, popped>>,
         mm' \in {"wait", "serve", "done"}, mmFile' \in Files \union {End}
  PROVE  PipesOK'
<1>t. provided \in [Files -> Nat] /\ ready \in [Files -> Nat] /\ pool \in Nat
  BY DEF PipesOK
<1>0. provided[f] + 1 \in Nat /\ ready[f] + 1 \in Nat
  BY <1>t
<1>1. /\ provided' \in [Files -> Nat] /\ ready' \in [Files -> Nat] /\ pool' \in Nat
      /\ provided'[f] = provided[f] + 1 /\ \A g \in Files : g # f => provided'[g] = provided[g]
  BY <1>t, <1>0
<1>2. provided[f] + 1 <= need[f]
  BY Pipe
<1>3. \A g \in Files : Pushed(g)' <= need'[g] /\ provided'[g] <= need'[g]
  BY <1>1, <1>2 DEF PipesOK, Pushed
<1> QED BY <1>1, <1>3 DEF PipesOK

LEMMA BlockProvided ==
  ASSUME PipesOK, PoolCounted, NEW f \in Files, provided[f] < need[f],
         pool > 0, pool' = pool - 1,
         provided' = [provided EXCEPT ![f] = @ + 1], ready' = [ready EXCEPT ![f] = @ + 1],
         UNCHANGED <<need, data, popped>>
  PROVE  PoolCounted'
<1>p. /\ need[f] \in 1..MaxBlocks /\ data[f] \in Seq({"ok", "failed", "cancelled"})
      /\ provided[f] \in Nat /\ ready[f] \in Nat /\ popped[f] \in Nat /\ Len(data[f]) \in Nat
      /\ popped[f] + Len(data[f]) + ready[f] = provided[f] /\ provided[f] <= need[f]
      /\ pool \in Nat /\ NbBlocks \in Nat /\ MaxBlocks \in Nat
  BY Pipe, MigrationAssumption DEF PoolCounted, Pushed
<1>t. /\ provided \in [Files -> Nat] /\ ready \in [Files -> Nat] /\ popped \in [Files -> Nat]
      /\ data \in [Files -> Seq({"ok", "failed", "cancelled"})]
  BY DEF PipesOK
<1> DEFINE b == <<f, provided[f] + 1>>
<1>1. /\ provided[f] \in Nat /\ popped[f] \in Nat /\ popped[f] <= provided[f]
      /\ need[f] <= MaxBlocks /\ MaxBlocks \in Nat /\ need[f] \in Nat
  <2>1. \A p, l, r, q \in Nat : p + l + r = q => p <= q
    OBVIOUS
  <2>2. popped[f] <= provided[f]
    BY ONLY <1>p, <2>1
  <2> QED BY ONLY <1>p, <2>2
<1>2. b \in Files \X (1..MaxBlocks)
  BY <1>1
<1>3. /\ provided' \in [Files -> Nat] /\ provided'[f] = provided[f] + 1
      /\ \A g \in Files : g # f => provided'[g] = provided[g]
  BY <1>t
<1>r. /\ ready' \in [Files -> Nat] /\ ready'[f] = ready[f] + 1
      /\ \A g \in Files : g # f => ready'[g] = ready[g]
  BY <1>t
<1>4. ASSUME NEW g \in Files, NEW i \in 1..MaxBlocks
      PROVE  <<g, i>> \in Out' <=> (<<g, i>> \in Out \/ <<g, i>> = b)
  <2>1. <<g, i>> \in Out' <=> popped[g] < i /\ i <= provided'[g]
    BY DEF Out
  <2>2. <<g, i>> \in Out <=> popped[g] < i /\ i <= provided[g]
    BY DEF Out
  <2>3. CASE g = f
    BY <1>1, <1>3, <2>1, <2>2, <2>3
  <2>4. CASE g # f
    BY <1>3, <2>1, <2>2, <2>4
  <2> QED BY <2>3, <2>4
<1>5. Out \subseteq Files \X (1..MaxBlocks) /\ Out' \subseteq Files \X (1..MaxBlocks)
  BY DEF Out
<1> HIDE DEF b
<1>6. Out' = Out \union {b}
  <2>1. \A x \in Files \X (1..MaxBlocks) : x \in Out' <=> (x \in Out \/ x = b)
    BY <1>4
  <2> QED BY <1>2, <1>5, <2>1
<1>7. b \notin Out
  BY <1>1 DEF Out, b
<1>8. Cardinality(Out') = Cardinality(Out) + 1 /\ Cardinality(Out) \in Nat
  BY <1>6, <1>7, OutFinite, FS_AddElement
<1>9. pool' + Cardinality(Out') = NbBlocks
  BY <1>p, <1>8 DEF PoolCounted
<1>10. ASSUME NEW g \in Files
       PROVE  Pushed(g)' + ready'[g] = provided'[g]
  <2>1. CASE g = f
    <3>1. Pushed(f)' = popped[f] + Len(data[f])
      BY DEF Pushed
    <3>2. popped[f] + Len(data[f]) + (ready[f] + 1) = provided[f] + 1
      <4>1. PICK p \in Nat : p = popped[f]
        BY <1>p
      <4>2. PICK l \in Nat : l = Len(data[f])
        BY <1>p
      <4>3. PICK r \in Nat : r = ready[f]
        BY <1>p
      <4>4. PICK q \in Nat : q = provided[f]
        BY <1>p
      <4>5. p + l + r = q
        BY ONLY <1>p, <4>1, <4>2, <4>3, <4>4
      <4>6. p + l + (r + 1) = q + 1
        BY ONLY <4>5
      <4> QED BY ONLY <4>1, <4>2, <4>3, <4>4, <4>6
    <3> QED BY <1>p, <1>3, <1>r, <2>1, <3>1, <3>2
  <2>2. CASE g # f
    BY <1>3, <1>r, <2>2 DEF Pushed, PoolCounted
  <2> QED BY <2>1, <2>2
<1> QED BY <1>9, <1>10 DEF PoolCounted

\* A disk reader pushes a block.
LEMMA BlockPushedType ==
  ASSUME PipesOK, NEW f \in Files, NEW c \in {"ok", "failed", "cancelled"}, Pushed(f) < need[f],
         ready' \in [Files -> Nat], data' = [data EXCEPT ![f] = Append(@, c)],
         UNCHANGED <<need, pool, provided, popped, mmVars>>
  PROVE  PipesOK' /\ Out' = Out
<1>1. /\ data'[f] = Append(data[f], c) /\ data' \in [Files -> Seq({"ok", "failed", "cancelled"})]
      /\ Len(data'[f]) = Len(data[f]) + 1 /\ \A g \in Files : g # f => data'[g] = data[g]
  BY DEF PipesOK
<1>2. popped[f] + Len(data[f]) + 1 <= need[f]
  BY Pipe DEF Pushed
<1>3. \A g \in Files : Pushed(g)' <= need'[g]
  <2> SUFFICES ASSUME NEW g \in Files PROVE Pushed(g)' <= need'[g]
    OBVIOUS
  <2>1. CASE g = f
    <3>1. Pushed(g)' = popped[f] + (Len(data[f]) + 1)
      BY <1>1, <2>1 DEF Pushed
    <3> QED BY <1>2, <2>1, <3>1, Pipe
  <2>2. CASE g # f
    BY <1>1, <2>2 DEF Pushed, PipesOK
  <2> QED BY <2>1, <2>2
<1>4. Out' = Out
  BY DEF Out
<1> QED BY <1>1, <1>3, <1>4 DEF PipesOK, mmVars

\* A disk reader passes a block on.
LEMMA BlockPassed ==
  ASSUME PipesOK, PoolCounted, NEW f \in Files, NEW c \in {"ok", "failed", "cancelled"},
         ready[f] > 0,
         ready' = [ready EXCEPT ![f] = @ - 1], data' = [data EXCEPT ![f] = Append(@, c)],
         UNCHANGED <<need, pool, provided, popped, mmVars>>
  PROVE  PoolCounted'
<1>p. /\ need[f] \in 1..MaxBlocks /\ data[f] \in Seq({"ok", "failed", "cancelled"})
      /\ provided[f] \in Nat /\ ready[f] \in Nat /\ popped[f] \in Nat /\ Len(data[f]) \in Nat
      /\ popped[f] + Len(data[f]) + ready[f] = provided[f] /\ provided[f] <= need[f]
      /\ pool \in Nat /\ NbBlocks \in Nat /\ MaxBlocks \in Nat
  BY Pipe, MigrationAssumption DEF PoolCounted, Pushed
<1>t. /\ provided \in [Files -> Nat] /\ ready \in [Files -> Nat] /\ popped \in [Files -> Nat]
      /\ data \in [Files -> Seq({"ok", "failed", "cancelled"})]
  BY DEF PipesOK
<1>1. data'[f] = Append(data[f], c) /\ data' \in [Files -> Seq({"ok", "failed", "cancelled"})]
      /\ Len(data'[f]) = Len(data[f]) + 1
  BY DEF PipesOK
<1>2. ready' \in [Files -> Nat] /\ ready'[f] = ready[f] - 1
  BY <1>p, <1>t
<1>3. ASSUME NEW g \in Files
      PROVE  Pushed(g)' + ready'[g] = provided[g]
  <2>1. CASE g = f
    <3>1. Pushed(g)' = popped[f] + Len(data'[f])
      BY <2>1 DEF Pushed
    <3>2. ready'[f] \in Nat /\ Len(data'[f]) \in Nat
      BY <1>1, <1>2
    <3>3. popped[f] + Len(data'[f]) + ready'[f] = provided[f]
      <4>1. popped[f] + Len(data[f]) + ready[f] = provided[f]
        BY ONLY <1>p
      <4>2. Len(data'[f]) = Len(data[f]) + 1
        BY ONLY <1>1
      <4>3. ready'[f] = ready[f] - 1
        BY ONLY <1>2
      <4>4. popped[f] \in Nat /\ Len(data[f]) \in Nat /\ ready[f] \in Nat /\ provided[f] \in Nat
        BY ONLY <1>p
      <4>5. PICK l \in Nat, k \in Nat : l = Len(data[f]) /\ k = Len(data'[f])
        BY <3>2, <4>4
      <4>6. PICK p \in Nat, r \in Nat, s \in Nat, q \in Nat :
               p = popped[f] /\ r = ready[f] /\ s = ready'[f] /\ q = provided[f]
        BY <3>2, <4>4
      <4>7. p + k + s = q
        <5>1. p + l + r = q
          BY ONLY <4>1, <4>5, <4>6
        <5>2. k = l + 1
          BY ONLY <4>2, <4>5
        <5>3. s = r - 1
          BY ONLY <4>3, <4>6
        <5> HIDE <4>5, <4>6
        <5> QED BY <5>1, <5>2, <5>3
      <4> QED BY ONLY <4>5, <4>6, <4>7
    <3> QED BY <1>p, <2>1, <3>1, <3>3
  <2>2. CASE g # f
    <3>1. data'[g] = data[g] /\ ready'[g] = ready[g]
      BY <2>2 DEF PipesOK
    <3> QED BY <3>1 DEF Pushed, PoolCounted
  <2> QED BY <2>1, <2>2
<1>4. Out' = Out
  BY DEF Out
<1> QED BY <1>3, <1>4 DEF PoolCounted

\* The tape thread takes a block and gives it back to the pool.
LEMMA BlockReturnedType ==
  ASSUME PipesOK, NEW f \in Files, data[f] # <<>>,
         data' = [data EXCEPT ![f] = Tail(@)], popped' = [popped EXCEPT ![f] = @ + 1],
         pool' = pool + 1, UNCHANGED <<need, provided, ready, mmVars>>
  PROVE  /\ PipesOK'
         /\ popped'[f] = popped[f] + 1 /\ popped[f] < need[f]
         /\ \A g \in Files : g # f => popped'[g] = popped[g]
<1>p. /\ need[f] \in Nat /\ data[f] \in Seq({"ok", "failed", "cancelled"})
      /\ popped[f] \in Nat /\ Len(data[f]) \in Nat /\ popped[f] + Len(data[f]) <= need[f]
  BY Pipe, MigrationAssumption
<1>1. /\ Tail(data[f]) \in Seq({"ok", "failed", "cancelled"})
      /\ Len(Tail(data[f])) = Len(data[f]) - 1 /\ Len(data[f]) > 0
  BY <1>p
<1>2. /\ data' \in [Files -> Seq({"ok", "failed", "cancelled"})] /\ data'[f] = Tail(data[f])
      /\ \A g \in Files : g # f => data'[g] = data[g]
  BY <1>1 DEF PipesOK
<1>3. /\ popped' \in [Files -> Nat] /\ popped'[f] = popped[f] + 1
      /\ \A g \in Files : g # f => popped'[g] = popped[g]
  BY <1>p DEF PipesOK
<1>4. ASSUME NEW g \in Files PROVE Pushed(g)' <= need[g]
  <2>1. CASE g = f
    <3>1. Pushed(g)' = (popped[f] + 1) + (Len(data[f]) - 1)
      BY <1>1, <1>2, <1>3, <2>1 DEF Pushed
    <3>2. \A p, l \in Nat : (p + 1) + (l - 1) = p + l
      OBVIOUS
    <3>3. Pushed(g)' = popped[f] + Len(data[f])
      BY <1>p, <3>1, <3>2
    <3> QED BY <1>p, <2>1, <3>3
  <2>2. CASE g # f
    BY <1>2, <1>3, <2>2 DEF Pushed, PipesOK
  <2> QED BY <2>1, <2>2
<1>5. popped[f] < need[f]
  BY <1>p, <1>1
<1>6. pool' \in Nat
  BY DEF PipesOK
<1> QED BY <1>2, <1>3, <1>4, <1>5, <1>6 DEF PipesOK, mmVars

LEMMA BlockReturned ==
  ASSUME PipesOK, PoolCounted, NEW f \in Files, data[f] # <<>>,
         data' = [data EXCEPT ![f] = Tail(@)], popped' = [popped EXCEPT ![f] = @ + 1],
         pool' = pool + 1, UNCHANGED <<need, provided, ready>>
  PROVE  PoolCounted'
<1>p. /\ need[f] \in 1..MaxBlocks /\ data[f] \in Seq({"ok", "failed", "cancelled"})
      /\ provided[f] \in Nat /\ ready[f] \in Nat /\ popped[f] \in Nat /\ Len(data[f]) \in Nat
      /\ popped[f] + Len(data[f]) + ready[f] = provided[f] /\ provided[f] <= need[f]
      /\ pool \in Nat /\ NbBlocks \in Nat /\ MaxBlocks \in Nat
  BY Pipe, MigrationAssumption DEF PoolCounted, Pushed
<1>t. /\ provided \in [Files -> Nat] /\ ready \in [Files -> Nat] /\ popped \in [Files -> Nat]
      /\ data \in [Files -> Seq({"ok", "failed", "cancelled"})]
  BY DEF PipesOK
<1> DEFINE b == <<f, popped[f] + 1>>
<1>0. /\ Tail(data[f]) \in Seq({"ok", "failed", "cancelled"})
      /\ Len(Tail(data[f])) = Len(data[f]) - 1 /\ Len(data[f]) > 0
      /\ Head(data[f]) \in {"ok", "failed", "cancelled"}
  BY <1>p
<1>1. /\ provided[f] \in Nat /\ popped[f] \in Nat /\ popped[f] < provided[f]
      /\ provided[f] <= need[f] /\ need[f] <= MaxBlocks /\ MaxBlocks \in Nat /\ need[f] \in Nat
  BY <1>0, <1>p
<1>2. b \in Files \X (1..MaxBlocks)
  BY <1>1
<1>3. /\ popped' \in [Files -> Nat] /\ popped'[f] = popped[f] + 1
      /\ \A g \in Files : g # f => popped'[g] = popped[g]
  BY <1>1, <1>t
<1>4. ASSUME NEW g \in Files, NEW i \in 1..MaxBlocks
      PROVE  <<g, i>> \in Out' <=> (<<g, i>> \in Out /\ <<g, i>> # b)
  <2>1. <<g, i>> \in Out' <=> popped'[g] < i /\ i <= provided[g]
    BY DEF Out
  <2>2. <<g, i>> \in Out <=> popped[g] < i /\ i <= provided[g]
    BY DEF Out
  <2>3. CASE g = f
    BY <1>1, <1>3, <2>1, <2>2, <2>3
  <2>4. CASE g # f
    BY <1>3, <2>1, <2>2, <2>4
  <2> QED BY <2>3, <2>4
<1>5. Out \subseteq Files \X (1..MaxBlocks) /\ Out' \subseteq Files \X (1..MaxBlocks)
  BY DEF Out
<1>7. b \in Out
  BY <1>1, <1>2 DEF Out
<1> HIDE DEF b
<1>6. Out' = Out \ {b}
  <2>1. \A x \in Files \X (1..MaxBlocks) : x \in Out' <=> (x \in Out /\ x # b)
    BY <1>4
  <2> QED BY <1>5, <2>1
<1>8. /\ Cardinality(Out') = Cardinality(Out) - 1 /\ Cardinality(Out) \in Nat
      /\ Cardinality(Out') \in Nat
  BY <1>6, <1>7, OutFinite, FS_RemoveElement, FS_CardinalityType
<1>9. pool' + Cardinality(Out') = NbBlocks
  BY <1>p, <1>8 DEF PoolCounted
<1>10. /\ data' \in [Files -> Seq({"ok", "failed", "cancelled"})] /\ data'[f] = Tail(data[f])
       /\ \A g \in Files : g # f => data'[g] = data[g]
  BY <1>0 DEF PipesOK
<1>11. ASSUME NEW g \in Files
       PROVE  Pushed(g)' + ready'[g] = provided'[g]
  <2>1. CASE g = f
    BY <1>0, <1>3, <1>10, <1>p, <2>1 DEF Pushed
  <2>2. CASE g # f
    BY <1>3, <1>10, <2>2 DEF Pushed, PoolCounted
  <2> QED BY <2>1, <2>2
<1> QED BY <1>9, <1>11 DEF PoolCounted

-----------------------------------------------------------------------------
(* The memory manager and the disk readers                                 *)

\* What the tape thread and the report packer decide by.
TapeFrameOnly == UNCHANGED <<reports, tapeVars, packerVars>>

\* MigrationMemoryManager::run() serves a pipeline only up to its needs, and never one it
\* has served before.
LEMMA MemoryManagerStep ==
  ASSUME TypeOK, TasksInOrder, BlocksAccounted, MemoryManager
  PROVE  /\ QueuesOK' /\ PipesOK' /\ TasksInOrder' /\ BlocksAccounted' /\ TapeTaken' = TapeTaken
         /\ TapeFrameOnly /\ UNCHANGED <<errorFlag, diskVars, data, faults, crashed, next>>
<1>0. /\ TapeFrameOnly /\ UNCHANGED <<errorFlag, diskVars, data, faults, crashed, injVars, need>>
      /\ UNCHANGED <<popped, tapeTasks, diskTasks, requests>>
  BY DEF MemoryManager, NextClient, ProvideBlock, TapeFrameOnly, pipes, queues, injVars
<1>1. /\ Injected' = Injected /\ Marks' = Marks /\ Injected \in Nat /\ Marks \in {0, 1}
      /\ TapeTaken' = TapeTaken /\ UNCHANGED <<tape, tapeFile, after, abandoned>>
  BY <1>0, InjectorNumbers DEF Injected, Marks, injVars, TapeTaken, TapeFrameOnly, tapeVars
<1>2. CASE NextClient
  <2>1. /\ clients' \in Seq(Files \union {End}) /\ InOrder(clients', Injected, Marks)
        /\ mmFile' \in Files \union {End}
        /\ mmFile' # End => mmFile' = MmTaken + 1 /\ MmTaken' = mmFile'
        /\ mmFile' = End => MmTaken' = MmTaken
    <3>1. /\ clients \in Seq(Files \union {End}) /\ clients # <<>> /\ mmFile' = Head(clients)
          /\ InOrder(clients, Injected, Marks) /\ clients' = Tail(clients)
      BY <1>2 DEF NextClient, TypeOK, QueuesOK, TasksInOrder
    <3>2. MmTaken' = Taken(clients', Injected, Marks)
      BY <1>1 DEF MmTaken
    <3> QED BY <1>1, <3>1, <3>2, PopHead DEF MmTaken
  <2>2. QueuesOK' /\ TasksInOrder'
    BY <1>0, <1>1, <2>1 DEF TypeOK, QueuesOK, TasksInOrder, injVars
  <2>3. PipesOK' /\ Out' = Out /\ UNCHANGED <<pool, provided>> /\ (PoolCounted => PoolCounted')
    BY <1>0, <1>2, <2>1 DEF NextClient, TypeOK, PipesOK, pipes, Out, Pushed, PoolCounted
  <2>4. \A f \in Files : f > MmTaken' => provided'[f] = 0
    <3>1. MmTaken \in Int /\ Files \subseteq Nat
      BY <1>1, MigrationAssumption DEF MmTaken, Taken, InLine, TypeOK, QueuesOK, Files
    <3> QED BY <2>1, <2>3, <3>1 DEF BlocksAccounted
  <2>5. mm' = "serve" => mmFile' \in Files /\ mmFile' = MmTaken' /\ provided'[mmFile'] < need[mmFile']
    <3> SUFFICES ASSUME mm' = "serve" PROVE mmFile' \in Files /\ mmFile' = MmTaken'
                                         /\ provided'[mmFile'] < need[mmFile']
      OBVIOUS
    <3>1. mmFile' # End
      BY <1>2 DEF NextClient
    <3>2. MmTaken \in Int /\ Files \subseteq Nat
      BY <1>1, MigrationAssumption DEF MmTaken, Taken, InLine, TypeOK, QueuesOK, Files
    <3>3. mmFile' \in Files /\ mmFile' = MmTaken' /\ mmFile' > MmTaken
      BY <2>1, <3>1, <3>2
    <3>4. provided[mmFile'] = 0 /\ need[mmFile'] > 0
      BY <3>3 DEF BlocksAccounted, TypeOK, PipesOK
    <3> QED BY <2>3, <3>3, <3>4
  <2> QED BY <1>0, <1>1, <2>2, <2>3, <2>4, <2>5 DEF BlocksAccounted, diskVars, TapeActive, injVars
<1>3. CASE ProvideBlock
  <2>1. /\ mmFile \in Files /\ mmFile = MmTaken /\ provided[mmFile] < need[mmFile]
        /\ doubled = {} => PoolCounted
    BY <1>3 DEF ProvideBlock, BlocksAccounted
  <2>2. /\ mm' \in {"wait", "serve", "done"} /\ mmFile' \in Files \union {End}
        /\ mm' = "serve" => mmFile' = mmFile /\ ~ AllBlocksProvided(mmFile)
    BY <1>3, <2>1 DEF ProvideBlock
  <2>3. PipesOK'
    BY <1>0, <1>3, <2>1, <2>2, BlockProvidedType DEF ProvideBlock, TypeOK
  <2>p. doubled' = {} => PoolCounted'
    <3>1. /\ pool > 0 /\ pool' = pool - 1
          /\ provided' = [provided EXCEPT ![mmFile] = @ + 1]
          /\ ready' = [ready EXCEPT ![mmFile] = @ + 1]
          /\ UNCHANGED <<need, data, popped>> /\ doubled' = doubled /\ PipesOK
      BY <1>0, <1>3 DEF ProvideBlock, diskVars, TypeOK
    <3> QED BY <2>1, <3>1, BlockProvided
  <2>4. UNCHANGED clients /\ MmTaken' = MmTaken
    BY <1>1, <1>3 DEF ProvideBlock, queues, MmTaken
  <2>5. QueuesOK' /\ TasksInOrder'
    BY <1>0, <1>1, <2>4 DEF TypeOK, QueuesOK, TasksInOrder, injVars
  <2>6. /\ \A f \in Files : f # mmFile => provided'[f] = provided[f]
        /\ mm' = "serve" => provided'[mmFile] < need[mmFile]
    BY <1>3, <2>1, <2>2, Pipe DEF ProvideBlock, AllBlocksProvided, TypeOK, PipesOK
  <2>7. \A f \in Files : f > MmTaken => provided'[f] = 0
    BY <2>1, <2>6, MigrationAssumption DEF BlocksAccounted, Files
  <2> QED BY <1>0, <1>1, <2>1, <2>2, <2>3, <2>p, <2>4, <2>5, <2>6, <2>7
          DEF BlocksAccounted, diskVars, TapeActive, injVars
<1> QED BY <1>0, <1>2, <1>3 DEF MemoryManager, injVars

\* A step of a disk reader: the state of one reader changes, or a block moves from the free
\* side of its pipeline to the data side.
LEMMA DiskReaderStep ==
  ASSUME TypeOK, TasksInOrder, BlocksAccounted, NEW d \in DiskThreads, DiskReader(d)
  PROVE  /\ QueuesOK' /\ PipesOK' /\ DisksOK' /\ TasksInOrder' /\ BlocksAccounted'
         /\ TapeTaken' = TapeTaken /\ TapeFrameOnly /\ FaultsGrow
         /\ faults' = 0 /\ CleanPipes => CleanPipes'
         /\ UNCHANGED <<next, errorFlag, crashed>>
<1> DEFINE active == {"open", "loop", "read", "again", "fail", "circulate"}
<1>0. /\ TapeFrameOnly /\ FaultsGrow
      /\ UNCHANGED <<need, errorFlag, crashed, clients, tapeTasks, pool, provided, popped,
                     injVars, mmVars>>
  <2>1. Fault \/ UNCHANGED faults
    BY DEF DiskReader, PopAndRequestMore, CheckMigrationFailing, DiskProceed, DiskOpenError,
           ReadBlock, ReadError, ShortRead, PushAgain, GetFreeBlockError, CirculateAllBlocks,
           PassBlock
  <2> QED BY <2>1, FaultGrows DEF DiskReader, PopAndRequestMore, CheckMigrationFailing, DiskProceed,
                                  DiskOpenError, ReadBlock, ReadError, ShortRead, PushAgain,
                                  GetFreeBlockError, CirculateAllBlocks, PassBlock, TapeFrameOnly,
                                  pipes, queues
<1>1. /\ Injected' = Injected /\ Marks' = Marks /\ TapeTaken' = TapeTaken /\ MmTaken' = MmTaken
      /\ TasksInOrder' /\ UNCHANGED <<tape, after, tapeFile, abandoned, mm, mmFile, inj, next>>
  BY <1>0 DEF Injected, Marks, injVars, TapeTaken, MmTaken, TasksInOrder, TapeFrameOnly, tapeVars,
              mmVars
<1>2. ASSUME doubled' = {} => PoolCounted', doubled \subseteq doubled',
             disk'[d] = "again" => doubled' # {},
             disk'[d] \notin {"idle", "done", "dead"} => diskFile'[d] \in Files,
             \A e \in DiskThreads \ {d} : disk'[e] = disk[e] /\ diskFile'[e] = diskFile[e]
      PROVE  BlocksAccounted'
  BY <1>0, <1>1, <1>2 DEF BlocksAccounted, TapeActive
<1>3. ASSUME NEW s \in {"idle", "done", "dead"} \union active, s # "again", disk' = [disk EXCEPT ![d] = s],
             UNCHANGED <<pipes, diskFile, diskBlock, doubled, queues>>, disk[d] \in active
      PROVE  /\ QueuesOK' /\ PipesOK' /\ DisksOK' /\ BlocksAccounted'
             /\ s \notin {"again", "fail", "circulate", "dead"} /\ CleanPipes => CleanPipes'
  <2>1. QueuesOK' /\ PipesOK' /\ DisksOK' /\ Out' = Out
    BY <1>0, <1>1, <1>3 DEF TypeOK, QueuesOK, PipesOK, DisksOK, pipes, queues, Pushed, injVars,
                            mmVars, Out, FaultsGrow
  <2>c. doubled' = {} => PoolCounted'
    BY <1>0, <1>3, <2>1 DEF BlocksAccounted, PoolCounted, pipes, Pushed
  <2>2. /\ disk'[d] = s
        /\ \A e \in DiskThreads \ {d} : disk'[e] = disk[e]
    BY <1>3 DEF TypeOK, DisksOK
  <2>3. diskFile[d] \in Files
    BY <1>3 DEF BlocksAccounted
  <2>4. BlocksAccounted'
    BY <1>2, <1>3, <2>c, <2>2, <2>3
  <2>5. s \notin {"again", "fail", "circulate", "dead"} /\ CleanPipes => CleanPipes'
    BY <1>0, <1>3, <2>2 DEF CleanPipes, pipes
  <2> QED BY <2>1, <2>4, <2>5
<1>4. CASE PopAndRequestMore(d)
  <2>1. /\ disk[d] = "idle" /\ diskTasks # <<>> /\ diskTasks' = Tail(diskTasks)
        /\ diskFile' = [diskFile EXCEPT ![d] = Head(diskTasks)]
        /\ UNCHANGED <<faults, pipes, doubled>>
        /\ \/ /\ Head(diskTasks) # End /\ disk' = [disk EXCEPT ![d] = "open"]
              /\ diskBlock' = [diskBlock EXCEPT ![d] = 0]
           \/ disk' = [disk EXCEPT ![d] = "done"] /\ UNCHANGED diskBlock
    BY <1>4 DEF PopAndRequestMore
  <2>2. Tail(diskTasks) \in Seq(Files \union {End}) /\ Head(diskTasks) \in Files \union {End}
    BY <2>1 DEF TypeOK, QueuesOK
  <2>3. requests' \in Seq({"more", "last", "end"})
    <3> DEFINE R == Seq({"more", "last", "end"})
    <3>1. PICK more \in R, finish \in R :
             requests' = requests \o more \/ requests' = requests \o more \o finish
      <4>1. <<"last">> \in R /\ <<"more">> \in R /\ <<>> \in R /\ <<"end">> \in R
        OBVIOUS
      <4> HIDE DEF R
      <4> QED BY <1>4, <4>1 DEF PopAndRequestMore
    <3>2. requests \in R /\ \A p, q \in R : p \o q \in R
      BY DEF TypeOK, QueuesOK
    <3> HIDE DEF R
    <3>3. requests \o more \in R
      BY <3>1, <3>2
    <3> QED BY <3>1, <3>2, <3>3 DEF R
  <2>4. QueuesOK'
    BY <1>0, <1>1, <2>1, <2>2, <2>3 DEF TypeOK, QueuesOK, injVars
  <2>5. PipesOK' /\ Out' = Out
    BY <1>0, <2>1 DEF TypeOK, PipesOK, pipes, Pushed, mmVars, Out
  <2>c. doubled' = {} => PoolCounted'
    BY <1>0, <2>1, <2>5 DEF BlocksAccounted, PoolCounted, pipes, Pushed
  <2>6. DisksOK'
    <3>1. DisksOK
      BY DEF TypeOK
    <3>2. faults' = faults /\ UNCHANGED <<errorFlag, crashed, doubled>>
      BY <1>0, <2>1
    <3>3. /\ disk' \in [DiskThreads -> {"idle", "open", "loop", "read", "again", "fail",
                                        "circulate", "done", "dead"}]
          /\ diskBlock' \in [DiskThreads -> Nat]
      <4>1. /\ disk \in [DiskThreads -> {"idle", "open", "loop", "read", "again", "fail",
                                         "circulate", "done", "dead"}]
            /\ diskBlock \in [DiskThreads -> Nat]
        BY <3>1 DEF DisksOK
      <4>2. 0 \in Nat
        OBVIOUS
      <4> QED BY <2>1, <4>1, <4>2
    <3>4. diskFile' \in [DiskThreads -> Files \union {End}]
      BY <2>1, <2>2, <3>1 DEF DisksOK
    <3> QED BY <3>1, <3>2, <3>3, <3>4 DEF DisksOK
  <2>7. /\ diskFile'[d] = Head(diskTasks)
        /\ disk'[d] \in {"open", "done"}
        /\ disk'[d] = "open" => Head(diskTasks) # End
        /\ \A e \in DiskThreads \ {d} : disk'[e] = disk[e] /\ diskFile'[e] = diskFile[e]
    BY <2>1 DEF TypeOK, DisksOK
  <2>8. disk'[d] \notin {"idle", "done", "dead"} => diskFile'[d] \in Files
    BY <2>2, <2>7
  <2>9. BlocksAccounted'
    BY <1>2, <2>1, <2>c, <2>7, <2>8
  <2>10. CleanPipes => CleanPipes'
    BY <1>0, <2>1, <2>7 DEF CleanPipes, pipes
  <2> QED BY <1>0, <1>1, <2>4, <2>5, <2>6, <2>9, <2>10
<1>5. CASE CheckMigrationFailing(d)
  <2>1. /\ disk' = [disk EXCEPT ![d] = "circulate"] /\ disk[d] \in active /\ errorFlag
        /\ UNCHANGED <<pipes, diskFile, diskBlock, doubled, queues>>
    BY <1>5 DEF CheckMigrationFailing
  <2>2. ~ CleanPipes
    BY <2>1 DEF CleanPipes
  <2> QED BY <1>0, <1>1, <1>3, <2>1, <2>2
<1>6. CASE DiskProceed(d)
  BY <1>0, <1>1, <1>3, <1>6 DEF DiskProceed
<1>7. CASE DiskOpenError(d)
  <2>1. /\ disk' = [disk EXCEPT ![d] = "fail"] /\ disk[d] \in active /\ faults' # 0
        /\ UNCHANGED <<pipes, diskFile, diskBlock, doubled, queues>>
    BY <1>7 DEF DiskOpenError, Fault, TypeOK, DisksOK
  <2> QED BY <1>0, <1>1, <1>3, <2>1
<1>8. ASSUME NEW c \in {"ok", "failed", "cancelled"}, NEW s \in active,
             NEW z \in {"idle", "dead"}, disk[d] \in active, PassBlock(d, c, s, z),
             doubled' \in SUBSET Files, doubled \subseteq doubled',
             s = "again" => diskBlock[d] + 1 >= need[diskFile[d]] \/ doubled' # {}
      PROVE  /\ QueuesOK' /\ PipesOK' /\ DisksOK' /\ BlocksAccounted'
             /\ c = "ok" /\ s = "loop" /\ z = "idle" /\ doubled' = {} /\ CleanPipes => CleanPipes'
  <2> DEFINE f == diskFile[d]
             last == diskBlock[d] + 1 >= need[f]
             then == IF last THEN z ELSE s
             room == Pushed(f) < need[f]
  <2>1. f \in Files
    BY <1>8 DEF BlocksAccounted
  <2>2. /\ ready[f] > 0
        /\ ready' = [ready EXCEPT ![f] = @ - 1]
        /\ room => data' = [data EXCEPT ![f] = Append(@, c)] /\ disk' = [disk EXCEPT ![d] = then]
        /\ ~ room => data' = data /\ disk' = [disk EXCEPT ![d] = "dead"]
        /\ diskBlock' = [diskBlock EXCEPT ![d] = IF last THEN 0 ELSE @ + 1]
        /\ diskFile' = [diskFile EXCEPT ![d] = IF last THEN End ELSE @]
        /\ UNCHANGED queues
    BY <1>8 DEF PassBlock, PushDataBlock
  <2>z. /\ then \in {"idle", "dead"} \union active
        /\ last => then \in {"idle", "dead"}
        /\ then = "again" => doubled' # {}
        /\ s = "loop" /\ z = "idle" => then \in {"loop", "idle"}
    BY <1>8
  <2> HIDE DEF f, last, then, room
  <2>3. ready' \in [Files -> Nat]
    BY <2>1, <2>2 DEF TypeOK, PipesOK
  <2>4. PipesOK' /\ Out' = Out
    <3>1. CASE room
      BY <1>0, <2>1, <2>2, <2>3, <3>1, BlockPushedType DEF TypeOK, room
    <3>2. CASE ~ room
      BY <1>0, <2>2, <2>3, <3>2 DEF TypeOK, PipesOK, Pushed, mmVars, Out
    <3> QED BY <3>1, <3>2
  <2>5. doubled = {} => room
    <3> SUFFICES ASSUME doubled = {} PROVE room
      OBVIOUS
    <3>1. Pushed(f) + ready[f] = provided[f]
      BY <2>1 DEF BlocksAccounted, PoolCounted
    <3>2. /\ Pushed(f) \in Nat /\ ready[f] \in Nat /\ provided[f] <= need[f] /\ need[f] \in Nat
      BY <2>1, Pipe, MigrationAssumption DEF TypeOK, Pushed
    <3>3. \A p, k, q, n \in Nat : p + k = q /\ k > 0 /\ q <= n => p < n
      OBVIOUS
    <3>4. provided[f] \in Nat
      BY <2>1, Pipe DEF TypeOK
    <3> QED BY <2>2, <3>1, <3>2, <3>3, <3>4 DEF room
  <2>6. doubled' = {} => PoolCounted'
    <3> SUFFICES ASSUME doubled' = {} PROVE PoolCounted'
      OBVIOUS
    <3>1. PoolCounted /\ room
      BY <1>8, <2>5 DEF BlocksAccounted
    <3> QED BY <1>0, <2>1, <2>2, <3>1, BlockPassed DEF TypeOK
  <2>7. /\ disk'[d] = (IF room THEN then ELSE "dead")
        /\ diskFile'[d] = (IF last THEN End ELSE f)
        /\ \A e \in DiskThreads \ {d} : disk'[e] = disk[e] /\ diskFile'[e] = diskFile[e]
    BY <2>2 DEF TypeOK, DisksOK, f
  <2>8. DisksOK'
    <3>1. (IF last THEN 0 ELSE diskBlock[d] + 1) \in Nat
      BY DEF TypeOK, DisksOK
    <3>2. diskBlock' \in [DiskThreads -> Nat]
      BY <2>2, <3>1 DEF TypeOK, DisksOK
    <3>3. diskFile' \in [DiskThreads -> Files \union {End}]
      BY <2>1, <2>2 DEF TypeOK, DisksOK
    <3>4. disk' \in [DiskThreads -> {"idle", "open", "loop", "read", "again", "fail",
                                     "circulate", "done", "dead"}]
      BY <2>2, <2>z DEF TypeOK, DisksOK
    <3> QED BY <1>0, <1>8, <3>2, <3>3, <3>4 DEF TypeOK, DisksOK, FaultsGrow
  <2>9. QueuesOK'
    BY <1>0, <1>1, <2>2 DEF TypeOK, QueuesOK, queues, injVars
  <2>10. BlocksAccounted'
    <3>1. disk'[d] \notin {"idle", "done", "dead"} => diskFile'[d] \in Files
      BY <2>1, <2>7, <2>z
    <3>2. disk'[d] = "again" => doubled' # {}
      BY <2>7, <2>z
    <3> QED BY <1>2, <1>8, <2>6, <2>7, <3>1, <3>2
  <2>11. ASSUME c = "ok", s = "loop", z = "idle", doubled' = {}, CleanPipes PROVE CleanPipes'
    <3>0. room /\ data' = [data EXCEPT ![f] = Append(@, c)]
      BY <2>2, <2>5, <2>11 DEF CleanPipes
    <3>1. \A e \in DiskThreads : disk'[e] \notin {"again", "fail", "circulate", "dead"}
      BY <2>7, <2>z, <2>11, <3>0 DEF CleanPipes
    <3>2. \A g \in Files : \A i \in 1..Len(data'[g]) : data'[g][i] = "ok"
      <4> SUFFICES ASSUME NEW g \in Files, NEW i \in 1..Len(data'[g]) PROVE data'[g][i] = "ok"
        OBVIOUS
      <4>1. CASE g = f
        <5>1. data'[g] = Append(data[f], "ok") /\ data[f] \in Seq({"ok", "failed", "cancelled"})
          BY <2>1, <2>11, <3>0, <4>1 DEF TypeOK, PipesOK
        <5>2. \A j \in 1..Len(data[f]) : data[f][j] = "ok"
          BY <2>1, <2>11 DEF CleanPipes
        <5> QED BY <5>1, <5>2
      <4>2. CASE g # f
        BY <2>11, <3>0, <4>2 DEF TypeOK, PipesOK, CleanPipes
      <4> QED BY <4>1, <4>2
    <3> QED BY <1>0, <2>11, <3>1, <3>2 DEF CleanPipes
  <2> QED BY <2>4, <2>8, <2>9, <2>10, <2>11
<1>f. doubled \in SUBSET Files /\ (disk[d] \in active => diskFile[d] \in Files)
  BY DEF TypeOK, DisksOK, BlocksAccounted
<1>9. CASE ReadBlock(d)
  <2>1. PICK c \in Contents : PassBlock(d, c, "loop", "idle")
    BY <1>9 DEF ReadBlock
  <2>2. c \in {"ok", "failed", "cancelled"} /\ (CleanPipes => c = "ok")
    BY DEF Contents, CleanPipes
  <2>3. doubled' = doubled /\ disk[d] \in active
    BY <1>9 DEF ReadBlock
  <2> QED BY <1>0, <1>1, <1>8, <1>f, <2>1, <2>2, <2>3 DEF CleanPipes
<1>10. CASE ReadError(d)
  <2>1. PassBlock(d, "failed", "circulate", "idle") /\ disk[d] \in active /\ doubled' = doubled
    BY <1>10 DEF ReadError
  <2>2. faults' = 0 => ~ CleanPipes
    BY <1>10 DEF ReadError, CleanPipes, Fault, TypeOK, DisksOK
  <2> QED BY <1>0, <1>1, <1>8, <1>f, <2>1, <2>2
<1>11. CASE CirculateAllBlocks(d)
  <2>1. PassBlock(d, "cancelled", "circulate", "idle") /\ disk[d] \in active /\ doubled' = doubled
    BY <1>11 DEF CirculateAllBlocks
  <2>2. ~ CleanPipes
    BY <1>11 DEF CirculateAllBlocks, CleanPipes
  <2> QED BY <1>0, <1>1, <1>8, <1>f, <2>1, <2>2
<1>12. CASE ShortRead(d)
  <2>1. PassBlock(d, "failed", "again", "dead") /\ disk[d] \in active
    BY <1>12 DEF ShortRead
  <2>2. /\ doubled \subseteq doubled' /\ doubled' \in SUBSET Files
        /\ diskBlock[d] + 1 >= need[diskFile[d]] \/ doubled' # {}
    BY <1>f, <1>12, <2>1 DEF ShortRead
  <2>3. faults' # 0
    BY <1>12 DEF ShortRead, Fault, TypeOK, DisksOK
  <2> QED BY <1>0, <1>1, <1>8, <2>1, <2>2, <2>3
<1>13. CASE PushAgain(d)
  <2> DEFINE f == diskFile[d]
             room == Pushed(f) < need[f]
  <2>1. /\ disk[d] = "again" /\ f \in Files
        /\ UNCHANGED <<queues, ready, diskFile, diskBlock, doubled>>
        /\ room => /\ data' = [data EXCEPT ![f] = Append(@, "failed")]
                   /\ disk' = [disk EXCEPT ![d] = "circulate"]
        /\ ~ room => data' = data /\ disk' = [disk EXCEPT ![d] = "dead"]
    BY <1>13, <1>f DEF PushAgain, PushDataBlock
  <2> HIDE DEF f, room
  <2>2. doubled # {} /\ doubled' # {} /\ ~ CleanPipes
    BY <2>1 DEF BlocksAccounted, CleanPipes
  <2>3. PipesOK'
    <3>1. ready' \in [Files -> Nat]
      BY <2>1 DEF TypeOK, PipesOK
    <3>2. CASE room
      BY <1>0, <2>1, <3>1, <3>2, BlockPushedType DEF TypeOK, room
    <3>3. CASE ~ room
      BY <1>0, <2>1, <3>3 DEF TypeOK, PipesOK, Pushed, mmVars
    <3> QED BY <3>2, <3>3
  <2>4. /\ disk'[d] \in {"circulate", "dead"} /\ DisksOK'
        /\ \A e \in DiskThreads \ {d} : disk'[e] = disk[e] /\ diskFile'[e] = diskFile[e]
    BY <1>0, <2>1 DEF TypeOK, DisksOK, FaultsGrow
  <2>5. QueuesOK'
    BY <1>0, <1>1, <2>1 DEF TypeOK, QueuesOK, queues, injVars
  <2>6. BlocksAccounted'
    BY <1>2, <2>1, <2>2, <2>4 DEF f
  <2> QED BY <1>0, <1>1, <2>2, <2>3, <2>4, <2>5, <2>6
<1>14. CASE GetFreeBlockError(d)
  <2>1. PICK s \in {"fail", "dead"} : disk' = [disk EXCEPT ![d] = s]
    BY <1>14 DEF GetFreeBlockError
  <2>2. /\ disk[d] \in active /\ ~ CleanPipes
        /\ UNCHANGED <<pipes, diskFile, diskBlock, doubled, queues>>
    BY <1>14 DEF GetFreeBlockError, CleanPipes
  <2> QED BY <1>0, <1>1, <1>3, <2>1, <2>2
<1> QED BY <1>4, <1>5, <1>6, <1>7, <1>9, <1>10, <1>11, <1>12, <1>13, <1>14 DEF DiskReader

-----------------------------------------------------------------------------
(* The queue of reports                                                    *)

\* What was written stays, but for the file that is being written, and what was flushed
\* stays flushed.
TapeKeeps ==
    /\ Len(onTape) <= Len(onTape') /\ safe <= safe'
    /\ \A f \in Files :
         /\ OnTape(f, "file") => OnTape(f, "file")'
         /\ OnTape(f, "placeholder") => OnTape(f, "placeholder")'
         /\ LeftPartial(f) => LeftPartial(f)'

\* A report of a file names it.
LEMMA ReportFile ==
  ASSUME PackerOK, NEW i \in 1..Len(reports)
  PROVE  /\ reports[i] \in ReportSet
         /\ ReportIs(i, "ok") \/ ReportIs(i, "skip") \/ ReportIs(i, "error") =>
              reports[i].file \in Files
  BY DEF PackerOK, ReportSet, ReportIs

\* A step of the tape thread without a report.
LEMMA NoReport ==
  ASSUME TypeOK, ReportsTrue, ReportedOnce, FlushCovers, TapeKeeps, TapeOK',
         UNCHANGED <<reports, packerVars>>
  PROVE  PackerOK' /\ ReportsTrue' /\ ReportedOnce' /\ FlushCovers'
<1>0. UNCHANGED <<packer, errorHappened, successful, skipped, tapeFull, reported, failed, lostAnswer>>
  BY DEF packerVars
<1>1. PackerOK /\ Files \subseteq Nat /\ safe \in Nat /\ safe' \in Nat /\ safe <= safe'
  BY MigrationAssumption DEF TypeOK, TapeOK, Files, TapeKeeps
<1>2. PackerOK'
  BY <1>0, <1>1 DEF PackerOK
<1>3. ReportsTrue'
  <2>1. \A i \in 1..Len(reports) :
          /\ ReportIs(i, "ok") => OnTape(reports[i].file, "file")'
          /\ ReportIs(i, "skip") => OnTape(reports[i].file, "placeholder")'
          /\ ReportIs(i, "error") => LeftPartial(reports[i].file)'
    BY <1>1, ReportFile DEF ReportsTrue, TapeKeeps
  <2>2. /\ \A f \in successful \union reported : OnTape(f, "file")'
        /\ \A f \in skipped : OnTape(f, "placeholder")'
        /\ packer = "run" => \A f \in failed : OnTape(f, "placeholder")' \/ LeftPartial(f)'
    BY <1>1 DEF ReportsTrue, TapeKeeps, PackerOK
  <2> QED BY <1>0, <2>1, <2>2 DEF ReportsTrue, ReportIs, OnTape, LeftPartial
<1>4. ReportedOnce'
  BY <1>0 DEF ReportedOnce, ReportIs
<1>5. FlushCovers'
  <2>1. \A f \in reported : f <= safe'
    BY <1>1 DEF FlushCovers, PackerOK
  <2>2. ASSUME NEW i \in 1..Len(reports), ReportIs(i, "flush")
        PROVE  /\ \A f \in successful : f <= safe'
               /\ \A j \in 1..i : ReportIs(j, "ok") => reports[j].file <= safe'
    <3>1. \A f \in successful : f <= safe'
      BY <1>1, <2>2 DEF FlushCovers, PackerOK
    <3>2. ASSUME NEW j \in 1..i, ReportIs(j, "ok") PROVE reports[j].file <= safe'
      <4>1. j \in 1..Len(reports) /\ reports[j].file <= safe
        BY <2>2, <3>2 DEF FlushCovers, ReportIs
      <4>2. reports[j].file \in Nat
        BY <1>1, <3>2, <4>1, ReportFile
      <4> QED BY <1>1, <4>1, <4>2
    <3> QED BY <3>1, <3>2
  <2> QED BY <1>0, <2>1, <2>2 DEF FlushCovers, ReportIs
<1> QED BY <1>2, <1>3, <1>4, <1>5

\* A step of the tape thread with a report that tells the truth, and of an archived file one
\* that was not told before.
LEMMA OneReport ==
  ASSUME TypeOK, ReportsTrue, ReportedOnce, FlushCovers, TapeKeeps, TapeOK',
         UNCHANGED packerVars, NEW r \in ReportSet, reports' = Append(reports, r),
         r.kind = "ok" => OnTape(r.file, "file")' /\ ~ OnTape(r.file, "file"),
         r.kind = "skip" => OnTape(r.file, "placeholder")',
         r.kind = "error" => LeftPartial(r.file)',
         r.kind = "flush" => safe' = Len(onTape')
  PROVE  PackerOK' /\ ReportsTrue' /\ ReportedOnce' /\ FlushCovers'
<1>0. UNCHANGED <<packer, errorHappened, successful, skipped, tapeFull, reported, failed, lostAnswer>>
  BY DEF packerVars
<1>1. PackerOK /\ Files \subseteq Nat /\ safe \in Nat /\ safe' \in Nat /\ safe <= safe'
  BY MigrationAssumption DEF TypeOK, TapeOK, Files, TapeKeeps
<1>2. PackerOK'
  BY <1>0, <1>1 DEF PackerOK
<1>n. PICK n \in Nat : n = Len(reports)
  BY <1>1 DEF PackerOK
<1>3. /\ n = Len(reports) /\ Len(reports') = n + 1 /\ reports'[n + 1] = r
      /\ \A i \in 1..n : reports'[i] = reports[i]
      /\ 1..n + 1 = (1..n) \union {n + 1} /\ n + 1 \notin 1..n
  BY <1>1, <1>n DEF PackerOK
<1>4. \A k : \A i \in 1..n : ReportIs(i, k)' <=> ReportIs(i, k)
  BY <1>3 DEF ReportIs
<1>5. \A k : ReportIs(n + 1, k)' <=> r.kind = k
  BY <1>3 DEF ReportIs
<1>6. /\ r.kind \in {"ok", "skip", "error"} => r.file \in Files
      /\ r.kind \in {"ok", "skip", "error", "flush", "full", "end"}
  BY DEF ReportSet
<1>7. ReportsTrue'
  <2>1. ASSUME NEW i \in 1..n + 1
        PROVE  /\ ReportIs(i, "ok")' => OnTape(reports[i].file, "file")'
               /\ ReportIs(i, "skip")' => OnTape(reports[i].file, "placeholder")'
               /\ ReportIs(i, "error")' => LeftPartial(reports[i].file)'
    <3>1. CASE i \in 1..n
      BY <1>1, <1>3, <1>4, <3>1, ReportFile DEF ReportsTrue, TapeKeeps
    <3>2. CASE i = n + 1
      BY <1>3, <1>5, <3>2
    <3> QED BY <1>3, <3>1, <3>2
  <2>2. /\ \A f \in successful \union reported : OnTape(f, "file")'
        /\ \A f \in skipped : OnTape(f, "placeholder")'
        /\ packer = "run" => \A f \in failed : OnTape(f, "placeholder")' \/ LeftPartial(f)'
    BY <1>1 DEF ReportsTrue, TapeKeeps, PackerOK
  <2> QED BY <1>0, <1>3, <2>1, <2>2 DEF ReportsTrue, OnTape, LeftPartial
<1>8. ReportedOnce'
  <2>1. ASSUME NEW i \in 1..n, ReportIs(i, "ok")
        PROVE  /\ OnTape(reports[i].file, "file")
               /\ reports[i].file \notin successful \union reported
               /\ \A j \in 1..n : ReportIs(j, "ok") /\ reports[j].file = reports[i].file => j = i
    BY <1>n, <2>1 DEF ReportsTrue, ReportedOnce
  <2>2. r.kind = "ok" => r.file \notin successful \union reported
    BY DEF ReportsTrue
  <2>3. ASSUME NEW i \in 1..n + 1, ReportIs(i, "ok")'
        PROVE  /\ reports'[i].file \notin successful \union reported
               /\ \A j \in 1..n + 1 :
                    ReportIs(j, "ok")' /\ reports'[j].file = reports'[i].file => j = i
    <3>1. CASE i \in 1..n
      <4>1. ReportIs(i, "ok") /\ reports'[i] = reports[i]
        BY <1>3, <1>4, <2>3, <3>1
      <4>2. ASSUME NEW j \in 1..n + 1, ReportIs(j, "ok")', reports'[j].file = reports'[i].file
            PROVE  j = i
        <5>1. CASE j \in 1..n
          BY <1>3, <1>4, <2>1, <3>1, <4>1, <4>2, <5>1
        <5>2. CASE j = n + 1
          BY <1>3, <1>5, <2>1, <3>1, <4>1, <4>2, <5>2
        <5> QED BY <1>3, <5>1, <5>2
      <4> QED BY <2>1, <3>1, <4>1, <4>2
    <3>2. CASE i = n + 1
      <4>1. r.kind = "ok" /\ reports'[i] = r
        BY <1>3, <1>5, <2>3, <3>2
      <4>2. ASSUME NEW j \in 1..n, ReportIs(j, "ok")' PROVE reports'[j].file # r.file
        BY <1>3, <1>4, <2>1, <4>1, <4>2
      <4> QED BY <1>3, <2>2, <3>2, <4>1, <4>2
    <3> QED BY <1>3, <3>1, <3>2
  <2> QED BY <1>0, <1>3, <2>3 DEF ReportedOnce
<1>9. FlushCovers'
  <2>1. \A f \in reported : f <= safe'
    BY <1>1 DEF FlushCovers, PackerOK
  <2>2. ASSUME NEW i \in 1..n + 1, ReportIs(i, "flush")'
        PROVE  /\ \A f \in successful : f <= safe'
               /\ \A j \in 1..i : ReportIs(j, "ok")' => reports'[j].file <= safe'
    <3>1. CASE i \in 1..n
      <4>1. \A f \in successful : f <= safe'
        <5>1. ReportIs(i, "flush")
          BY <1>4, <2>2, <3>1
        <5>2. \A f \in successful : f <= safe
          BY <1>n, <3>1, <5>1 DEF FlushCovers
        <5> QED BY <1>1, <5>2 DEF PackerOK
      <4>2. ASSUME NEW j \in 1..i, ReportIs(j, "ok")' PROVE reports'[j].file <= safe'
        <5>1. j \in 1..n /\ ReportIs(j, "ok") /\ reports'[j] = reports[j]
          BY <1>3, <1>4, <3>1, <4>2
        <5>2. reports[j].file <= safe
          BY <1>n, <1>4, <2>2, <3>1, <5>1 DEF FlushCovers
        <5>3. reports[j].file \in Nat
          BY <1>1, <1>n, <5>1, ReportFile
        <5> QED BY <1>1, <5>1, <5>2, <5>3
      <4> QED BY <4>1, <4>2
    <3>2. CASE i = n + 1
      <4>1. r.kind = "flush" /\ safe' = Len(onTape')
        BY <1>5, <2>2, <3>2
      <4>2. \A f \in successful : f <= safe'
        BY <4>1, <1>1 DEF ReportsTrue, TapeKeeps, PackerOK, OnTape
      <4>3. ASSUME NEW j \in 1..i, ReportIs(j, "ok")' PROVE reports'[j].file <= safe'
        <5>1. j # n + 1
          BY <1>5, <4>1, <4>3
        <5>2. j \in 1..n
          BY <1>3, <3>2, <5>1
        <5>3. OnTape(reports[j].file, "file")'
          BY <1>3, <1>7, <4>3, <5>2 DEF ReportsTrue
        <5> QED BY <4>1, <5>3 DEF OnTape
      <4> QED BY <4>2, <4>3
    <3> QED BY <1>3, <3>1, <3>2
  <2> QED BY <1>0, <1>3, <2>1, <2>2 DEF FlushCovers
<1> QED BY <1>2, <1>7, <1>8, <1>9

-----------------------------------------------------------------------------
(* The tape thread                                                         *)

\* Most steps of the tape thread leave the tasks in their queues.
LEMMA TapeQueueKept ==
  ASSUME TypeOK, TasksInOrder, TapeFrame, UNCHANGED tapeTasks,
         requests' = requests \/ requests' = Append(requests, "end"),
         after' = "end" \/ tape' = "done" => after = "end" \/ tape = "done"
  PROVE  QueuesOK' /\ TasksInOrder' /\ TapeTaken' = TapeTaken /\ MmTaken' = MmTaken
<1>1. UNCHANGED <<next, batch, wrapUp, inj, clients, diskTasks>>
  BY DEF TapeFrame, injVars
<1>2. requests' \in Seq({"more", "last", "end"})
  <2>1. requests \in Seq({"more", "last", "end"}) /\ "end" \in {"more", "last", "end"}
    BY DEF TypeOK, QueuesOK
  <2>2. CASE requests' = requests
    BY <2>1, <2>2
  <2>3. CASE requests' = Append(requests, "end")
    BY <2>1, <2>3
  <2> QED BY <2>2, <2>3
<1>3. Injected' = Injected /\ Marks' = Marks
  BY <1>1 DEF Injected, Marks
<1> QED BY <1>1, <1>2, <1>3 DEF TypeOK, QueuesOK, TasksInOrder, TapeTaken, MmTaken

\* The tape thread takes the task that follows the last one it took.
LEMMA TapeQueuePopped ==
  ASSUME TypeOK, TasksInOrder, TapeFrame, tapeTasks # <<>>, tapeTasks' = Tail(tapeTasks),
         UNCHANGED requests,
         after # "end" /\ tape # "done",
         after' = "end" \/ tape' = "done" => Head(tapeTasks) = End
  PROVE  /\ QueuesOK' /\ TasksInOrder' /\ MmTaken' = MmTaken
         /\ TapeTaken \in Nat /\ Head(tapeTasks) \in Files \union {End}
         /\ Head(tapeTasks) # End => Head(tapeTasks) = TapeTaken + 1 /\ TapeTaken' = Head(tapeTasks)
         /\ Head(tapeTasks) = End => TapeTaken' = TapeTaken
<1>1. UNCHANGED <<next, batch, wrapUp, inj, clients, diskTasks>>
  BY DEF TapeFrame, injVars
<1>2. Injected' = Injected /\ Marks' = Marks /\ Injected \in Nat /\ Marks \in {0, 1}
  BY <1>1, InjectorNumbers DEF Injected, Marks
<1>3. tapeTasks \in Seq(Files \union {End}) /\ InOrder(tapeTasks, Injected, Marks)
  BY DEF TypeOK, QueuesOK, TasksInOrder
<1>4. /\ tapeTasks' \in Seq(Files \union {End}) /\ Head(tapeTasks) \in Files \union {End}
      /\ InOrder(tapeTasks', Injected, Marks)
      /\ Head(tapeTasks) # End => /\ Head(tapeTasks) = Taken(tapeTasks, Injected, Marks) + 1
                                  /\ Taken(tapeTasks', Injected, Marks) = Head(tapeTasks)
      /\ Head(tapeTasks) = End => /\ Marks = 1 /\ tapeTasks' = <<>>
                                  /\ Taken(tapeTasks, Injected, Marks) = Injected
                                  /\ Taken(tapeTasks', Injected, Marks) = Injected
  BY <1>2, <1>3, PopHead
<1>5. TapeTaken = Taken(tapeTasks, Injected, Marks) /\ TapeTaken' = Taken(tapeTasks', Injected, Marks)
  BY <1>2 DEF TapeTaken
<1>6. TapeTaken \in Nat
  <2>1. InLine(tapeTasks, Marks) \in Int /\ InLine(tapeTasks, Marks) <= Injected
    BY <1>2, <1>3 DEF InOrder, InLine
  <2> QED BY <1>2, <1>5, <2>1 DEF Taken
<1>7. QueuesOK' /\ TasksInOrder' /\ MmTaken' = MmTaken
  BY <1>1, <1>2, <1>4 DEF TypeOK, QueuesOK, TasksInOrder, MmTaken
<1> QED BY <1>4, <1>5, <1>6, <1>7

\* A step of the tape thread that takes no block from a pipeline: what it leaves behind is
\* a task whose blocks are all back, or one that was destroyed.
LEMMA TapeBlocksKept ==
  ASSUME TypeOK, BlocksAccounted, TapeFrame, UNCHANGED <<pool, data, popped>>,
         MmTaken' = MmTaken,
         \A f \in Files : f <= TapeTaken' =>
           popped[f] = need[f] \/ f \in abandoned' \/ (TapeActive' /\ f = tapeFile')
  PROVE  PipesOK' /\ BlocksAccounted'
<1>1. UNCHANGED <<need, provided, ready, mm, mmFile, disk, diskFile, diskBlock, doubled>>
  BY DEF TapeFrame, mmVars, diskVars
<1>2. PipesOK' /\ Out' = Out
  BY <1>1 DEF TypeOK, PipesOK, Out, Pushed
<1>3. PoolCounted => PoolCounted'
  BY <1>1, <1>2 DEF PoolCounted, Pushed
<1> QED BY <1>1, <1>2, <1>3 DEF BlocksAccounted

\* A step that takes a block of the file in hand.
LEMMA TapeBlockTaken ==
  ASSUME TypeOK, BlocksAccounted, TapeFrame, tapeFile \in Files, data[tapeFile] # <<>>,
         data' = [data EXCEPT ![tapeFile] = Tail(@)],
         popped' = [popped EXCEPT ![tapeFile] = @ + 1], pool' = pool + 1,
         TapeActive, TapeActive', UNCHANGED <<tapeFile, abandoned>>,
         MmTaken' = MmTaken, TapeTaken' = TapeTaken
  PROVE  PipesOK' /\ BlocksAccounted'
<1>1. UNCHANGED <<need, provided, ready, mm, mmFile, disk, diskFile, diskBlock, doubled>>
  BY DEF TapeFrame, mmVars, diskVars
<1>2. PipesOK /\ UNCHANGED mmVars
  BY DEF TypeOK, TapeFrame
<1>3. PipesOK' /\ \A g \in Files : g # tapeFile => popped'[g] = popped[g]
  BY <1>1, <1>2, BlockReturnedType
<1>4. PoolCounted => PoolCounted'
  BY <1>1, <1>2, BlockReturned
<1> QED BY <1>1, <1>3, <1>4 DEF BlocksAccounted

\* The blocks that stay in a pipeline without faults are good ones.
LEMMA GoodBlocksStay ==
  ASSUME TypeOK, CleanPipes, NEW f \in Files, data[f] # <<>>,
         data' = [data EXCEPT ![f] = Tail(@)]
  PROVE  /\ Head(data[f]) = "ok"
         /\ \A g \in Files : \A i \in 1..Len(data'[g]) : data'[g][i] = "ok"
<1>1. data[f] \in Seq({"ok", "failed", "cancelled"}) /\ \A i \in 1..Len(data[f]) : data[f][i] = "ok"
  BY DEF TypeOK, PipesOK, CleanPipes
<1>2. Head(data[f]) = "ok" /\ \A i \in 1..Len(Tail(data[f])) : Tail(data[f])[i] = "ok"
  BY <1>1
<1>3. data'[f] = Tail(data[f]) /\ \A g \in Files : g # f => data'[g] = data[g]
  BY DEF TypeOK, PipesOK
<1> QED BY <1>2, <1>3 DEF CleanPipes

\* The error flag is only ever set.
LEMMA TapeDisks ==
  ASSUME TypeOK, TapeFrame, FaultsGrow, errorFlag' = errorFlag \/ errorFlag' = TRUE
  PROVE  DisksOK'
<1>1. errorFlag' \in BOOLEAN
  <2>1. CASE errorFlag' = errorFlag
    BY <2>1 DEF TypeOK, DisksOK
  <2>2. CASE errorFlag' = TRUE
    BY <2>2
  <2> QED BY <2>1, <2>2
<1> QED BY <1>1 DEF TypeOK, DisksOK, TapeFrame, diskVars, FaultsGrow

\* The tape is not touched.
LEMMA TapeSame ==
  ASSUME TypeOK, UNCHANGED <<onTape, safe>>, tape' = "data" => tape = "data"
  PROVE  TapeKeeps
  BY DEF TapeKeeps, OnTape, LeftPartial, TypeOK, TapeOK

\* A report that waits goes on waiting when others join it.
LEMMA OkStays ==
  ASSUME TypeOK, NEW r \in ReportSet, reports' = Append(reports, r)
  PROVE  /\ \A f : OkWaits(f) => OkWaits(f)'
         /\ r.kind = "ok" => OkWaits(r.file)'
<1>1. PICK n \in Nat : n = Len(reports)
  BY DEF TypeOK, PackerOK
<1>2. /\ Len(reports') = n + 1 /\ reports'[n + 1] = r
      /\ \A i \in 1..n : reports'[i] = reports[i]
  BY <1>1 DEF TypeOK, PackerOK
<1> QED BY <1>1, <1>2 DEF OkWaits, ReportIs

\* mountTape() succeeds or the session is over.
LEMMA MountTapeStep == SessionInv /\ MountTape => SessionInv'
<1> SUFFICES ASSUME SessionInv, MountTape PROVE SessionInv'
  OBVIOUS
<1>0. TypeOK /\ TasksInOrder /\ BlocksAccounted /\ TapePosition /\ ReportsTrue /\ ReportedOnce
      /\ FlushCovers /\ (faults = 0 => CleanPipes /\ CleanSession /\ CleanEnd)
  BY DEF SessionInv
<1>1. /\ tape = "mount" /\ TapeFrame
      /\ \/ tape' = "next" /\ UNCHANGED <<after, tapeFile, faults>>
         \/ Fault /\ tape' = "clean" /\ after' = "error" /\ tapeFile' = End
      /\ UNCHANGED <<errorFlag, requests, tapeTasks, reports, pool, data, popped, lastFSeq, files,
                     onTape, safe, abandoned>>
  BY DEF MountTape, Unwind
<1>2. FaultsGrow /\ (faults' = 0 => tape' = "next" /\ UNCHANGED <<after, faults>>)
  BY <1>0, <1>1, FaultGrows DEF Fault, TypeOK, DisksOK
<1>3. QueuesOK' /\ TasksInOrder' /\ TapeTaken' = TapeTaken /\ MmTaken' = MmTaken
  BY <1>0, <1>1, TapeQueueKept
<1>4. PipesOK' /\ BlocksAccounted'
  BY <1>0, <1>1, <1>3, TapeBlocksKept DEF BlocksAccounted, TapeActive
<1>5. DisksOK' /\ TapeOK'
  BY <1>0, <1>1, <1>2, TapeDisks DEF TypeOK, TapeOK
<1>6. TapePosition'
  BY <1>0, <1>1, <1>3 DEF TapePosition, AfterMatches, TapeActive, Writing, TypeOK, TapeOK
<1>7. UNCHANGED packerVars
  BY <1>1 DEF TapeFrame
<1>8. PackerOK' /\ ReportsTrue' /\ ReportedOnce' /\ FlushCovers'
  BY <1>0, <1>1, <1>5, <1>7, NoReport, TapeSame
<1>9. ASSUME faults' = 0 PROVE CleanPipes' /\ CleanSession' /\ CleanEnd'
  <2>1. faults = 0 /\ tape' = "next" /\ UNCHANGED <<after, disk, doubled>>
    BY <1>1, <1>2, <1>9 DEF TapeFrame, diskVars
  <2>2. UNCHANGED <<packer, errorHappened, successful, reported>>
    BY <1>7 DEF packerVars
  <2> QED BY <1>0, <1>1, <1>3, <2>1, <2>2
          DEF CleanPipes, CleanSession, CleanEnd, OkWaits, ReportIs
<1> QED BY <1>3, <1>4, <1>5, <1>6, <1>8, <1>9 DEF SessionInv, TypeOK

\* The next task is the end mark, or the file that follows the last one taken: it goes to
\* the next place on tape unless an earlier one was left incomplete.
LEMMA PopTaskStep == SessionInv /\ PopTask => SessionInv'
<1> SUFFICES ASSUME SessionInv, PopTask PROVE SessionInv'
  OBVIOUS
<1> USE MigrationAssumption
<1>0. TypeOK /\ TasksInOrder /\ BlocksAccounted /\ TapePosition /\ ReportsTrue /\ ReportedOnce
      /\ FlushCovers /\ (faults = 0 => CleanPipes /\ CleanSession /\ CleanEnd)
  BY DEF SessionInv
<1>h. PICK f : f = Head(tapeTasks)
  OBVIOUS
<1>1. /\ tape = "next" /\ TapeFrame /\ tapeTasks # <<>> /\ tapeTasks' = Tail(tapeTasks)
      /\ UNCHANGED <<errorFlag, requests, reports, pool, data, popped, lastFSeq, files, safe,
                     faults>>
      /\ \/ /\ f = End /\ tape' = "flush" /\ after' = "end"
            /\ UNCHANGED <<tapeFile, onTape, abandoned>>
         \/ /\ f # End /\ f # lastFSeq + 1 /\ tape' = "clean" /\ after' = "error"
            /\ tapeFile' = End /\ abandoned' = abandoned \union {f} /\ UNCHANGED onTape
         \/ /\ f # End /\ f = lastFSeq + 1 /\ tape' = "data" /\ tapeFile' = f
            /\ onTape' = Append(onTape, <<f, "partial">>) /\ UNCHANGED <<after, abandoned>>
  BY <1>h DEF PopTask, EndOfTasks, Unwind, ValidateNextFSeq
<1>2. /\ after = "none" /\ ~ TapeActive /\ Writing /\ Len(onTape) = TapeTaken
      /\ files < FilesBeforeFlush
  BY <1>0, <1>1 DEF TapePosition, AfterMatches, TapeActive, Writing
<1>3. /\ QueuesOK' /\ TasksInOrder' /\ MmTaken' = MmTaken /\ TapeTaken \in Nat
      /\ f \in Files \union {End}
      /\ f # End => f = TapeTaken + 1 /\ TapeTaken' = f
      /\ f = End => TapeTaken' = TapeTaken
  <2>1. after' = "end" \/ tape' = "done" => Head(tapeTasks) = End
    BY <1>h, <1>1, <1>2
  <2>2. after # "end" /\ tape # "done"
    BY <1>1, <1>2
  <2> QED BY <1>h, <1>0, <1>1, <2>1, <2>2, TapeQueuePopped
<1>4. PipesOK' /\ BlocksAccounted'
  <2> SUFFICES \A g \in Files : g <= TapeTaken' =>
                 popped[g] = need[g] \/ g \in abandoned' \/ (TapeActive' /\ g = tapeFile')
    BY <1>0, <1>1, <1>3, TapeBlocksKept
  <2>1. \A g \in Files : g <= TapeTaken => popped[g] = need[g] \/ g \in abandoned
    BY <1>0, <1>2 DEF BlocksAccounted
  <2>2. \A g \in Files : g <= TapeTaken' => g <= TapeTaken \/ (f # End /\ g = f)
    BY <1>3 DEF Files
  <2> QED BY <1>1, <2>1, <2>2 DEF TapeActive
<1>5. DisksOK'
  BY <1>0, <1>1, TapeDisks, FaultGrows
<1>6. /\ tape' = "data" => /\ Len(onTape') = Len(onTape) + 1
                           /\ onTape' \in Seq(Files \X {"partial", "file", "placeholder"})
                           /\ onTape'[f] = <<f, "partial">> /\ f = Len(onTape')
                           /\ \A i \in 1..Len(onTape) : onTape'[i] = onTape[i]
      /\ tape' # "data" => UNCHANGED onTape
  <2>1. CASE f = lastFSeq + 1 /\ f # End /\ tape' = "data"
    <3>1. onTape' = Append(onTape, <<f, "partial">>) /\ <<f, "partial">> \in Files \X {"partial", "file", "placeholder"}
      BY <1>1, <1>3, <2>1
    <3>2. onTape \in Seq(Files \X {"partial", "file", "placeholder"})
      BY <1>0 DEF TypeOK, TapeOK
    <3>3. f = Len(onTape) + 1
      BY <1>2, <1>3, <2>1
    <3> QED BY <2>1, <3>1, <3>2, <3>3
  <2>2. CASE tape' # "data"
    BY <1>1, <2>2
  <2> QED BY <1>1, <2>1, <2>2
<1>7. TapeOK'
  <2>1. /\ onTape' \in Seq(Files \X {"partial", "file", "placeholder"})
        /\ safe' \in 0..Len(onTape')
    BY <1>0, <1>1, <1>6 DEF TypeOK, TapeOK
  <2> QED BY <1>0, <1>1, <1>3, <2>1 DEF TypeOK, TapeOK
<1>8. TapePosition'
  <2>1. CASE tape' = "data"
    <3>1. /\ f \in Files /\ tapeFile' = f /\ f = TapeTaken' /\ lastFSeq' + 1 = f /\ after' = "none"
          /\ files' < FilesBeforeFlush
      BY <1>1, <1>2, <1>3, <2>1
    <3>2. Len(onTape') = f /\ onTape'[f] = <<f, "partial">>
      BY <1>6, <2>1
    <3>3. OnTape(tapeFile, "partial")'
      BY <3>1, <3>2 DEF OnTape, Files
    <3> QED BY <2>1, <3>1, <3>2, <3>3 DEF TapePosition, AfterMatches
  <2>2. CASE tape' = "flush"
    BY <1>1, <1>2, <1>3, <2>2 DEF TapePosition, AfterMatches, TapeActive, Writing
  <2>3. CASE tape' = "clean"
    BY <1>1, <1>2, <1>3, <2>3 DEF TapePosition, AfterMatches, TapeActive, Writing
  <2> QED BY <1>1, <2>1, <2>2, <2>3
<1>9. UNCHANGED packerVars
  BY <1>1 DEF TapeFrame
<1>10. TapeKeeps
  <2>1. CASE tape' = "data"
    <3>1. Len(onTape) \in Nat /\ safe \in Nat /\ safe' = safe /\ f = Len(onTape) + 1
      BY <1>0, <1>1, <1>6, <2>1 DEF TypeOK, TapeOK
    <3> QED BY <1>1, <1>6, <2>1, <3>1 DEF TapeKeeps, OnTape, LeftPartial, Files
  <2>2. CASE tape' # "data"
    BY <1>0, <1>1, <1>6, <2>2, TapeSame
  <2> QED BY <2>1, <2>2
<1>11. PackerOK' /\ ReportsTrue' /\ ReportedOnce' /\ FlushCovers'
  BY <1>0, <1>1, <1>7, <1>9, <1>10, NoReport
<1>12. ASSUME faults' = 0 PROVE CleanPipes' /\ CleanSession' /\ CleanEnd'
  <2>1. CleanPipes /\ CleanSession /\ CleanEnd /\ lastFSeq = Len(onTape)
    BY <1>0, <1>1, <1>12 DEF CleanSession
  <2>2. tape' \in {"flush", "data"} /\ after' \in {"none", "end"} /\ UNCHANGED abandoned
    BY <1>1, <1>2, <1>3, <2>1
  <2>3. UNCHANGED <<packer, errorHappened, successful, reported, disk, doubled>>
    BY <1>1, <1>9 DEF packerVars, TapeFrame, diskVars
  <2>4. Len(onTape') = TapeTaken'
    <3>1. CASE tape' = "data"
      BY <1>1, <1>3, <1>6, <3>1
    <3>2. CASE tape' = "flush"
      <4>1. f = End
        BY <1>1, <3>2
      <4> QED BY <1>2, <1>3, <1>6, <3>2, <4>1
    <3> QED BY <2>2, <3>1, <3>2
  <2>5. lastFSeq' = IF tape' = "data" THEN Len(onTape') - 1 ELSE Len(onTape')
    BY <1>1, <1>2, <1>3, <1>6, <2>1, <2>2
  <2>6. CleanPipes'
    BY <1>1, <2>1, <2>3 DEF CleanPipes
  <2>7. CleanSession'
    BY <1>1, <2>1, <2>2, <2>3, <2>4, <2>5 DEF CleanSession, OkWaits, ReportIs
  <2>8. CleanEnd'
    BY <1>1, <2>1, <2>2, <2>3 DEF CleanEnd, ReportIs
  <2> QED BY <2>6, <2>7, <2>8
<1> QED BY <1>3, <1>4, <1>5, <1>7, <1>8, <1>11, <1>12 DEF SessionInv, TypeOK

\* A block is taken from the pipeline: it goes to tape, or it tells that the disk reader
\* failed, or that there is no more.
LEMMA WriteBlockStep == SessionInv /\ WriteBlock => SessionInv'
<1> SUFFICES ASSUME SessionInv, WriteBlock PROVE SessionInv'
  OBVIOUS
<1>0. TypeOK /\ TasksInOrder /\ BlocksAccounted /\ TapePosition /\ ReportsTrue /\ ReportedOnce
      /\ FlushCovers /\ (faults = 0 => CleanPipes /\ CleanSession /\ CleanEnd)
  BY DEF SessionInv
<1>1. /\ tape = "data" /\ TapeFrame /\ data[tapeFile] # <<>>
      /\ data' = [data EXCEPT ![tapeFile] = Tail(@)]
      /\ popped' = [popped EXCEPT ![tapeFile] = @ + 1] /\ pool' = pool + 1
      /\ UNCHANGED <<requests, tapeTasks, reports, tapeFile, lastFSeq, files, safe, abandoned,
                     faults>>
      /\ \/ Head(data[tapeFile]) = "ok" /\ UNCHANGED <<tape, after, errorFlag, onTape>>
         \/ /\ Head(data[tapeFile]) # "ok" /\ CloseAs("placeholder")
            /\ tape' = "circulate" /\ after' = "skip" /\ UNCHANGED errorFlag
         \/ /\ Head(data[tapeFile]) # "ok" /\ errorFlag' = TRUE /\ tape' = "circulate"
            /\ after' \in {"recover", "error"} /\ UNCHANGED onTape
  BY DEF WriteBlock, Fail
<1>2. /\ after = "none" /\ TapeActive /\ tapeFile \in Files /\ tapeFile = TapeTaken
      /\ Len(onTape) = tapeFile /\ lastFSeq + 1 = tapeFile /\ OnTape(tapeFile, "partial")
      /\ files < FilesBeforeFlush
  BY <1>0, <1>1 DEF TapePosition, AfterMatches, TapeActive, Writing
<1>3. QueuesOK' /\ TasksInOrder' /\ TapeTaken' = TapeTaken /\ MmTaken' = MmTaken
  BY <1>0, <1>1, <1>2, TapeQueueKept
<1>4. PipesOK' /\ BlocksAccounted' /\ TapeActive'
  <2>1. TapeActive'
    BY <1>1 DEF TapeActive
  <2> QED BY <1>0, <1>1, <1>2, <1>3, <2>1, TapeBlockTaken
<1>5. DisksOK'
  <2>1. errorFlag' = errorFlag \/ errorFlag' = TRUE
    BY <1>1
  <2> QED BY <1>0, <1>1, <2>1, TapeDisks, FaultGrows
<1>6. /\ onTape' = onTape \/ (CloseAs("placeholder") /\ tape' = "circulate" /\ after' = "skip")
      /\ CloseAs("placeholder") =>
           /\ onTape' \in Seq(Files \X {"partial", "file", "placeholder"})
           /\ Len(onTape') = Len(onTape) /\ onTape'[tapeFile] = <<tapeFile, "placeholder">>
           /\ \A i \in 1..Len(onTape) : i # tapeFile => onTape'[i] = onTape[i]
  <2>1. onTape \in Seq(Files \X {"partial", "file", "placeholder"}) /\ tapeFile \in 1..Len(onTape)
    BY <1>0, <1>2, MigrationAssumption DEF TypeOK, TapeOK, Files
  <2>2. <<tapeFile, "placeholder">> \in Files \X {"partial", "file", "placeholder"}
    BY <1>2
  <2>3. ASSUME CloseAs("placeholder")
        PROVE  /\ onTape' \in Seq(Files \X {"partial", "file", "placeholder"})
               /\ Len(onTape') = Len(onTape) /\ onTape'[tapeFile] = <<tapeFile, "placeholder">>
               /\ \A i \in 1..Len(onTape) : i # tapeFile => onTape'[i] = onTape[i]
    <3>1. onTape' = [onTape EXCEPT ![tapeFile] = <<tapeFile, "placeholder">>]
      BY <1>2, <2>3 DEF CloseAs
    <3> QED BY <2>1, <2>2, <3>1
  <2>4. onTape' = onTape \/ (CloseAs("placeholder") /\ tape' = "circulate" /\ after' = "skip")
    BY <1>1
  <2> QED BY <2>3, <2>4
<1>7. Len(onTape') = Len(onTape) /\ TapeOK'
  BY <1>0, <1>1, <1>6 DEF TypeOK, TapeOK
<1>8. TapePosition'
  <2>1. CASE tape' = tape /\ after' = after /\ onTape' = onTape
    BY <1>0, <1>1, <1>2, <1>3, <2>1 DEF TapePosition, AfterMatches, TapeActive, Writing, OnTape
  <2>2. CASE tape' = "circulate" /\ after' = "skip" /\ CloseAs("placeholder")
    BY <1>1, <1>2, <1>3, <1>6, <2>2, MigrationAssumption
       DEF TapePosition, AfterMatches, TapeActive, Writing, OnTape, Files
  <2>3. CASE tape' = "circulate" /\ after' \in {"recover", "error"} /\ onTape' = onTape
    BY <1>1, <1>2, <1>3, <2>3 DEF TapePosition, AfterMatches, TapeActive, Writing, OnTape
  <2> QED BY <1>1, <2>1, <2>2, <2>3
<1>9. UNCHANGED packerVars
  BY <1>1 DEF TapeFrame
<1>10. TapeKeeps
  <2>1. CASE onTape' = onTape
    BY <1>0, <1>1, <2>1, TapeSame
  <2>2. CASE CloseAs("placeholder") /\ tape' = "circulate"
    BY <1>0, <1>1, <1>2, <1>6, <2>2, MigrationAssumption
       DEF TapeKeeps, OnTape, LeftPartial, TypeOK, TapeOK, Files
  <2> QED BY <1>6, <2>1, <2>2
<1>11. PackerOK' /\ ReportsTrue' /\ ReportedOnce' /\ FlushCovers'
  BY <1>0, <1>1, <1>7, <1>9, <1>10, NoReport
<1>12. ASSUME faults' = 0 PROVE CleanPipes' /\ CleanSession' /\ CleanEnd'
  <2>1. CleanPipes /\ CleanSession /\ CleanEnd
    BY <1>0, <1>1, <1>12
  <2>2. /\ Head(data[tapeFile]) = "ok"
        /\ \A g \in Files : \A i \in 1..Len(data'[g]) : data'[g][i] = "ok"
    BY <1>0, <1>1, <1>2, <2>1, GoodBlocksStay
  <2>3. UNCHANGED <<tape, after, errorFlag, onTape>>
    BY <1>1, <2>2
  <2>4. UNCHANGED <<packer, errorHappened, successful, reported, disk, doubled>>
    BY <1>1, <1>9 DEF packerVars, TapeFrame, diskVars
  <2>5. CleanPipes'
    BY <2>1, <2>2, <2>3, <2>4 DEF CleanPipes
  <2>6. CleanSession' /\ CleanEnd'
    BY <1>1, <1>3, <2>1, <2>3, <2>4 DEF CleanSession, CleanEnd, OkWaits, ReportIs
  <2> QED BY <2>5, <2>6
<1> QED BY <1>3, <1>4, <1>5, <1>7, <1>8, <1>11, <1>12 DEF SessionInv, TypeOK

\* The drive refuses to write: the file stays incomplete.
LEMMA WriteErrorStep == SessionInv /\ WriteError => SessionInv'
<1> SUFFICES ASSUME SessionInv, WriteError PROVE SessionInv'
  OBVIOUS
<1>0. TypeOK /\ TasksInOrder /\ BlocksAccounted /\ TapePosition /\ ReportsTrue /\ ReportedOnce
      /\ FlushCovers
  BY DEF SessionInv
<1>1. /\ tape = "data" /\ TapeFrame /\ Fault /\ errorFlag' = TRUE /\ tape' = "circulate"
      /\ after' \in {"error", "full"}
      /\ reports' = reports \/ reports' = Append(reports, [kind |-> "full"])
      /\ \/ UNCHANGED <<pool, data, popped>>
         \/ /\ data[tapeFile] # <<>> /\ data' = [data EXCEPT ![tapeFile] = Tail(@)]
            /\ popped' = [popped EXCEPT ![tapeFile] = @ + 1] /\ pool' = pool + 1
      /\ UNCHANGED <<requests, tapeTasks, tapeFile, lastFSeq, files, onTape, safe, abandoned>>
  BY DEF WriteError, Fail, Report
<1>2. /\ after = "none" /\ TapeActive /\ tapeFile \in Files /\ tapeFile = TapeTaken
      /\ Len(onTape) = tapeFile /\ OnTape(tapeFile, "partial") /\ TapeActive'
  BY <1>0, <1>1 DEF TapePosition, AfterMatches, TapeActive, Writing
<1>3. QueuesOK' /\ TasksInOrder' /\ TapeTaken' = TapeTaken /\ MmTaken' = MmTaken
  BY <1>0, <1>1, <1>2, TapeQueueKept
<1>4. PipesOK' /\ BlocksAccounted'
  <2>1. CASE UNCHANGED <<pool, data, popped>>
    BY <1>0, <1>1, <1>2, <1>3, <2>1, TapeBlocksKept DEF BlocksAccounted
  <2>2. CASE /\ data[tapeFile] # <<>> /\ data' = [data EXCEPT ![tapeFile] = Tail(@)]
             /\ popped' = [popped EXCEPT ![tapeFile] = @ + 1] /\ pool' = pool + 1
    BY <1>0, <1>1, <1>2, <1>3, <2>2, TapeBlockTaken
  <2> QED BY <1>1, <2>1, <2>2
<1>5. FaultsGrow /\ faults' # 0
  BY <1>0, <1>1, FaultGrows DEF Fault, TypeOK, DisksOK
<1>6. DisksOK' /\ TapeOK'
  BY <1>0, <1>1, <1>5, TapeDisks DEF TypeOK, TapeOK
<1>7. TapePosition'
  BY <1>1, <1>2, <1>3 DEF TapePosition, AfterMatches, TapeActive, Writing, OnTape
<1>8. UNCHANGED packerVars /\ TapeKeeps
  BY <1>0, <1>1, TapeSame DEF TapeFrame
<1>9. PackerOK' /\ ReportsTrue' /\ ReportedOnce' /\ FlushCovers'
  <2>1. CASE reports' = reports
    BY <1>0, <1>6, <1>8, <2>1, NoReport
  <2>2. CASE reports' = Append(reports, [kind |-> "full"])
    <3>1. [kind |-> "full"] \in ReportSet
      BY DEF ReportSet
    <3> QED BY <1>0, <1>6, <1>8, <2>2, <3>1, OneReport
  <2> QED BY <1>1, <2>1, <2>2
<1> QED BY <1>3, <1>4, <1>5, <1>6, <1>7, <1>9 DEF SessionInv, TypeOK

\* The trailer is written: the file is complete, and reported for the first time.
LEMMA CloseFileStep == SessionInv /\ CloseFile => SessionInv'
<1> SUFFICES ASSUME SessionInv, CloseFile PROVE SessionInv'
  OBVIOUS
<1> USE MigrationAssumption
<1>0. TypeOK /\ TasksInOrder /\ BlocksAccounted /\ TapePosition /\ ReportsTrue /\ ReportedOnce
      /\ FlushCovers /\ (faults = 0 => CleanPipes /\ CleanSession /\ CleanEnd)
  BY DEF SessionInv
<1>f. PICK f : f = tapeFile
  OBVIOUS
<1> DEFINE r == [kind |-> "ok", file |-> f]
<1>1. /\ tape = "data" /\ TapeFrame /\ popped[f] = need[f]
      /\ onTape' = [onTape EXCEPT ![Len(onTape)] = <<f, "file">>]
      /\ lastFSeq' = f /\ reports' = Append(reports, r)
      /\ files' = files + 1 /\ after' = "none" /\ tapeFile' = End /\ tape' \in {"flush", "next"}
      /\ tape' = "next" => files + 1 < FilesBeforeFlush
      /\ UNCHANGED <<errorFlag, requests, tapeTasks, pool, data, popped, safe, abandoned, faults>>
  <2>1. files \in Nat
    BY <1>0 DEF TypeOK, TapeOK
  <2> QED BY <1>f, <2>1 DEF CloseFile, CloseAs, Report, EndOfTask
<1>2. /\ after = "none" /\ TapeActive /\ f \in Files /\ f = TapeTaken
      /\ Len(onTape) = f /\ lastFSeq + 1 = f /\ OnTape(f, "partial")
      /\ files < FilesBeforeFlush
  BY <1>f, <1>0, <1>1 DEF TapePosition, AfterMatches, TapeActive, Writing
<1>3. QueuesOK' /\ TasksInOrder' /\ TapeTaken' = TapeTaken /\ MmTaken' = MmTaken
  BY <1>0, <1>1, <1>2, TapeQueueKept
<1>4. PipesOK' /\ BlocksAccounted'
  BY <1>f, <1>0, <1>1, <1>2, <1>3, TapeBlocksKept DEF BlocksAccounted, TapeActive
<1>5. DisksOK'
  BY <1>0, <1>1, TapeDisks, FaultGrows
<1>6. /\ onTape' \in Seq(Files \X {"partial", "file", "placeholder"})
      /\ Len(onTape') = Len(onTape) /\ onTape'[f] = <<f, "file">>
      /\ \A i \in 1..Len(onTape) : i # f => onTape'[i] = onTape[i]
  <2>1. onTape \in Seq(Files \X {"partial", "file", "placeholder"}) /\ f \in 1..Len(onTape)
    BY <1>0, <1>2 DEF TypeOK, TapeOK, Files
  <2>2. <<f, "file">> \in Files \X {"partial", "file", "placeholder"}
    BY <1>2
  <2> QED BY <1>1, <1>2, <2>1, <2>2
<1>7. TapeOK'
  BY <1>0, <1>1, <1>2, <1>6 DEF TypeOK, TapeOK, Files
<1>8. TapePosition'
  BY <1>0, <1>1, <1>2, <1>3, <1>6 DEF TapePosition, AfterMatches, TapeActive, Writing, TypeOK, TapeOK
<1>9. UNCHANGED packerVars
  BY <1>1 DEF TapeFrame
<1>10. TapeKeeps
  BY <1>0, <1>1, <1>2, <1>6 DEF TapeKeeps, OnTape, LeftPartial, TypeOK, TapeOK, Files
<1>11. OnTape(f, "file")' /\ ~ OnTape(f, "file")
  BY <1>2, <1>6 DEF OnTape, Files
<1>12. r \in ReportSet /\ r.kind = "ok" /\ r.file = f
  BY <1>2 DEF ReportSet
<1>13. PackerOK' /\ ReportsTrue' /\ ReportedOnce' /\ FlushCovers'
  BY <1>0, <1>1, <1>7, <1>9, <1>10, <1>11, <1>12, OneReport
<1>14. ASSUME faults' = 0 PROVE CleanPipes' /\ CleanSession' /\ CleanEnd'
  <2>1. CleanPipes /\ CleanSession /\ CleanEnd
    BY <1>0, <1>1, <1>14
  <2>2. UNCHANGED <<packer, errorHappened, successful, reported, disk, doubled>>
    BY <1>1, <1>9 DEF packerVars, TapeFrame, diskVars
  <2>3. CleanPipes'
    BY <1>1, <2>1, <2>2 DEF CleanPipes
  <2>n. PICK n \in Nat : n = Len(reports)
    BY <1>0 DEF TypeOK, PackerOK
  <2>4. /\ Len(reports') = n + 1 /\ reports'[n + 1] = r
        /\ \A i \in 1..n : reports'[i] = reports[i]
        /\ \A i \in 1..n + 1 : i \in 1..n \/ i = n + 1
    BY <1>0, <1>1, <1>12, <2>n DEF TypeOK, PackerOK
  <2>5. \A i \in 1..n + 1 : reports'[i].kind \in {"ok", "flush", "end"}
    BY <1>12, <2>1, <2>n, <2>4 DEF CleanSession
  <2>6. \A g \in 1..lastFSeq' : g \in reported' \union successful' \/ OkWaits(g)'
    <3>1. \A g \in 1..lastFSeq' : g \in 1..lastFSeq \/ g = f
      BY <1>0, <1>1, <1>2 DEF TypeOK, TapeOK
    <3>2. OkWaits(f)' /\ \A g : OkWaits(g) => OkWaits(g)'
      BY <1>0, <1>1, <1>12, OkStays
    <3> QED BY <2>1, <2>2, <3>1, <3>2 DEF CleanSession
  <2>7. CleanSession'
    BY <1>1, <1>2, <1>3, <1>6, <2>1, <2>2, <2>4, <2>5, <2>6 DEF CleanSession
  <2>8. \A i \in 1..n + 1 : ~ ReportIs(i, "end")'
    <3>1. \A i \in 1..n : reports[i].kind # "end"
      BY <1>1, <2>1, <2>n DEF CleanEnd, ReportIs
    <3> QED BY <1>12, <2>4, <3>1 DEF ReportIs
  <2>9. packer = "run"
    BY <1>1, <2>1 DEF CleanEnd
  <2>10. CleanEnd'
    BY <1>1, <2>2, <2>4, <2>8, <2>9 DEF CleanEnd
  <2> QED BY <2>3, <2>7, <2>10
<1> QED BY <1>3, <1>4, <1>5, <1>7, <1>8, <1>13, <1>14 DEF SessionInv, TypeOK

\* The reports of the tape thread are reports.
LEMMA ReportValues ==
  /\ \A f \in Files : [kind |-> "skip", file |-> f] \in ReportSet
                     /\ [kind |-> "error", file |-> f] \in ReportSet
  /\ [kind |-> "flush"] \in ReportSet /\ [kind |-> "end"] \in ReportSet
  /\ [kind |-> "full"] \in ReportSet
  BY DEF ReportSet

\* circulateMemBlocks(): the blocks of a file that is given up go back to the pool.
LEMMA CirculateMemBlocksStep == SessionInv /\ CirculateMemBlocks => SessionInv'
<1> SUFFICES ASSUME SessionInv, CirculateMemBlocks PROVE SessionInv'
  OBVIOUS
<1>0. TypeOK /\ TasksInOrder /\ BlocksAccounted /\ TapePosition /\ ReportsTrue /\ ReportedOnce
      /\ FlushCovers /\ (faults = 0 => CleanSession)
  BY DEF SessionInv
<1>1. /\ tape = "circulate" /\ TapeFrame /\ data[tapeFile] # <<>>
      /\ data' = [data EXCEPT ![tapeFile] = Tail(@)]
      /\ popped' = [popped EXCEPT ![tapeFile] = @ + 1] /\ pool' = pool + 1
      /\ UNCHANGED <<errorFlag, requests, tapeTasks, reports, tape, tapeFile, after, lastFSeq,
                     files, onTape, safe, abandoned, faults>>
  BY DEF CirculateMemBlocks, ReleaseBlock
<1>2. TapeActive /\ TapeActive' /\ tapeFile \in Files
  BY <1>0, <1>1 DEF TapePosition, TapeActive
<1>3. QueuesOK' /\ TasksInOrder' /\ TapeTaken' = TapeTaken /\ MmTaken' = MmTaken
  BY <1>0, <1>1, TapeQueueKept
<1>4. PipesOK' /\ BlocksAccounted'
  BY <1>0, <1>1, <1>2, <1>3, TapeBlockTaken
<1>5. DisksOK' /\ TapeOK'
  BY <1>0, <1>1, TapeDisks, FaultGrows DEF TypeOK, TapeOK
<1>6. TapePosition'
  BY <1>0, <1>1, <1>3 DEF TapePosition, AfterMatches, TapeActive, Writing, OnTape
<1>7. UNCHANGED packerVars /\ TapeKeeps
  BY <1>0, <1>1, TapeSame DEF TapeFrame
<1>8. PackerOK' /\ ReportsTrue' /\ ReportedOnce' /\ FlushCovers'
  BY <1>0, <1>1, <1>5, <1>7, NoReport
<1>9. faults' # 0
  BY <1>0, <1>1 DEF CleanSession
<1> QED BY <1>3, <1>4, <1>5, <1>6, <1>8, <1>9 DEF SessionInv, TypeOK

\* The end of the exception handlers: what is reported of the file is what is on tape.
LEMMA HandlerDoneStep == SessionInv /\ HandlerDone => SessionInv'
<1> SUFFICES ASSUME SessionInv, HandlerDone PROVE SessionInv'
  OBVIOUS
<1> USE MigrationAssumption
<1>0. TypeOK /\ TasksInOrder /\ BlocksAccounted /\ TapePosition /\ ReportsTrue /\ ReportedOnce
      /\ FlushCovers /\ (faults = 0 => CleanSession)
  BY DEF SessionInv
<1>f. PICK f : f = tapeFile
  OBVIOUS
<1> DEFINE Goes == files' = files + 1 /\ after' = "none" /\ tape' \in {"flush", "next"}
                      /\ (tape' = "next" => files + 1 < FilesBeforeFlush)
<1>1. /\ tape = "circulate" /\ TapeFrame /\ popped[f] = need[f] /\ tapeFile' = End
      /\ \/ /\ after = "skip" /\ lastFSeq' = f
            /\ reports' = Append(reports, [kind |-> "skip", file |-> f]) /\ Goes
         \/ /\ after = "recover" /\ UNCHANGED lastFSeq
            /\ reports' = Append(reports, [kind |-> "error", file |-> f]) /\ Goes
         \/ /\ after = "error" /\ tape' = "clean" /\ after' = "error" /\ UNCHANGED <<lastFSeq, files>>
            /\ reports' = Append(reports, [kind |-> "error", file |-> f])
         \/ /\ after = "full" /\ tape' = "clean" /\ after' = "full"
            /\ UNCHANGED <<lastFSeq, files, reports>>
         \/ /\ after = "drain" /\ tape' = "drain" /\ after' = "none"
            /\ UNCHANGED <<lastFSeq, files, reports>>
      /\ UNCHANGED <<errorFlag, requests, tapeTasks, pool, data, popped, onTape, safe, abandoned,
                     faults>>
  <2>1. files \in Nat
    BY <1>0 DEF TypeOK, TapeOK
  <2> QED BY <1>f, <2>1 DEF HandlerDone, Report, ReportRecoverable, EndOfTask, Unwind
<1>2. /\ TapeActive /\ f \in Files /\ f = TapeTaken
      /\ after \in {"skip", "recover"} => files < FilesBeforeFlush
      /\ after # "drain" => Len(onTape) = f
      /\ after = "skip" => OnTape(f, "placeholder")
      /\ after \in {"recover", "error"} => OnTape(f, "partial")
  BY <1>f, <1>0, <1>1 DEF TapePosition, TapeActive, Writing
<1>3. QueuesOK' /\ TasksInOrder' /\ TapeTaken' = TapeTaken /\ MmTaken' = MmTaken
  <2>1. ~ (after' = "end" \/ tape' = "done")
    BY <1>1
  <2>2. UNCHANGED <<tapeTasks, requests>> /\ TapeFrame
    BY <1>1
  <2> HIDE DEF Goes
  <2> QED BY <1>0, <2>1, <2>2, TapeQueueKept
<1>4. PipesOK' /\ BlocksAccounted'
  <2>1. \A g \in Files : g <= TapeTaken' => popped[g] = need[g] \/ g \in abandoned'
    BY <1>f, <1>0, <1>1, <1>3 DEF BlocksAccounted
  <2>2. UNCHANGED <<pool, data, popped>> /\ TapeFrame
    BY <1>1
  <2> QED BY <1>0, <1>3, <2>1, <2>2, TapeBlocksKept
<1>5. DisksOK'
  BY <1>0, <1>1, TapeDisks, FaultGrows
<1>6. TapeOK'
  BY <1>0, <1>1, <1>2 DEF TypeOK, TapeOK, Files
<1>7. TapePosition'
  BY <1>0, <1>1, <1>2, <1>3 DEF TapePosition, AfterMatches, TapeActive, Writing, TypeOK, TapeOK
<1>8. UNCHANGED packerVars /\ TapeKeeps
  BY <1>0, <1>1, TapeSame DEF TapeFrame
<1>9. PackerOK' /\ ReportsTrue' /\ ReportedOnce' /\ FlushCovers'
  <2>1. CASE reports' = reports
    BY <1>0, <1>6, <1>8, <2>1, NoReport
  <2>2. CASE reports' = Append(reports, [kind |-> "skip", file |-> f]) /\ after = "skip"
    <3>1. PICK r \in ReportSet : r = [kind |-> "skip", file |-> f] /\ r.kind = "skip" /\ r.file = f
      BY <1>2, ReportValues
    <3>2. OnTape(f, "placeholder")'
      BY <1>1, <1>2, <2>2 DEF OnTape
    <3> QED BY <1>0, <1>6, <1>8, <2>2, <3>1, <3>2, OneReport
  <2>3. CASE reports' = Append(reports, [kind |-> "error", file |-> f])
             /\ after \in {"recover", "error"}
    <3>1. PICK r \in ReportSet : r = [kind |-> "error", file |-> f] /\ r.kind = "error" /\ r.file = f
      BY <1>2, ReportValues
    <3>2. LeftPartial(f)'
      BY <1>1, <1>2, <2>3 DEF OnTape, LeftPartial
    <3> QED BY <1>0, <1>6, <1>8, <2>3, <3>1, <3>2, OneReport
  <2> QED BY <1>1, <2>1, <2>2, <2>3
<1>10. faults' # 0
  BY <1>0, <1>1 DEF CleanSession
<1> QED BY <1>3, <1>4, <1>5, <1>6, <1>7, <1>9, <1>10 DEF SessionInv, TypeOK

\* tapeFlush(): all that is on tape is safe, and the packer is told.
LEMMA FlushStep == SessionInv /\ Flush => SessionInv'
<1> SUFFICES ASSUME SessionInv, Flush PROVE SessionInv'
  OBVIOUS
<1> USE MigrationAssumption
<1>0. TypeOK /\ TasksInOrder /\ BlocksAccounted /\ TapePosition /\ ReportsTrue /\ ReportedOnce
      /\ FlushCovers /\ (faults = 0 => CleanPipes /\ CleanSession /\ CleanEnd)
  BY DEF SessionInv
<1>r. PICK r \in ReportSet : r = [kind |-> "flush"] /\ r.kind = "flush"
  BY ReportValues
<1>1. /\ tape = "flush" /\ TapeFrame
      /\ \/ /\ safe' = Len(onTape) /\ reports' = Append(reports, r) /\ files' = 0
            /\ tape' = (IF after = "end" THEN "clean" ELSE "next")
            /\ UNCHANGED <<after, tapeFile, faults>>
         \/ /\ Fault /\ tape' = "clean" /\ after' \in {"error", "full"} /\ tapeFile' = End
            /\ UNCHANGED <<safe, files, reports>>
      /\ UNCHANGED <<errorFlag, requests, tapeTasks, pool, data, popped, lastFSeq, onTape, abandoned>>
  BY <1>r DEF Flush, TapeFlush, Report, Unwind
<1>2. after \in {"none", "end"} /\ ~ TapeActive /\ Len(onTape) = TapeTaken /\ ~ TapeActive'
  BY <1>0, <1>1 DEF TapePosition, AfterMatches, TapeActive, Writing
<1>3. QueuesOK' /\ TasksInOrder' /\ TapeTaken' = TapeTaken /\ MmTaken' = MmTaken
  <2>1. after' = "end" \/ tape' = "done" => after = "end" \/ tape = "done"
    BY <1>1
  <2> QED BY <1>0, <1>1, <2>1, TapeQueueKept
<1>4. PipesOK' /\ BlocksAccounted'
  BY <1>0, <1>1, <1>2, <1>3, TapeBlocksKept DEF BlocksAccounted
<1>5. FaultsGrow
  BY <1>0, <1>1, FaultGrows
<1>6. DisksOK'
  BY <1>0, <1>1, <1>5, TapeDisks
<1>7. TapeOK'
  BY <1>0, <1>1 DEF TypeOK, TapeOK
<1>8. TapePosition'
  BY <1>0, <1>1, <1>2, <1>3 DEF TapePosition, AfterMatches, Writing, TapeActive
<1>9. UNCHANGED packerVars /\ TapeKeeps
  BY <1>0, <1>1 DEF TapeFrame, TapeKeeps, OnTape, LeftPartial, TypeOK, TapeOK
<1>10. PackerOK' /\ ReportsTrue' /\ ReportedOnce' /\ FlushCovers'
  <2>1. CASE reports' = reports
    BY <1>0, <1>7, <1>9, <2>1, NoReport
  <2>2. CASE reports' = Append(reports, r) /\ safe' = Len(onTape)
    BY <1>0, <1>1, <1>7, <1>9, <1>r, <2>2, OneReport
  <2> QED BY <1>1, <2>1, <2>2
<1>11. ASSUME faults' = 0 PROVE CleanPipes' /\ CleanSession' /\ CleanEnd'
  <2>1. /\ faults = 0 /\ reports' = Append(reports, r) /\ UNCHANGED after
        /\ tape' = (IF after = "end" THEN "clean" ELSE "next")
    BY <1>0, <1>1, <1>11 DEF Fault, TypeOK, DisksOK
  <2>2. CleanPipes /\ CleanSession /\ CleanEnd /\ packer = "run"
    BY <1>0, <1>1, <2>1 DEF CleanEnd
  <2>3. UNCHANGED <<packer, errorHappened, successful, reported, disk, doubled>>
    BY <1>1, <1>9 DEF packerVars, TapeFrame, diskVars
  <2>4. CleanPipes'
    BY <1>1, <2>2, <2>3 DEF CleanPipes
  <2>n. PICK n \in Nat : n = Len(reports)
    BY <1>0 DEF TypeOK, PackerOK
  <2>5. /\ Len(reports') = n + 1 /\ reports'[n + 1] = r
        /\ \A i \in 1..n : reports'[i] = reports[i]
        /\ \A i \in 1..n + 1 : i \in 1..n \/ i = n + 1
    BY <1>0, <1>r, <2>1, <2>n DEF TypeOK, PackerOK
  <2>6. \A i \in 1..n + 1 : reports'[i].kind \in {"ok", "flush", "end"}
    BY <1>r, <2>2, <2>n, <2>5 DEF CleanSession
  <2>7. \A g : OkWaits(g) => OkWaits(g)'
    BY <1>0, <1>r, <2>1, OkStays
  <2>8. CleanSession'
    BY <1>1, <1>3, <2>1, <2>2, <2>3, <2>5, <2>6, <2>7 DEF CleanSession
  <2>9. \A i \in 1..n + 1 : ~ ReportIs(i, "end")'
    <3>1. \A i \in 1..n : reports[i].kind # "end"
      BY <1>1, <2>2, <2>n DEF CleanEnd, ReportIs
    <3> QED BY <1>r, <2>5, <3>1 DEF ReportIs
  <2>10. ReportIs(n + 1, "flush")' /\ \A i \in 1..n + 1 : n + 1 \in i..n + 1
    BY <1>r, <2>5 DEF ReportIs
  <2>11. CleanEnd'
    BY <2>2, <2>3, <2>5, <2>9, <2>10 DEF CleanEnd
  <2> QED BY <2>4, <2>8, <2>11
<1> QED BY <1>3, <1>4, <1>6, <1>7, <1>8, <1>10, <1>11 DEF SessionInv, TypeOK

\* ~TapeCleaning(): the session ends, or the tasks that are left are drained.
LEMMA TapeCleaningStep == SessionInv /\ TapeCleaning => SessionInv'
<1> SUFFICES ASSUME SessionInv, TapeCleaning PROVE SessionInv'
  OBVIOUS
<1>0. TypeOK /\ TasksInOrder /\ BlocksAccounted /\ TapePosition /\ ReportsTrue /\ ReportedOnce
      /\ FlushCovers /\ (faults = 0 => CleanPipes /\ CleanSession /\ CleanEnd)
  BY DEF SessionInv
<1>r. PICK r \in ReportSet : r = [kind |-> "end"] /\ r.kind = "end"
  BY ReportValues
<1>1. /\ tape = "clean" /\ TapeFrame /\ requests' = Append(requests, "end") /\ after' = "none"
      /\ \/ /\ after = "end" /\ tape' = "done" /\ reports' = Append(reports, r)
            /\ UNCHANGED errorFlag
         \/ /\ after # "end" /\ tape' = "drain" /\ errorFlag' = TRUE
            /\ reports' = reports \/ reports' = Append(reports, [kind |-> "full"])
      /\ UNCHANGED <<tapeTasks, pool, data, popped, tapeFile, lastFSeq, files, onTape, safe,
                     abandoned, faults>>
  BY <1>r DEF TapeCleaning, DegradedMode, Report
<1>2. ~ TapeActive /\ ~ TapeActive'
  BY <1>1 DEF TapeActive
<1>3. QueuesOK' /\ TasksInOrder' /\ TapeTaken' = TapeTaken /\ MmTaken' = MmTaken
  <2>1. after' = "end" \/ tape' = "done" => after = "end" \/ tape = "done"
    BY <1>1
  <2> QED BY <1>0, <1>1, <2>1, TapeQueueKept
<1>4. PipesOK' /\ BlocksAccounted'
  BY <1>0, <1>1, <1>2, <1>3, TapeBlocksKept DEF BlocksAccounted
<1>5. DisksOK'
  <2>1. errorFlag' = errorFlag \/ errorFlag' = TRUE
    BY <1>1
  <2> QED BY <1>0, <1>1, <2>1, TapeDisks, FaultGrows
<1>6. TapeOK'
  BY <1>0, <1>1 DEF TypeOK, TapeOK
<1>7. TapePosition'
  BY <1>0, <1>1, <1>2, <1>3 DEF TapePosition, AfterMatches, Writing
<1>8. UNCHANGED packerVars /\ TapeKeeps
  BY <1>0, <1>1, TapeSame DEF TapeFrame
<1>9. PackerOK' /\ ReportsTrue' /\ ReportedOnce' /\ FlushCovers'
  <2>1. CASE reports' = reports
    BY <1>0, <1>6, <1>8, <2>1, NoReport
  <2>2. CASE reports' = Append(reports, r)
    BY <1>0, <1>6, <1>8, <1>r, <2>2, OneReport
  <2>3. CASE reports' = Append(reports, [kind |-> "full"])
    <3>1. PICK q \in ReportSet : q = [kind |-> "full"] /\ q.kind = "full"
      BY ReportValues
    <3> QED BY <1>0, <1>6, <1>8, <2>3, <3>1, OneReport
  <2> QED BY <1>1, <2>1, <2>2, <2>3
<1>10. ASSUME faults' = 0 PROVE CleanPipes' /\ CleanSession' /\ CleanEnd'
  <2>1. CleanPipes /\ CleanSession /\ CleanEnd /\ packer = "run"
    BY <1>0, <1>1, <1>10 DEF CleanEnd
  <2>2. after = "end" /\ tape' = "done" /\ reports' = Append(reports, r) /\ UNCHANGED errorFlag
    BY <1>0, <1>1, <2>1 DEF CleanSession, TapePosition, AfterMatches
  <2>3. UNCHANGED <<packer, errorHappened, successful, reported, disk, doubled>>
    BY <1>1, <1>8 DEF packerVars, TapeFrame, diskVars
  <2>4. CleanPipes'
    BY <1>1, <2>1, <2>2, <2>3 DEF CleanPipes
  <2>n. PICK n \in Nat : n = Len(reports)
    BY <1>0 DEF TypeOK, PackerOK
  <2>5. /\ Len(reports') = n + 1 /\ reports'[n + 1] = r
        /\ \A i \in 1..n : reports'[i] = reports[i]
        /\ \A i \in 1..n + 1 : i \in 1..n \/ i = n + 1
    BY <1>0, <1>r, <2>2, <2>n DEF TypeOK, PackerOK
  <2>6. \A i \in 1..n + 1 : reports'[i].kind \in {"ok", "flush", "end"}
    BY <1>r, <2>1, <2>n, <2>5 DEF CleanSession
  <2>7. \A g : OkWaits(g) => OkWaits(g)'
    BY <1>0, <1>r, <2>2, OkStays
  <2>8. CleanSession'
    BY <1>1, <1>3, <2>1, <2>2, <2>3, <2>5, <2>6, <2>7 DEF CleanSession
  <2>9. \A i \in 1..n + 1 : ReportIs(i, "end")' => i = n + 1
    <3>1. \A i \in 1..n : reports[i].kind # "end"
      BY <1>1, <2>1, <2>n DEF CleanEnd, ReportIs
    <3> QED BY <2>5, <3>1 DEF ReportIs
  <2>10. /\ \A i \in 1..n : ReportIs(i, "ok") => \E j \in i..n : ReportIs(j, "flush")
         /\ successful # {} => \E j \in 1..n : ReportIs(j, "flush")
    BY <1>1, <2>1, <2>n DEF CleanEnd
  <2>11. \A i \in 1..n, k \in {"ok", "flush"} : ReportIs(i, k)' <=> ReportIs(i, k)
    BY <2>n, <2>5 DEF ReportIs
  <2>12. ASSUME NEW i \in 1..n + 1, ReportIs(i, "ok")'
         PROVE  \E j \in i..n + 1 : ReportIs(j, "flush")'
    <3>1. i \in 1..n
      BY <1>r, <2>5, <2>12 DEF ReportIs
    <3>2. PICK j \in i..n : ReportIs(j, "flush")
      BY <2>10, <2>11, <2>12, <3>1
    <3> QED BY <2>11, <3>1, <3>2
  <2>13. successful # {} => \E j \in 1..n + 1 : ReportIs(j, "flush")'
    BY <2>10, <2>11
  <2>14. CleanEnd'
    BY <2>1, <2>2, <2>3, <2>5, <2>9, <2>12, <2>13 DEF CleanEnd
  <2> QED BY <2>4, <2>8, <2>14
<1> QED BY <1>3, <1>4, <1>5, <1>6, <1>7, <1>9, <1>10 DEF SessionInv, TypeOK

\* TapeWriteSingleThread::run() after an exception: every task that is left gives its
\* blocks back, up to the end mark.
LEMMA DrainTaskStep == SessionInv /\ DrainTask => SessionInv'
<1> SUFFICES ASSUME SessionInv, DrainTask PROVE SessionInv'
  OBVIOUS
<1> USE MigrationAssumption
<1>0. TypeOK /\ TasksInOrder /\ BlocksAccounted /\ TapePosition /\ ReportsTrue /\ ReportedOnce
      /\ FlushCovers /\ (faults = 0 => CleanSession)
  BY DEF SessionInv
<1>r. PICK r \in ReportSet : r = [kind |-> "end"] /\ r.kind = "end"
  BY ReportValues
<1>h. PICK f : f = Head(tapeTasks)
  OBVIOUS
<1>1. /\ tape = "drain" /\ TapeFrame /\ tapeTasks # <<>> /\ tapeTasks' = Tail(tapeTasks)
      /\ \/ f = End /\ tape' = "done" /\ reports' = Append(reports, r) /\ UNCHANGED <<tapeFile, after>>
         \/ /\ f # End /\ tape' = "circulate" /\ tapeFile' = f /\ after' = "drain"
            /\ UNCHANGED reports
      /\ UNCHANGED <<errorFlag, requests, pool, data, popped, lastFSeq, files, onTape, safe,
                     abandoned, faults>>
  BY <1>h, <1>r DEF DrainTask, Report
<1>2. after = "none" /\ ~ TapeActive
  BY <1>0, <1>1 DEF TapePosition, AfterMatches, TapeActive
<1>3. /\ QueuesOK' /\ TasksInOrder' /\ MmTaken' = MmTaken /\ TapeTaken \in Nat
      /\ f \in Files \union {End}
      /\ f # End => f = TapeTaken + 1 /\ TapeTaken' = f
      /\ f = End => TapeTaken' = TapeTaken
  <2>1. after' = "end" \/ tape' = "done" => Head(tapeTasks) = End
    BY <1>h, <1>1, <1>2
  <2>2. after # "end" /\ tape # "done"
    BY <1>1, <1>2
  <2> QED BY <1>h, <1>0, <1>1, <2>1, <2>2, TapeQueuePopped
<1>4. PipesOK' /\ BlocksAccounted'
  <2> SUFFICES \A g \in Files : g <= TapeTaken' =>
                 popped[g] = need[g] \/ g \in abandoned' \/ (TapeActive' /\ g = tapeFile')
    BY <1>0, <1>1, <1>3, TapeBlocksKept
  <2>1. \A g \in Files : g <= TapeTaken => popped[g] = need[g] \/ g \in abandoned
    BY <1>0, <1>2 DEF BlocksAccounted
  <2>2. \A g \in Files : g <= TapeTaken' => g <= TapeTaken \/ (f # End /\ g = f)
    BY <1>3 DEF Files
  <2> QED BY <1>1, <2>1, <2>2 DEF TapeActive
<1>5. DisksOK'
  BY <1>0, <1>1, TapeDisks, FaultGrows
<1>6. TapeOK'
  BY <1>0, <1>1, <1>3 DEF TypeOK, TapeOK
<1>7. TapePosition'
  BY <1>0, <1>1, <1>2, <1>3 DEF TapePosition, AfterMatches, Writing, TapeActive
<1>8. UNCHANGED packerVars /\ TapeKeeps
  BY <1>0, <1>1, TapeSame DEF TapeFrame
<1>9. PackerOK' /\ ReportsTrue' /\ ReportedOnce' /\ FlushCovers'
  <2>1. CASE reports' = reports
    BY <1>0, <1>6, <1>8, <2>1, NoReport
  <2>2. CASE reports' = Append(reports, r)
    BY <1>0, <1>6, <1>8, <1>r, <2>2, OneReport
  <2> QED BY <1>1, <2>1, <2>2
<1>10. faults' # 0
  BY <1>0, <1>1 DEF CleanSession
<1> QED BY <1>3, <1>4, <1>5, <1>6, <1>7, <1>9, <1>10 DEF SessionInv, TypeOK

-----------------------------------------------------------------------------
(* The report packer                                                       *)

\* What the report packer leaves alone stays in order.
LEMMA PackerOthers ==
  ASSUME SessionInv, PackerFrame, FaultsGrow
  PROVE  /\ QueuesOK' /\ PipesOK' /\ DisksOK' /\ TapeOK' /\ TasksInOrder' /\ BlocksAccounted'
         /\ TapePosition' /\ TapeTaken' = TapeTaken /\ (faults' = 0 => CleanPipes')
<1>1. /\ UNCHANGED <<need, errorFlag, requests, clients, diskTasks, tapeTasks, pool, provided,
                     ready, data, popped, inj, batch, wrapUp, next, mm, mmFile, disk, diskFile,
                     diskBlock, doubled, tape, tapeFile, after, lastFSeq, files, onTape, safe,
                     abandoned, crashed>>
  BY DEF PackerFrame, pipes, injVars, mmVars, diskVars, tapeVars
<1>2. Injected' = Injected /\ Marks' = Marks /\ TapeTaken' = TapeTaken /\ MmTaken' = MmTaken
      /\ Out' = Out
  BY <1>1 DEF Injected, Marks, TapeTaken, MmTaken, Out
<1>3. QueuesOK' /\ PipesOK' /\ DisksOK' /\ TapeOK'
  <2>1. QueuesOK'
    BY <1>1 DEF SessionInv, TypeOK, QueuesOK
  <2>2. PipesOK'
    BY <1>1 DEF SessionInv, TypeOK, PipesOK, Pushed
  <2>3. DisksOK'
    BY <1>1 DEF SessionInv, TypeOK, DisksOK, FaultsGrow
  <2>4. TapeOK'
    BY <1>1 DEF SessionInv, TypeOK, TapeOK
  <2> QED BY <2>1, <2>2, <2>3, <2>4
<1>4. TasksInOrder' /\ BlocksAccounted'
  BY <1>1, <1>2 DEF SessionInv, TasksInOrder, BlocksAccounted, TapeActive, PoolCounted, Pushed
<1>5. TapePosition'
  BY <1>1, <1>2 DEF SessionInv, TapePosition, AfterMatches, TapeActive, Writing, OnTape
<1>6. faults' = 0 => CleanPipes'
  BY <1>1 DEF SessionInv, CleanPipes, FaultsGrow
<1> QED BY <1>2, <1>3, <1>4, <1>5, <1>6

\* The reports that are left when the first is taken.
LEMMA TailReports ==
  ASSUME PackerOK, reports # <<>>, reports' = Tail(reports)
  PROVE  /\ reports' \in Seq(ReportSet) /\ Head(reports) = reports[1] /\ 1 \in 1..Len(reports)
         /\ Len(reports) \in Nat /\ Len(reports') = Len(reports) - 1
         /\ \A i \in 1..Len(reports') : i + 1 \in 2..Len(reports) /\ reports'[i] = reports[i + 1]
         /\ \A i \in 2..Len(reports) : i - 1 \in 1..Len(reports') /\ reports'[i - 1] = reports[i]
  BY DEF PackerOK

\* The first report is taken.  What is believed afterwards comes from it or was believed
\* before, and nothing is reported as archived but at a flush.
LEMMA TakeReport ==
  ASSUME SessionInv, PackerFrame, reports # <<>>, reports' = Tail(reports), PackerOK',
         \A f \in successful' : f \in successful \/ (ReportIs(1, "ok") /\ f = reports[1].file),
         \A f \in reported' : f \in reported \/ (ReportIs(1, "flush") /\ f \in successful),
         \A f \in skipped' : f \in skipped \/ (ReportIs(1, "skip") /\ f = reports[1].file),
         packer' = "run" => /\ packer = "run"
                            /\ \A f \in failed' : \/ f \in failed
                                                  \/ /\ ReportIs(1, "skip") \/ ReportIs(1, "error")
                                                     /\ f = reports[1].file,
         successful' \intersect reported' = {}, reported' \intersect failed' \subseteq lostAnswer'
  PROVE  ReportsTrue' /\ ReportedOnce' /\ FlushCovers'
<1>1. /\ reports' \in Seq(ReportSet) /\ 1 \in 1..Len(reports) /\ Len(reports) \in Nat
      /\ Len(reports') = Len(reports) - 1
      /\ \A i \in 1..Len(reports') : i + 1 \in 2..Len(reports) /\ reports'[i] = reports[i + 1]
  BY TailReports DEF SessionInv, TypeOK
<1>2. UNCHANGED <<tape, onTape, safe>>
  BY DEF PackerFrame, tapeVars
<1>3. \A i \in 1..Len(reports'), k \in {"ok", "skip", "error", "flush"} :
        ReportIs(i, k)' => ReportIs(i + 1, k) /\ i + 1 \in 1..Len(reports)
  BY <1>1 DEF ReportIs
<1>4. \A f, w : (OnTape(f, w)' <=> OnTape(f, w)) /\ (LeftPartial(f)' <=> LeftPartial(f))
  BY <1>2 DEF OnTape, LeftPartial
<1>5. ReportsTrue /\ ReportedOnce /\ FlushCovers
  BY DEF SessionInv
<1>6. ReportsTrue'
  <2>1. ASSUME NEW i \in 1..Len(reports')
        PROVE  /\ ReportIs(i, "ok")' => OnTape(reports[i].file, "file")'
               /\ ReportIs(i, "skip")' => OnTape(reports[i].file, "placeholder")'
               /\ ReportIs(i, "error")' => LeftPartial(reports[i].file)'
    <3>1. i + 1 \in 1..Len(reports) /\ reports'[i] = reports[i + 1]
      BY <1>1
    <3>2. /\ ReportIs(i, "ok")' => OnTape(reports[i + 1].file, "file")
          /\ ReportIs(i, "skip")' => OnTape(reports[i + 1].file, "placeholder")
          /\ ReportIs(i, "error")' => LeftPartial(reports[i + 1].file)
      BY <1>3, <1>5, <3>1 DEF ReportsTrue
    <3> QED BY <1>2, <3>1, <3>2 DEF OnTape, LeftPartial
  <2>2. \A f \in successful' \union reported' : OnTape(f, "file")
    BY <1>1, <1>5 DEF ReportsTrue
  <2>3. \A f \in skipped' : OnTape(f, "placeholder")
    BY <1>1, <1>5 DEF ReportsTrue
  <2>4. packer' = "run" => \A f \in failed' : OnTape(f, "placeholder") \/ LeftPartial(f)
    BY <1>1, <1>5 DEF ReportsTrue
  <2> QED BY <1>4, <2>1, <2>2, <2>3, <2>4 DEF ReportsTrue
<1>7. ReportedOnce'
  <2>1. ASSUME NEW i \in 1..Len(reports'), ReportIs(i, "ok")'
        PROVE  /\ reports'[i].file \notin successful' \union reported'
               /\ \A j \in 1..Len(reports') :
                    ReportIs(j, "ok")' /\ reports'[j].file = reports'[i].file => j = i
    <3>1. i + 1 \in 1..Len(reports) /\ reports'[i] = reports[i + 1] /\ ReportIs(i + 1, "ok")
          /\ i + 1 # 1
      BY <1>1, <1>3, <2>1
    <3>2. /\ reports[i + 1].file \notin successful \union reported
          /\ \A j \in 1..Len(reports) :
               ReportIs(j, "ok") /\ reports[j].file = reports[i + 1].file => j = i + 1
      BY <1>5, <3>1 DEF ReportedOnce
    <3>3. reports'[i].file \notin successful' \union reported'
      BY <1>1, <3>1, <3>2
    <3>4. ASSUME NEW j \in 1..Len(reports'), ReportIs(j, "ok")', reports'[j].file = reports'[i].file
          PROVE  j = i
      <4>1. j + 1 \in 1..Len(reports) /\ reports'[j] = reports[j + 1] /\ ReportIs(j + 1, "ok")
        BY <1>1, <1>3, <3>4
      <4>2. j + 1 = i + 1
        BY <3>1, <3>2, <3>4, <4>1
      <4> QED BY <1>1, <4>2
    <3> QED BY <3>3, <3>4
  <2> QED BY <2>1 DEF ReportedOnce
<1>8. FlushCovers'
  <2>1. \A f \in reported' : f <= safe
    BY <1>1, <1>5 DEF FlushCovers
  <2>2. ASSUME NEW i \in 1..Len(reports'), ReportIs(i, "flush")'
        PROVE  /\ \A f \in successful' : f <= safe
               /\ \A j \in 1..i : ReportIs(j, "ok")' => reports'[j].file <= safe
    <3>1. i + 1 \in 1..Len(reports) /\ ReportIs(i + 1, "flush") /\ 1 \in 1..i + 1
      BY <1>1, <1>3, <2>2
    <3>2. /\ \A f \in successful : f <= safe
          /\ \A j \in 1..i + 1 : ReportIs(j, "ok") => reports[j].file <= safe
      BY <1>5, <3>1 DEF FlushCovers
    <3>3. \A f \in successful' : f <= safe
      BY <3>1, <3>2
    <3>4. ASSUME NEW j \in 1..i, ReportIs(j, "ok")' PROVE reports'[j].file <= safe
      <4>1. j \in 1..Len(reports') /\ j + 1 \in 1..i + 1
        BY <1>1
      <4>2. reports'[j] = reports[j + 1] /\ ReportIs(j + 1, "ok")
        BY <1>1, <1>3, <3>4, <4>1
      <4> QED BY <3>2, <4>1, <4>2
    <3> QED BY <3>3, <3>4
  <2> QED BY <1>2, <2>1, <2>2 DEF FlushCovers
<1> QED BY <1>6, <1>7, <1>8

\* Without faults the packer finds files, flushes and the end of the session.
LEMMA TakeClean ==
  ASSUME SessionInv, faults = 0, PackerFrame, packer = "run", reports # <<>>,
         reports' = Tail(reports), UNCHANGED <<packer, errorHappened>>,
         \/ /\ ReportIs(1, "ok") /\ successful' = successful \union {reports[1].file}
            /\ UNCHANGED reported
         \/ /\ ReportIs(1, "flush") /\ successful' = {} /\ reported' = reported \union successful
  PROVE  CleanSession' /\ CleanEnd'
<1>1. /\ 1 \in 1..Len(reports) /\ Len(reports) \in Nat /\ Len(reports') = Len(reports) - 1
      /\ \A i \in 1..Len(reports') : i + 1 \in 2..Len(reports) /\ reports'[i] = reports[i + 1]
      /\ \A i \in 2..Len(reports) : i - 1 \in 1..Len(reports') /\ reports'[i - 1] = reports[i]
  BY TailReports DEF SessionInv, TypeOK
<1>2. UNCHANGED <<tape, after, onTape, lastFSeq, abandoned>> /\ TapeTaken' = TapeTaken
  BY DEF PackerFrame, tapeVars, injVars, TapeTaken, Injected, Marks
<1>3. CleanSession /\ CleanEnd
  BY DEF SessionInv
<1>4. \A i \in 1..Len(reports') : reports'[i].kind \in {"ok", "flush", "end"}
  BY <1>1, <1>3 DEF CleanSession
<1>5. \A i \in 1..Len(reports'), k \in {"ok", "flush", "end"} :
        ReportIs(i, k)' <=> ReportIs(i + 1, k)
  BY <1>1 DEF ReportIs
<1>6. ASSUME NEW f \in 1..lastFSeq PROVE f \in reported' \union successful' \/ OkWaits(f)'
  <2>1. CASE f \in reported \union successful
    BY <2>1
  <2>2. CASE OkWaits(f)
    <3>1. PICK i \in 1..Len(reports) : ReportIs(i, "ok") /\ reports[i].file = f
      BY <2>2 DEF OkWaits
    <3>2. CASE i = 1
      BY <3>1, <3>2 DEF ReportIs
    <3>3. CASE i # 1
      <4>1. i - 1 \in 1..Len(reports') /\ reports'[i - 1] = reports[i]
        BY <1>1, <3>3
      <4>2. ReportIs(i - 1, "ok")' /\ reports'[i - 1].file = f
        BY <3>1, <4>1 DEF ReportIs
      <4>3. PICK j : j = i - 1
        OBVIOUS
      <4> QED BY <4>1, <4>2, <4>3 DEF OkWaits
    <3> QED BY <3>2, <3>3
  <2> QED BY <1>3, <2>1, <2>2 DEF CleanSession
<1>7. CleanSession'
  BY <1>2, <1>3, <1>4, <1>6 DEF CleanSession
<1>8. ASSUME tape \in {"clean", "done"}, NEW i \in 1..Len(reports'), ReportIs(i, "ok")'
      PROVE  \E j \in i..Len(reports') : ReportIs(j, "flush")'
  <2>1. i + 1 \in 2..Len(reports) /\ ReportIs(i + 1, "ok")
    BY <1>1, <1>5, <1>8
  <2>2. PICK j \in i + 1..Len(reports) : ReportIs(j, "flush")
    BY <1>3, <1>8, <2>1 DEF CleanEnd
  <2>3. PICK m : m = j - 1
    OBVIOUS
  <2>4. m \in i..Len(reports') /\ m \in 1..Len(reports') /\ m + 1 = j
    BY <1>1, <2>1, <2>2, <2>3
  <2> QED BY <1>5, <2>2, <2>4
<1>9. ASSUME tape \in {"clean", "done"}, successful' # {}
      PROVE  \E j \in 1..Len(reports') : ReportIs(j, "flush")'
  <2>1. ReportIs(1, "ok")
    BY <1>9
  <2>2. PICK j \in 1..Len(reports) : ReportIs(j, "flush")
    BY <1>1, <1>3, <1>9, <2>1 DEF CleanEnd
  <2>3. j # 1
    BY <2>1, <2>2 DEF ReportIs
  <2>4. PICK m : m = j - 1
    OBVIOUS
  <2>5. m \in 1..Len(reports') /\ m + 1 = j
    BY <1>1, <2>2, <2>3, <2>4
  <2> QED BY <1>5, <2>2, <2>5
<1>10. ASSUME NEW i \in 1..Len(reports'), ReportIs(i, "end")'
       PROVE  i = Len(reports') /\ tape = "done"
  <2>1. i + 1 \in 1..Len(reports) /\ ReportIs(i + 1, "end")
    BY <1>1, <1>5, <1>10
  <2>2. i + 1 = Len(reports) /\ tape = "done"
    BY <1>3, <2>1 DEF CleanEnd
  <2>3. i \in Int /\ Len(reports') = Len(reports) - 1 /\ Len(reports) \in Nat
    BY <1>1
  <2> QED BY ONLY <2>2, <2>3
<1>11. CleanEnd'
  BY <1>2, <1>8, <1>9, <1>10 DEF CleanEnd
<1> QED BY <1>7, <1>11

\* The report packer reports as archived what was written before a flush, once.
LEMMA PackerStep == SessionInv /\ Packer => SessionInv'
<1> SUFFICES ASSUME SessionInv, Packer PROVE SessionInv'
  OBVIOUS
<1>0. /\ PackerFrame /\ (Fault \/ UNCHANGED faults)
  BY DEF Packer, ReportSuccessful, ReportSkipped, ReportError, ReportFlush, ReportFlushError,
         ReportTapeFull, ReportEndofSession, DrainReports
<1>1. PackerOK /\ ReportsTrue /\ ReportedOnce /\ FlushCovers
      /\ (faults = 0 => CleanSession /\ CleanEnd)
  BY DEF SessionInv, TypeOK
<1>2. FaultsGrow
  BY <1>0, FaultGrows DEF SessionInv
<1>3. /\ QueuesOK' /\ PipesOK' /\ DisksOK' /\ TapeOK' /\ TasksInOrder' /\ BlocksAccounted'
      /\ TapePosition' /\ TapeTaken' = TapeTaken /\ (faults' = 0 => CleanPipes')
  BY <1>0, <1>2, PackerOthers
<1>4. SUFFICES /\ PackerOK' /\ ReportsTrue' /\ ReportedOnce' /\ FlushCovers'
               /\ faults' = 0 => CleanSession' /\ CleanEnd'
  BY <1>3 DEF SessionInv, TypeOK
<1>5. ASSUME NEW k, NextReport(k)
      PROVE  /\ packer = "run" /\ reports # <<>> /\ reports' = Tail(reports)
             /\ reports' \in Seq(ReportSet) /\ ReportIs(1, k) /\ Head(reports) = reports[1]
             /\ k \in {"ok", "skip", "error"} => reports[1].file \in Files
             /\ faults' = 0 => k \in {"ok", "flush", "end"}
  <2>1. /\ packer = "run" /\ reports # <<>> /\ reports' = Tail(reports) /\ Head(reports).kind = k
    BY <1>5 DEF NextReport
  <2>2. reports' \in Seq(ReportSet) /\ Head(reports) = reports[1] /\ 1 \in 1..Len(reports)
    BY <1>1, <2>1, TailReports
  <2>3. ReportIs(1, k)
    BY <2>1, <2>2 DEF ReportIs
  <2>4. k \in {"ok", "skip", "error"} => reports[1].file \in Files
    BY <1>1, <2>2, <2>3, ReportFile
  <2>5. faults' = 0 => k \in {"ok", "flush", "end"}
    BY <1>1, <1>2, <2>2, <2>3 DEF FaultsGrow, CleanSession, ReportIs
  <2> QED BY <2>1, <2>2, <2>3, <2>4, <2>5
<1>6. CASE ReportSuccessful
  <2>1. /\ NextReport("ok") /\ successful' = successful \union {reports[1].file}
        /\ UNCHANGED <<packer, errorHappened, skipped, tapeFull, reported, failed, lostAnswer,
                       faults>>
    BY <1>5, <1>6 DEF ReportSuccessful
  <2>2. PackerOK'
    BY <1>1, <1>5, <2>1 DEF PackerOK
  <2>3. ReportsTrue' /\ ReportedOnce' /\ FlushCovers'
    <3>1. reports[1].file \notin reported
      BY <1>1, <1>5, <2>1 DEF ReportedOnce, ReportIs
    <3>2. successful' \intersect reported' = {} /\ reported' \intersect failed' \subseteq lostAnswer'
      BY <1>1, <2>1, <3>1 DEF ReportedOnce
    <3> QED BY <1>0, <1>5, <2>1, <2>2, <3>2, TakeReport
  <2>4. faults' = 0 => CleanSession' /\ CleanEnd'
    BY <1>0, <1>5, <2>1, TakeClean
  <2> QED BY <2>2, <2>3, <2>4
<1>7. CASE ReportSkipped
  <2>1. /\ NextReport("skip") /\ failed' = failed \union {reports[1].file}
        /\ skipped' = skipped \union {reports[1].file}
        /\ UNCHANGED <<packer, errorHappened, successful, tapeFull, reported, lostAnswer>>
    BY <1>5, <1>7 DEF ReportSkipped
  <2>2. PackerOK' /\ faults' # 0
    BY <1>1, <1>5, <2>1 DEF PackerOK
  <2>3. reports[1].file \notin reported
    BY <1>1, <1>5, <2>1 DEF ReportsTrue, OnTape, ReportIs
  <2>4. successful' \intersect reported' = {} /\ reported' \intersect failed' \subseteq lostAnswer'
    BY <1>1, <2>1, <2>3 DEF ReportedOnce
  <2> QED BY <1>0, <1>5, <2>1, <2>2, <2>4, TakeReport
<1>8. CASE ReportError
  <2>1. /\ NextReport("error") /\ failed' = failed \union {reports[1].file} /\ errorHappened' = TRUE
        /\ UNCHANGED <<packer, skipped, successful, tapeFull, reported, lostAnswer>>
    BY <1>5, <1>8 DEF ReportError
  <2>2. PackerOK' /\ faults' # 0
    BY <1>1, <1>5, <2>1 DEF PackerOK
  <2>3. reports[1].file \notin reported
    BY <1>1, <1>5, <2>1 DEF ReportsTrue, OnTape, LeftPartial, ReportIs
  <2>4. successful' \intersect reported' = {} /\ reported' \intersect failed' \subseteq lostAnswer'
    BY <1>1, <2>1, <2>3 DEF ReportedOnce
  <2> QED BY <1>0, <1>5, <2>1, <2>2, <2>4, TakeReport
<1>9. \A f \in successful : f \notin reported /\ (packer = "run" => f \notin failed)
  BY <1>1 DEF ReportedOnce, ReportsTrue, OnTape, LeftPartial
<1>10. CASE ReportFlush
  <2>1. /\ NextReport("flush") /\ UNCHANGED <<packer, errorHappened, tapeFull, failed, lostAnswer, faults>>
        /\ \/ errorHappened /\ UNCHANGED <<reported, successful, skipped>>
           \/ /\ ~ errorHappened /\ reported' = reported \union successful
              /\ successful' = {} /\ skipped' = {}
    BY <1>10 DEF ReportFlush
  <2>2. PackerOK'
    BY <1>1, <1>5, <2>1 DEF PackerOK
  <2>3. successful' \intersect reported' = {} /\ reported' \intersect failed' \subseteq lostAnswer'
    BY <1>1, <1>5, <1>9, <2>1 DEF ReportedOnce
  <2>4. ReportsTrue' /\ ReportedOnce' /\ FlushCovers'
    BY <1>0, <1>5, <2>1, <2>2, <2>3, TakeReport
  <2>5. faults' = 0 => CleanSession' /\ CleanEnd'
    <3> SUFFICES ASSUME faults' = 0 PROVE CleanSession' /\ CleanEnd'
      OBVIOUS
    <3>1. faults = 0 /\ ~ errorHappened
      BY <1>1, <2>1 DEF CleanSession
    <3> QED BY <1>0, <1>5, <2>1, <3>1, TakeClean
  <2> QED BY <2>2, <2>4, <2>5
<1>11. CASE ReportFlushError
  <2>1. /\ NextReport("flush") /\ Fault /\ packer' = "drain" /\ UNCHANGED <<errorHappened, tapeFull>>
        /\ \/ /\ failed' = failed \union successful /\ successful' = {} /\ skipped' = {}
              /\ \/ UNCHANGED <<reported, lostAnswer>>
                 \/ /\ reported' = reported \union successful
                    /\ lostAnswer' = lostAnswer \union successful
           \/ \E f \in successful :
                /\ failed' = failed \union {g \in successful : g <= f}
                /\ successful' = {g \in successful : g > f}
                /\ UNCHANGED <<skipped, reported, lostAnswer>>
           \/ /\ reported' = reported \union successful /\ UNCHANGED <<failed, lostAnswer>>
              /\ successful' = {} /\ skipped' = {}
    BY <1>11 DEF ReportFlushError, MoveToQueueFails, CatalogueUpdateFails
  <2>2. PackerOK' /\ faults' # 0
    BY <1>1, <1>5, <2>1 DEF PackerOK, Fault, SessionInv, TypeOK, DisksOK
  <2>3. successful' \intersect reported' = {} /\ reported' \intersect failed' \subseteq lostAnswer'
    BY <1>1, <1>5, <1>9, <2>1 DEF ReportedOnce
  <2> QED BY <1>0, <1>5, <2>1, <2>2, <2>3, TakeReport
<1>12. CASE ReportTapeFull
  <2>1. /\ NextReport("full") /\ tapeFull' = TRUE
        /\ UNCHANGED <<packer, errorHappened, successful, skipped, reported, failed, lostAnswer>>
    BY <1>12 DEF ReportTapeFull
  <2>2. PackerOK' /\ faults' # 0
    BY <1>1, <1>5, <2>1 DEF PackerOK
  <2>3. successful' \intersect reported' = {} /\ reported' \intersect failed' \subseteq lostAnswer'
    BY <1>1, <2>1 DEF ReportedOnce
  <2> QED BY <1>0, <1>5, <2>1, <2>2, <2>3, TakeReport
<1>13. CASE ReportEndofSession
  <2>1. /\ NextReport("end") /\ packer' = "drain"
        /\ UNCHANGED <<errorHappened, successful, skipped, tapeFull, reported, failed, lostAnswer,
                       faults>>
    BY <1>13 DEF ReportEndofSession
  <2>2. PackerOK'
    BY <1>1, <1>5, <2>1 DEF PackerOK
  <2>3. successful' \intersect reported' = {} /\ reported' \intersect failed' \subseteq lostAnswer'
    BY <1>1, <2>1 DEF ReportedOnce
  <2>4. ReportsTrue' /\ ReportedOnce' /\ FlushCovers'
    BY <1>0, <1>5, <2>1, <2>2, <2>3, TakeReport
  <2>5. ASSUME faults' = 0 PROVE CleanSession' /\ CleanEnd'
    <3>1. CleanSession /\ CleanEnd /\ ReportIs(1, "end") /\ reports' = Tail(reports) /\ reports # <<>>
      BY <1>1, <1>5, <2>1, <2>5
    <3>2. Len(reports) = 1 /\ tape = "done" /\ 1 \in 1..Len(reports)
      BY <3>1 DEF CleanEnd, ReportIs
    <3>3. reports' = <<>>
      BY <1>1, <3>1, <3>2 DEF PackerOK
    <3>4. successful = {}
      BY <3>1, <3>2 DEF CleanEnd, ReportIs
    <3>5. \A f : ~ OkWaits(f)
      BY <3>1, <3>2 DEF OkWaits, ReportIs
    <3>6. UNCHANGED <<tape, after, onTape, lastFSeq, abandoned>>
      BY <1>0 DEF PackerFrame, tapeVars
    <3>7. CleanSession'
      BY <1>3, <2>1, <3>1, <3>3, <3>5, <3>6 DEF CleanSession
    <3>8. CleanEnd'
      BY <2>1, <3>2, <3>3, <3>4, <3>6 DEF CleanEnd
    <3> QED BY <3>7, <3>8
  <2> QED BY <2>2, <2>4, <2>5
<1>14. CASE DrainReports
  <2>1. /\ packer = "drain" /\ packer' = "done" /\ reports' = <<>>
        /\ UNCHANGED <<errorHappened, successful, skipped, tapeFull, reported, failed, lostAnswer,
                       faults>>
    BY <1>14 DEF DrainReports
  <2>2. UNCHANGED <<tape, after, onTape, lastFSeq, abandoned, safe>>
    BY <1>0 DEF PackerFrame, tapeVars
  <2>3. PackerOK'
    BY <1>1, <2>1 DEF PackerOK
  <2>4. ReportsTrue' /\ ReportedOnce' /\ FlushCovers'
    BY <1>1, <2>1, <2>2 DEF ReportsTrue, ReportedOnce, FlushCovers, OnTape, ReportIs
  <2>5. ASSUME faults' = 0 PROVE CleanSession' /\ CleanEnd'
    <3>1. CleanSession /\ CleanEnd /\ tape = "done" /\ reports = <<>> /\ successful = {}
      BY <1>1, <2>1, <2>5 DEF CleanEnd
    <3> QED BY <1>3, <2>1, <2>2, <3>1 DEF CleanSession, CleanEnd, OkWaits
  <2> QED BY <2>3, <2>4, <2>5
<1> QED BY <1>6, <1>7, <1>8, <1>10, <1>11, <1>12, <1>13, <1>14 DEF Packer

-----------------------------------------------------------------------------
(* The session                                                             *)

\* What the other threads do leaves the tape and the reports alone.
LEMMA TapeSideKept ==
  ASSUME SessionInv, UNCHANGED <<reports, tapeVars, packerVars>>, TapeTaken' = TapeTaken
  PROVE  /\ TapeOK' /\ PackerOK' /\ TapePosition' /\ ReportsTrue' /\ ReportedOnce' /\ FlushCovers'
         /\ (CleanSession => CleanSession') /\ (CleanEnd => CleanEnd')
<1>1. UNCHANGED <<tape, tapeFile, after, lastFSeq, files, onTape, safe, abandoned, packer,
                  errorHappened, successful, skipped, tapeFull, reported, failed, lostAnswer>>
  BY DEF tapeVars, packerVars
<1>2. TapeOK' /\ PackerOK'
  BY <1>1 DEF SessionInv, TypeOK, TapeOK, PackerOK
<1>3. TapePosition'
  BY <1>1 DEF SessionInv, TapePosition, AfterMatches, TapeActive, Writing, OnTape
<1>4. ReportsTrue' /\ ReportedOnce' /\ FlushCovers'
  BY <1>1 DEF SessionInv, ReportsTrue, ReportedOnce, FlushCovers, OnTape, LeftPartial, ReportIs
<1>5. (CleanSession => CleanSession') /\ (CleanEnd => CleanEnd')
  BY <1>1 DEF CleanSession, CleanEnd, OkWaits, ReportIs
<1> QED BY <1>2, <1>3, <1>4, <1>5

\* The session starts in order.
LEMMA SessionInit == Init => SessionInv
<1> SUFFICES ASSUME Init PROVE SessionInv
  OBVIOUS
<1> USE MigrationAssumption
<1>1. PICK k \in 1..2 * MaxFiles :
        /\ k <= NbFiles /\ next = k + 1 /\ tapeTasks = FilesFrom(1, k)
        /\ clients = FilesFrom(1, k) /\ diskTasks = FilesFrom(1, k)
  BY DEF Init
<1>2. k \in Nat /\ k >= 1
  OBVIOUS
<1>3. /\ FilesFrom(1, k) \in Seq(Files) /\ Len(FilesFrom(1, k)) = k
      /\ \A i \in 1..k : FilesFrom(1, k)[i] = i
  BY <1>1, <1>2, FilesFromIs
<1>q. PICK q : q = FilesFrom(1, k)
  OBVIOUS
<1>4. /\ q \in Seq(Files) /\ Len(q) = k /\ (\A i \in 1..k : q[i] = i)
      /\ q \in Seq(Files \union {End})
      /\ tapeTasks = q /\ clients = q /\ diskTasks = q
  BY <1>1, <1>3, <1>q
<1>5. QueuesOK
  <2>1. requests \in Seq({"more", "last", "end"}) /\ batch \in Seq(Files) /\ inj = "check"
    BY DEF Init
  <2>2. wrapUp \in BOOLEAN
    BY DEF Init
  <2>3. next \in 1..NbFiles + 1
    BY <1>1, <1>2
  <2> QED BY <1>4, <2>1, <2>2, <2>3 DEF QueuesOK
<1>6. PipesOK /\ pool = NbBlocks
  <2>1. \A f \in Files : Len(data[f]) = 0
    BY DEF Init
  <2> QED BY <2>1 DEF Init, PipesOK, Pushed
<1>7. DisksOK /\ TapeOK /\ PackerOK
  <2>1. errorFlag \in BOOLEAN /\ crashed \in BOOLEAN /\ errorHappened \in BOOLEAN
        /\ tapeFull \in BOOLEAN
    BY DEF Init
  <2>2. DisksOK
    BY <2>1 DEF Init, DisksOK
  <2>3. onTape \in Seq(Files \X {"partial", "file", "placeholder"}) /\ Len(onTape) = 0
    BY DEF Init
  <2>4. TapeOK
    BY <2>3 DEF Init, TapeOK
  <2>5. PackerOK
    BY <2>1 DEF Init, PackerOK
  <2> QED BY <2>2, <2>4, <2>5
<1>8. Injected = k /\ Marks = 0 /\ batch = <<>> /\ Len(batch) = 0
  BY <1>1, <1>2 DEF Init, Injected, Marks
<1>9. InLine(q, 0) = k
  BY <1>2, <1>4 DEF InLine
<1>10. InOrder(q, k, 0) /\ Taken(q, k, 0) = 0
  BY <1>2, <1>4, <1>9 DEF InOrder, Taken
<1>11. TasksInOrder /\ TapeTaken = 0 /\ MmTaken = 0
  BY <1>1, <1>2, <1>4, <1>8, <1>10 DEF Init, TasksInOrder, TapeTaken, MmTaken
<1>12. BlocksAccounted
  <2>1. Out = {}
    BY DEF Out, Init
  <2>2. Cardinality(Out) = 0
    BY <2>1, FS_EmptySet
  <2>3. PoolCounted
    <3>1. \A f \in Files : Pushed(f) + ready[f] = provided[f]
      BY DEF Init, Pushed
    <3> QED BY <1>6, <2>2, <3>1 DEF PoolCounted
  <2> QED BY <1>11, <2>3 DEF BlocksAccounted, Init, Files
<1>13. TapePosition
  BY <1>11 DEF Init, TapePosition, AfterMatches, TapeActive, Writing
<1>14. ReportsTrue /\ ReportedOnce /\ FlushCovers /\ CleanPipes /\ CleanSession /\ CleanEnd
  BY <1>11 DEF Init, ReportsTrue, ReportedOnce, FlushCovers, CleanPipes, CleanSession, CleanEnd,
               ReportIs, OkWaits
<1> QED BY <1>5, <1>6, <1>7, <1>11, <1>12, <1>13, <1>14 DEF SessionInv, TypeOK

\* Every step of every thread keeps the session in order.
LEMMA SessionStep == SessionInv /\ [Next]_vars => SessionInv'
<1> SUFFICES ASSUME SessionInv, [Next]_vars PROVE SessionInv'
  OBVIOUS
<1>0. TypeOK /\ TasksInOrder /\ BlocksAccounted
      /\ (faults = 0 => CleanPipes /\ CleanSession /\ CleanEnd)
  BY DEF SessionInv
<1>1. CASE Injector
  <2>1. /\ QueuesOK' /\ TasksInOrder' /\ TapeTaken' = TapeTaken /\ MmTaken' = MmTaken
        /\ InjectorFrame /\ FaultsGrow
    BY <1>0, <1>1, InjectorStep
  <2>2. UNCHANGED <<need, errorFlag, reports, pool, provided, ready, data, popped, mm, mmFile, disk,
                    diskFile, diskBlock, doubled, tapeVars, packerVars, crashed, tape, tapeFile,
                    abandoned>>
    BY <2>1 DEF InjectorFrame, pipes, mmVars, diskVars, tapeVars
  <2>3. PipesOK' /\ DisksOK' /\ Out' = Out
    BY <1>0, <2>1, <2>2 DEF TypeOK, PipesOK, DisksOK, Pushed, FaultsGrow, Out
  <2>4. BlocksAccounted'
    BY <1>0, <2>1, <2>2, <2>3 DEF BlocksAccounted, TapeActive, PoolCounted, Pushed
  <2>5. CleanPipes => CleanPipes'
    BY <2>2 DEF CleanPipes
  <2> QED BY <1>0, <2>1, <2>2, <2>3, <2>4, <2>5, TapeSideKept DEF SessionInv, TypeOK, FaultsGrow
<1>2. CASE MemoryManager
  <2>1. /\ QueuesOK' /\ PipesOK' /\ TasksInOrder' /\ BlocksAccounted' /\ TapeTaken' = TapeTaken
        /\ TapeFrameOnly /\ UNCHANGED <<errorFlag, diskVars, data, faults, crashed>>
    BY <1>0, <1>2, MemoryManagerStep
  <2>2. UNCHANGED <<reports, tapeVars, packerVars, disk, diskFile, diskBlock, doubled>>
    BY <2>1 DEF TapeFrameOnly, diskVars
  <2>3. DisksOK'
    BY <1>0, <2>1, <2>2 DEF TypeOK, DisksOK
  <2>4. CleanPipes => CleanPipes'
    BY <2>1, <2>2 DEF CleanPipes
  <2> QED BY <1>0, <2>1, <2>2, <2>3, <2>4, TapeSideKept DEF SessionInv, TypeOK
<1>3. ASSUME NEW d \in DiskThreads, DiskReader(d) PROVE SessionInv'
  <2>1. /\ QueuesOK' /\ PipesOK' /\ DisksOK' /\ TasksInOrder' /\ BlocksAccounted'
        /\ TapeTaken' = TapeTaken /\ TapeFrameOnly /\ FaultsGrow
        /\ faults' = 0 /\ CleanPipes => CleanPipes'
    BY <1>0, <1>3, DiskReaderStep
  <2>2. UNCHANGED <<reports, tapeVars, packerVars>>
    BY <2>1 DEF TapeFrameOnly
  <2> QED BY <1>0, <2>1, <2>2, TapeSideKept DEF SessionInv, TypeOK, FaultsGrow
<1>4. CASE TapeThread
  BY <1>4, MountTapeStep, PopTaskStep, WriteBlockStep, WriteErrorStep, CloseFileStep,
     CirculateMemBlocksStep, HandlerDoneStep, FlushStep, TapeCleaningStep, DrainTaskStep
     DEF TapeThread
<1>5. CASE Packer
  BY <1>5, PackerStep
<1>6. CASE UseDestroyedTask \/ UNCHANGED vars
  <2>1. /\ UNCHANGED <<need, next, errorFlag, requests, clients, diskTasks, tapeTasks, reports, pool,
                       provided, ready, data, popped, inj, batch, wrapUp, mm, mmFile, disk, diskFile,
                       diskBlock, doubled, tapeVars, packerVars, faults, tape, tapeFile, after,
                       abandoned>>
        /\ crashed' = TRUE \/ crashed' = crashed
    BY <1>6 DEF UseDestroyedTask, vars, queues, pipes, mmVars, diskVars, tapeVars, packerVars
  <2>2. Injected' = Injected /\ Marks' = Marks /\ TapeTaken' = TapeTaken /\ MmTaken' = MmTaken
        /\ Out' = Out
    BY <2>1 DEF Injected, Marks, TapeTaken, MmTaken, Out
  <2>3. QueuesOK' /\ TasksInOrder'
    BY <1>0, <2>1, <2>2 DEF TypeOK, QueuesOK, TasksInOrder
  <2>4. PipesOK' /\ BlocksAccounted'
    BY <1>0, <2>1, <2>2 DEF TypeOK, PipesOK, Pushed, BlocksAccounted, TapeActive,
                                PoolCounted
  <2>5. crashed' \in BOOLEAN
    <3>1. CASE crashed' = TRUE
      BY <3>1
    <3>2. CASE crashed' = crashed
      BY <1>0, <3>2 DEF TypeOK, DisksOK
    <3> QED BY <2>1, <3>1, <3>2
  <2>6. DisksOK'
    BY <1>0, <2>1, <2>5 DEF TypeOK, DisksOK
  <2>7. CleanPipes => CleanPipes'
    BY <2>1 DEF CleanPipes
  <2> QED BY <1>0, <2>1, <2>2, <2>3, <2>4, <2>6, <2>7, TapeSideKept DEF SessionInv, TypeOK
<1> QED BY <1>1, <1>2, <1>3, <1>4, <1>5, <1>6 DEF Next

LEMMA SessionInvariant == Spec => []SessionInv
  BY SessionInit, SessionStep, PTL DEF Spec

\* The variables keep their types: the pool neither overflows nor runs below zero, and no
\* pipeline gets more blocks than its file needs.
THEOREM TypeCorrect == Spec => []TypeOK
<1>1. SessionInv => TypeOK
  BY DEF SessionInv
<1> QED BY <1>1, SessionInvariant, PTL

\* A file is reported as archived only when it is complete on tape at the place of its
\* fSeq and the drive was flushed since.
THEOREM FlushedBeforeReportedCorrect == Spec => []FlushedBeforeReported
<1>1. SessionInv => FlushedBeforeReported
  BY DEF SessionInv, FlushedBeforeReported, FlushCovers, ReportsTrue, OnTape
<1> QED BY <1>1, SessionInvariant, PTL

\* No file is both in the catalogue and given back as failed, but for those whose record
\* was committed by a call that threw.
THEOREM OneOutcomeCorrect == Spec => []OneOutcome
<1>1. SessionInv => OneOutcome
  BY DEF SessionInv, OneOutcome, ReportedOnce
<1> QED BY <1>1, SessionInvariant, PTL

\* A file the packer takes for skipped has its placeholder on tape.
THEOREM SkippedHasPlaceholderCorrect == Spec => []SkippedHasPlaceholder
<1>1. SessionInv => SkippedHasPlaceholder
  BY DEF SessionInv, SkippedHasPlaceholder, ReportsTrue, OnTape
<1> QED BY <1>1, SessionInvariant, PTL

\* When the session ends, the pool has all its blocks again, unless a task was destroyed
\* with blocks in flight or a short read pushed a block twice.
THEOREM BlocksComeBackCorrect == Spec => []BlocksComeBack
<1>1. ASSUME SessionInv, Ended, abandoned = {}, doubled = {} PROVE pool = NbBlocks
  <2>1. /\ tape = "done" /\ TypeOK /\ TasksInOrder /\ BlocksAccounted /\ PoolCounted
    BY <1>1 DEF SessionInv, Ended, BlocksAccounted
  <2>2. tapeTasks = <<>> /\ Marks = 1
    BY <2>1 DEF TasksInOrder
  <2>3. Injected \in Nat
    BY <2>1, InjectorNumbers
  <2>4. TapeTaken = Injected
    BY <2>2, <2>3 DEF TapeTaken, Taken, InLine
  <2>5. MmTaken <= Injected /\ MmTaken \in Int
    BY <2>1, <2>2, <2>3 DEF MmTaken, Taken, InLine, TypeOK, QueuesOK
  <2>6. ASSUME NEW f \in Files PROVE popped[f] \in Nat /\ popped[f] = provided[f]
    <3>1. /\ popped[f] \in Nat /\ provided[f] \in Nat /\ need[f] \in Nat /\ f \in Nat
          /\ popped[f] <= provided[f] /\ provided[f] <= need[f]
      <4>1. PICK p \in Nat, l \in Nat, r \in Nat, q \in Nat :
               p = popped[f] /\ l = Len(data[f]) /\ r = ready[f] /\ q = provided[f]
        BY <2>1, Pipe DEF TypeOK
      <4>2. p + l + r = q
        BY <2>1, <4>1 DEF PoolCounted, Pushed
      <4>3. p <= q
        BY <4>2
      <4> QED BY <2>1, <4>1, <4>3, MigrationAssumption DEF TypeOK, PipesOK, Files
    <3>2. CASE f <= TapeTaken
      <4>1. popped[f] = need[f]
        BY <1>1, <2>1, <3>2 DEF BlocksAccounted, TapeActive
      <4> QED BY <3>1, <4>1
    <3>3. CASE f > TapeTaken
      <4>1. provided[f] = 0
        BY <2>1, <2>3, <2>4, <2>5, <3>1, <3>3 DEF BlocksAccounted
      <4> QED BY <3>1, <4>1
    <3> QED BY <2>3, <2>4, <3>1, <3>2, <3>3
  <2>7. Out = {}
    BY <2>6, MigrationAssumption DEF Out
  <2>8. Cardinality(Out) = 0
    BY <2>7, FS_EmptySet
  <2> QED BY <2>1, <2>8, MigrationAssumption DEF PoolCounted, TypeOK, PipesOK
<1>2. SessionInv => BlocksComeBack
  BY <1>1 DEF BlocksComeBack
<1> QED BY <1>2, SessionInvariant, PTL

\* A session without an error reports every file it has taken.
THEOREM CleanSessionReportsAllCorrect == Spec => []CleanSessionReportsAll
<1>1. ASSUME SessionInv, Ended, faults = 0 PROVE reported = 1..next - 1
  <2>1. /\ tape = "done" /\ packer = "done" /\ inj = "done" /\ TypeOK /\ TasksInOrder
        /\ ReportsTrue /\ CleanSession /\ CleanEnd
    BY <1>1 DEF SessionInv, Ended
  <2>2. tapeTasks = <<>> /\ batch = <<>> /\ successful = {} /\ reports = <<>>
    BY <2>1 DEF TasksInOrder, CleanEnd
  <2>3. next \in Nat /\ Injected = next - 1
    BY <2>1, <2>2 DEF TypeOK, QueuesOK, Injected
  <2>4. Len(onTape) = next - 1
    BY <2>1, <2>2, <2>3 DEF CleanSession, TapeTaken, Taken, InLine
  <2>5. lastFSeq = next - 1
    BY <2>1, <2>4 DEF CleanSession
  <2>6. \A f \in 1..lastFSeq : f \in reported
    BY <2>1, <2>2 DEF CleanSession, OkWaits
  <2>7. \A f \in reported : f \in Nat /\ f >= 1 /\ f <= Len(onTape)
    BY <2>1, MigrationAssumption DEF ReportsTrue, OnTape, TypeOK, PackerOK, Files
  <2>8. \A f \in 1..next - 1 : f \in reported
    BY <2>5, <2>6
  <2>9. \A f \in reported : f \in 1..next - 1
    BY <2>3, <2>4, <2>7
  <2> QED BY <2>8, <2>9
<1>2. SessionInv => CleanSessionReportsAll
  BY <1>1 DEF CleanSessionReportsAll
<1> QED BY <1>2, SessionInvariant, PTL
=============================================================================
