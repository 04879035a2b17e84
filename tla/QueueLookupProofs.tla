------------------------- MODULE QueueLookupProofs -------------------------
(***************************************************************************)
(* The queue the root entry points to is the only one, and holds all jobs, *)
(* and a look-up that nobody interferes with needs at most three attempts, *)
(* for every number of threads, calls and faults.                          *)
(***************************************************************************)
EXTENDS QueueLookup, TLAPS

\* One thread at a time works on the root entry.
OneRoot == \A t, u \in Threads : HoldsRoot(t) /\ HoldsRoot(u) => t = u

\* A thread has a queue locked.
Locked(t) == pc[t] = "locked" \/ Entangled(t)

\* What a thread knows at each step in which it holds a lock.
StepInv ==
    \A t \in Threads :
        /\ Locked(t) => at[t] = root /\ root \in queues
        /\ pc[t] = "insert" => at[t] = root /\ root \in Addresses /\ root \notin queues
        /\ pc[t] = "dereference" => root \notin queues

\* One thread at a time works on the queue.
OneLocked == \A t, u \in Threads : Locked(t) /\ Locked(u) => t = u

LookupInv == TypeOK /\ OneRoot /\ StepInv /\ OneLocked /\ NoOrphanQueue /\ JobsReachable

\* The variables that only one thread changes keep their types.
Others ==
    /\ purpose \in [Threads -> {"add", "pop", "trim"}]
    /\ attempt \in [Threads -> Nat]
    /\ disturbed \in [Threads -> BOOLEAN]
    /\ calls \in Nat
    /\ faults \in Nat

\* A thread that moves leaves the others where they are.
LEMMA Moves ==
  ASSUME TypeOK, NEW t \in Threads, NEW l \in Steps, NEW q \in Addresses \cup {NoQueue},
         GotoWith(t, l, q)
  PROVE  /\ pc' \in [Threads -> Steps]
         /\ at' \in [Threads -> Addresses \cup {NoQueue}]
         /\ pc'[t] = l /\ at'[t] = q
         /\ \A u \in Threads : u # t => pc'[u] = pc[u] /\ at'[u] = at[u]
  BY DEF TypeOK, GotoWith

\* A step that takes no lock and changes nothing in the store.
LEMMA QuietMove ==
  ASSUME LookupInv, NEW t \in Threads, NEW l \in Steps, NEW q \in Addresses \cup {NoQueue},
         GotoWith(t, l, q), UNCHANGED store, Others',
         l \notin {"insert", "locked", "remove", "dereference"}, l = "clean" => q = NoQueue
  PROVE  LookupInv'
<1>1. /\ pc' \in [Threads -> Steps]
      /\ at' \in [Threads -> Addresses \cup {NoQueue}]
      /\ pc'[t] = l /\ at'[t] = q
      /\ \A u \in Threads : u # t => pc'[u] = pc[u] /\ at'[u] = at[u]
  BY Moves DEF LookupInv
<1>2. TypeOK'
  BY <1>1 DEF LookupInv, TypeOK, Others, store
<1>3. OneRoot' /\ StepInv' /\ OneLocked'
  BY <1>1 DEF LookupInv, OneRoot, HoldsRoot, StepInv, OneLocked, Locked, Entangled, store
<1>4. NoOrphanQueue' /\ JobsReachable'
  BY DEF LookupInv, NoOrphanQueue, JobsReachable, store
<1> QED BY <1>2, <1>3, <1>4 DEF LookupInv

\* After a failure a thread looks again or ends its call.
LEMMA RetryMoves ==
  ASSUME TypeOK, NEW t \in Threads, Retry(t)
  PROVE  attempt' \in [Threads -> Nat] /\ \E l \in {"look", "idle"} : Goto(t, l)
  BY DEF TypeOK, Retry, Goto

LEMMA AfterRemovalMoves ==
  ASSUME TypeOK, NEW t \in Threads, AfterRemoval(t)
  PROVE  attempt' \in [Threads -> Nat] /\ \E l \in {"look", "idle"} : Goto(t, l)
<1>1. CASE Retry(t)
  BY <1>1, RetryMoves
<1>2. CASE ~ Retry(t)
  BY <1>2 DEF AfterRemoval, TypeOK
<1> QED BY <1>1, <1>2

LEMMA DisturbTyped ==
  ASSUME TypeOK, NEW t \in Threads, Disturb(t)
  PROVE  disturbed' \in [Threads -> BOOLEAN]
  BY DEF TypeOK, Disturb

\* The address of a new queue.
LEMMA FreshQueue ==
  ASSUME TypeOK, Fresh # {}
  PROVE  (CHOOSE q \in Fresh : TRUE) \in Addresses \ queues
<1> DEFINE q == CHOOSE x \in Fresh : TRUE
<1>1. q \in Fresh
  BY Zenon
<1> QED BY <1>1 DEF Fresh

\* Creating a queue: the pointer, then the object.
LEMMA CreationStep ==
  ASSUME LookupInv, NEW t \in Threads, AddPointer(t) \/ InsertQueue(t)
  PROVE  LookupInv'
<1> USE AddressAssumption DEF LookupInv
<1>1. CASE AddPointer(t)
  <2>1. root' \in Addresses \ queues
    BY <1>1, FreshQueue DEF AddPointer
  <2>2. /\ GotoWith(t, "insert", root')
        /\ UNCHANGED <<queues, content, queued, purpose, attempt, calls, faults>>
        /\ RootFree /\ root = NoQueue
    BY <1>1 DEF AddPointer
  <2>3. /\ pc' \in [Threads -> Steps]
        /\ at' \in [Threads -> Addresses \cup {NoQueue}]
        /\ pc'[t] = "insert" /\ at'[t] = root'
        /\ \A u \in Threads : u # t => pc'[u] = pc[u] /\ at'[u] = at[u]
    <3>1. "insert" \in Steps /\ root' \in Addresses \cup {NoQueue}
      BY <2>1 DEF Steps
    <3> HIDE DEF LookupInv
    <3>2. TypeOK
      BY DEF LookupInv
    <3> QED BY <2>2, <3>1, <3>2, Moves
  <2>4. disturbed' \in [Threads -> BOOLEAN]
    BY <1>1, DisturbTyped DEF AddPointer
  <2>5. TypeOK'
    BY <2>1, <2>2, <2>3, <2>4 DEF TypeOK
  <2>6. queues = {}
    BY <2>2 DEF TypeOK, NoOrphanQueue
  <2>7. OneRoot' /\ StepInv' /\ OneLocked'
    BY <2>1, <2>2, <2>3, <2>6 DEF OneRoot, RootFree, HoldsRoot, StepInv, OneLocked, Locked, Entangled
  <2>8. NoOrphanQueue' /\ JobsReachable'
    BY <2>2, <2>6 DEF NoOrphanQueue, JobsReachable
  <2> QED BY <2>5, <2>7, <2>8
<1>2. CASE InsertQueue(t)
  <2>1. /\ pc[t] = "insert" /\ at[t] = root /\ root \in Addresses /\ root \notin queues
        /\ queues' = queues \cup {root}
        /\ content' = [content EXCEPT ![root] = 0]
        /\ GotoWith(t, "lock", root)
        /\ UNCHANGED <<root, queued, purpose, attempt, calls, faults>>
    BY <1>2 DEF InsertQueue, StepInv
  <2>2. /\ pc' \in [Threads -> Steps]
        /\ at' \in [Threads -> Addresses \cup {NoQueue}]
        /\ pc'[t] = "lock"
        /\ \A u \in Threads : u # t => pc'[u] = pc[u] /\ at'[u] = at[u]
    <3>1. "lock" \in Steps /\ TypeOK
      BY DEF Steps
    <3> HIDE DEF LookupInv
    <3> QED BY <2>1, <3>1, Moves
  <2>3. disturbed' \in [Threads -> BOOLEAN]
    BY <1>2, DisturbTyped DEF InsertQueue
  <2>4. TypeOK'
    BY <2>1, <2>2, <2>3 DEF TypeOK
  <2>5. \A u \in Threads : u # t => ~ HoldsRoot(u) /\ ~ Locked(u)
    BY <2>1 DEF OneRoot, HoldsRoot, StepInv, Locked
  <2>6. OneRoot' /\ StepInv' /\ OneLocked'
    BY <2>1, <2>2, <2>5 DEF OneRoot, HoldsRoot, StepInv, OneLocked, Locked, Entangled
  <2>7. NoOrphanQueue' /\ JobsReachable'
    BY <2>1 DEF TypeOK, NoOrphanQueue, JobsReachable
  <2> QED BY <2>4, <2>6, <2>7
<1> QED BY <1>1, <1>2

\* The queue is locked and cannot be fetched: the third case of StoreError().
FetchFails(t) ==
    /\ pc[t] = "lock" /\ at[t] \in queues /\ QueueFree(at[t])
    /\ GotoWith(t, "clean", at[t])
    /\ disturbed' = [disturbed EXCEPT ![t] = TRUE]
    /\ faults < MaxFaults /\ faults' = faults + 1
    /\ UNCHANGED <<store, purpose, attempt, calls>>

\* Working on the locked queue.
LEMMA QueueStep ==
  ASSUME LookupInv, NEW t \in Threads,
         LockQueue(t) \/ FetchFails(t) \/ AddJob(t) \/ PopJobs(t)
  PROVE  LookupInv'
<1>t. TypeOK /\ "locked" \in Steps /\ "idle" \in Steps /\ "clean" \in Steps
  BY DEF LookupInv, Steps
<1>1. CASE LockQueue(t) \/ FetchFails(t)
  <2>0. PICK l \in {"locked", "clean"} :
        /\ at[t] = root /\ root \in queues /\ QueueFree(root)
        /\ GotoWith(t, l, root)
    BY <1>1 DEF LookupInv, LockQueue, FetchFails, NoOrphanQueue
  <2>1. /\ UNCHANGED <<store, purpose, attempt, calls>>
        /\ disturbed' \in [Threads -> BOOLEAN] /\ faults' \in Nat
    <3>1. UNCHANGED <<store, purpose, attempt, calls>>
      BY <1>1 DEF LockQueue, FetchFails
    <3>2. CASE LockQueue(t)
      BY <1>t, <3>2 DEF LockQueue, TypeOK
    <3>3. CASE FetchFails(t)
      <4>1. faults' = faults + 1 /\ disturbed' = [disturbed EXCEPT ![t] = TRUE]
        BY <3>3 DEF FetchFails
      <4> QED BY <1>t, <3>1, <4>1 DEF TypeOK
    <3> QED BY <1>1, <3>1, <3>2, <3>3
  <2>2. /\ pc' \in [Threads -> Steps]
        /\ at' \in [Threads -> Addresses \cup {NoQueue}]
        /\ pc'[t] = l /\ at'[t] = root
        /\ \A u \in Threads : u # t => pc'[u] = pc[u] /\ at'[u] = at[u]
    BY <1>t, <2>0, Moves DEF TypeOK
  <2>3. \A u \in Threads : ~ Locked(u)
    BY <2>0 DEF LookupInv, StepInv, Locked, Entangled, QueueFree, HoldsQueue
  <2>4. TypeOK'
    BY <1>t, <2>1, <2>2 DEF TypeOK, store
  <2>5. OneRoot' /\ StepInv' /\ OneLocked'
    BY <2>0, <2>1, <2>2, <2>3 DEF LookupInv, OneRoot, HoldsRoot, StepInv, OneLocked, Locked, Entangled, store
  <2>6. NoOrphanQueue' /\ JobsReachable'
    BY <2>1 DEF LookupInv, NoOrphanQueue, JobsReachable, store
  <2> QED BY <2>4, <2>5, <2>6 DEF LookupInv
<1>2. CASE AddJob(t) \/ PopJobs(t)
  <2>1. at[t] = root /\ root \in queues /\ root \in Addresses /\ pc[t] = "locked"
    <3>1. pc[t] = "locked"
      BY <1>2 DEF AddJob, PopJobs
    <3>2. at[t] = root /\ root \in queues
      BY <3>1 DEF LookupInv, StepInv, Locked
    <3> QED BY <1>t, <3>1, <3>2 DEF TypeOK
  <2>2. content[root] \in Nat /\ queued = content[root]
    BY <2>1 DEF LookupInv, TypeOK, JobsReachable
  <2>3. /\ UNCHANGED <<root, queues, attempt, disturbed, calls, faults>>
        /\ \E l \in {"idle", "clean"} : Goto(t, l)
        /\ purpose' \in [Threads -> {"add", "pop", "trim"}]
    BY <1>2 DEF LookupInv, TypeOK, AddJob, PopJobs
  <2>4. \E n \in Nat : content' = [content EXCEPT ![root] = n] /\ queued' = n
    <3>1. CASE AddJob(t)
      <4>1. content' = [content EXCEPT ![root] = content[root] + 1] /\ queued' = queued + 1
        BY <1>t, <2>1, <3>1 DEF TypeOK, AddJob
      <4>2. queued + 1 \in Nat /\ content[root] + 1 = queued + 1
        BY <2>2
      <4> QED BY <4>1, <4>2
    <3>2. CASE PopJobs(t)
      <4>1. PICK left \in 0 .. content[root] :
              /\ content' = [content EXCEPT ![root] = left]
              /\ queued' = queued - (content[root] - left)
        BY <2>1, <3>2 DEF PopJobs
      <4>2. left \in Nat /\ queued' = left
        BY <2>2, <4>1
      <4> QED BY <4>1, <4>2
    <3> QED BY <1>2, <3>1, <3>2
  <2>5. PICK l \in {"idle", "clean"} : GotoWith(t, l, NoQueue)
    BY <2>3 DEF Goto
  <2>6. /\ pc' \in [Threads -> Steps]
        /\ at' \in [Threads -> Addresses \cup {NoQueue}]
        /\ pc'[t] = l /\ at'[t] = NoQueue
        /\ \A u \in Threads : u # t => pc'[u] = pc[u] /\ at'[u] = at[u]
    BY <1>t, <2>5, Moves
  <2>7. TypeOK'
    BY <1>t, <2>3, <2>4, <2>6 DEF TypeOK
  <2>8. OneRoot' /\ StepInv' /\ OneLocked'
    BY <2>3, <2>5, <2>6 DEF LookupInv, OneRoot, HoldsRoot, StepInv, OneLocked, Locked, Entangled
  <2>9. NoOrphanQueue' /\ JobsReachable'
    BY <1>t, <2>1, <2>3, <2>4 DEF LookupInv, TypeOK, NoOrphanQueue, JobsReachable
  <2> QED BY <2>7, <2>8, <2>9 DEF LookupInv
<1> QED BY <1>1, <1>2

\* Removing a queue: the lock of the root entry, the object, then the pointer.
LEMMA RemovalStep ==
  ASSUME LookupInv, NEW t \in Threads, LockRoot(t) \/ RemoveQueue(t) \/ Dereference(t)
  PROVE  LookupInv'
<1>t. TypeOK /\ "remove" \in Steps /\ "dereference" \in Steps /\ "look" \in Steps /\ "idle" \in Steps
  BY DEF LookupInv, Steps
<1>1. CASE LockRoot(t) /\ root # NoQueue
  <2>1. /\ pc[t] = "clean" /\ GotoWith(t, "remove", at[t]) /\ RootFree
        /\ UNCHANGED <<store, purpose, attempt, disturbed, calls, faults>>
    BY <1>1 DEF LockRoot
  <2>2. /\ pc' \in [Threads -> Steps]
        /\ at' \in [Threads -> Addresses \cup {NoQueue}]
        /\ pc'[t] = "remove" /\ at'[t] = at[t]
        /\ \A u \in Threads : u # t => pc'[u] = pc[u] /\ at'[u] = at[u]
    BY <1>t, <2>1, Moves DEF TypeOK
  <2>3. TypeOK'
    BY <1>t, <2>1, <2>2 DEF TypeOK, store
  <2>4. OneRoot' /\ StepInv' /\ OneLocked'
    BY <2>1, <2>2 DEF LookupInv, OneRoot, RootFree, HoldsRoot, StepInv, OneLocked, Locked, Entangled, store
  <2>5. NoOrphanQueue' /\ JobsReachable'
    BY <2>1 DEF LookupInv, NoOrphanQueue, JobsReachable, store
  <2> QED BY <2>3, <2>4, <2>5 DEF LookupInv
<1>2. CASE LockRoot(t) /\ root = NoQueue
  <2>1. AfterRemoval(t) /\ UNCHANGED <<store, purpose, disturbed, calls, faults>>
    BY <1>2 DEF LockRoot
  <2>2. attempt' \in [Threads -> Nat] /\ \E l \in {"look", "idle"} : GotoWith(t, l, NoQueue)
    BY <1>t, <2>1, AfterRemovalMoves DEF Goto
  <2>3. Others'
    BY <1>t, <2>1, <2>2 DEF TypeOK, Others
  <2> QED BY <1>t, <2>1, <2>2, <2>3, QuietMove
<1>3. CASE RemoveQueue(t)
  <2>1. /\ pc[t] = "remove"
        /\ root \notin queues \/ (QueueFree(root) /\ content[root] = 0)
        /\ queues' = queues \ {root}
        /\ GotoWith(t, "dereference", NoQueue)
        /\ UNCHANGED <<root, content, queued, purpose, attempt, calls, faults>>
    BY <1>3 DEF RemoveQueue, Removable, Goto
  <2>2. /\ pc' \in [Threads -> Steps]
        /\ at' \in [Threads -> Addresses \cup {NoQueue}]
        /\ pc'[t] = "dereference" /\ at'[t] = NoQueue
        /\ \A u \in Threads : u # t => pc'[u] = pc[u] /\ at'[u] = at[u]
    BY <1>t, <2>1, Moves
  <2>3. disturbed' \in [Threads -> BOOLEAN]
    BY <1>t, <1>3, DisturbTyped DEF RemoveQueue
  <2>4. TypeOK'
    BY <1>t, <2>1, <2>2, <2>3 DEF TypeOK
  <2>5. \A u \in Threads : ~ Locked(u) /\ (u # t => ~ HoldsRoot(u))
    BY <2>1 DEF LookupInv, OneRoot, HoldsRoot, StepInv, Locked, Entangled, QueueFree, HoldsQueue
  <2>6. OneRoot' /\ StepInv' /\ OneLocked'
    BY <2>1, <2>2, <2>5 DEF OneRoot, HoldsRoot, StepInv, OneLocked, Locked, Entangled
  <2>7. NoOrphanQueue' /\ JobsReachable'
    BY <2>1 DEF LookupInv, NoOrphanQueue, JobsReachable
  <2> QED BY <2>4, <2>6, <2>7 DEF LookupInv
<1>4. CASE Dereference(t)
  <2>1. /\ pc[t] = "dereference" /\ root \notin queues /\ root' = NoQueue
        /\ AfterRemoval(t)
        /\ UNCHANGED <<queues, content, queued, purpose, calls, faults>>
    BY <1>4 DEF LookupInv, StepInv, Dereference
  <2>2. PICK l \in {"look", "idle"} : GotoWith(t, l, NoQueue)
    BY <1>t, <2>1, AfterRemovalMoves DEF Goto
  <2>3. /\ pc' \in [Threads -> Steps]
        /\ at' \in [Threads -> Addresses \cup {NoQueue}]
        /\ pc'[t] = l /\ at'[t] = NoQueue
        /\ \A u \in Threads : u # t => pc'[u] = pc[u] /\ at'[u] = at[u]
    BY <1>t, <2>2, Moves
  <2>4. disturbed' \in [Threads -> BOOLEAN] /\ attempt' \in [Threads -> Nat]
    BY <1>t, <1>4, <2>1, DisturbTyped, AfterRemovalMoves DEF Dereference
  <2>5. TypeOK'
    BY <1>t, <2>1, <2>3, <2>4 DEF TypeOK
  <2>6. queues = {} /\ queued = 0
    BY <2>1 DEF LookupInv, NoOrphanQueue, JobsReachable
  <2>7. \A u \in Threads : ~ Locked(u) /\ (u # t => ~ HoldsRoot(u))
    BY <2>1 DEF LookupInv, OneRoot, HoldsRoot, StepInv, Locked
  <2>8. OneRoot' /\ StepInv' /\ OneLocked'
    BY <2>1, <2>2, <2>3, <2>7 DEF OneRoot, HoldsRoot, StepInv, OneLocked, Locked, Entangled
  <2>9. NoOrphanQueue' /\ JobsReachable'
    BY <2>1, <2>6 DEF NoOrphanQueue, JobsReachable
  <2> QED BY <2>5, <2>8, <2>9 DEF LookupInv
<1> QED BY <1>1, <1>2, <1>3, <1>4

\* The steps that change nothing in the store.
LEMMA LookupStep ==
  ASSUME LookupInv, NEW t \in Threads,
         \/ \E p \in {"add", "pop"} : Begin(t, p)
         \/ FindQueue(t) \/ GetQueue(t) \/ LockFails(t) \/ QueueNotEmpty(t)
         \/ (StoreError(t) /\ ~ FetchFails(t)) \/ Stop(t)
  PROVE  LookupInv'
<1>t. TypeOK /\ {"look", "create", "lock", "clean", "idle"} \subseteq Steps
  BY DEF LookupInv, Steps
<1> SUFFICES /\ UNCHANGED store /\ Others'
             /\ \E l \in {"look", "create", "lock", "clean", "idle"}, q \in Addresses \cup {NoQueue} :
                  GotoWith(t, l, q) /\ (l = "clean" => q = NoQueue)
  BY <1>t, QuietMove
<1>1. CASE \E p \in {"add", "pop"} : Begin(t, p)
  BY <1>t, <1>1 DEF TypeOK, Begin, Others, Goto
<1>2. CASE FindQueue(t) \/ GetQueue(t)
  BY <1>t, <1>2 DEF TypeOK, FindQueue, GetQueue, Others, Goto
<1>3. CASE LockFails(t)
  <2>1. attempt' \in [Threads -> Nat] /\ \E l \in {"look", "clean", "idle"} : Goto(t, l)
    BY <1>t, <1>3, RetryMoves DEF LockFails, TypeOK
  <2> QED BY <1>t, <1>3, <2>1 DEF TypeOK, LockFails, Others, Goto
<1>4. CASE QueueNotEmpty(t)
  <2>1. attempt' \in [Threads -> Nat] /\ \E l \in {"look", "idle"} : Goto(t, l)
    BY <1>t, <1>4, AfterRemovalMoves DEF QueueNotEmpty
  <2> QED BY <1>t, <1>4, <2>1 DEF TypeOK, QueueNotEmpty, Others, Goto
<1>5. CASE StoreError(t) /\ ~ FetchFails(t)
  <2>1. attempt' \in [Threads -> Nat] /\ \E l \in {"look", "clean", "idle"} : Goto(t, l)
    <3>1. CASE Retry(t)
      BY <1>t, <3>1, RetryMoves
    <3>2. CASE ~ Retry(t)
      BY <1>t, <1>5, <3>2 DEF StoreError, FetchFails, TypeOK
    <3> QED BY <3>1, <3>2
  <2>2. disturbed' \in [Threads -> BOOLEAN]
    BY <1>t, <1>5 DEF StoreError, TypeOK
  <2> QED BY <1>t, <1>5, <2>1, <2>2 DEF TypeOK, StoreError, Others, Goto
<1>6. CASE Stop(t)
  BY <1>t, <1>6 DEF TypeOK, Stop, Others, Goto
<1> QED BY <1>1, <1>2, <1>3, <1>4, <1>5, <1>6

LEMMA LookupInductive == Spec => []LookupInv
<1>1. Init => LookupInv
  BY AddressAssumption
     DEF Init, LookupInv, TypeOK, Steps, OneRoot, HoldsRoot, StepInv, OneLocked, Locked, Entangled, NoOrphanQueue,
         JobsReachable
<1>2. LookupInv /\ [Next]_vars => LookupInv'
  <2> SUFFICES ASSUME LookupInv, [Next]_vars PROVE LookupInv'
    OBVIOUS
  <2>1. CASE Next
    BY <2>1, CreationStep, QueueStep, RemovalStep, LookupStep DEF Next, Continue
  <2>2. CASE UNCHANGED vars
    BY <2>2 DEF vars, store, LookupInv, TypeOK, OneRoot, HoldsRoot, StepInv, OneLocked, Locked, Entangled,
                NoOrphanQueue, JobsReachable
  <2> QED BY <2>1, <2>2
<1> QED BY <1>1, <1>2, PTL DEF Spec

\* No queue object is left behind that the root entry does not point to.
THEOREM NoOrphanQueueCorrect == Spec => []NoOrphanQueue
<1>1. LookupInv => NoOrphanQueue
  BY DEF LookupInv
<1> QED BY <1>1, LookupInductive, PTL

\* Every job that was added and not popped is in the queue the root entry points to.
THEOREM JobsReachableCorrect == Spec => []JobsReachable
<1>1. LookupInv => JobsReachable
  BY DEF LookupInv
<1> QED BY <1>1, LookupInductive, PTL

-----------------------------------------------------------------------------
(* Look-ups nobody interferes with                                         *)

\* How far the attempts to add a job have come, at each step.  In the first one the
\* pointer may lead nowhere; the second one removes it; the third one creates a queue.
Progress(t) ==
    /\ pc[t] = "look" => \/ attempt[t] = 0
                         \/ attempt[t] = 1 /\ root # NoQueue /\ root \notin queues
                         \/ attempt[t] = 2 /\ root = NoQueue
    /\ pc[t] = "create" => root = NoQueue
    /\ pc[t] = "lock" =>
         at[t] # NoQueue /\ at[t] = root /\ (attempt[t] = 2 => root \in queues)
    /\ pc[t] = "clean" => attempt[t] = 1 /\ root # NoQueue /\ root \notin queues
    /\ pc[t] = "remove" => attempt[t] = 1 /\ root \notin queues
    /\ pc[t] = "dereference" => attempt[t] = 1

\* As long as nobody has interfered with a call, three attempts are enough.
Undisturbed(t) ==
    disturbed[t] \/ /\ attempt[t] <= 2
                    /\ purpose[t] # "add" => attempt[t] = 0
                    /\ purpose[t] = "trim" => pc[t] \in {"clean", "remove", "dereference", "idle"}
                    /\ purpose[t] = "add" => Progress(t)

\* A step of another thread either leaves the pointer and the queue alone or counts as
\* interference.
LEMMA OthersInterfere ==
  ASSUME TypeOK, NEW t \in Threads, NEW u \in Threads, u # t,
         (\E p \in {"add", "pop"} : Begin(u, p)) \/ Continue(u) \/ StoreError(u) \/ Stop(u),
         Undisturbed(t)
  PROVE  Undisturbed(t)'
<1> USE DEF store, Goto, GotoWith, Retry, AfterRemoval
<1>1. pc'[t] = pc[t] /\ at'[t] = at[t] /\ attempt'[t] = attempt[t] /\ purpose'[t] = purpose[t]
  <2>1. CASE \E p \in {"add", "pop"} : Begin(u, p)
    BY <2>1 DEF TypeOK, Begin
  <2>2. CASE FindQueue(u) \/ GetQueue(u) \/ AddPointer(u) \/ InsertQueue(u) \/ LockQueue(u)
    BY <2>2 DEF TypeOK, FindQueue, GetQueue, AddPointer, InsertQueue, LockQueue
  <2>3. CASE AddJob(u) \/ PopJobs(u)
    BY <2>3 DEF TypeOK, AddJob, PopJobs
  <2>4. CASE LockFails(u) \/ LockRoot(u) \/ RemoveQueue(u)
    BY <2>4 DEF TypeOK, LockFails, LockRoot, RemoveQueue
  <2>5. CASE QueueNotEmpty(u) \/ Dereference(u)
    BY <2>5 DEF TypeOK, QueueNotEmpty, Dereference
  <2>6. CASE StoreError(u) \/ Stop(u)
    BY <2>6 DEF TypeOK, StoreError, Stop
  <2> QED BY <2>1, <2>2, <2>3, <2>4, <2>5, <2>6 DEF Continue
<1>2. \/ disturbed'[t] = disturbed[t] /\ UNCHANGED <<root, queues>>
      \/ Disturb(u)
  <2>1. CASE \E p \in {"add", "pop"} : Begin(u, p)
    BY <2>1 DEF TypeOK, Begin
  <2>2. CASE Continue(u)
    BY <2>2 DEF Continue, FindQueue, GetQueue, AddPointer, InsertQueue, LockQueue, AddJob,
                PopJobs, LockFails, LockRoot, RemoveQueue, QueueNotEmpty, Dereference
  <2>3. CASE StoreError(u) \/ Stop(u)
    BY <2>3 DEF TypeOK, StoreError, Stop
  <2> QED BY <2>1, <2>2, <2>3
<1>3. CASE disturbed'[t] = disturbed[t] /\ UNCHANGED <<root, queues>>
  BY <1>1, <1>3 DEF Undisturbed, Progress
<1>4. CASE Disturb(u)
  <2>1. disturbed'[t] <=> pc[t] # "idle" \/ disturbed[t]
    BY <1>4 DEF Disturb, TypeOK
  <2>2. CASE pc[t] # "idle"
    BY <2>1, <2>2 DEF Undisturbed
  <2>3. CASE pc[t] = "idle"
    BY <1>1, <2>1, <2>3 DEF Undisturbed, Progress
  <2> QED BY <2>2, <2>3
<1> QED BY <1>2, <1>3, <1>4

\* The steps of the thread itself.
LEMMA OwnAttempts ==
  ASSUME LookupInv, NEW t \in Threads,
         (\E p \in {"add", "pop"} : Begin(t, p)) \/ Continue(t) \/ StoreError(t) \/ Stop(t),
         Undisturbed(t)
  PROVE  Undisturbed(t)'
<1> USE DEF store, Goto, GotoWith
<1>t. /\ pc \in [Threads -> Steps] /\ at \in [Threads -> Addresses \cup {NoQueue}]
      /\ purpose \in [Threads -> {"add", "pop", "trim"}] /\ attempt \in [Threads -> Nat]
      /\ disturbed \in [Threads -> BOOLEAN] /\ root \in Addresses \cup {NoQueue}
      /\ attempt[t] \in Nat
  BY DEF LookupInv, TypeOK
<1>r. ASSUME Retry(t)
      PROVE  attempt'[t] = attempt[t] + 1 /\ pc'[t] \in {"look", "idle"}
  BY <1>r, <1>t DEF Retry
<1>1. ASSUME NEW p \in {"add", "pop"}, Begin(t, p) PROVE Undisturbed(t)'
  <2>1. pc'[t] = "look" /\ attempt'[t] = 0 /\ purpose'[t] = p
    BY <1>1, <1>t DEF Begin
  <2> QED BY <2>1 DEF Undisturbed, Progress
<1>2. CASE FindQueue(t)
  <2>1. /\ pc[t] = "look" /\ UNCHANGED <<root, queues, purpose, attempt, disturbed>>
        /\ \/ root # NoQueue /\ pc'[t] = "lock" /\ at'[t] = root
           \/ root = NoQueue /\ pc'[t] \in {"create", "idle"}
    BY <1>2, <1>t DEF FindQueue
  <2> QED BY <1>t, <2>1 DEF Undisturbed, Progress
<1>3. CASE GetQueue(t)
  <2>1. pc[t] = "create" /\ root # NoQueue /\ UNCHANGED <<purpose, attempt, disturbed>>
        /\ pc'[t] = "lock"
    BY <1>3, <1>t DEF GetQueue
  <2> QED BY <2>1 DEF Undisturbed, Progress
<1>4. CASE AddPointer(t)
  <2>1. /\ pc[t] = "create" /\ pc'[t] = "insert" /\ UNCHANGED <<purpose, attempt>>
        /\ disturbed'[t] = disturbed[t]
    BY <1>4, <1>t DEF AddPointer, Disturb
  <2> QED BY <2>1 DEF Undisturbed, Progress
<1>5. CASE InsertQueue(t)
  <2>1. /\ pc[t] = "insert" /\ pc'[t] = "lock" /\ at'[t] = at[t]
        /\ UNCHANGED <<root, purpose, attempt>>
        /\ queues' = queues \cup {at[t]} /\ disturbed'[t] = disturbed[t]
    BY <1>5, <1>t DEF InsertQueue, Disturb
  <2>2. at[t] = root /\ root # NoQueue
    BY <2>1, AddressAssumption DEF LookupInv, StepInv
  <2> QED BY <2>1, <2>2 DEF Undisturbed, Progress
<1>6. CASE LockQueue(t) \/ AddJob(t)
  <2>1. /\ pc[t] \in {"lock", "locked"} /\ pc'[t] \in {"locked", "idle"}
        /\ UNCHANGED <<purpose, attempt, disturbed>>
    BY <1>6, <1>t DEF LockQueue, AddJob
  <2> QED BY <2>1 DEF Undisturbed, Progress
<1>7. CASE PopJobs(t)
  <2>1. /\ purpose[t] = "pop" /\ purpose'[t] \in {"pop", "trim"}
        /\ purpose'[t] = "trim" => pc'[t] = "clean"
        /\ UNCHANGED <<attempt, disturbed>>
    BY <1>7, <1>t DEF PopJobs
  <2> QED BY <2>1 DEF Undisturbed
<1>8. CASE LockFails(t)
  <2>1. /\ pc[t] = "lock" /\ at[t] \notin queues
        /\ UNCHANGED <<root, queues, purpose, disturbed>>
    BY <1>8 DEF LockFails
  <2>2. CASE Cleans(t)
    <3>1. pc'[t] = "clean" /\ UNCHANGED attempt
      BY <1>8, <1>t, <2>2 DEF LockFails
    <3> QED BY <1>t, <2>1, <2>2, <3>1 DEF Undisturbed, Progress, Cleans
  <2>3. CASE ~ Cleans(t)
    <3>1. purpose[t] # "pop" /\ attempt[t] = 0 /\ attempt'[t] = 1 /\ pc'[t] \in {"look", "idle"}
      BY <1>8, <1>r, <1>t, <2>3 DEF LockFails, Cleans
    <3> QED BY <1>t, <2>1, <3>1 DEF Undisturbed, Progress
  <2> QED BY <2>2, <2>3
<1>9. CASE LockRoot(t)
  <2>1. pc[t] = "clean" /\ UNCHANGED <<root, queues, purpose, disturbed>>
    BY <1>9 DEF LockRoot
  <2>2. CASE root = NoQueue
    <3>1. AfterRemoval(t)
      BY <1>9, <2>2 DEF LockRoot
    <3>2. purpose[t] # "add" =>
            UNCHANGED attempt /\ (purpose[t] = "trim" => pc'[t] = "idle")
      BY <1>t, <3>1 DEF AfterRemoval
    <3> QED BY <2>1, <2>2, <3>2 DEF Undisturbed, Progress
  <2>3. CASE root # NoQueue
    <3>1. pc'[t] = "remove" /\ UNCHANGED attempt
      BY <1>9, <1>t, <2>3 DEF LockRoot
    <3> QED BY <2>1, <3>1 DEF Undisturbed, Progress
  <2> QED BY <2>2, <2>3
<1>10. CASE RemoveQueue(t)
  <2>1. /\ pc[t] = "remove" /\ pc'[t] = "dereference" /\ UNCHANGED <<purpose, attempt>>
        /\ disturbed'[t] = disturbed[t]
    BY <1>10, <1>t DEF RemoveQueue, Disturb
  <2> QED BY <2>1 DEF Undisturbed, Progress
<1>11. CASE QueueNotEmpty(t)
  <2>1. /\ pc[t] = "remove" /\ root \in queues /\ AfterRemoval(t)
        /\ UNCHANGED <<purpose, disturbed>>
    BY <1>11 DEF QueueNotEmpty
  <2>2. purpose[t] # "add" =>
          UNCHANGED attempt /\ (purpose[t] = "trim" => pc'[t] = "idle")
    BY <1>t, <2>1 DEF AfterRemoval
  <2> QED BY <2>1, <2>2 DEF Undisturbed, Progress
<1>12. CASE Dereference(t)
  <2>1. /\ pc[t] = "dereference" /\ root' = NoQueue /\ AfterRemoval(t)
        /\ UNCHANGED <<purpose>> /\ disturbed'[t] = disturbed[t]
    BY <1>12, <1>t DEF Dereference, Disturb
  <2>2. CASE purpose[t] = "add"
    <3>1. attempt'[t] = attempt[t] + 1 /\ pc'[t] \in {"look", "idle"}
      BY <1>r, <2>1, <2>2 DEF AfterRemoval
    <3> QED BY <2>1, <2>2, <3>1 DEF Undisturbed, Progress
  <2>3. CASE purpose[t] # "add"
    <3>1. UNCHANGED attempt /\ (purpose[t] = "trim" => pc'[t] = "idle")
      BY <1>t, <2>1, <2>3 DEF AfterRemoval
    <3> QED BY <2>1, <2>3, <3>1 DEF Undisturbed
  <2> QED BY <2>2, <2>3
<1>13. CASE StoreError(t)
  BY <1>13, <1>t DEF StoreError, Undisturbed
<1>14. CASE Stop(t)
  <2>1. pc'[t] = "idle" /\ UNCHANGED <<purpose, attempt, disturbed>>
    BY <1>14, <1>t DEF Stop
  <2> QED BY <2>1 DEF Undisturbed, Progress
<1> QED BY <1>1, <1>2, <1>3, <1>4, <1>5, <1>6, <1>7, <1>8, <1>9, <1>10, <1>11, <1>12, <1>13,
           <1>14 DEF Continue

\* Whatever state crashes have left, a look-up that nobody interferes with needs at most
\* three attempts, for any number of threads and calls.
THEOREM UndisturbedSucceedsCorrect == Spec => []UndisturbedSucceeds
<1> DEFINE Inv == \A t \in Threads : Undisturbed(t)
<1>1. Init => Inv
  <2> SUFFICES ASSUME Init, NEW t \in Threads PROVE Undisturbed(t)
    OBVIOUS
  <2>1. pc[t] = "idle" /\ purpose[t] = "add" /\ attempt[t] = 0
    BY DEF Init
  <2> QED BY <2>1 DEF Undisturbed, Progress
<1>2. LookupInv /\ Inv /\ [Next]_vars => Inv'
  <2> SUFFICES ASSUME LookupInv, Inv, [Next]_vars, NEW t \in Threads PROVE Undisturbed(t)'
    OBVIOUS
  <2>1. CASE UNCHANGED vars
    BY <2>1 DEF vars, store, Undisturbed, Progress
  <2>2. CASE Next
    <3>1. PICK u \in Threads :
            (\E p \in {"add", "pop"} : Begin(u, p)) \/ Continue(u) \/ StoreError(u) \/ Stop(u)
      BY <2>2 DEF Next
    <3>2. CASE u = t
      BY <3>1, <3>2, OwnAttempts
    <3>3. CASE u # t
      <4>1. TypeOK
        BY DEF LookupInv
      <4> QED BY <3>1, <3>3, <4>1, OthersInterfere
    <3> QED BY <3>2, <3>3
  <2> QED BY <2>1, <2>2
<1>3. LookupInv /\ Inv => UndisturbedSucceeds
  <2> SUFFICES ASSUME LookupInv, Inv, NEW t \in Threads, attempt[t] > 2 PROVE disturbed[t]
    BY DEF UndisturbedSucceeds
  <2>1. attempt[t] \in Nat
    BY DEF LookupInv, TypeOK
  <2> QED BY <2>1 DEF Undisturbed
<1> QED BY <1>1, <1>2, <1>3, LookupInductive, PTL DEF Spec
=============================================================================
