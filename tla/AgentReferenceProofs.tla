------------------------ MODULE AgentReferenceProofs ------------------------
(***************************************************************************)
(* Proofs about AgentReference, for every set of threads and of objects    *)
(* and every number of errors and of garbage collectors.                   *)
(***************************************************************************)
EXTENDS AgentReference, TLAPS

-----------------------------------------------------------------------------
(* The inductive invariant                                                 *)

\* The chain of promises: the leader that waits for its turn is the last one, its
\* queue is the open one, and it waits for the leader that is serving.
ChainInv ==
    /\ \A t \in Threads : pc[t] = "turn" => current = t /\ tail = t
    /\ \A t \in Threads : current = t => pc[t] = "turn"
    /\ OneServer
    /\ \A t, u \in Threads : pc[u] \in Serving /\ pc[t] = "turn" => pred[t] = u
    /\ \A u \in Threads : pc[u] \in Serving /\ current = NoThread => tail = u

\* A leader that updates the agent object holds its lock; a collector that has
\* locked the agent has claimed it.
LockInv ==
    /\ lock = Collector => closed
    /\ \A t \in Threads :
         ~ exited /\ pc[t] \in {"own", "batch"} => lock = t /\ ~ closed /\ ~ gone

\* How many threads of the queue of t have been released, and the places in the
\* queue of those that have not.
First(t) == IF pc[t] \in {"token", "release"} THEN next[t] ELSE 0
Left(t) == First(t) + 1 .. Len(queue[t])

\* Only leaders have a queue, and they know their result before they pass the turn.
ResultInv ==
    \A t \in Threads :
        /\ pc[t] \in {"idle", "wait"} => queue[t] = <<>>
        /\ next[t] <= Len(queue[t])
        /\ pc[t] \in {"idle", "turn", "lock", "own", "batch"} => result[t] = "none"
        /\ pc[t] \in {"token", "release"} => result[t] \in {"ok", "error"}

\* The threads in a queue wait, have no result yet, ...
LeftWait ==
    \A t \in Threads : \A i \in Left(t) :
        pc[queue[t][i]] = "wait" /\ result[queue[t][i]] = "none"

\* ... and are in one queue, once.
LeftOnce ==
    \A t, u \in Threads : \A i \in Left(t), j \in Left(u) :
        queue[t][i] = queue[u][j] => t = u /\ i = j

QueueInv == ResultInv /\ LeftWait /\ LeftOnce

\* The threads whose actions leader t has applied.
Applied(t) == {t} \cup {queue[t][i] : i \in 1 .. next[t]}

\* The ownership set is what the applied actions make of the stored list.
EffectInv ==
    \A t \in Threads :
        ~ exited /\ OwnershipModification(t) =>
            /\ pc[t] = "own" => set[t] = list
            /\ pc[t] = "batch" => Abstract!Effect(list, set[t], Applied(t))

IndInv == TypeOK /\ ChainInv /\ LockInv /\ QueueInv /\ EffectInv

-----------------------------------------------------------------------------
(* Type correctness                                                        *)

\* Every step of the threads and of the collector keeps the types.
LEMMA TypeStep == TypeOK /\ [Next]_vars => TypeOK'
<1> SUFFICES ASSUME TypeOK, [Next]_vars PROVE TypeOK'
  OBVIOUS
<1> USE ThreadAssumption, BoundAssumption
<1>1. ASSUME NEW t \in Threads, NEW k \in Kinds, NEW S \in SUBSET Objects,
             JoinQueue(t, k, S) \/ OpenQueue(t, k, S)
      PROVE  TypeOK'
  <2>1. CASE JoinQueue(t, k, S)
    <3>1. current \in Threads /\ Append(queue[current], t) \in Seq(Threads)
      BY <2>1 DEF TypeOK, JoinQueue
    <3> QED BY <2>1, <3>1 DEF TypeOK, JoinQueue, NewAction, GoTo, PCs, agent, chain
  <2>2. CASE OpenQueue(t, k, S)
    BY <2>2 DEF TypeOK, OpenQueue, NewAction, NextQueueExecutionFuture, GoTo, PCs, agent
  <2> QED BY <1>1, <2>1, <2>2
<1>2. ASSUME NEW t \in Threads, ServeStep(t) PROVE TypeOK'
  <2>1. CASE CloseQueue(t)
    BY <2>1 DEF TypeOK, CloseQueue, GoTo, PCs, agent, chain, action
  <2>2. CASE FetchAgent(t)
    BY <2>2 DEF TypeOK, FetchAgent, GoTo, PCs, agent, chain, action
  <2>3. CASE FindCollected(t)
    BY <2>3 DEF TypeOK, FindCollected, agent, chain, action
  <2>4. CASE ApplyOwn(t)
    BY <2>4 DEF TypeOK, ApplyOwn, ApplyAction, GoTo, PCs, agent, chain, action
  <2>5. CASE ApplyQueued(t)
    <3> DEFINE u == queue[t][next[t] + 1]
    <3>1. u \in Threads
      BY <2>5 DEF TypeOK, ApplyQueued
    <3>2. ApplyAction(set[t], u) \in SUBSET Objects
      BY <3>1 DEF TypeOK, ApplyAction
    <3>3. set' \in [Threads -> SUBSET Objects]
      BY <2>5, <3>2 DEF TypeOK, ApplyQueued
    <3>4. next' \in [Threads -> Nat]
      BY <2>5 DEF TypeOK, ApplyQueued
    <3>5. UNCHANGED <<list, closed, gone, lock, exited, kind, objs, pc, result, current, queue,
                      tail, pred, errors, claims>>
      BY <2>5 DEF ApplyQueued, agent, chain, action
    <3> QED BY <3>3, <3>4, <3>5 DEF TypeOK
  <2>6. CASE Commit(t)
    BY <2>6 DEF TypeOK, Commit, GoTo, PCs, chain, action
  <2>7. CASE NoSuchObject(t)
    BY <2>7 DEF TypeOK, NoSuchObject, GoTo, PCs, agent, chain, action
  <2>8. CASE PassTurn(t)
    BY <2>8 DEF TypeOK, PassTurn, SetPromise, GoTo, PCs, agent, action
  <2>9. CASE Release(t)
    BY <2>9 DEF TypeOK, Release, agent, chain, action
  <2>10. CASE Return(t)
    <3>1. exited' \in BOOLEAN
      BY <2>10 DEF Return, ExitAfter, SlowHeartbeat
    <3> QED BY <2>10, <3>1 DEF TypeOK, Return, GoTo, PCs, Kinds, agent, chain
  <2> QED BY <1>2, <2>1, <2>2, <2>3, <2>4, <2>5, <2>6, <2>7, <2>8, <2>9, <2>10 DEF ServeStep
<1>3. ASSUME NEW t \in Threads, StoreError(t) PROVE TypeOK'
  <2>1. list' \subseteq Objects /\ lock' \in Threads \cup {NoThread, Collector}
    BY <1>3 DEF TypeOK, StoreError
  <2> QED BY <1>3, <2>1 DEF TypeOK, StoreError, GoTo, PCs, chain, action
<1>4. CASE Claim \/ CollectStep
  <2>1. CASE Claim
    BY <2>1 DEF TypeOK, Claim, chain, action
  <2>2. ASSUME NEW o \in Objects, CollectObject(o) PROVE TypeOK'
    BY <2>2 DEF TypeOK, CollectObject, chain, action
  <2>3. CASE EndCollection
    <3>1. gone' \in BOOLEAN
      BY <2>3 DEF TypeOK, EndCollection
    <3> QED BY <2>3, <3>1 DEF TypeOK, EndCollection, chain, action
  <2> QED BY <1>4, <2>1, <2>2, <2>3 DEF CollectStep
<1>5. CASE UNCHANGED vars
  BY <1>5 DEF TypeOK, vars
<1> QED BY <1>1, <1>2, <1>3, <1>4, <1>5 DEF Next, CallStep

-----------------------------------------------------------------------------
(* The chain of promises and the lock                                      *)

\* A leader that goes on serving its queue, and a thread that neither leads nor
\* begins to, leave the chain as it is.
LEMMA ChainKept ==
  ASSUME TypeOK, ChainInv, NEW t \in Threads, NEW s \in PCs,
         GoTo(t, s), UNCHANGED <<current, tail, pred>>,
         \/ pc[t] \in Serving /\ s \in Serving
         \/ pc[t] \notin Serving \cup {"turn"} /\ s \notin Serving \cup {"turn"}
  PROVE  ChainInv'
  BY DEF TypeOK, ChainInv, OneServer, Serving, GoTo

\* Leaders take turns, whatever the outcome of their batches.
LEMMA ChainStep == TypeOK /\ ChainInv /\ [Next]_vars => ChainInv'
<1> SUFFICES ASSUME TypeOK, ChainInv, [Next]_vars PROVE ChainInv'
  OBVIOUS
<1> USE ThreadAssumption
<1>1. ASSUME NEW t \in Threads, NEW k \in Kinds, NEW S \in SUBSET Objects,
             JoinQueue(t, k, S)
      PROVE  ChainInv'
  BY <1>1, ChainKept DEF JoinQueue, NewAction, At, Serving, PCs, chain
<1>2. ASSUME NEW t \in Threads, NEW k \in Kinds, NEW S \in SUBSET Objects,
             OpenQueue(t, k, S)
      PROVE  ChainInv'
  BY <1>2 DEF TypeOK, ChainInv, OneServer, Serving, OpenQueue, NewAction, NoCurrentQueue,
              NextQueueExecutionFuture, At, GoTo
<1>3. ASSUME NEW t \in Threads, ServeStep(t) PROVE ChainInv'
  <2>1. CASE CloseQueue(t)
    BY <2>1 DEF TypeOK, ChainInv, OneServer, Serving, CloseQueue, At, GoTo, chain
  <2>2. CASE FetchAgent(t) \/ ApplyOwn(t) \/ Commit(t) \/ NoSuchObject(t)
    BY <2>2, ChainKept DEF FetchAgent, ApplyOwn, Commit, NoSuchObject, At, Serving, PCs, chain
  <2>3. CASE FindCollected(t) \/ ApplyQueued(t) \/ Release(t)
    BY <2>3 DEF ChainInv, OneServer, FindCollected, ApplyQueued, Release, chain
  <2>4. CASE PassTurn(t)
    BY <2>4 DEF TypeOK, ChainInv, OneServer, Serving, PassTurn, SetPromise, At, GoTo
  <2>5. CASE Return(t)
    BY <2>5, ChainKept DEF Return, At, Serving, PCs, chain
  <2> QED BY <1>3, <2>1, <2>2, <2>3, <2>4, <2>5 DEF ServeStep
<1>4. ASSUME NEW t \in Threads, StoreError(t) PROVE ChainInv'
  BY <1>4, ChainKept DEF StoreError, At, Serving, PCs, chain
<1>5. CASE Claim \/ CollectStep
  BY <1>5 DEF ChainInv, OneServer, Claim, CollectStep, CollectObject, EndCollection, chain
<1>6. CASE UNCHANGED vars
  BY <1>6 DEF ChainInv, OneServer, vars
<1> QED BY <1>1, <1>2, <1>3, <1>4, <1>5, <1>6 DEF Next, CallStep

\* Nobody takes the lock of a leader that updates the agent, and the agent is
\* claimed and removed only under the lock.
LEMMA LockStep == TypeOK /\ ChainInv /\ LockInv /\ [Next]_vars => LockInv'
<1> SUFFICES ASSUME TypeOK, ChainInv, LockInv, [Next]_vars PROVE LockInv'
  OBVIOUS
<1> USE ThreadAssumption
<1>0. \A t, u \in Threads : pc[t] \in {"own", "batch"} /\ pc[u] \in Serving => t = u
  BY DEF ChainInv, OneServer, Serving
<1>1. ASSUME NEW t \in Threads, NEW k \in Kinds, NEW S \in SUBSET Objects,
             JoinQueue(t, k, S) \/ OpenQueue(t, k, S)
      PROVE  LockInv'
  BY <1>1 DEF TypeOK, LockInv, JoinQueue, OpenQueue, NewAction, At, GoTo, agent
<1>2. ASSUME NEW t \in Threads, ServeStep(t) PROVE LockInv'
  <2>1. CASE CloseQueue(t) \/ PassTurn(t) \/ NoSuchObject(t)
    BY <2>1 DEF TypeOK, LockInv, CloseQueue, PassTurn, NoSuchObject, At, GoTo, agent
  <2>2. CASE FetchAgent(t)
    BY <2>2 DEF TypeOK, LockInv, FetchAgent, At, GoTo, agent
  <2>3. CASE FindCollected(t)
    BY <2>3 DEF LockInv, FindCollected
  <2>4. CASE ApplyOwn(t)
    BY <2>4 DEF TypeOK, LockInv, ApplyOwn, At, GoTo, agent
  <2>5. CASE ApplyQueued(t) \/ Release(t)
    BY <2>5 DEF LockInv, ApplyQueued, Release, agent
  <2>6. CASE Commit(t)
    BY <1>0, <2>6 DEF TypeOK, LockInv, Commit, At, GoTo, Serving
  <2>7. CASE Return(t)
    BY <2>7 DEF TypeOK, LockInv, Return, At, GoTo, agent
  <2> QED BY <1>2, <2>1, <2>2, <2>3, <2>4, <2>5, <2>6, <2>7 DEF ServeStep
<1>3. ASSUME NEW t \in Threads, StoreError(t) PROVE LockInv'
  BY <1>0, <1>3 DEF TypeOK, LockInv, StoreError, At, GoTo, Serving
<1>4. CASE Claim \/ CollectStep
  BY <1>4 DEF LockInv, Claim, CollectStep, CollectObject, EndCollection
<1>5. CASE UNCHANGED vars
  BY <1>5 DEF LockInv, vars
<1> QED BY <1>1, <1>2, <1>3, <1>4, <1>5 DEF Next, CallStep

-----------------------------------------------------------------------------
(* The queues                                                              *)

\* The places in a queue are those of threads.
LEMMA LeftType ==
  ASSUME TypeOK, NEW t \in Threads
  PROVE  /\ First(t) \in Nat /\ Left(t) \subseteq 1 .. Len(queue[t])
         /\ \A i \in Left(t) : queue[t][i] \in Threads
<1>1. First(t) \in Nat
  BY DEF TypeOK, First
<1>2. Len(queue[t]) \in Nat /\ \A i \in 1 .. Len(queue[t]) : queue[t][i] \in Threads
  BY DEF TypeOK
<1> QED BY <1>1, <1>2 DEF Left

\* What is left of the queues shrinks and its threads go on waiting.
LEMMA LeftKept ==
  ASSUME LeftWait, LeftOnce,
         \A v \in Threads : \A i \in Left(v)' :
           /\ i \in Left(v) /\ queue'[v][i] = queue[v][i]
           /\ pc'[queue[v][i]] = "wait" /\ result'[queue[v][i]] = "none"
  PROVE  LeftWait' /\ LeftOnce'
  BY DEF LeftWait, LeftOnce

\* A leader that goes on with its queue: nobody in it is released.
LEMMA LeadKept ==
  ASSUME TypeOK, QueueInv, NEW t \in Threads, NEW s \in PCs \ {"idle", "wait"},
         pc[t] # "wait", GoTo(t, s), UNCHANGED queue,
         next' \in [Threads -> Nat], \A v \in Threads \ {t} : next'[v] = next[v],
         result' \in [Threads -> {"none", "ok", "error"}],
         \A v \in Threads \ {t} : result'[v] = result[v],
         next'[t] <= Len(queue[t]),
         First(t) <= First(t)',
         s \in {"turn", "lock", "own", "batch"} => result'[t] = "none",
         s \in {"token", "release"} => result'[t] \in {"ok", "error"}
  PROVE  QueueInv'
<1>1. pc' = [pc EXCEPT ![t] = s]
  BY DEF GoTo
<1>2. \A v \in Threads : First(v) \in Nat /\ First(v)' \in Nat /\ First(v) <= First(v)'
  BY <1>1 DEF TypeOK, First
<1>3. \A v \in Threads : Left(v)' \subseteq Left(v)
  <2> SUFFICES ASSUME NEW v \in Threads PROVE Left(v)' \subseteq Left(v)
    OBVIOUS
  <2>1. Len(queue[v]) \in Nat
    BY DEF TypeOK
  <2> QED BY <1>2, <2>1 DEF Left
<1>4. LeftWait' /\ LeftOnce'
  <2>1. ASSUME NEW v \in Threads, NEW i \in Left(v)'
        PROVE  /\ i \in Left(v) /\ queue'[v][i] = queue[v][i]
               /\ pc'[queue[v][i]] = "wait" /\ result'[queue[v][i]] = "none"
    <3>1. i \in Left(v) /\ queue[v][i] \in Threads
      BY <1>3, LeftType
    <3>2. queue[v][i] # t
      BY <3>1 DEF QueueInv, LeftWait
    <3> QED BY <1>1, <3>1, <3>2 DEF TypeOK, QueueInv, LeftWait
  <2> QED BY <2>1, LeftKept DEF QueueInv
<1>5. ResultInv'
  BY <1>1 DEF TypeOK, QueueInv, ResultInv
<1> QED BY <1>4, <1>5 DEF QueueInv

\* A thread waits while it is in a queue, and is in one queue.
LEMMA QueueStep == TypeOK /\ ChainInv /\ QueueInv /\ [Next]_vars => QueueInv'
<1> SUFFICES ASSUME TypeOK, ChainInv, QueueInv, [Next]_vars PROVE QueueInv'
  OBVIOUS
<1> USE ThreadAssumption
<1>0. TypeOK'
  BY TypeStep
<1>1. ASSUME NEW t \in Threads, NEW k \in Kinds, NEW S \in SUBSET Objects,
             JoinQueue(t, k, S)
      PROVE  QueueInv'
  <2> DEFINE n == Len(queue[current]) + 1
  <2>1. current \in Threads /\ pc[current] = "turn" /\ pc[t] = "idle" /\ t # current
    BY <1>1 DEF TypeOK, ChainInv, JoinQueue, NewAction, At
  <2>2. /\ queue' = [queue EXCEPT ![current] = Append(@, t)]
        /\ pc' = [pc EXCEPT ![t] = "wait"]
        /\ UNCHANGED <<result, next, current>>
    BY <1>1 DEF JoinQueue, GoTo
  <2>3. queue[current] \in Seq(Threads) /\ n \in Nat
    BY <2>1 DEF TypeOK
  <2>4. /\ Len(queue'[current]) = n
        /\ queue'[current][n] = t
        /\ \A i \in 1 .. n - 1 : queue'[current][i] = queue[current][i]
    <3>1. queue'[current] = Append(queue[current], t)
      BY <2>1, <2>2 DEF TypeOK
    <3> QED BY <2>3, <3>1
  <2>5. \A v \in Threads \ {current} : queue'[v] = queue[v]
    BY <2>1, <2>2 DEF TypeOK
  <2>6. \A v \in Threads : First(v)' = First(v)
    BY <2>1, <2>2 DEF TypeOK, First
  <2>7. /\ \A v \in Threads \ {current} : Left(v)' = Left(v)
        /\ Left(current) = 1 .. n - 1 /\ Left(current)' = 1 .. n
    <3>1. First(current) = 0
      BY <2>1 DEF First
    <3>2. First(current)' = 0
      BY <2>1, <2>2, <2>6, <3>1
    <3>3. Left(current) = 1 .. n - 1
      BY <2>3, <3>1 DEF Left
    <3>4. Left(current)' = 1 .. n
      BY <2>2, <2>4, <3>2 DEF Left
    <3> QED BY <2>2, <2>5, <2>6, <3>3, <3>4 DEF Left
  <2>8. \A v \in Threads : \A i \in Left(v)' :
          \/ i \in Left(v) /\ queue'[v][i] = queue[v][i]
          \/ v = current /\ i = n /\ queue'[v][i] = t
    <3>1. \A i \in 1 .. n : i \in 1 .. n - 1 \/ i = n
      BY <2>3
    <3> QED BY <2>2, <2>4, <2>5, <2>7, <3>1
  <2>9. \A v \in Threads : \A i \in Left(v) : queue[v][i] \in Threads /\ queue[v][i] # t
    BY <2>1, LeftType DEF QueueInv, LeftWait
  <2>10. LeftWait'
    <3>1. pc'[t] = "wait" /\ result'[t] = "none"
      BY <2>1, <2>2 DEF TypeOK, QueueInv, ResultInv
    <3>2. \A u \in Threads \ {t} : pc'[u] = pc[u] /\ result'[u] = result[u]
      BY <2>2 DEF TypeOK
    <3> QED BY <2>8, <2>9, <3>1, <3>2 DEF QueueInv, LeftWait
  <2>11. LeftOnce'
    BY <2>8, <2>9 DEF QueueInv, LeftOnce
  <2>12. ResultInv'
    <3>1. \A v \in Threads : next'[v] <= Len(queue'[v])
      BY <2>2, <2>3, <2>4, <2>5 DEF TypeOK, QueueInv, ResultInv
    <3> QED BY <2>1, <2>2, <2>5, <3>1 DEF TypeOK, QueueInv, ResultInv
  <2> QED BY <2>10, <2>11, <2>12 DEF QueueInv
<1>2. ASSUME NEW t \in Threads, NEW k \in Kinds, NEW S \in SUBSET Objects,
             OpenQueue(t, k, S)
      PROVE  QueueInv'
  <2>1. queue' = queue /\ pc[t] = "idle"
    BY <1>2 DEF TypeOK, QueueInv, ResultInv, OpenQueue, NewAction, At
  <2>2. GoTo(t, "turn") /\ UNCHANGED <<result, next>>
    BY <1>2 DEF OpenQueue
  <2>3. First(t) <= First(t)'
    BY <2>1, <2>2 DEF TypeOK, First, GoTo
  <2>4. next'[t] <= Len(queue[t]) /\ result'[t] = "none"
    BY <2>1, <2>2 DEF QueueInv, ResultInv
  <2>5. /\ next' \in [Threads -> Nat]
        /\ result' \in [Threads -> {"none", "ok", "error"}]
        /\ "turn" \in PCs \ {"idle", "wait"}
    BY <1>0 DEF TypeOK, PCs
  <2> QED BY <2>1, <2>2, <2>3, <2>4, <2>5, LeadKept
<1>3. ASSUME NEW t \in Threads, ServeStep(t) PROVE QueueInv'
  <2>0. next[t] <= Len(queue[t]) /\ next[t] \in Nat
    BY DEF TypeOK, QueueInv, ResultInv
  <2>1. CASE CloseQueue(t) \/ FetchAgent(t) \/ PassTurn(t)
    <3>1. /\ \/ pc[t] = "turn" /\ GoTo(t, "lock")
             \/ pc[t] = "lock" /\ GoTo(t, "own")
             \/ pc[t] = "token" /\ GoTo(t, "release")
          /\ UNCHANGED <<queue, result, next>>
      BY <2>1 DEF CloseQueue, FetchAgent, PassTurn, At
    <3>2. First(t) <= First(t)'
      BY <2>0, <3>1 DEF TypeOK, First, GoTo
    <3> QED BY <2>0, <3>1, <3>2, LeadKept DEF TypeOK, QueueInv, ResultInv, PCs
  <2>2. CASE FindCollected(t)
    BY <2>2 DEF QueueInv, ResultInv, LeftWait, LeftOnce, Left, First, FindCollected
  <2>3. CASE ApplyOwn(t) \/ ApplyQueued(t)
    <3>1. /\ pc[t] \in {"own", "batch"} /\ GoTo(t, "batch") /\ UNCHANGED <<queue, result>>
          /\ \A v \in Threads \ {t} : next'[v] = next[v]
      BY <2>3 DEF TypeOK, ApplyOwn, ApplyQueued, At, GoTo
    <3>2. next'[t] <= Len(queue[t])
      <4>1. Len(queue[t]) \in Nat
        BY DEF TypeOK
      <4> QED BY <2>0, <2>3, <4>1 DEF TypeOK, ApplyOwn, ApplyQueued
    <3>3. First(t) <= First(t)'
      BY <3>1 DEF TypeOK, First, GoTo
    <3> QED BY <1>0, <3>1, <3>2, <3>3, LeadKept DEF TypeOK, QueueInv, ResultInv, PCs
  <2>4. CASE Commit(t) \/ NoSuchObject(t)
    <3>1. /\ pc[t] \in {"lock", "batch"} /\ GoTo(t, "token") /\ UNCHANGED queue
          /\ next' = [next EXCEPT ![t] = 0]
          /\ \E x \in {"ok", "error"} : result' = [result EXCEPT ![t] = x]
      BY <2>4 DEF Commit, NoSuchObject, At
    <3>2. First(t) <= First(t)'
      BY <3>1 DEF TypeOK, First, GoTo
    <3>3. /\ \A v \in Threads \ {t} : next'[v] = next[v] /\ result'[v] = result[v]
          /\ next'[t] <= Len(queue[t]) /\ result'[t] \in {"ok", "error"}
      BY <3>1 DEF TypeOK
    <3>4. /\ next' \in [Threads -> Nat]
          /\ result' \in [Threads -> {"none", "ok", "error"}]
          /\ "token" \in PCs \ {"idle", "wait"}
      BY <1>0 DEF TypeOK, PCs
    <3> QED BY <3>1, <3>2, <3>3, <3>4, LeadKept
  <2>5. CASE Release(t)
    <3> DEFINE n == next[t] + 1
               w == queue[t][n]
    <3>1. /\ pc[t] = "release" /\ next[t] < Len(queue[t])
          /\ next' = [next EXCEPT ![t] = @ + 1]
          /\ result' = [result EXCEPT ![w] = result[t]]
          /\ UNCHANGED <<pc, queue>>
      BY <2>5 DEF Release, At
    <3>2. First(t) = next[t] /\ n \in Left(t) /\ w \in Threads /\ n <= Len(queue[t])
      <4>1. First(t) = next[t]
        BY <3>1 DEF First
      <4>2. Len(queue[t]) \in Nat
        BY DEF TypeOK
      <4>3. n \in Left(t) /\ n <= Len(queue[t])
        BY <2>0, <3>1, <4>1, <4>2 DEF Left
      <4> QED BY <4>1, <4>3, LeftType
    <3>3. w # t /\ pc[w] = "wait"
      BY <3>1, <3>2 DEF QueueInv, LeftWait
    <3>4. \A v \in Threads \ {t} : First(v)' = First(v)
      BY <3>1 DEF TypeOK, First
    <3>5. First(t)' = n
      BY <3>1 DEF TypeOK, First
    <3>6. /\ \A v \in Threads \ {t} : Left(v)' = Left(v)
          /\ Left(t)' \subseteq Left(t) \ {n}
      <4>1. Len(queue[t]) \in Nat
        BY DEF TypeOK
      <4>2. Left(t)' \subseteq Left(t) \ {n}
        BY <2>0, <3>1, <3>2, <3>5, <4>1 DEF Left
      <4> QED BY <3>1, <3>4, <4>2 DEF Left
    <3>7. ASSUME NEW v \in Threads, NEW i \in Left(v)'
          PROVE  /\ i \in Left(v) /\ queue'[v][i] = queue[v][i]
                 /\ pc'[queue[v][i]] = "wait" /\ result'[queue[v][i]] = "none"
      <4>1. i \in Left(v) /\ (v = t => i # n)
        BY <3>6
      <4>2. queue[v][i] \in Threads /\ queue[v][i] # w
        BY <3>2, <4>1, LeftType DEF QueueInv, LeftOnce
      <4> QED BY <3>1, <4>1, <4>2 DEF TypeOK, QueueInv, LeftWait
    <3>8. LeftWait' /\ LeftOnce'
      BY <3>7, LeftKept DEF QueueInv
    <3>9. ResultInv'
      <4>1. \A v \in Threads : next'[v] <= Len(queue'[v])
        BY <3>1, <3>2 DEF TypeOK, QueueInv, ResultInv
      <4> QED BY <3>1, <3>2, <3>3, <4>1 DEF TypeOK, QueueInv, ResultInv
    <3> QED BY <3>8, <3>9 DEF QueueInv
  <2>6. CASE Return(t)
    <3>1. /\ pc[t] = "release" \/ result[t] # "none"
          /\ queue' = [queue EXCEPT ![t] = <<>>]
          /\ next' = [next EXCEPT ![t] = 0]
          /\ result' = [result EXCEPT ![t] = "none"]
          /\ pc' = [pc EXCEPT ![t] = "idle"]
      BY <2>6 DEF Return, At, GoTo
    <3>2. \A v \in Threads \ {t} : Left(v)' = Left(v) /\ queue'[v] = queue[v]
      BY <3>1 DEF TypeOK, Left, First
    <3>3. Left(t)' = {}
      <4>1. queue'[t] = <<>> /\ First(t)' = 0
        BY <3>1 DEF TypeOK, First
      <4> QED BY <4>1 DEF Left
    <3>4. ASSUME NEW v \in Threads, NEW i \in Left(v)'
          PROVE  /\ i \in Left(v) /\ queue'[v][i] = queue[v][i]
                 /\ pc'[queue[v][i]] = "wait" /\ result'[queue[v][i]] = "none"
      <4>1. i \in Left(v) /\ queue'[v][i] = queue[v][i]
        BY <3>2, <3>3
      <4>2. queue[v][i] \in Threads /\ queue[v][i] # t
        BY <3>1, <4>1, LeftType DEF QueueInv, LeftWait
      <4> QED BY <3>1, <4>1, <4>2 DEF TypeOK, QueueInv, LeftWait
    <3>5. LeftWait' /\ LeftOnce'
      BY <3>4, LeftKept DEF QueueInv
    <3>6. ResultInv'
      BY <3>1 DEF TypeOK, QueueInv, ResultInv
    <3> QED BY <3>5, <3>6 DEF QueueInv
  <2> QED BY <1>3, <2>1, <2>2, <2>3, <2>4, <2>5, <2>6 DEF ServeStep
<1>4. ASSUME NEW t \in Threads, StoreError(t) PROVE QueueInv'
  <2>1. /\ pc[t] \in {"lock", "batch"} /\ GoTo(t, "token") /\ UNCHANGED queue
        /\ next' = [next EXCEPT ![t] = 0]
        /\ result' = [result EXCEPT ![t] = "error"]
    BY <1>4 DEF StoreError, At
  <2>2. First(t) <= First(t)'
    BY <2>1 DEF TypeOK, First, GoTo
  <2>3. /\ \A v \in Threads \ {t} : next'[v] = next[v] /\ result'[v] = result[v]
        /\ next'[t] <= Len(queue[t]) /\ result'[t] \in {"ok", "error"}
    BY <2>1 DEF TypeOK
  <2>4. /\ next' \in [Threads -> Nat]
        /\ result' \in [Threads -> {"none", "ok", "error"}]
        /\ "token" \in PCs \ {"idle", "wait"}
    BY <1>0 DEF TypeOK, PCs
  <2> QED BY <2>1, <2>2, <2>3, <2>4, LeadKept
<1>5. CASE Claim \/ CollectStep
  BY <1>5 DEF QueueInv, ResultInv, LeftWait, LeftOnce, Left, First, Claim, CollectStep, CollectObject, EndCollection
<1>6. CASE UNCHANGED vars
  BY <1>6 DEF QueueInv, ResultInv, LeftWait, LeftOnce, Left, First, vars
<1> QED BY <1>1, <1>2, <1>3, <1>4, <1>5, <1>6 DEF Next, CallStep

-----------------------------------------------------------------------------
(* The ownership set                                                       *)

\* The actions of the threads in S and then that of u.
LEMMA EffectMore ==
  ASSUME NEW L1, NEW L2, NEW S, NEW u, Abstract!Effect(L1, L2, S)
  PROVE  Abstract!Effect(L1, ApplyAction(L2, u), S \cup {u})
  BY DEF Abstract!Effect, Abstract!Adds, Abstract!Removes, ApplyAction

LEMMA EffectNone ==
  ASSUME NEW L
  PROVE  Abstract!Effect(L, L, {})
  BY DEF Abstract!Effect

\* The actions a leader serves: its own and those in its queue.
Served(t) == {t} \cup {queue[t][i] : i \in 1 .. Len(queue[t])}

\* Up to the commit they are those of the leader and of waiting threads.
LEMMA ServedWait ==
  ASSUME TypeOK, QueueInv, NEW t \in Threads, pc[t] \in {"turn", "lock", "own", "batch"}
  PROVE  /\ \A i \in 1 .. Len(queue[t]) :
              queue[t][i] \in Threads /\ pc[queue[t][i]] = "wait" /\ result[queue[t][i]] = "none"
         /\ \A u \in Served(t) :
              u \in Threads /\ pc[u] \in {"wait", "turn", "lock", "own", "batch"} /\ result[u] = "none"
         /\ Applied(t) \subseteq Served(t)
         /\ next[t] = Len(queue[t]) => Applied(t) = Served(t)
<1>1. Left(t) = 1 .. Len(queue[t])
  BY DEF Left, First
<1>2. \A i \in 1 .. Len(queue[t]) :
        queue[t][i] \in Threads /\ pc[queue[t][i]] = "wait" /\ result[queue[t][i]] = "none"
  BY <1>1, LeftType DEF QueueInv, LeftWait
<1>3. result[t] = "none" /\ next[t] <= Len(queue[t]) /\ next[t] \in Nat /\ Len(queue[t]) \in Nat
  BY DEF TypeOK, QueueInv, ResultInv
<1>4. 1 .. next[t] \subseteq 1 .. Len(queue[t])
  BY <1>3
<1> QED BY <1>2, <1>3, <1>4 DEF Served, Applied

\* A step that leaves a leader, its queue and the actions in it alone.
LEMMA EffectFrame ==
  ASSUME TypeOK, QueueInv, EffectInv, NEW v \in Threads,
         pc[v] \in {"own", "batch"}, ~ exited,
         pc'[v] = pc[v], set'[v] = set[v], list' = list, queue'[v] = queue[v],
         next'[v] = next[v],
         \A u \in Served(v) : kind'[u] = kind[u] /\ objs'[u] = objs[u]
  PROVE  OwnershipModification(v)' =>
            /\ pc'[v] = "own" => set'[v] = list'
            /\ pc'[v] = "batch" => Abstract!Effect(list, set[v], Applied(v))'
<1> SUFFICES ASSUME OwnershipModification(v)'
             PROVE  /\ pc'[v] = "own" => set'[v] = list'
                    /\ pc'[v] = "batch" => Abstract!Effect(list, set[v], Applied(v))'
  OBVIOUS
<1>1. OwnershipModification(v)
  BY DEF OwnershipModification, Served
<1>2. Applied(v)' = Applied(v) /\ Applied(v) \subseteq Served(v)
  BY ServedWait DEF Applied
<1>3. CASE pc[v] = "own"
  BY <1>1, <1>3 DEF EffectInv
<1>4. CASE pc[v] = "batch"
  <2>1. Abstract!Effect(list, set[v], Applied(v))
    BY <1>1, <1>4 DEF EffectInv
  <2> QED BY <1>2, <1>4, <2>1 DEF Abstract!Effect, Abstract!Adds, Abstract!Removes
<1> QED BY <1>3, <1>4

\* A step that leaves every leader that updates the agent alone.
LEMMA EffectKept ==
  ASSUME TypeOK, QueueInv, EffectInv, ~ exited,
         \A v \in Threads : pc'[v] \in {"own", "batch"} =>
             /\ pc'[v] = pc[v] /\ set'[v] = set[v] /\ list' = list
             /\ queue'[v] = queue[v] /\ next'[v] = next[v]
             /\ \A u \in Served(v) : kind'[u] = kind[u] /\ objs'[u] = objs[u]
  PROVE  EffectInv'
<1>1. ASSUME NEW v \in Threads, pc'[v] \in {"own", "batch"}
      PROVE  OwnershipModification(v)' =>
               /\ pc'[v] = "own" => set'[v] = list'
               /\ pc'[v] = "batch" => Abstract!Effect(list, set[v], Applied(v))'
  BY <1>1, EffectFrame
<1> QED BY <1>1 DEF EffectInv

\* The leader that holds the lock has applied a prefix of its actions to the stored
\* list.
LEMMA EffectStep == IndInv /\ [Next]_vars => EffectInv'
<1> SUFFICES ASSUME IndInv, [Next]_vars PROVE EffectInv'
  OBVIOUS
<1> USE ThreadAssumption DEF IndInv
<1>0. \A t, u \in Threads : pc[t] \in {"own", "batch"} /\ pc[u] \in Serving => t = u
  BY DEF ChainInv, OneServer, Serving
<1>1. ASSUME NEW t \in Threads, NEW k \in Kinds, NEW S \in SUBSET Objects,
             JoinQueue(t, k, S) \/ OpenQueue(t, k, S)
      PROVE  EffectInv'
  <2>1. /\ pc[t] = "idle" /\ ~ exited /\ UNCHANGED <<list, set, next>>
        /\ \A u \in Threads \ {t} : kind'[u] = kind[u] /\ objs'[u] = objs[u] /\ pc'[u] = pc[u]
        /\ pc'[t] \in {"wait", "turn"}
    BY <1>1 DEF TypeOK, JoinQueue, OpenQueue, NewAction, At, GoTo, agent
  <2>2. \A u \in Threads \ {t} : pc[u] # "turn" => queue'[u] = queue[u]
    BY <1>1 DEF TypeOK, ChainInv, JoinQueue, OpenQueue
  <2>3. \A v \in Threads : pc'[v] \in {"own", "batch"} =>
          v # t /\ pc'[v] = pc[v] /\ \A u \in Served(v) : u \in Threads \ {t}
    BY <2>1, ServedWait
  <2> QED BY <2>1, <2>2, <2>3, EffectKept
<1>2. ASSUME NEW t \in Threads, ServeStep(t) PROVE EffectInv'
  <2>1. CASE CloseQueue(t) \/ NoSuchObject(t) \/ PassTurn(t) \/ Release(t)
    <3>1. /\ ~ exited /\ UNCHANGED <<list, set, queue, kind, objs>>
          /\ pc[t] \notin {"own", "batch"} /\ pc'[t] \notin {"own", "batch"}
          /\ \A u \in Threads \ {t} : next'[u] = next[u] /\ pc'[u] = pc[u]
      BY <2>1 DEF TypeOK, CloseQueue, NoSuchObject, PassTurn, Release, At, GoTo, agent, action
    <3> QED BY <3>1, EffectKept
  <2>2. CASE FetchAgent(t)
    <3>1. /\ ~ exited /\ pc[t] = "lock" /\ pc' = [pc EXCEPT ![t] = "own"]
          /\ OwnershipModification(t) => set'[t] = list
          /\ UNCHANGED <<list, queue, kind>>
      BY <2>2 DEF TypeOK, FetchAgent, At, GoTo, agent, action
    <3>2. OwnershipModification(t)' = OwnershipModification(t)
      BY <3>1 DEF OwnershipModification
    <3>3. \A v \in Threads : pc'[v] \in {"own", "batch"} => v = t /\ pc'[v] = "own"
      BY <1>0, <3>1 DEF TypeOK, Serving
    <3> QED BY <3>1, <3>2, <3>3 DEF EffectInv
  <2>3. CASE FindCollected(t)
    BY <2>3 DEF EffectInv, FindCollected
  <2>4. CASE ApplyOwn(t)
    <3>1. /\ ~ exited /\ pc[t] = "own" /\ pc' = [pc EXCEPT ![t] = "batch"]
          /\ next'[t] = 0 /\ set'[t] = ApplyAction(set[t], t)
          /\ UNCHANGED <<list, queue, kind, objs>>
      BY <2>4 DEF TypeOK, ApplyOwn, At, GoTo, agent, action
    <3>2. OwnershipModification(t)' = OwnershipModification(t) /\ Applied(t)' = {t}
      BY <3>1 DEF OwnershipModification, Applied
    <3>3. \A v \in Threads : pc'[v] \in {"own", "batch"} => v = t /\ pc'[v] = "batch"
      BY <1>0, <3>1 DEF TypeOK, Serving
    <3>4. OwnershipModification(t) => Abstract!Effect(list, set'[t], {t})
      <4>1. Abstract!Effect(list, ApplyAction(list, t), {} \cup {t})
        BY EffectNone, EffectMore
      <4>2. OwnershipModification(t) => set[t] = list
        BY <3>1 DEF EffectInv
      <4>3. {} \cup {t} = {t}
        OBVIOUS
      <4> QED BY <3>1, <4>1, <4>2, <4>3
    <3>5. OwnershipModification(t) => Abstract!Effect(list, set[t], Applied(t))'
      BY <3>1, <3>2, <3>4 DEF Abstract!Effect, Abstract!Adds, Abstract!Removes
    <3> QED BY <3>2, <3>3, <3>5 DEF EffectInv
  <2>5. CASE ApplyQueued(t)
    <3> DEFINE u == queue[t][next[t] + 1]
    <3>1. /\ ~ exited /\ pc[t] = "batch"
          /\ next'[t] = next[t] + 1 /\ set'[t] = ApplyAction(set[t], u)
          /\ UNCHANGED <<pc, list, queue, kind, objs>>
      BY <2>5 DEF TypeOK, ApplyQueued, At, agent, action
    <3>2. Applied(t)' = Applied(t) \cup {u}
      <4>1. next[t] \in Nat
        BY DEF TypeOK
      <4>2. 1 .. next[t] + 1 = (1 .. next[t]) \cup {next[t] + 1}
        BY <4>1
      <4> QED BY <3>1, <4>2 DEF Applied
    <3>3. OwnershipModification(t)' = OwnershipModification(t)
      BY <3>1 DEF OwnershipModification
    <3>4. \A v \in Threads : pc'[v] \in {"own", "batch"} => v = t /\ pc'[v] = "batch"
      BY <1>0, <3>1 DEF Serving
    <3>5. OwnershipModification(t) => Abstract!Effect(list, set'[t], Applied(t) \cup {u})
      <4>1. OwnershipModification(t) => Abstract!Effect(list, set[t], Applied(t))
        BY <3>1 DEF EffectInv
      <4> QED BY <3>1, <4>1, EffectMore
    <3>6. OwnershipModification(t) => Abstract!Effect(list, set[t], Applied(t))'
      BY <3>1, <3>2, <3>5 DEF Abstract!Effect, Abstract!Adds, Abstract!Removes
    <3> QED BY <3>3, <3>4, <3>6 DEF EffectInv
  <2>6. CASE Commit(t)
    BY <1>0, <2>6 DEF TypeOK, EffectInv, Commit, At, GoTo, Serving
  <2>7. CASE Return(t)
    <3>1. /\ ~ exited /\ UNCHANGED list
          /\ pc[t] = "release" \/ (pc[t] = "wait" /\ result[t] # "none")
          /\ pc'[t] = "idle"
          /\ \A u \in Threads \ {t} : /\ kind'[u] = kind[u] /\ objs'[u] = objs[u]
                                      /\ pc'[u] = pc[u] /\ set'[u] = set[u]
                                      /\ queue'[u] = queue[u] /\ next'[u] = next[u]
      BY <2>7 DEF TypeOK, Return, At, GoTo, agent
    <3>2. \A v \in Threads : pc'[v] \in {"own", "batch"} =>
            v # t /\ pc'[v] = pc[v] /\ \A u \in Served(v) : u \in Threads \ {t}
      BY <3>1, ServedWait
    <3> QED BY <3>1, <3>2, EffectKept
  <2> QED BY <1>2, <2>1, <2>2, <2>3, <2>4, <2>5, <2>6, <2>7 DEF ServeStep
<1>3. ASSUME NEW t \in Threads, StoreError(t) PROVE EffectInv'
  <2>1. pc[t] \in Serving /\ pc'= [pc EXCEPT ![t] = "token"]
    BY <1>3 DEF StoreError, At, GoTo, Serving
  <2>2. \A v \in Threads : pc'[v] \notin {"own", "batch"}
    BY <1>0, <2>1 DEF TypeOK
  <2> QED BY <2>2 DEF EffectInv
<1>4. CASE Claim \/ CollectStep
  <2>1. UNCHANGED <<exited, pc, set, queue, next, kind, objs>>
    BY <1>4 DEF Claim, CollectStep, CollectObject, EndCollection, action
  <2>2. \A v \in Threads : ~ exited /\ pc'[v] \in {"own", "batch"} => list' = list
    BY <1>4, <2>1 DEF Claim, CollectStep, CollectObject, EndCollection, LockInv
  <2>3. CASE ~ exited
    BY <2>1, <2>2, <2>3, EffectKept
  <2>4. CASE exited
    BY <2>1, <2>4 DEF EffectInv
  <2> QED BY <2>3, <2>4
<1>5. CASE UNCHANGED vars
  <2>1. CASE ~ exited
    BY <1>5, <2>1, EffectKept DEF vars
  <2>2. CASE exited
    BY <1>5, <2>2 DEF vars, EffectInv
  <2> QED BY <2>1, <2>2
<1> QED BY <1>1, <1>2, <1>3, <1>4, <1>5 DEF Next, CallStep

-----------------------------------------------------------------------------
(* The theorems about safety                                               *)

\* The inductive invariant holds in every state.
LEMMA Inductive == Spec => []IndInv
<1>1. Init => IndInv
  <2> SUFFICES ASSUME Init PROVE IndInv
    OBVIOUS
  <2>0. <<>> \in Seq(Threads) /\ Len(<<>>) = 0
    OBVIOUS
  <2>1. TypeOK
    <3>1. queue \in [Threads -> Seq(Threads)]
      BY <2>0 DEF Init
    <3> QED BY <3>1, ThreadAssumption DEF Init, TypeOK, Kinds, PCs
  <2>2. ChainInv /\ LockInv /\ EffectInv
    BY ThreadAssumption DEF Init, ChainInv, OneServer, Serving, LockInv, EffectInv
  <2>3. \A t \in Threads : Left(t) = {}
    <3>1. \A t \in Threads : First(t) = 0 /\ queue[t] = <<>>
      BY DEF Init, First
    <3>2. \A t \in Threads : Left(t) = 0 + 1 .. 0
      BY <2>0, <3>1, Zenon DEF Left
    <3>3. 0 + 1 .. 0 = {}
      OBVIOUS
    <3> QED BY <3>2, <3>3
  <2>4. QueueInv
    BY <2>3 DEF Init, QueueInv, ResultInv, LeftWait, LeftOnce
  <2> QED BY <2>1, <2>2, <2>4 DEF IndInv
<1>2. IndInv /\ [Next]_vars => IndInv'
  BY TypeStep, ChainStep, LockStep, QueueStep, EffectStep DEF IndInv
<1> QED BY <1>1, <1>2, PTL DEF Spec

\* Type correctness of the agent object, the queues and the promises.
THEOREM TypeCorrect == Spec => []TypeOK
<1>1. IndInv => TypeOK
  BY DEF IndInv
<1> QED BY <1>1, Inductive, PTL

\* The exception "our queue is not the listed one as expected" of
\* queueAndExecuteAction() is never thrown, for any number of threads.
THEOREM QueueListedCorrect == Spec => []QueueListed
<1>1. IndInv => QueueListed
  BY DEF IndInv, ChainInv, QueueListed
<1> QED BY <1>1, Inductive, PTL

\* Leaders take turns, for any number of threads and of exceptions.
THEOREM OneServerCorrect == Spec => []OneServer
<1>1. IndInv => OneServer
  BY DEF IndInv, ChainInv
<1> QED BY <1>1, Inductive, PTL

-----------------------------------------------------------------------------
(* AgentReference implements OwnershipList                                 *)

\* The threads a leader has settled are those left in its queue.
LEMMA SettledLeft ==
  ASSUME NEW t \in Threads, NEW u
  PROVE  Settled(t, u) <=> /\ pc[t] \in {"token", "release"}
                           /\ \E i \in Left(t) : queue[t][i] = u
  BY DEF Settled, Left, First

\* They wait, and nobody else settles them.
LEMMA SettledOnce ==
  ASSUME QueueInv, NEW t \in Threads, NEW u \in Threads, Settled(t, u)
  PROVE  /\ pc[u] = "wait" /\ result[u] = "none" /\ result[t] \in {"ok", "error"}
         /\ \A v \in Threads : Settled(v, u) => v = t
  BY SettledLeft DEF QueueInv, ResultInv, LeftWait, LeftOnce

\* The phase of a thread, as its result or its leader tells.
LEMMA PhaseIs ==
  ASSUME QueueInv, NEW u \in Threads
  PROVE  /\ pc[u] = "idle" => Phase(u) = "idle"
         /\ pc[u] # "idle" /\ result[u] # "none" => Phase(u) = result[u]
         /\ \A t \in Threads : Settled(t, u) => Phase(u) = result[t]
         /\ pc[u] # "idle" /\ result[u] = "none" /\ (\A t \in Threads : ~ Settled(t, u))
              => Phase(u) = "pending"
<1>1. ASSUME NEW t \in Threads, Settled(t, u) PROVE Phase(u) = result[t]
  BY <1>1, SettledOnce DEF Phase
<1> QED BY <1>1 DEF Phase

\* A step that settles and releases nobody.
LEMMA PhaseKept ==
  ASSUME NEW u \in Threads,
         pc'[u] = "idle" <=> pc[u] = "idle", result'[u] = result[u],
         \A t \in Threads : /\ Settled(t, u)' <=> Settled(t, u)
                            /\ Settled(t, u) => result'[t] = result[t]
  PROVE  Phase(u)' = Phase(u)
  BY DEF Phase

\* The action of a thread is made: its call begins.
LEMMA CallRefined ==
  ASSUME IndInv, NEW t \in Threads, NEW k \in Kinds, NEW S \in SUBSET Objects,
         JoinQueue(t, k, S) \/ OpenQueue(t, k, S)
  PROVE  Abstract!Call(t, k, S)
<1> USE ThreadAssumption DEF IndInv
<1>1. /\ pc[t] = "idle" /\ pc'[t] \in {"wait", "turn"}
      /\ \A u \in Threads \ {t} : pc'[u] = pc[u]
      /\ UNCHANGED <<list, closed, result, next>>
      /\ kind' = [kind EXCEPT ![t] = k] /\ objs' = [objs EXCEPT ![t] = S]
  BY DEF TypeOK, JoinQueue, OpenQueue, NewAction, At, GoTo, agent
<1>2. \A v \in Threads : pc[v] \in {"token", "release"} => queue'[v] = queue[v]
  BY DEF TypeOK, ChainInv, JoinQueue, OpenQueue, NewAction, At
<1>3. \A v, u \in Threads : Settled(v, u)' <=> Settled(v, u)
  BY <1>1, <1>2 DEF Settled
<1>4. Phase(t)' = "pending" /\ Phase(t) = "idle"
  <2>1. result[t] = "none"
    BY <1>1 DEF QueueInv, ResultInv
  <2>2. \A v \in Threads : ~ Settled(v, t)
    BY <1>1, SettledOnce
  <2> QED BY <1>1, <1>3, <2>1, <2>2 DEF Phase
<1>5. \A u \in Threads \ {t} : Phase(u)' = Phase(u)
  BY <1>1, <1>3, PhaseKept
<1> QED BY <1>1, <1>4, <1>5 DEF Abstract!Call

\* A leader learns the outcome of its batch: the calls of the batch end together.
LEMMA TakeRefined ==
  ASSUME IndInv, IndInv', NEW t \in Threads, NEW x \in {"ok", "error"},
         pc[t] \in {"lock", "batch"}, GoTo(t, "token"), UNCHANGED <<closed, kind, objs, queue>>,
         result' = [result EXCEPT ![t] = x], next' = [next EXCEPT ![t] = 0],
         \/ x = "error" /\ list' = list
         \/ ~ closed /\ Abstract!Effect(list, list', Served(t))
  PROVE  Abstract!Next
<1> USE DEF IndInv
<1>1. pc' = [pc EXCEPT ![t] = "token"]
  BY DEF GoTo
<1>2. Served(t) \in SUBSET Threads /\ t \in Served(t)
  BY ServedWait DEF Served
<1>3. \A v \in Threads \ {t}, u \in Threads : Settled(v, u)' <=> Settled(v, u)
  BY <1>1 DEF TypeOK, Settled
<1>4. \A u \in Threads : ~ Settled(t, u)
  BY DEF Settled
<1>5. \A u \in Threads : Settled(t, u)' <=> \E i \in 1 .. Len(queue[t]) : queue[t][i] = u
  <2>1. pc'[t] = "token" /\ next'[t] = 0
    BY <1>1 DEF TypeOK
  <2>2. 0 + 1 = 1
    OBVIOUS
  <2> QED BY <2>1, <2>2 DEF Settled
<1>6. \A u \in Served(t) : \A v \in Threads : ~ Settled(v, u)
  <2> SUFFICES ASSUME NEW u \in Served(t), NEW v \in Threads, Settled(v, u) PROVE FALSE
    OBVIOUS
  <2>1. u \in Threads
    BY <1>2
  <2>2. pc[u] = "wait" /\ v # t
    BY <2>1, SettledOnce, <1>4
  <2>3. PICK i \in 1 .. Len(queue[t]) : queue[t][i] = u
    BY <2>2 DEF Served
  <2>4. i \in Left(t)
    <3>1. First(t) = 0
      BY DEF First
    <3> QED BY <3>1 DEF Left
  <2>5. PICK j \in Left(v) : queue[v][j] = u
    BY SettledLeft
  <2> QED BY <2>2, <2>3, <2>4, <2>5 DEF QueueInv, LeftOnce
<1>7. \A u \in Served(t) : Phase(u) = "pending"
  BY <1>2, <1>6, ServedWait DEF Phase
<1>8. \A u \in Served(t) : Phase(u)' = x
  <2>1. Phase(t)' = x
    BY <1>1 DEF TypeOK, Phase
  <2>2. ASSUME NEW u \in Served(t), u # t PROVE Phase(u)' = x
    <3>1. u \in Threads /\ pc'[u] = "wait" /\ result'[u] = "none" /\ result'[t] = x
      <4>1. \E i \in 1 .. Len(queue[t]) : queue[t][i] = u
        BY <2>2 DEF Served
      <4>2. u \in Threads /\ pc[u] = "wait" /\ result[u] = "none"
        BY <4>1, ServedWait
      <4> QED BY <1>1, <2>2, <4>2 DEF TypeOK
    <3>2. Settled(t, u)' /\ \A v \in Threads : Settled(v, u)' => v = t
      BY <1>3, <1>5, <1>6, <2>2, <3>1 DEF Served
    <3> QED BY <3>1, <3>2 DEF Phase
  <2> QED BY <2>1, <2>2
<1>9. \A u \in Threads \ Served(t) : Phase(u)' = Phase(u)
  <2> SUFFICES ASSUME NEW u \in Threads \ Served(t) PROVE Phase(u)' = Phase(u)
    OBVIOUS
  <2>1. u # t /\ pc'[u] = pc[u] /\ result'[u] = result[u]
    BY <1>1, <1>2 DEF TypeOK
  <2>2. ASSUME NEW v \in Threads
        PROVE  /\ Settled(v, u)' <=> Settled(v, u)
               /\ Settled(v, u) => result'[v] = result[v]
    <3>1. CASE v # t
      BY <1>3, <3>1 DEF TypeOK
    <3>2. CASE v = t
      BY <1>4, <1>5, <3>2 DEF Served
    <3> QED BY <3>1, <3>2
  <2> QED BY <2>1, <2>2, PhaseKept
<1>10. Abstract!Take(Served(t), x, list')
  BY <1>2, <1>7, <1>8, <1>9 DEF Abstract!Take
<1>11. list' \in SUBSET Objects
  BY DEF TypeOK
<1> QED BY <1>2, <1>10, <1>11 DEF Abstract!Next

\* The ownership set of a leader that has applied all the actions.
LEMMA CommitEffect ==
  ASSUME IndInv, NEW t \in Threads, At(t, "batch"), next[t] = Len(queue[t]),
         NEW L, L = IF OwnershipModification(t) THEN set[t] ELSE list
  PROVE  ~ closed /\ Abstract!Effect(list, L, Served(t))
<1> USE DEF IndInv, At
<1>1. ~ closed
  BY DEF LockInv
<1>2. Applied(t) = Served(t)
  BY ServedWait
<1>3. CASE OwnershipModification(t)
  <2>1. L = set[t]
    BY <1>3
  <2>2. Abstract!Effect(list, set[t], Applied(t))
    BY <1>3 DEF EffectInv
  <2> QED BY <1>1, <1>2, <2>1, <2>2
<1>4. CASE ~ OwnershipModification(t)
  <2>1. \A u \in Served(t) : kind[u] = "Heartbeat"
    BY <1>4 DEF OwnershipModification, Served
  <2>2. L = list
    BY <1>4
  <2>3. Abstract!Effect(list, list, Served(t))
    BY <2>1 DEF Abstract!Effect, Abstract!Adds, Abstract!Removes
  <2> QED BY <1>1, <2>2, <2>3
<1> QED BY <1>3, <1>4

\* A leader tells the next thread in its queue what both know already.
LEMMA ReleaseRefined ==
  ASSUME IndInv, NEW t \in Threads, Release(t)
  PROVE  UNCHANGED Abstract!vars
<1> USE DEF IndInv
<1> DEFINE n == next[t] + 1
           w == queue[t][n]
<1>1. /\ pc[t] = "release" /\ next[t] < Len(queue[t])
      /\ next' = [next EXCEPT ![t] = @ + 1]
      /\ result' = [result EXCEPT ![w] = result[t]]
      /\ UNCHANGED <<list, closed, kind, objs, pc, queue>>
  BY DEF Release, At, agent, action
<1>2. next[t] \in Nat /\ Len(queue[t]) \in Nat /\ First(t) = next[t]
  BY <1>1 DEF TypeOK, First
<1>3. n \in Left(t)
  BY <1>1, <1>2 DEF Left
<1>4. w \in Threads /\ Settled(t, w)
  BY <1>1, <1>3, LeftType, SettledLeft
<1>5. /\ pc[w] = "wait" /\ result[w] = "none" /\ result[t] \in {"ok", "error"}
      /\ \A v \in Threads : Settled(v, w) => v = t
  BY <1>4, SettledOnce
<1>6. \A u \in Threads : u = w => Phase(u)' = Phase(u)
  <2> SUFFICES ASSUME NEW u \in Threads, u = w PROVE Phase(u)' = Phase(u)
    OBVIOUS
  <2>1. Phase(u) = result[t]
    BY <1>4, <1>5 DEF Phase
  <2>2. pc'[u] = "wait" /\ result'[u] = result[t]
    BY <1>1, <1>4, <1>5 DEF TypeOK
  <2> QED BY <1>5, <2>1, <2>2 DEF Phase
<1>7. \A u \in Threads \ {w} : Phase(u)' = Phase(u)
  <2> SUFFICES ASSUME NEW u \in Threads \ {w} PROVE Phase(u)' = Phase(u)
    OBVIOUS
  <2>1. \A v \in Threads \ {t} : Settled(v, u)' <=> Settled(v, u)
    BY <1>1 DEF TypeOK, Settled
  <2>2. Settled(t, u)' <=> Settled(t, u)
    <3>1. next'[t] = n
      BY <1>1 DEF TypeOK
    <3>2. next[t] + 1 .. Len(queue[t]) = {n} \cup (n + 1 .. Len(queue[t]))
      BY <1>1, <1>2
    <3> QED BY <1>1, <3>1, <3>2 DEF Settled
  <2>3. \A v \in Threads \ {w} : result'[v] = result[v]
    BY <1>1 DEF TypeOK
  <2>4. \A v \in Threads : Settled(v, u) => v # w
    BY <1>5 DEF Settled
  <2> QED BY <1>1, <2>1, <2>2, <2>3, <2>4, PhaseKept
<1> QED BY <1>1, <1>4, <1>6, <1>7 DEF Abstract!vars

\* A call returns.
LEMMA ReturnRefined ==
  ASSUME IndInv, NEW t \in Threads, Return(t)
  PROVE  Abstract!Return(t)
<1> USE DEF IndInv
<1>1. /\ \/ pc[t] = "release" /\ next[t] = Len(queue[t])
         \/ pc[t] = "wait" /\ result[t] # "none"
      /\ next' = [next EXCEPT ![t] = 0]
      /\ queue' = [queue EXCEPT ![t] = <<>>]
      /\ result' = [result EXCEPT ![t] = "none"]
      /\ pc' = [pc EXCEPT ![t] = "idle"]
      /\ kind' = [kind EXCEPT ![t] = "Heartbeat"] /\ objs' = [objs EXCEPT ![t] = {}]
      /\ UNCHANGED <<list, closed>>
  BY DEF Return, At, GoTo, agent
<1>2. result[t] \in {"ok", "error"}
  BY <1>1 DEF TypeOK, QueueInv, ResultInv
<1>3. Phase(t) \in {"ok", "error"} /\ Phase(t)' = "idle"
  BY <1>1, <1>2 DEF TypeOK, Phase
<1>4. \A u \in Threads : ~ Settled(t, u) /\ ~ Settled(t, u)'
  <2>1. next[t] = Len(queue[t]) => Left(t) = {} \/ pc[t] # "release"
    <3>1. Len(queue[t]) \in Nat
      BY DEF TypeOK
    <3> QED BY <3>1 DEF Left, First
  <2>2. pc'[t] = "idle"
    BY <1>1 DEF TypeOK
  <2> QED BY <1>1, <2>1, <2>2, SettledLeft DEF Settled
<1>5. \A u \in Threads, v \in Threads \ {t} : Settled(v, u)' <=> Settled(v, u)
  BY <1>1 DEF TypeOK, Settled
<1>6. \A u \in Threads \ {t} : Phase(u)' = Phase(u)
  <2> SUFFICES ASSUME NEW u \in Threads \ {t} PROVE Phase(u)' = Phase(u)
    OBVIOUS
  <2>1. \A v \in Threads \ {t} : pc'[v] = pc[v] /\ result'[v] = result[v]
    BY <1>1 DEF TypeOK
  <2> QED BY <1>4, <1>5, <2>1, PhaseKept
<1> QED BY <1>1, <1>3, <1>6 DEF Abstract!Return

\* A step that settles nobody leaves all phases alone.
LEMMA PhasesKept ==
  ASSUME IndInv, UNCHANGED result,
         \/ UNCHANGED <<pc, queue, next>>
         \/ /\ UNCHANGED queue
            /\ \E t \in Threads, s \in PCs :
                 /\ \/ pc[t] \in {"turn", "lock", "own", "batch"} /\ s \in {"lock", "own", "batch"}
                    \/ pc[t] = "token" /\ s = "release" /\ next'[t] = next[t]
                 /\ GoTo(t, s)
                 /\ \A v \in Threads \ {t} : next'[v] = next[v]
  PROVE  \A u \in Threads : Phase(u)' = Phase(u)
<1> USE DEF IndInv
<1>1. \A v, u \in Threads : Settled(v, u)' <=> Settled(v, u)
  BY DEF TypeOK, Settled, GoTo
<1>2. \A u \in Threads : pc'[u] = "idle" <=> pc[u] = "idle"
  BY DEF TypeOK, GoTo
<1> QED BY <1>1, <1>2, PhaseKept

\* Every step is one of OwnershipList or leaves it unchanged.
LEMMA NextRefined == IndInv /\ IndInv' /\ [Next]_vars => [Abstract!Next]_(Abstract!vars)
<1> SUFFICES ASSUME IndInv, IndInv', [Next]_vars
             PROVE  Abstract!Next \/ UNCHANGED Abstract!vars
  OBVIOUS
<1> DEFINE Goal == Abstract!Next \/ UNCHANGED Abstract!vars
<1>1. ASSUME NEW t \in Threads, NEW k \in Kinds, NEW S \in SUBSET Objects,
             JoinQueue(t, k, S) \/ OpenQueue(t, k, S)
      PROVE  Goal
  BY <1>1, CallRefined DEF Abstract!Next, Kinds, Abstract!Kinds
<1>2. ASSUME NEW t \in Threads, ServeStep(t) PROVE Goal
  <2>1. CASE CloseQueue(t) \/ FetchAgent(t) \/ FindCollected(t) \/ ApplyOwn(t) \/ ApplyQueued(t) \/ PassTurn(t)
    <3>1. /\ UNCHANGED <<result, queue>>
          /\ \/ UNCHANGED <<pc, next>>
             \/ \E s \in PCs :
                 /\ \/ pc[t] \in {"turn", "lock", "own", "batch"} /\ s \in {"lock", "own", "batch"}
                    \/ pc[t] = "token" /\ s = "release" /\ next'[t] = next[t]
                 /\ GoTo(t, s)
                 /\ \A v \in Threads \ {t} : next'[v] = next[v]
      <4>1. CASE CloseQueue(t)
        BY <4>1 DEF CloseQueue, At, PCs
      <4>2. CASE FetchAgent(t)
        BY <4>2 DEF FetchAgent, At, PCs
      <4>3. CASE FindCollected(t)
        BY <4>3 DEF FindCollected
      <4>4. CASE ApplyOwn(t)
        BY <4>4 DEF IndInv, TypeOK, ApplyOwn, At, PCs
      <4>5. CASE ApplyQueued(t)
        <5>1. pc[t] = "batch" /\ GoTo(t, "batch") /\ UNCHANGED <<result, queue>>
          BY <4>5 DEF IndInv, TypeOK, ApplyQueued, At, GoTo
        <5>2. \A v \in Threads \ {t} : next'[v] = next[v]
          BY <4>5 DEF IndInv, TypeOK, ApplyQueued
        <5> QED BY <5>1, <5>2 DEF PCs
      <4>6. CASE PassTurn(t)
        BY <4>6 DEF PassTurn, At, PCs
      <4> QED BY <2>1, <4>1, <4>2, <4>3, <4>4, <4>5, <4>6
    <3>2. UNCHANGED <<list, closed, kind, objs>>
      BY <2>1 DEF CloseQueue, FetchAgent, FindCollected, ApplyOwn, ApplyQueued, PassTurn, agent, action
    <3>3. \A u \in Threads : Phase(u)' = Phase(u)
      BY <3>1, PhasesKept
    <3> QED BY <3>2, <3>3 DEF Abstract!vars
  <2>2. CASE Commit(t)
    <3>1. ~ closed /\ Abstract!Effect(list, list', Served(t))
      BY <2>2, CommitEffect DEF Commit
    <3> QED BY <2>2, <3>1, TakeRefined DEF Commit, At, action
  <2>3. CASE NoSuchObject(t)
    BY <2>3, TakeRefined DEF NoSuchObject, At, agent, action
  <2>4. CASE Release(t)
    BY <2>4, ReleaseRefined
  <2>5. CASE Return(t)
    BY <2>5, ReturnRefined DEF Abstract!Next
  <2> QED BY <1>2, <2>1, <2>2, <2>3, <2>4, <2>5 DEF ServeStep
<1>3. ASSUME NEW t \in Threads, StoreError(t) PROVE Goal
  <2>1. list' = list \/ (~ closed /\ Abstract!Effect(list, list', Served(t)))
    BY <1>3, CommitEffect DEF StoreError
  <2> QED BY <1>3, <2>1, TakeRefined DEF StoreError, At, action
<1>4. CASE Claim \/ CollectStep
  <2>1. UNCHANGED <<kind, objs>> /\ \A u \in Threads : Phase(u)' = Phase(u)
    BY <1>4, PhasesKept DEF Claim, CollectStep, CollectObject, EndCollection, action
  <2>2. CASE Claim
    <3>1. Abstract!Collect(list)
      BY <2>1, <2>2 DEF Claim, Abstract!Collect
    <3> QED BY <3>1 DEF IndInv, TypeOK, Abstract!Next
  <2>3. ASSUME NEW o \in Objects, CollectObject(o) PROVE Goal
    <3>1. Abstract!Collect(list \ {o})
      BY <2>1, <2>3 DEF IndInv, LockInv, TypeOK, CollectObject, Abstract!Collect
    <3> QED BY <3>1 DEF IndInv, TypeOK, Abstract!Next
  <2>4. CASE EndCollection
    BY <2>1, <2>4 DEF EndCollection, Abstract!vars
  <2> QED BY <1>4, <2>2, <2>3, <2>4 DEF CollectStep
<1>5. CASE UNCHANGED vars
  <2>1. \A u \in Threads : Phase(u)' = Phase(u)
    BY <1>5, PhasesKept DEF vars
  <2> QED BY <1>5, <2>1 DEF vars, Abstract!vars
<1> QED BY <1>1, <1>2, <1>3, <1>4, <1>5 DEF Next, CallStep

\* For any number of threads: the calls of AgentReference take effect in the stored
\* ownership list one batch at a time, each between its start and its return, and
\* none does once the agent is being garbage collected.
THEOREM Implements == Spec => ListIsAtomic
<1>1. Init => Abstract!Init
  BY DEF Init, Abstract!Init, Phase
<1> QED BY <1>1, Inductive, NextRefined, PTL DEF Spec, ListIsAtomic, Abstract!Spec
=============================================================================
