--------------------------- MODULE AgentReference ---------------------------
(***************************************************************************)
(* AgentReference::queueAndExecuteAction(): how the threads of a process   *)
(* share the updates of their agent object.  A thread that finds no open   *)
(* queue opens one and serves it (the leader of a batch); others add their *)
(* action to the open queue and wait.  Leaders take turns: each waits for  *)
(* a promise its predecessor fulfils.  When its turn comes the leader      *)
(* closes its queue, locks and fetches the agent object, applies its own   *)
(* action and those of the queue to the ownership set, commits, passes the *)
(* turn on and releases the waiting threads.                               *)
(*                                                                         *)
(* A garbage collector that takes the process for dead locks the agent     *)
(* object, marks it as being garbage collected, and removes it.  The       *)
(* heartbeat thread (AgentHeartbeatThread) ends the process when it cannot *)
(* bump the heartbeat.                                                     *)
(***************************************************************************)
EXTENDS Naturals, Sequences

CONSTANTS
    Threads,         \* threads of the process
    HeartbeatThread, \* the one that only bumps the heartbeat
    Objects,         \* addresses
    NoThread,        \* a null pointer, a promise that is fulfilled
    Collector,       \* the garbage collector, as the holder of the agent lock
    MaxErrors,       \* bound: errors of the object store
    MaxClaims        \* bound: garbage collectors that claim the agent

ASSUME ThreadAssumption ==
    /\ HeartbeatThread \in Threads
    /\ NoThread \notin Threads
    /\ Collector \notin Threads
    /\ Collector # NoThread

ASSUME BoundAssumption == MaxErrors \in Nat /\ MaxClaims \in Nat

VARIABLES
    \* the agent object
    list,    \* its ownership list
    closed,  \* being_garbage_collected
    gone,    \* the object was removed
    lock,    \* who holds its lock
    \* the process
    exited,  \* the process has exited
    kind,    \* kind[t]: the operation of the action of t
    objs,    \* objs[t]: its object addresses
    pc,      \* pc[t]: where t is in queueAndExecuteAction()
    result,  \* result[t]: what the promise of the action of t holds
    current, \* m_currentQueue: the leader whose queue is open
    queue,   \* queue[t]: the actions (threads) in the queue t leads
    next,    \* next[t]: how many of them the loop of t has passed
    tail,    \* the leader that will fulfil m_nextQueueExecutionPromise, if not done
    pred,    \* pred[t]: the leader whose promise t waits for, if not fulfilled
    set,     \* set[t]: the ownershipSet of leader t
    errors, claims \* counters of the bounds

agent == <<list, closed, gone>>
chain == <<tail, pred>>
action == <<kind, objs>>
vars == <<list, closed, gone, lock, exited, kind, objs, pc, result, current, queue, next,
          tail, pred, set, errors, claims>>

Kinds == {"Add", "Remove", "Heartbeat"}
PCs == {"idle", "wait", "turn", "lock", "own", "batch", "token", "release"}

Init ==
    /\ list = {}
    /\ closed = FALSE
    /\ gone = FALSE
    /\ lock = NoThread
    /\ exited = FALSE
    /\ kind = [t \in Threads |-> "Heartbeat"]
    /\ objs = [t \in Threads |-> {}]
    /\ pc = [t \in Threads |-> "idle"]
    /\ result = [t \in Threads |-> "none"]
    /\ current = NoThread
    /\ queue = [t \in Threads |-> <<>>]
    /\ next = [t \in Threads |-> 0]
    /\ tail = NoThread
    /\ pred = [t \in Threads |-> NoThread]
    /\ set = [t \in Threads |-> {}]
    /\ errors = 0
    /\ claims = 0

\* Thread t of the running process is at step s.
At(t, s) == pc[t] = s /\ ~ exited

GoTo(t, s) == pc' = [pc EXCEPT ![t] = s]

-----------------------------------------------------------------------------
(* Joining or opening a queue, under m_currentQueueMutex                   *)

\* addToOwnership() and its like: the action is made; the heartbeat thread only
\* makes heartbeats (an empty batch has no more effect than a heartbeat).
NewAction(t, k, S) ==
    /\ At(t, "idle")
    /\ t = HeartbeatThread <=> k = "Heartbeat"
    /\ k = "Heartbeat" <=> S = {}
    /\ kind' = [kind EXCEPT ![t] = k]
    /\ objs' = [objs EXCEPT ![t] = S]

\* There is a queue: the action is added to it and the thread waits.
JoinQueue(t, k, S) ==
    /\ NewAction(t, k, S)
    /\ current # NoThread
    /\ queue' = [queue EXCEPT ![current] = Append(@, t)]
    /\ GoTo(t, "wait")
    /\ UNCHANGED <<agent, lock, exited, result, current, next, chain, set, errors, claims>>

\* Mutant: a queue is opened whether there is one or not.
NoQueue == TRUE

NoCurrentQueue == current = NoThread
NextQueueExecutionFuture == tail

\* There is none: the thread opens one, takes the future its predecessor will
\* fulfil and leaves its own promise behind.
OpenQueue(t, k, S) ==
    /\ NewAction(t, k, S)
    /\ NoCurrentQueue
    /\ current' = t
    /\ queue' = [queue EXCEPT ![t] = <<>>]
    /\ pred' = [pred EXCEPT ![t] = NextQueueExecutionFuture]
    /\ tail' = t
    /\ GoTo(t, "turn")
    /\ UNCHANGED <<agent, lock, exited, result, next, set, errors, claims>>

\* The predecessor is done: the queue is closed.  (An exception is thrown if it
\* is not the listed one; QueueListed says that this never happens.)
CloseQueue(t) ==
    /\ At(t, "turn")
    /\ pred[t] = NoThread
    /\ current = t
    /\ current' = NoThread
    /\ GoTo(t, "lock")
    /\ UNCHANGED <<agent, lock, exited, action, result, queue, next, chain, set, errors, claims>>

-----------------------------------------------------------------------------
(* Serving the queue                                                       *)

\* Mutant: only the leader's own action is looked at.
OwnActionModifies(t) == kind[t] # "Heartbeat"

\* m_ownerShipModifyingOperations
OwnershipModification(t) ==
    \/ kind[t] # "Heartbeat"
    \/ \E i \in 1 .. Len(queue[t]) : kind[queue[t][i]] # "Heartbeat"

\* The agent object is locked and fetched.
FetchAgent(t) ==
    /\ At(t, "lock")
    /\ lock = NoThread
    /\ ~ gone
    /\ ~ closed
    /\ lock' = t
    /\ set' = [set EXCEPT ![t] = IF OwnershipModification(t) THEN list ELSE {}]
    /\ GoTo(t, "own")
    /\ UNCHANGED <<agent, exited, action, result, current, queue, next, chain, errors, claims>>

\* It is being garbage collected: the process exits.
FindCollected(t) ==
    /\ At(t, "lock")
    /\ lock = NoThread
    /\ ~ gone
    /\ closed
    /\ exited' = TRUE
    /\ UNCHANGED <<agent, lock, action, pc, result, current, queue, next, chain, set,
                   errors, claims>>

\* appyAction(): the ownership set after the action of thread u.
ApplyAction(S, u) ==
    CASE kind[u] = "Add" -> S \cup objs[u]
      [] kind[u] = "Remove" -> S \ objs[u]
      [] OTHER -> S

ApplyOwn(t) ==
    /\ At(t, "own")
    /\ set' = [set EXCEPT ![t] = ApplyAction(@, t)]
    /\ next' = [next EXCEPT ![t] = 0]
    /\ GoTo(t, "batch")
    /\ UNCHANGED <<agent, lock, exited, action, result, current, queue, chain, errors, claims>>

ApplyQueued(t) ==
    /\ At(t, "batch")
    /\ next[t] < Len(queue[t])
    /\ next' = [next EXCEPT ![t] = @ + 1]
    /\ set' = [set EXCEPT ![t] = ApplyAction(@, queue[t][next[t] + 1])]
    /\ UNCHANGED <<agent, lock, exited, action, pc, result, current, queue, chain, errors,
                   claims>>

\* The agent object is committed and unlocked.
Commit(t) ==
    /\ At(t, "batch")
    /\ next[t] = Len(queue[t])
    /\ list' = IF OwnershipModification(t) THEN set[t] ELSE list
    /\ lock' = NoThread
    /\ result' = [result EXCEPT ![t] = "ok"]
    /\ next' = [next EXCEPT ![t] = 0]
    /\ GoTo(t, "token")
    /\ UNCHANGED <<closed, gone, exited, action, current, queue, chain, set, errors, claims>>

\* An exception: the object is gone, ...
NoSuchObject(t) ==
    /\ At(t, "lock")
    /\ gone
    /\ result' = [result EXCEPT ![t] = "error"]
    /\ next' = [next EXCEPT ![t] = 0]
    /\ GoTo(t, "token")
    /\ UNCHANGED <<agent, lock, exited, action, current, queue, chain, set, errors, claims>>

\* ... or the object store fails, possibly after it has written the object.
StoreError(t) ==
    /\ \/ At(t, "lock") /\ UNCHANGED <<list, lock>>
       \/ /\ At(t, "batch")
          /\ next[t] = Len(queue[t])
          /\ list' \in {list, IF OwnershipModification(t) THEN set[t] ELSE list}
          /\ lock' = NoThread
    /\ errors < MaxErrors
    /\ errors' = errors + 1
    /\ result' = [result EXCEPT ![t] = "error"]
    /\ next' = [next EXCEPT ![t] = 0]
    /\ GoTo(t, "token")
    /\ UNCHANGED <<closed, gone, exited, action, current, queue, chain, set, claims>>

-----------------------------------------------------------------------------
(* Passing the turn on and releasing the others                            *)

\* Mutant: after an exception the next queue is not released.
SetPromiseIfOk(t) ==
    /\ tail' = IF tail = t /\ result[t] = "ok" THEN NoThread ELSE tail
    /\ pred' = [u \in Threads |->
                  IF pred[u] = t /\ result[t] = "ok" THEN NoThread ELSE pred[u]]

\* promiseForNextQueue->set_value()
SetPromise(t) ==
    /\ tail' = IF tail = t THEN NoThread ELSE tail
    /\ pred' = [u \in Threads |-> IF pred[u] = t THEN NoThread ELSE pred[u]]

PassTurn(t) ==
    /\ At(t, "token")
    /\ SetPromise(t)
    /\ GoTo(t, "release")
    /\ UNCHANGED <<agent, lock, exited, action, result, current, queue, next, set, errors,
                   claims>>

\* set_value() or set_exception() of the promise of the next thread in the queue.
Release(t) ==
    /\ At(t, "release")
    /\ next[t] < Len(queue[t])
    /\ next' = [next EXCEPT ![t] = @ + 1]
    /\ result' = [result EXCEPT ![queue[t][next[t] + 1]] = result[t]]
    /\ UNCHANGED <<agent, lock, exited, action, pc, current, queue, chain, set, errors, claims>>

\* Mutant: AgentHeartbeatThread ignores the exception.
KeepRunning(t) == FALSE

\* An exception ends AgentHeartbeatThread::run() and the process with it.
ExitAfter(t) == t = HeartbeatThread /\ result[t] = "error"

\* A heartbeat that took longer than the deadline ends the process too.
SlowHeartbeat(t) == t = HeartbeatThread

\* queueAndExecuteAction() returns: the leader has released everybody, or a
\* waiting thread was released.  Its action is no longer needed.  A process that
\* exits holds no lock.
Return(t) ==
    /\ \/ At(t, "release") /\ next[t] = Len(queue[t])
       \/ At(t, "wait") /\ result[t] # "none"
    /\ queue' = [queue EXCEPT ![t] = <<>>]
    /\ next' = [next EXCEPT ![t] = 0]
    /\ set' = [set EXCEPT ![t] = {}]
    /\ kind' = [kind EXCEPT ![t] = "Heartbeat"]
    /\ objs' = [objs EXCEPT ![t] = {}]
    /\ result' = [result EXCEPT ![t] = "none"]
    /\ exited' \in {ExitAfter(t), SlowHeartbeat(t)}
    /\ lock' = IF exited' /\ lock # Collector THEN NoThread ELSE lock
    /\ GoTo(t, "idle")
    /\ UNCHANGED <<agent, current, chain, errors, claims>>

-----------------------------------------------------------------------------
(* A garbage collector                                                     *)

\* cleanupDeadAgent() locks the agent and commits it as being collected.
Claim ==
    /\ lock = NoThread
    /\ ~ gone
    /\ claims < MaxClaims
    /\ claims' = claims + 1
    /\ lock' = Collector
    /\ closed' = TRUE
    /\ UNCHANGED <<list, gone, exited, action, pc, result, current, queue, next, chain, set,
                   errors>>

\* It takes objects out of the list one after the other ...
CollectObject(o) ==
    /\ lock = Collector
    /\ o \in list
    /\ list' = list \ {o}
    /\ UNCHANGED <<closed, gone, lock, exited, action, pc, result, current, queue, next,
                   chain, set, errors, claims>>

\* ... and removes the agent object, or dies before that.
EndCollection ==
    /\ lock = Collector
    /\ lock' = NoThread
    /\ \/ list = {} /\ gone' = TRUE
       \/ UNCHANGED gone
    /\ UNCHANGED <<list, closed, exited, action, pc, result, current, queue, next, chain, set,
                   errors, claims>>

-----------------------------------------------------------------------------

CallStep(t) ==
    \E k \in Kinds, S \in SUBSET Objects : JoinQueue(t, k, S) \/ OpenQueue(t, k, S)

ServeStep(t) ==
    \/ CloseQueue(t)
    \/ FetchAgent(t)
    \/ FindCollected(t)
    \/ ApplyOwn(t)
    \/ ApplyQueued(t)
    \/ Commit(t)
    \/ NoSuchObject(t)
    \/ PassTurn(t)
    \/ Release(t)
    \/ Return(t)

CollectStep == (\E o \in Objects : CollectObject(o)) \/ EndCollection

Next ==
    \/ \E t \in Threads : CallStep(t) \/ ServeStep(t) \/ StoreError(t)
    \/ Claim
    \/ CollectStep

\* A call goes on, the heartbeat thread keeps calling, and a collector that has
\* claimed the agent goes on or dies.
Fairness ==
    /\ \A t \in Threads : WF_vars(ServeStep(t))
    /\ WF_vars(CallStep(HeartbeatThread))
    /\ WF_vars(CollectStep)

Spec == Init /\ [][Next]_vars
LiveSpec == Spec /\ Fairness

-----------------------------------------------------------------------------
(* Properties                                                              *)

\* The stored list and the set the leader works on hold object addresses, queues hold
\* threads, promises results.
TypeOK ==
    /\ list \subseteq Objects
    /\ closed \in BOOLEAN
    /\ gone \in BOOLEAN
    /\ lock \in Threads \cup {NoThread, Collector}
    /\ exited \in BOOLEAN
    /\ kind \in [Threads -> Kinds]
    /\ objs \in [Threads -> SUBSET Objects]
    /\ pc \in [Threads -> PCs]
    /\ result \in [Threads -> {"none", "ok", "error"}]
    /\ current \in Threads \cup {NoThread}
    /\ queue \in [Threads -> Seq(Threads)]
    /\ next \in [Threads -> Nat]
    /\ tail \in Threads \cup {NoThread}
    /\ pred \in [Threads -> Threads \cup {NoThread}]
    /\ set \in [Threads -> SUBSET Objects]
    /\ errors \in Nat
    /\ claims \in Nat

\* A leader whose turn has come finds its own queue listed: the exception "our
\* queue is not the listed one as expected" is never thrown.
QueueListed == \A t \in Threads : pc[t] = "turn" => current = t

\* From the closing of its queue to the release of the next one.
Serving == {"lock", "own", "batch", "token"}

\* Leaders never contend for the agent object, also when one fails.
OneServer ==
    \A t, u \in Threads :
        pc[t] \in Serving /\ pc[u] \in Serving => t = u

\* Leader t has settled the action of thread u and not told it yet.
Settled(t, u) ==
    /\ pc[t] \in {"token", "release"}
    /\ \E i \in next[t] + 1 .. Len(queue[t]) : queue[t][i] = u

\* What the call of thread u has come to, which its leader knows first.
Phase(u) ==
    CASE pc[u] = "idle" -> "idle"
      [] pc[u] # "idle" /\ result[u] # "none" -> result[u]
      [] pc[u] # "idle" /\ result[u] = "none" ->
           IF \E t \in Threads : Settled(t, u) /\ result[t] = "ok" THEN "ok"
           ELSE IF \E t \in Threads : Settled(t, u) /\ result[t] = "error" THEN "error"
           ELSE "pending"

Abstract == INSTANCE OwnershipList WITH phase <- [u \in Threads |-> Phase(u)]

\* The threads see an ownership list that every call updates at one moment
\* between its start and its return, and that nobody but the collector updates
\* once the agent is being collected: AgentReference implements OwnershipList.
ListIsAtomic == Abstract!Spec

\* Every call returns or the process exits, also after exceptions.
CallsReturn == \A t \in Threads : pc[t] # "idle" ~> (pc[t] = "idle" \/ exited)

\* A process whose agent is being garbage collected does not live on: the next
\* update or heartbeat ends it.
ZombieExits == closed ~> exited
=============================================================================
