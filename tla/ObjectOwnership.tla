-------------------------- MODULE ObjectOwnership --------------------------
(***************************************************************************)
(* Ownership of archive requests in the CTA object store.                  *)
(*                                                                         *)
(* Every process has an Agent object whose ownership list is an intent     *)
(* log: it names the objects the process is about to create, intends to    *)
(* own or owns.  A job (one tape copy of a request) is owned either by an  *)
(* agent or by a queue, and a queue references the requests it owns.       *)
(* Processes move jobs between agents and queues with the two container    *)
(* algorithms of objectstore/Algorithms.hpp; a process may crash between   *)
(* any two commits, and the garbage collector of another process then      *)
(* returns what the dead agent owned to the queues.                        *)
(*                                                                         *)
(* One action is one commit to the store.  Object locks are not separate   *)
(* variables: a thread holds the lock of a queue, a request or an agent    *)
(* exactly while its program counter is in the section that takes it, so a *)
(* crash releases the lock.                                                *)
(***************************************************************************)
EXTENDS Naturals, FiniteSets

CONSTANTS
    Requests,     \* addresses of the archive requests
    Pools,        \* tape pools; a request has at most one job per pool
    Types,        \* queue types: one queue per pool and type
    FirstType,    \* the type of the queue a new job goes to (ToTransferForUser)
    Copies,       \* Copies[r]: the pools in which r has a job
    CopyNb,       \* CopyNb[r][p]: the copy number of the job of r in p
    Agents,       \* addresses of the agents (one per process)
    Frontends,    \* agents of the processes that queue requests
    Sessions,     \* agents of the processes that pop and process jobs
    Collectors,   \* agents of the processes that run the garbage collector
    SessionQueue, \* SessionQueue[a]: the queue session a pops from
    Late,         \* agents whose process is not started yet
    Threads,      \* threads that use the object store
    AgentOf,      \* AgentOf[t]: the agent of the process of t
    Register,     \* the agent register, as the owner of an agent object
    NoOwner,      \* the owner "" of a complete job
    MaxBatch,     \* bound: elements popped in one round
    MaxStops,     \* bound: processes that crash or exit
    MaxErrors,    \* bound: ownership switches that end with an error
    MaxRequeues   \* bound: requeueings by sessions (retry counters of jobs)

Queues == Pools \X Types

ASSUME RoleAssumption ==
    /\ Frontends \subseteq Agents
    /\ Sessions \subseteq Agents
    /\ Collectors \subseteq Agents
    /\ Late \subseteq Agents
    /\ Frontends \cap Sessions = {}
    /\ Frontends \cap Collectors = {}
    /\ Sessions \cap Collectors = {}
    /\ AgentOf \in [Threads -> Agents]

ASSUME QueueAssumption ==
    /\ FirstType \in Types
    /\ Copies \in [Requests -> SUBSET Pools]
    /\ CopyNb \in [Requests -> [Pools -> Nat]]
    /\ SessionQueue \in [Sessions -> Queues]

\* Addresses of different kinds of objects differ.
ASSUME AddressAssumption ==
    /\ Requests \cap Agents = {}
    /\ Queues \cap Agents = {}
    /\ Register \notin Agents
    /\ NoOwner \notin Agents \cup Queues

ASSUME BoundAssumption ==
    /\ MaxBatch \in Nat
    /\ MaxStops \in Nat
    /\ MaxErrors \in Nat
    /\ MaxRequeues \in Nat

VARIABLES
    \* the object store
    rstate,     \* rstate[r]: "none", "claimed" (address chosen), "stored", "gone"
    owner,      \* owner[r][p]: the owner of the job of r in p
    type,       \* type[r][p]: the queue type implied by the status of the job
    refs,       \* refs[q]: the requests queue q references
    list,       \* list[a]: the ownership list in the agent object of a
    agObj,      \* the agents whose agent object exists
    agOwner,    \* agOwner[a]: the owner of the agent object of a
    registered, \* agents listed in the agent register
    untracked,  \* agents listed as untracked in the agent register
    \* the processes
    life,       \* life[a]: "new", "starting", "up", "leaving" or "down"
    held,       \* held[a]: requests whose job session a has been handed
    pc,         \* pc[t]: the step thread t is at
    cur,        \* cur[t]: the queue thread t works on
    batch,      \* batch[t]: the requests of the operation of t
    todo,       \* todo[t]: those whose ownership switch is still to be tried
    failed,     \* failed[t]: those whose ownership switch failed
    kept,       \* kept[t]: failed ones that stay referenced in the queue
    victim,     \* victim[t]: the agent the collector thread t cleans up
    plan,       \* plan[t]: <<r, q>>, the requests the collector still has to requeue in q
    others,     \* others[t]: agent objects the victim owned, to be handed back
    other,      \* other[t]: the one being handed back
    stops, errors, requeues, \* counters of the bounds
    forsaken    \* history: <<r, o>>, the owner o of a job of r may not point back to it

store == <<rstate, owner, type, refs, list, agObj, agOwner, registered, untracked>>
local == <<pc, cur, batch, todo, failed, kept, victim, plan, others, other>>
counters == <<stops, errors, requeues, forsaken>>
vars == <<rstate, owner, type, refs, list, agObj, agOwner, registered, untracked,
          life, held, pc, cur, batch, todo, failed, kept, victim, plan, others,
          other, stops, errors, requeues, forsaken>>

-----------------------------------------------------------------------------
(* Threads and locks                                                       *)

\* Sections in which a thread holds the lock of its queue, of its request,
\* or of the agent object it cleans up.
HoldsQueue == {"commitJob", "popSwitch", "reqSwitch", "gcSwitch"}
HoldsRequest == {"enqueue", "commitJob"}
HoldsAgent == {"gcOwn", "gcTrack", "gcFetch", "gcSort", "gcRequeue", "gcSwitch",
               "gcErase", "gcOther", "gcHandBack", "gcRelinquish", "gcUnregister",
               "gcDone"}
PCs == {"idle", "ended", "insert", "bottomHalf", "reqRef", "deref"}
       \cup HoldsQueue \cup HoldsRequest \cup HoldsAgent

QueueLocked(q) == \E t \in Threads : pc[t] \in HoldsQueue /\ cur[t] = q
RequestLocked(r) == \E t \in Threads : pc[t] \in HoldsRequest /\ r \in batch[t]
AgentLocked(a) == \E t \in Threads : pc[t] \in HoldsAgent /\ victim[t] = a

\* Thread t of a running process is at step s.
At(t, s) == pc[t] = s /\ life[AgentOf[t]] = "up"

Stored(r) == rstate[r] = "stored"

\* Mutant: the previous owner is not checked.
CanSwitchUnchecked(r, p, from, to) == Stored(r)

\* What asyncUpdateJobOwner() finds: the job exists and belongs to the expected
\* previous owner, or already to the new one.
CanSwitch(r, p, from, to) == Stored(r) /\ owner[r][p] \in {from, to}

GoTo(t, s) == pc' = [pc EXCEPT ![t] = s]

\* Mutant: the list is only updated in memory.
AddUnrecorded(a, S) == UNCHANGED list

\* AgentReference::addBatchToOwnership() and removeBatchFromOwnership()
AddBatchToOwnership(a, S) == list' = [list EXCEPT ![a] = @ \cup S]
RemoveBatchFromOwnership(a, S) == list' = [list EXCEPT ![a] = @ \ S]

\* The request object is removed, and its jobs with it.
Remove(r) ==
    /\ rstate' = [rstate EXCEPT ![r] = "gone"]
    /\ owner' = [owner EXCEPT ![r] = [p \in Pools |-> NoOwner]]

NoQueue == <<>>

Init ==
    /\ rstate = [r \in Requests |-> "none"]
    /\ owner = [r \in Requests |-> [p \in Pools |-> NoOwner]]
    /\ type = [r \in Requests |-> [p \in Pools |-> FirstType]]
    /\ refs = [q \in Queues |-> {}]
    /\ list = [a \in Agents |-> {}]
    /\ agObj = Agents \ Late
    /\ agOwner = [a \in Agents |-> Register]
    /\ registered = Agents \ Late
    /\ untracked = Agents \ Late
    /\ life = [a \in Agents |-> IF a \in Late THEN "new" ELSE "up"]
    /\ held = [a \in Agents |-> {}]
    /\ pc = [t \in Threads |-> "idle"]
    /\ cur = [t \in Threads |-> NoQueue]
    /\ batch = [t \in Threads |-> {}]
    /\ todo = [t \in Threads |-> {}]
    /\ failed = [t \in Threads |-> {}]
    /\ kept = [t \in Threads |-> {}]
    /\ victim = [t \in Threads |-> AgentOf[t]]
    /\ plan = [t \in Threads |-> {}]
    /\ others = [t \in Threads |-> {}]
    /\ other = [t \in Threads |-> AgentOf[t]]
    /\ stops = 0
    /\ errors = 0
    /\ requeues = 0
    /\ forsaken = {}

-----------------------------------------------------------------------------
(* Life of a process and of its agent object                               *)

\* Agent::insertAndRegisterSelf(), first commit: the pointer in the register.
StartRegister(a) ==
    /\ life[a] = "new"
    /\ life' = [life EXCEPT ![a] = "starting"]
    /\ registered' = registered \cup {a}
    /\ untracked' = untracked \cup {a}
    /\ UNCHANGED <<rstate, owner, type, refs, list, agObj, agOwner, held, local, counters>>

\* Second commit: the agent object itself, owned by the register.
StartInsert(a) ==
    /\ life[a] = "starting"
    /\ life' = [life EXCEPT ![a] = "up"]
    /\ agObj' = agObj \cup {a}
    /\ agOwner' = [agOwner EXCEPT ![a] = Register]
    /\ UNCHANGED <<rstate, owner, type, refs, list, registered, untracked, held, local,
                   counters>>

\* The process dies: its threads stop and its locks are released.  What it
\* committed to the store stays.
Crash(a) ==
    /\ life[a] \in {"starting", "up", "leaving"}
    /\ stops < MaxStops
    /\ stops' = stops + 1
    /\ life' = [life EXCEPT ![a] = "down"]
    /\ held' = [held EXCEPT ![a] = {}]
    /\ pc' = [t \in Threads |-> IF AgentOf[t] = a THEN "idle" ELSE pc[t]]
    /\ cur' = [t \in Threads |-> IF AgentOf[t] = a THEN NoQueue ELSE cur[t]]
    /\ batch' = [t \in Threads |-> IF AgentOf[t] = a THEN {} ELSE batch[t]]
    /\ todo' = [t \in Threads |-> IF AgentOf[t] = a THEN {} ELSE todo[t]]
    /\ failed' = [t \in Threads |-> IF AgentOf[t] = a THEN {} ELSE failed[t]]
    /\ kept' = [t \in Threads |-> IF AgentOf[t] = a THEN {} ELSE kept[t]]
    /\ victim' = [t \in Threads |-> IF AgentOf[t] = a THEN a ELSE victim[t]]
    /\ plan' = [t \in Threads |-> IF AgentOf[t] = a THEN {} ELSE plan[t]]
    /\ others' = [t \in Threads |-> IF AgentOf[t] = a THEN {} ELSE others[t]]
    /\ other' = [t \in Threads |-> IF AgentOf[t] = a THEN a ELSE other[t]]
    /\ UNCHANGED <<store, errors, requeues, forsaken>>

Quiet(a) == \A t \in Threads : AgentOf[t] = a => pc[t] \in {"idle", "ended"}

\* BackendPopulator::~BackendPopulator() with a non-empty agent: the object is
\* marked as needing garbage collection and left behind.
ExitLeavingObjects(a) ==
    /\ life[a] = "up"
    /\ Quiet(a)
    /\ list[a] # {}
    /\ stops < MaxStops
    /\ stops' = stops + 1
    /\ life' = [life EXCEPT ![a] = "down"]
    /\ held' = [held EXCEPT ![a] = {}]
    /\ UNCHANGED <<store, local, errors, requeues, forsaken>>

\* Agent::removeAndUnregisterSelf() on the way out: the object goes first, ...
ExitRemove(a) ==
    /\ life[a] = "up"
    /\ Quiet(a)
    /\ list[a] = {}
    /\ stops < MaxStops
    /\ stops' = stops + 1
    /\ agObj' = agObj \ {a}
    /\ life' = [life EXCEPT ![a] = "leaving"]
    /\ held' = [held EXCEPT ![a] = {}]
    /\ UNCHANGED <<rstate, owner, type, refs, list, agOwner, registered, untracked, local,
                   errors, requeues, forsaken>>

\* AgentRegister::removeAgent()
RemoveAgent(a) ==
    /\ registered' = registered \ {a}
    /\ untracked' = untracked \ {a}

\* ... then the pointers in the register.
ExitUnregister(a) ==
    /\ life[a] = "leaving"
    /\ RemoveAgent(a)
    /\ life' = [life EXCEPT ![a] = "down"]
    /\ UNCHANGED <<rstate, owner, type, refs, list, agObj, agOwner, held, local, counters>>

-----------------------------------------------------------------------------
(* Queueing a new request: OStoreDB::queueArchive()                        *)

\* The address goes to the ownership list before the object exists.
QueueArchiveReference(t, r) ==
    LET a == AgentOf[t] IN
    /\ At(t, "idle")
    /\ a \in Frontends
    /\ rstate[r] = "none"
    /\ rstate' = [rstate EXCEPT ![r] = "claimed"]
    /\ AddBatchToOwnership(a, {r})
    /\ batch' = [batch EXCEPT ![t] = {r}]
    /\ GoTo(t, "insert")
    /\ UNCHANGED <<owner, type, refs, agObj, agOwner, registered, untracked, life, held,
                   cur, todo, failed, kept, victim, plan, others, other, counters>>

\* The object is inserted with every job owned by the agent.
QueueArchiveInsert(t, r) ==
    /\ At(t, "insert")
    /\ r \in batch[t]
    /\ rstate' = [rstate EXCEPT ![r] = "stored"]
    /\ owner' = [owner EXCEPT ![r] =
                   [p \in Pools |-> IF p \in Copies[r] THEN AgentOf[t] ELSE NoOwner]]
    /\ GoTo(t, "bottomHalf")
    /\ UNCHANGED <<type, refs, list, agObj, agOwner, registered, untracked, life, held,
                   cur, batch, todo, failed, kept, victim, plan, others, other, counters>>

\* The enqueueing task locks the request again.  If it was cancelled meanwhile
\* the lock throws and the worker thread ends.
BottomHalfLock(t, r) ==
    /\ At(t, "bottomHalf")
    /\ r \in batch[t]
    /\ ~ RequestLocked(r)
    /\ \/ /\ Stored(r)
          /\ GoTo(t, "enqueue")
          /\ UNCHANGED batch
       \/ /\ ~ Stored(r)
          /\ GoTo(t, "ended")
          /\ batch' = [batch EXCEPT ![t] = {}]
    /\ UNCHANGED <<store, life, held, cur, todo, failed, kept, victim, plan, others, other,
                   counters>>

\* The jobs still to be queued, by increasing copy number.
NextCopy(r, a) ==
    {p \in Copies[r] : /\ owner[r][p] = a
                       /\ \A p2 \in Copies[r] :
                             owner[r][p2] = a => CopyNb[r][p] <= CopyNb[r][p2]}

\* sharedAddToQueue(): the reference is committed to the queue, which stays
\* locked until the request is committed.
BottomHalfReference(t, r, p) ==
    LET q == <<p, FirstType>> IN
    /\ At(t, "enqueue")
    /\ r \in batch[t]
    /\ p \in NextCopy(r, AgentOf[t])
    /\ ~ QueueLocked(q)
    /\ refs' = [refs EXCEPT ![q] = @ \cup {r}]
    /\ cur' = [cur EXCEPT ![t] = q]
    /\ GoTo(t, "commitJob")
    /\ UNCHANGED <<rstate, owner, type, list, agObj, agOwner, registered, untracked, life,
                   held, batch, todo, failed, kept, victim, plan, others, other, counters>>

\* The request is committed with the queue as owner of this job, and the queue
\* unlocked; after the last job the request is unlocked too.
BottomHalfCommit(t, r) ==
    LET a == AgentOf[t]
        p == cur[t][1] IN
    /\ At(t, "commitJob")
    /\ r \in batch[t]
    /\ owner' = [owner EXCEPT ![r][p] = cur[t]]
    /\ cur' = [cur EXCEPT ![t] = NoQueue]
    /\ GoTo(t, IF \E p2 \in Copies[r] \ {p} : owner[r][p2] = a THEN "enqueue" ELSE "deref")
    /\ UNCHANGED <<rstate, type, refs, list, agObj, agOwner, registered, untracked, life,
                   held, batch, todo, failed, kept, victim, plan, others, other,
                   counters>>

\* AgentReference::removeBatchFromOwnership(), the last step of every operation.
Dereference(t) ==
    LET a == AgentOf[t] IN
    /\ At(t, "deref")
    /\ RemoveBatchFromOwnership(a, batch[t])
    /\ batch' = [batch EXCEPT ![t] = {}]
    /\ GoTo(t, "idle")
    /\ UNCHANGED <<rstate, owner, type, refs, agObj, agOwner, registered, untracked, life,
                   held, cur, todo, failed, kept, victim, plan, others, other,
                   counters>>

\* OStoreDB::cancelArchive(): the request is removed whoever owns its jobs
\* (unless it is marked failed: its jobs are then in the failed-jobs queue).  The
\* references to it in queues and ownership lists are left behind.
CancelArchive(t, r) ==
    /\ At(t, "idle")
    /\ AgentOf[t] \in Frontends
    /\ Stored(r)
    /\ ~ RequestLocked(r)
    /\ Remove(r)
    /\ UNCHANGED <<type, refs, list, agObj, agOwner, registered, untracked, life,
                   held, local, counters>>

-----------------------------------------------------------------------------
(* Popping jobs: ContainerAlgorithms::popNextBatch()                       *)

\* Requests another thread of the process of t is about to remove from the list.
AboutToLeave(t) ==
    {r \in Requests : \E u \in Threads \ {t} :
        AgentOf[u] = AgentOf[t] /\ pc[u] = "deref" /\ r \in batch[u]}

\* The queue is locked, candidates are chosen and their addresses committed to
\* the ownership list of the agent.  An address that another thread of the process
\* is about to remove is not safe there.
PopReference(t, S) ==
    LET a == AgentOf[t]
        q == SessionQueue[a] IN
    /\ At(t, "idle")
    /\ a \in Sessions
    /\ ~ QueueLocked(q)
    /\ S # {}
    /\ S \subseteq refs[q]
    /\ Cardinality(S) <= MaxBatch
    /\ AddBatchToOwnership(a, S)
    /\ cur' = [cur EXCEPT ![t] = q]
    /\ batch' = [batch EXCEPT ![t] = S]
    /\ todo' = [todo EXCEPT ![t] = S]
    /\ forsaken' = forsaken \cup ((S \cap AboutToLeave(t)) \X {a})
    /\ GoTo(t, "popSwitch")
    /\ UNCHANGED <<rstate, owner, type, refs, agObj, agOwner, registered, untracked, life,
                   held, failed, kept, victim, plan, others, other, stops, errors, requeues>>

\* switchElementsOwnership(): one asynchronous update per element, in any order.
\* A missing request or another owner is a failure (NoSuchObject,
\* WrongPreviousOwner).  An update that was committed and whose lock could not be
\* released (CouldNotUnlock) is a success here: "this element was indeed OK".
PopSwitch(t, r) ==
    LET a == AgentOf[t]
        p == cur[t][1] IN
    /\ At(t, "popSwitch")
    /\ r \in todo[t]
    /\ ~ RequestLocked(r)
    /\ todo' = [todo EXCEPT ![t] = @ \ {r}]
    /\ \/ /\ CanSwitch(r, p, cur[t], a)
          /\ owner' = [owner EXCEPT ![r][p] = a]
          /\ UNCHANGED failed
       \/ /\ ~ CanSwitch(r, p, cur[t], a)
          /\ failed' = [failed EXCEPT ![t] = @ \cup {r}]
          /\ UNCHANGED owner
    /\ UNCHANGED <<rstate, type, refs, list, agObj, agOwner, registered, untracked, life,
                   held, pc, cur, batch, kept, victim, plan, others, other, counters>>

\* Any other exception: the update did not happen and the element is left in
\* the queue.
PopSwitchError(t, r) ==
    /\ At(t, "popSwitch")
    /\ r \in todo[t]
    /\ errors < MaxErrors
    /\ errors' = errors + 1
    /\ todo' = [todo EXCEPT ![t] = @ \ {r}]
    /\ failed' = [failed EXCEPT ![t] = @ \cup {r}]
    /\ kept' = [kept EXCEPT ![t] = @ \cup {r}]
    /\ UNCHANGED <<store, life, held, pc, cur, batch, victim, plan, others, other, stops,
                   requeues, forsaken>>

\* removeReferencesAndCommit() and release of the queue.  The failed elements
\* then have to leave the ownership list.
PopCommit(t) ==
    LET a == AgentOf[t] IN
    /\ At(t, "popSwitch")
    /\ todo[t] = {}
    /\ refs' = [refs EXCEPT ![cur[t]] = @ \ (batch[t] \ kept[t])]
    /\ held' = [held EXCEPT ![a] = @ \cup (batch[t] \ failed[t])]
    /\ batch' = [batch EXCEPT ![t] = failed[t]]
    /\ cur' = [cur EXCEPT ![t] = NoQueue]
    /\ failed' = [failed EXCEPT ![t] = {}]
    /\ kept' = [kept EXCEPT ![t] = {}]
    /\ GoTo(t, IF failed[t] = {} THEN "idle" ELSE "deref")
    /\ UNCHANGED <<rstate, owner, type, list, agObj, agOwner, registered, untracked, life,
                   todo, victim, plan, others, other, counters>>

-----------------------------------------------------------------------------
(* What a session does with a job it holds                                 *)

\* Mutant: the request is not committed before it is requeued.
SetJobStatusInMemory(r, p, ty) == UNCHANGED type

SetJobStatus(r, p, ty) == type' = [type EXCEPT ![r][p] = ty]

\* ArchiveJob::failTransfer() / failReport() and the success updater: the new
\* status is committed while the agent still owns the job.
UpdateStatus(t, r, ty) ==
    LET a == AgentOf[t]
        p == SessionQueue[a][1] IN
    /\ At(t, "idle")
    /\ a \in Sessions
    /\ r \in held[a]
    /\ Stored(r)
    /\ ~ RequestLocked(r)
    /\ requeues < MaxRequeues
    /\ requeues' = requeues + 1
    /\ SetJobStatus(r, p, ty)
    /\ held' = [held EXCEPT ![a] = @ \ {r}]
    /\ batch' = [batch EXCEPT ![t] = {r}]
    /\ cur' = [cur EXCEPT ![t] = <<p, ty>>]
    /\ GoTo(t, "reqRef")
    /\ UNCHANGED <<rstate, owner, refs, list, agObj, agOwner, registered, untracked, life,
                   todo, failed, kept, victim, plan, others, other, stops, errors,
                   forsaken>>

\* referenceAndSwitchOwnership(): the queue is locked and references the job.
RequeueReference(t) ==
    /\ At(t, "reqRef")
    /\ ~ QueueLocked(cur[t])
    /\ refs' = [refs EXCEPT ![cur[t]] = @ \cup batch[t]]
    /\ todo' = [todo EXCEPT ![t] = batch[t]]
    /\ GoTo(t, "reqSwitch")
    /\ UNCHANGED <<rstate, owner, type, list, agObj, agOwner, registered, untracked, life,
                   held, cur, batch, failed, kept, victim, plan, others, other, counters>>

RequeueSwitch(t, r) ==
    LET a == AgentOf[t]
        p == cur[t][1] IN
    /\ At(t, "reqSwitch")
    /\ r \in todo[t]
    /\ ~ RequestLocked(r)
    /\ todo' = [todo EXCEPT ![t] = @ \ {r}]
    /\ \/ /\ CanSwitch(r, p, a, cur[t])
          /\ owner' = [owner EXCEPT ![r][p] = cur[t]]
          /\ UNCHANGED failed
       \/ /\ ~ CanSwitch(r, p, a, cur[t])
          /\ failed' = [failed EXCEPT ![t] = @ \cup {r}]
          /\ UNCHANGED owner
    /\ UNCHANGED <<rstate, type, refs, list, agObj, agOwner, registered, untracked, life,
                   held, pc, cur, batch, kept, victim, plan, others, other, counters>>

\* The update fails with another exception and did not happen, or it was committed
\* and then the lock could not be released: referenceAndSwitchOwnership() takes
\* CouldNotUnlock for a failure too, and will remove the reference of a job that the
\* queue owns.
RequeueSwitchError(t, r) ==
    LET a == AgentOf[t]
        q == cur[t] IN
    /\ At(t, "reqSwitch")
    /\ r \in todo[t]
    /\ errors < MaxErrors
    /\ errors' = errors + 1
    /\ todo' = [todo EXCEPT ![t] = @ \ {r}]
    /\ failed' = [failed EXCEPT ![t] = @ \cup {r}]
    /\ \/ UNCHANGED <<owner, forsaken>>
       \/ /\ ~ RequestLocked(r)
          /\ CanSwitch(r, q[1], a, q)
          /\ owner' = [owner EXCEPT ![r][q[1]] = q]
          /\ forsaken' = forsaken \cup {<<r, q>>}
    /\ UNCHANGED <<rstate, type, refs, list, agObj, agOwner, registered, untracked, life,
                   held, pc, cur, batch, kept, victim, plan, others, other, stops, requeues>>

\* The references of failed elements are removed and the queue is unlocked.
\* Elements that failed stay in the ownership list.
RequeueCommit(t) ==
    /\ At(t, "reqSwitch")
    /\ todo[t] = {}
    /\ refs' = [refs EXCEPT ![cur[t]] = @ \ failed[t]]
    /\ batch' = [batch EXCEPT ![t] = @ \ failed[t]]
    /\ cur' = [cur EXCEPT ![t] = NoQueue]
    /\ failed' = [failed EXCEPT ![t] = {}]
    /\ GoTo(t, IF batch[t] \ failed[t] = {} THEN "idle" ELSE "deref")
    /\ UNCHANGED <<rstate, owner, type, list, agObj, agOwner, registered, untracked, life,
                   held, todo, kept, victim, plan, others, other, counters>>

\* asyncUpdateTransferSuccessful() when the job needs no report: it is complete
\* and has no owner any more.
CompleteJob(t, r) ==
    LET a == AgentOf[t]
        p == SessionQueue[a][1] IN
    /\ At(t, "idle")
    /\ a \in Sessions
    /\ r \in held[a]
    /\ Stored(r)
    /\ ~ RequestLocked(r)
    /\ owner' = [owner EXCEPT ![r][p] = NoOwner]
    /\ held' = [held EXCEPT ![a] = @ \ {r}]
    /\ batch' = [batch EXCEPT ![t] = {r}]
    /\ GoTo(t, "deref")
    /\ UNCHANGED <<rstate, type, refs, list, agObj, agOwner, registered, untracked, life,
                   cur, todo, failed, kept, victim, plan, others, other, counters>>

\* setArchiveJobBatchReported() after a completion report: the request is
\* deleted, then the address leaves the ownership list.
DeleteReported(t, r) ==
    LET a == AgentOf[t] IN
    /\ At(t, "idle")
    /\ a \in Sessions
    /\ r \in held[a]
    /\ Stored(r)
    /\ ~ RequestLocked(r)
    /\ Remove(r)
    /\ held' = [held EXCEPT ![a] = @ \ {r}]
    /\ batch' = [batch EXCEPT ![t] = {r}]
    /\ GoTo(t, "deref")
    /\ UNCHANGED <<type, refs, list, agObj, agOwner, registered, untracked, life,
                   cur, todo, failed, kept, victim, plan, others, other, counters>>

\* The request was cancelled: the update throws NoSuchObject and the job is
\* forgotten, its address staying in the ownership list.
ForgetGone(t, r) ==
    LET a == AgentOf[t] IN
    /\ At(t, "idle")
    /\ r \in held[a]
    /\ ~ Stored(r)
    /\ held' = [held EXCEPT ![a] = @ \ {r}]
    /\ UNCHANGED <<store, life, local, counters>>

-----------------------------------------------------------------------------
(* The garbage collector: GarbageCollector::cleanupDeadAgent()             *)

\* The dead agent is locked, found to be owned by the register, and its address
\* committed to the collector's own ownership list.  (Only agents listed as
\* untracked are watched, and death is detected by the heartbeat.)
GcReference(t, d) ==
    LET g == AgentOf[t] IN
    /\ At(t, "idle")
    /\ g \in Collectors
    /\ d # g
    /\ d \in untracked \cap agObj
    /\ life[d] = "down"
    /\ ~ AgentLocked(d)
    /\ agOwner[d] = Register
    /\ AddBatchToOwnership(g, {d})
    /\ victim' = [victim EXCEPT ![t] = d]
    /\ GoTo(t, "gcOwn")
    /\ UNCHANGED <<rstate, owner, type, refs, agObj, agOwner, registered, untracked, life,
                   held, cur, batch, todo, failed, kept, plan, others, other, counters>>

\* The collector becomes the owner of the agent object.
GcOwn(t) ==
    /\ At(t, "gcOwn")
    /\ agOwner' = [agOwner EXCEPT ![victim[t]] = AgentOf[t]]
    /\ GoTo(t, "gcTrack")
    /\ UNCHANGED <<rstate, owner, type, refs, list, agObj, registered, untracked, life,
                   held, cur, batch, todo, failed, kept, victim, plan, others, other,
                   counters>>

\* AgentRegister::trackAgent(): nobody else will watch it.
GcTrack(t) ==
    /\ At(t, "gcTrack")
    /\ untracked' = untracked \ {victim[t]}
    /\ GoTo(t, "gcFetch")
    /\ UNCHANGED <<rstate, owner, type, refs, list, agObj, agOwner, registered, life,
                   held, cur, batch, todo, failed, kept, victim, plan, others, other,
                   counters>>

\* Where the collector goes when it has settled some jobs and P are left.
AfterJobs(P) == IF P = {} THEN "gcOther" ELSE "gcRequeue"

\* fetchOwnedObjects(): lock-free reads of everything in the list.  Objects that
\* do not exist leave the list; the owners read here decide what is done later.
GcFetch(t) ==
    LET d == victim[t]
        Gone == {r \in Requests : ~ Stored(r)} \cup (Agents \ agObj) IN
    /\ At(t, "gcFetch")
    /\ plan' = [plan EXCEPT ![t] =
                  {j \in Requests \X Queues :
                     /\ j[1] \in list[d]
                     /\ Stored(j[1])
                     /\ owner[j[1]][j[2][1]] = d
                     /\ type[j[1]][j[2][1]] = j[2][2]}]
    /\ others' = [others EXCEPT ![t] = {x \in agObj : x \in list[d] /\ agOwner[x] = d}]
    /\ list' = [list EXCEPT ![d] = @ \ Gone]
    /\ GoTo(t, "gcSort")
    /\ UNCHANGED <<rstate, owner, type, refs, agObj, agOwner, registered, untracked, life,
                   held, cur, batch, todo, failed, kept, victim, other, counters>>

\* Mutant: objects the agent does not own stay in its list.
StillListed(t) == list[victim[t]]

StillOwned(t) ==
    {o \in list[victim[t]] : o \in others[t] \/ \E j \in plan[t] : j[1] = o}

\* sortFetchedObjects(): objects the agent does not own leave its list.
GcSort(t) ==
    /\ At(t, "gcSort")
    /\ list' = [list EXCEPT ![victim[t]] = StillOwned(t)]
    /\ GoTo(t, AfterJobs(plan[t]))
    /\ UNCHANGED <<rstate, owner, type, refs, agObj, agOwner, registered, untracked, life,
                   held, cur, batch, todo, failed, kept, victim, plan, others, other,
                   counters>>

\* referenceAndSwitchOwnershipIfNecessary(), for the jobs of one pool and type:
\* the queue is locked and references them.
GcRequeueReference(t, q) ==
    LET S == {r \in Requests : <<r, q>> \in plan[t]} IN
    /\ At(t, "gcRequeue")
    /\ S # {}
    /\ ~ QueueLocked(q)
    /\ refs' = [refs EXCEPT ![q] = @ \cup S]
    /\ cur' = [cur EXCEPT ![t] = q]
    /\ batch' = [batch EXCEPT ![t] = S]
    /\ todo' = [todo EXCEPT ![t] = S]
    /\ GoTo(t, "gcSwitch")
    /\ UNCHANGED <<rstate, owner, type, list, agObj, agOwner, registered, untracked, life,
                   held, failed, kept, victim, plan, others, other, counters>>

GcSwitch(t, r) ==
    LET d == victim[t]
        p == cur[t][1] IN
    /\ At(t, "gcSwitch")
    /\ r \in todo[t]
    /\ ~ RequestLocked(r)
    /\ todo' = [todo EXCEPT ![t] = @ \ {r}]
    /\ \/ /\ CanSwitch(r, p, d, cur[t])
          /\ owner' = [owner EXCEPT ![r][p] = cur[t]]
          /\ UNCHANGED failed
       \/ /\ ~ CanSwitch(r, p, d, cur[t])
          /\ failed' = [failed EXCEPT ![t] = @ \cup {r}]
          /\ UNCHANGED owner
    /\ UNCHANGED <<rstate, type, refs, list, agObj, agOwner, registered, untracked, life,
                   held, pc, cur, batch, kept, victim, plan, others, other, counters>>

\* The references of failed elements are removed and the queue is unlocked.
GcRequeueCommit(t) ==
    /\ At(t, "gcSwitch")
    /\ todo[t] = {}
    /\ refs' = [refs EXCEPT ![cur[t]] = @ \ failed[t]]
    /\ plan' = [plan EXCEPT ![t] = @ \ (batch[t] \X {cur[t]})]
    /\ cur' = [cur EXCEPT ![t] = NoQueue]
    /\ failed' = [failed EXCEPT ![t] = {}]
    /\ GoTo(t, "gcErase")
    /\ UNCHANGED <<rstate, owner, type, list, agObj, agOwner, registered, untracked, life,
                   held, batch, todo, kept, victim, others, other, counters>>

\* Mutant: the other jobs of a request are forgotten.
WholeBatch(t) == batch[t]

\* Requests none of whose jobs is left to requeue (use_count() == 1) ...
LastUsed(t) == {r \in batch[t] : \A j \in plan[t] : j[1] # r}

\* ... leave the list of the dead agent.
GcErase(t) ==
    /\ At(t, "gcErase")
    /\ list' = [list EXCEPT ![victim[t]] = @ \ LastUsed(t)]
    /\ batch' = [batch EXCEPT ![t] = {}]
    /\ GoTo(t, AfterJobs(plan[t]))
    /\ UNCHANGED <<rstate, owner, type, refs, agObj, agOwner, registered, untracked, life,
                   held, cur, todo, failed, kept, victim, plan, others, other,
                   counters>>

\* Mutant: the agent is handed back without being watched again.
UntrackForgotten(x) == UNCHANGED untracked

\* AgentRegister::untrackAgent()
UntrackAgent(x) == untracked' = untracked \cup {x}

\* lockFetchAndUpdateOtherObjects(), Agent::garbageCollect(): an agent the dead
\* collector was cleaning up becomes untracked again ...  (One that is gone or has
\* another owner would be skipped; nobody but this collector can have changed it.)
GcUntrack(t, x) ==
    /\ At(t, "gcOther")
    /\ x \in others[t]
    /\ ~ AgentLocked(x)
    /\ x \in agObj
    /\ agOwner[x] = victim[t]
    /\ UntrackAgent(x)
    /\ others' = [others EXCEPT ![t] = @ \ {x}]
    /\ other' = [other EXCEPT ![t] = x]
    /\ GoTo(t, "gcHandBack")
    /\ UNCHANGED <<rstate, owner, type, refs, list, agObj, agOwner, registered, life,
                   held, cur, batch, todo, failed, kept, victim, plan, counters>>

\* ... is given back to the register ...
GcHandBack(t) ==
    /\ At(t, "gcHandBack")
    /\ agOwner' = [agOwner EXCEPT ![other[t]] = Register]
    /\ GoTo(t, "gcRelinquish")
    /\ UNCHANGED <<rstate, owner, type, refs, list, agObj, registered, untracked, life,
                   held, cur, batch, todo, failed, kept, victim, plan, others, other,
                   counters>>

\* ... and leaves the list of the dead collector.
GcRelinquish(t) ==
    /\ At(t, "gcRelinquish")
    /\ list' = [list EXCEPT ![victim[t]] = @ \ {other[t]}]
    /\ other' = [other EXCEPT ![t] = AgentOf[t]]
    /\ GoTo(t, "gcOther")
    /\ UNCHANGED <<rstate, owner, type, refs, agObj, agOwner, registered, untracked, life,
                   held, cur, batch, todo, failed, kept, victim, plan, others, counters>>

\* removeAndUnregisterSelf() of the dead agent: refused while its list is not
\* empty; the object goes first, ...
GcRemove(t) ==
    /\ At(t, "gcOther")
    /\ others[t] = {}
    /\ list[victim[t]] = {}
    /\ agObj' = agObj \ {victim[t]}
    /\ GoTo(t, "gcUnregister")
    /\ UNCHANGED <<rstate, owner, type, refs, list, agOwner, registered, untracked, life,
                   held, cur, batch, todo, failed, kept, victim, plan, others, other,
                   counters>>

\* ... then the pointer in the register, ...
GcUnregister(t) ==
    /\ At(t, "gcUnregister")
    /\ RemoveAgent(victim[t])
    /\ GoTo(t, "gcDone")
    /\ UNCHANGED <<rstate, owner, type, refs, list, agObj, agOwner, life,
                   held, cur, batch, todo, failed, kept, victim, plan, others, other,
                   counters>>

\* ... and the collector drops the agent from its own list.
GcDone(t) ==
    LET g == AgentOf[t] IN
    /\ At(t, "gcDone")
    /\ RemoveBatchFromOwnership(g, {victim[t]})
    /\ victim' = [victim EXCEPT ![t] = g]
    /\ GoTo(t, "idle")
    /\ UNCHANGED <<rstate, owner, type, refs, agObj, agOwner, registered, untracked, life,
                   held, cur, batch, todo, failed, kept, plan, others, other, counters>>

-----------------------------------------------------------------------------

FrontendStep(t) ==
    \/ \E r \in Requests :
         \/ QueueArchiveReference(t, r)
         \/ CancelArchive(t, r)

\* Steps a thread takes once it has started an operation: the code runs on.
Continue(t) ==
    \/ \E r \in Requests :
         \/ QueueArchiveInsert(t, r)
         \/ BottomHalfLock(t, r)
         \/ \E p \in Pools : BottomHalfReference(t, r, p)
         \/ BottomHalfCommit(t, r)
         \/ PopSwitch(t, r)
         \/ RequeueSwitch(t, r)
         \/ GcSwitch(t, r)
    \/ Dereference(t)
    \/ PopCommit(t)
    \/ RequeueReference(t)
    \/ RequeueCommit(t)
    \/ GcOwn(t)
    \/ GcTrack(t)
    \/ GcFetch(t)
    \/ GcSort(t)
    \/ \E q \in Queues : GcRequeueReference(t, q)
    \/ GcRequeueCommit(t)
    \/ GcErase(t)
    \/ \E x \in Agents : GcUntrack(t, x)
    \/ GcHandBack(t)
    \/ GcRelinquish(t)
    \/ GcRemove(t)
    \/ GcUnregister(t)
    \/ GcDone(t)

SessionStep(t) ==
    \/ \E S \in SUBSET Requests : PopReference(t, S)
    \/ \E r \in Requests :
         \/ \E ty \in Types : UpdateStatus(t, r, ty)
         \/ CompleteJob(t, r)
         \/ DeleteReported(t, r)
         \/ ForgetGone(t, r)

CollectorStep(t) == \E d \in Agents : GcReference(t, d)

ErrorStep(t) == \E r \in Requests : PopSwitchError(t, r) \/ RequeueSwitchError(t, r)

LifeStep ==
    \E a \in Agents :
         \/ StartRegister(a)
         \/ StartInsert(a)
         \/ Crash(a)
         \/ ExitLeavingObjects(a)
         \/ ExitRemove(a)
         \/ ExitUnregister(a)

Next ==
    \/ LifeStep
    \/ \E t \in Threads :
         \/ FrontendStep(t)
         \/ SessionStep(t)
         \/ CollectorStep(t)
         \/ ErrorStep(t)
         \/ Continue(t)

\* A started operation runs to its end, and a collector that runs keeps making
\* passes (GarbageCollector::runOnePass() is called in a loop).
Fairness ==
    /\ \A t \in Threads : WF_vars(Continue(t)) /\ WF_vars(CollectorStep(t))
    /\ \A a \in Agents : WF_vars(ExitUnregister(a))

Spec == Init /\ [][Next]_vars
LiveSpec == Spec /\ Fairness

-----------------------------------------------------------------------------
(* Properties                                                              *)

\* The store and the processes stay within the states the code can put them in:
\* only agents the register lists are untracked, and a thread that holds a queue
\* lock has a queue.
TypeOK ==
    /\ rstate \in [Requests -> {"none", "claimed", "stored", "gone"}]
    /\ owner \in [Requests -> [Pools -> Agents \cup Queues \cup {NoOwner}]]
    /\ type \in [Requests -> [Pools -> Types]]
    /\ refs \in [Queues -> SUBSET Requests]
    /\ list \in [Agents -> SUBSET (Requests \cup Agents)]
    /\ agObj \subseteq Agents
    /\ agOwner \in [Agents -> Agents \cup {Register}]
    /\ registered \subseteq Agents
    /\ untracked \subseteq registered
    /\ life \in [Agents -> {"new", "starting", "up", "leaving", "down"}]
    /\ held \in [Agents -> SUBSET Requests]
    /\ pc \in [Threads -> PCs]
    /\ cur \in [Threads -> Queues \cup {NoQueue}]
    /\ \A t \in Threads : pc[t] \in HoldsQueue \cup {"reqRef"} => cur[t] \in Queues
    /\ batch \in [Threads -> SUBSET Requests]
    /\ todo \in [Threads -> SUBSET Requests]
    /\ failed \in [Threads -> SUBSET Requests]
    /\ kept \in [Threads -> SUBSET Requests]
    /\ victim \in [Threads -> Agents]
    /\ plan \in [Threads -> SUBSET (Requests \X Queues)]
    /\ others \in [Threads -> SUBSET Agents]
    /\ other \in [Threads -> Agents]
    /\ stops \in Nat
    /\ errors \in Nat
    /\ requeues \in Nat
    /\ forsaken \subseteq Requests \X (Agents \cup Queues)

\* The owner of the job of r in p points back to it.  A queue references the
\* request; an agent has it in the ownership list of its agent object, which
\* exists, so that the garbage collector will find it.
PointsBack(r, p) ==
    LET o == owner[r][p] IN
    /\ o \in Queues => r \in refs[o]
    /\ o \in Agents => o \in agObj /\ r \in list[o]

\* "The ownedobject list is an ownership intent log that points to the objects that
\* the agent is about to create, intends to own, or fully owns"
\* (objectstore/cta.proto).
OwnerPointsBack == \A r \in Requests, p \in Pools : Stored(r) => PointsBack(r, p)

\* No job is ever lost: the owner of every job of a stored request points back to
\* it, through crashes, cancellations, errors and collections.  Two jobs are
\* exempt: one whose agent popped it while another of its threads was about to
\* remove the address from the list, and one requeued by an update that was
\* committed and failed to release its lock.
NoLostJob ==
    \A r \in Requests, p \in Pools :
        Stored(r) => PointsBack(r, p) \/ <<r, owner[r][p]>> \in forsaken

\* A session only works on jobs it owns: as long as the request exists, the job
\* it was handed by popNextBatch() has not been given to anybody else, neither
\* by another session nor by a garbage collector.
HeldIsOwned ==
    \A a \in Sessions : \A r \in held[a] :
        Stored(r) => owner[r][SessionQueue[a][1]] = a

\* A job waits in the queue its status asks for: whoever put it there - the
\* frontend, a session or a collector that only saw the dead agent's request -
\* agrees with the status committed in the request.
QueueMatchesStatus ==
    \A r \in Requests, p \in Pools :
        Stored(r) /\ owner[r][p] \in Queues => owner[r][p] = <<p, type[r][p]>>

\* An agent object can always be found by a collector: it is in the register
\* and either untracked and owned by the register, or owned by a collector that
\* has it in the list of an existing agent object, or in the short passage
\* between the two.
AgentReachable ==
    \A a \in agObj :
        /\ a \in registered
        /\ agOwner[a] = Register => a \in untracked
        /\ agOwner[a] # Register => agOwner[a] \in agObj /\ a \in list[agOwner[a]]

\* Once the owned objects are settled the ownership list of the dead agent is
\* empty, so that removeAndUnregisterSelf() does not throw AgentStillOwnsObjects.
CleanupSucceeds ==
    \A t \in Threads :
        At(t, "gcOther") /\ others[t] = {} => list[victim[t]] = {}

\* A job of a request that stays in the store leaves an agent only by a step of
\* that agent's own process, or of a collector once the process is down.
OwnerIsRespected ==
    [][\A r \in Requests, p \in Pools :
         LET a == owner[r][p] IN
         a \in Agents /\ owner'[r][p] # a /\ rstate'[r] = "stored" =>
             \/ life[a] = "down"
             \/ \E t \in Threads : AgentOf[t] = a /\ (pc'[t] # pc[t] \/ todo'[t] # todo[t])]_vars

\* Every agent object left behind is eventually removed, the ones a collector
\* was cleaning up when it died included, as long as a collector runs.
DeadAgentsRemoved ==
    \A a \in Agents :
        (a \in agObj /\ life[a] = "down")
            ~> (a \notin agObj \/ \A g \in Collectors : life[g] # "up")
=============================================================================
