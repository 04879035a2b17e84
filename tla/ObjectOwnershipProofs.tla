----------------------- MODULE ObjectOwnershipProofs -----------------------
(***************************************************************************)
(* Theorems about ObjectOwnership, for every number of processes, threads  *)
(* per process, requests, pools and queue types.                           *)
(*                                                                         *)
(* There are four inductive invariants, each resting on the former ones.   *)
(* RegisterInv is about agents and gives TypeOK.  OwnershipInv is about    *)
(* the requests and locks of the operations in progress.  CleanupInv is    *)
(* about agent objects and gives AgentReachable and CleanupSucceeds.       *)
(* LostInv is about what each thread relies on in the middle of an         *)
(* operation, and about how the threads of one process share its jobs: it  *)
(* gives NoLostJob, QueueMatchesStatus, HeldIsOwned and OwnerIsRespected.  *)
(***************************************************************************)
EXTENDS ObjectOwnership, TLAPS

-----------------------------------------------------------------------------
(* The inductive invariant about agents                                    *)

\* The steps of the operations of a frontend and of a session.
FrontendSteps == {"insert", "bottomHalf", "enqueue", "commitJob"}
SessionSteps == {"popSwitch", "reqRef", "reqSwitch"}

\* A thread in the middle of an operation belongs to a running process of the
\* role that has this operation.
Roles ==
    \A t \in Threads :
        /\ pc[t] \notin {"idle", "ended"} => life[AgentOf[t]] = "up"
        /\ pc[t] \in FrontendSteps => AgentOf[t] \in Frontends
        /\ pc[t] \in SessionSteps => AgentOf[t] \in Sessions
        /\ pc[t] \in HoldsAgent => AgentOf[t] \in Collectors

\* The register knows every agent object, and an agent is unregistered only once
\* its object is gone.
RegisterSound ==
    /\ agObj \subseteq registered
    /\ \A a \in Agents : life[a] = "starting" => a \in registered
    /\ \A a \in Agents : life[a] = "leaving" => a \notin agObj
    /\ \A t \in Threads : pc[t] = "gcUnregister" => victim[t] \notin agObj

\* The agent lock taken in GarbageCollector::cleanupDeadAgent() is never taken for
\* a live process, nor by two collectors for the same agent.
OneCollector ==
    \A t, u \in Threads :
        /\ pc[t] \in HoldsAgent => life[victim[t]] = "down"
        /\ pc[t] \in HoldsAgent /\ pc[u] \in HoldsAgent /\ victim[t] = victim[u] => t = u

RegisterInv == TypeOK /\ Roles /\ RegisterSound /\ OneCollector

\* Which steps need a queue.
LEMMA Steps ==
  /\ HoldsQueue \cup HoldsRequest \cup HoldsAgent \subseteq PCs
  /\ {"idle", "ended", "insert", "bottomHalf", "reqRef", "deref"} \subseteq PCs
  /\ \A s \in {"idle", "ended", "insert", "bottomHalf", "deref", "enqueue"}
              \cup (HoldsAgent \ {"gcSwitch"}) : s \notin HoldsQueue \cup {"reqRef"}
  BY DEF PCs, HoldsQueue, HoldsRequest, HoldsAgent

\* A new owner is an address.
LEMMA OwnerTyped ==
  ASSUME owner \in [Requests -> [Pools -> Agents \cup Queues \cup {NoOwner}]],
         NEW r \in Requests, NEW p, NEW o \in Agents \cup Queues,
         owner' = [owner EXCEPT ![r][p] = o]
  PROVE  owner' \in [Requests -> [Pools -> Agents \cup Queues \cup {NoOwner}]]
  OBVIOUS

\* A thread that moves to a step takes a queue along if the step needs one.
LEMMA QueueTyped ==
  ASSUME TypeOK, NEW t \in Threads, NEW s \in PCs, NEW q \in Queues \cup {NoQueue},
         GoTo(t, s), cur' = [cur EXCEPT ![t] = q],
         s \in HoldsQueue \cup {"reqRef"} => q \in Queues
  PROVE  /\ pc' \in [Threads -> PCs]
         /\ cur' \in [Threads -> Queues \cup {NoQueue}]
         /\ \A u \in Threads : pc'[u] \in HoldsQueue \cup {"reqRef"} => cur'[u] \in Queues
  BY DEF TypeOK, GoTo

\* No process has begun an operation.
LEMMA RegisterInit == Init => RegisterInv
  BY RoleAssumption, QueueAssumption, AddressAssumption
  DEF Init, RegisterInv, TypeOK, Roles, RegisterSound, OneCollector, PCs, HoldsQueue,
      HoldsRequest, HoldsAgent, FrontendSteps, SessionSteps

\* Starts, crashes and exits keep the invariant about agents.
LEMMA LifeRegisterInv ==
  ASSUME RegisterInv, LifeStep
  PROVE  RegisterInv'
<1> USE DEF RegisterInv, TypeOK, Roles, RegisterSound, OneCollector, store, local, counters, At
<1>a. AgentOf \in [Threads -> Agents]
  BY RoleAssumption
<1>1. ASSUME NEW a \in Agents, StartRegister(a) PROVE RegisterInv'
  BY <1>a, <1>1, Steps
  DEF StartRegister, GoTo, HoldsQueue, HoldsAgent, FrontendSteps, SessionSteps
<1>2. ASSUME NEW a \in Agents, StartInsert(a) PROVE RegisterInv'
  BY <1>a, <1>2, Steps
  DEF StartInsert, GoTo, HoldsQueue, HoldsAgent, FrontendSteps, SessionSteps
<1>3. ASSUME NEW a \in Agents, Crash(a) PROVE RegisterInv'
  BY <1>a, <1>3, Steps DEF Crash, GoTo, HoldsQueue, HoldsAgent, FrontendSteps, SessionSteps
<1>4. ASSUME NEW a \in Agents, ExitLeavingObjects(a) PROVE RegisterInv'
  BY <1>a, <1>4, Steps
  DEF ExitLeavingObjects, Quiet, GoTo, HoldsQueue, HoldsAgent, FrontendSteps, SessionSteps
<1>5. ASSUME NEW a \in Agents, ExitRemove(a) PROVE RegisterInv'
  BY <1>a, <1>5, Steps
  DEF ExitRemove, Quiet, GoTo, HoldsQueue, HoldsAgent, FrontendSteps, SessionSteps
<1>6. ASSUME NEW a \in Agents, ExitUnregister(a) PROVE RegisterInv'
  BY <1>a, <1>6, Steps
  DEF ExitUnregister, RemoveAgent, GoTo, HoldsQueue, HoldsAgent, FrontendSteps, SessionSteps
<1> QED
  BY <1>1, <1>2, <1>3, <1>4, <1>5, <1>6 DEF LifeStep

\* The first steps of a frontend keep the invariant about agents.
LEMMA FrontendRegisterInv ==
  ASSUME RegisterInv, NEW t \in Threads, FrontendStep(t)
  PROVE  RegisterInv'
<1> USE DEF RegisterInv, TypeOK, Roles, RegisterSound, OneCollector, store, local, counters, At
<1>a. AgentOf \in [Threads -> Agents]
  BY RoleAssumption
<1>1. ASSUME NEW r \in Requests, QueueArchiveReference(t, r) PROVE RegisterInv'
  BY <1>a, <1>1, Steps
  DEF QueueArchiveReference, AddBatchToOwnership, GoTo, HoldsQueue, HoldsAgent, FrontendSteps,
      SessionSteps
<1>2. ASSUME NEW r \in Requests, CancelArchive(t, r) PROVE RegisterInv'
  BY <1>a, <1>2, Steps
  DEF CancelArchive, Remove, GoTo, HoldsQueue, HoldsAgent, FrontendSteps, SessionSteps
<1> QED
  BY <1>1, <1>2 DEF FrontendStep

\* The first steps of a session keep the invariant about agents.
LEMMA SessionRegisterInv ==
  ASSUME RegisterInv, NEW t \in Threads, SessionStep(t)
  PROVE  RegisterInv'
<1> USE DEF RegisterInv, TypeOK, Roles, RegisterSound, OneCollector, store, local, counters, At
<1>a. AgentOf \in [Threads -> Agents]
  BY RoleAssumption
<1>1. ASSUME NEW S \in SUBSET Requests, PopReference(t, S) PROVE RegisterInv'
  <2>1. SessionQueue[AgentOf[t]] \in Queues
    BY <1>1, QueueAssumption DEF PopReference
  <2> QED
    BY <1>a, <1>1, Steps, <2>1
    DEF PopReference, AddBatchToOwnership, GoTo, HoldsQueue, HoldsAgent, FrontendSteps,
        SessionSteps
<1>2. ASSUME NEW r \in Requests, NEW ty \in Types, UpdateStatus(t, r, ty) PROVE RegisterInv'
  <2> DEFINE p == SessionQueue[AgentOf[t]][1]
  <2>1. p \in Pools /\ <<p, ty>> \in Queues
    BY <1>2, QueueAssumption DEF UpdateStatus, Queues
  <2>2. type' \in [Requests -> [Pools -> Types]]
    BY <1>2, <2>1 DEF UpdateStatus, SetJobStatus
  <2>3. TypeOK'
    <3> HIDE DEF p
    <3>1. GoTo(t, "reqRef") /\ cur' = [cur EXCEPT ![t] = <<p, ty>>]
      BY <1>2 DEF UpdateStatus, p
    <3>2. /\ pc' \in [Threads -> PCs]
          /\ cur' \in [Threads -> Queues \cup {NoQueue}]
          /\ \A u \in Threads : pc'[u] \in HoldsQueue \cup {"reqRef"} => cur'[u] \in Queues
      BY <2>1, <3>1, QueueTyped, Steps
    <3>3. batch' \in [Threads -> SUBSET Requests] /\ held' \in [Agents -> SUBSET Requests]
      BY <1>a, <1>2 DEF UpdateStatus
    <3>4. requeues' \in Nat
      BY <1>2 DEF UpdateStatus
    <3>5. UNCHANGED <<rstate, owner, refs, list, agObj, agOwner, registered, untracked, life,
                      todo, failed, kept, victim, plan, others, other, stops, errors,
                      forsaken>>
      BY <1>2 DEF UpdateStatus
    <3> QED
      BY <2>2, <3>2, <3>3, <3>4, <3>5
  <2>4. (Roles /\ RegisterSound /\ OneCollector)'
    BY <1>a, <1>2 DEF UpdateStatus, GoTo, HoldsAgent, FrontendSteps, SessionSteps
  <2> QED
    BY <2>3, <2>4
<1>3. ASSUME NEW r \in Requests, CompleteJob(t, r) PROVE RegisterInv'
  <2>1. SessionQueue[AgentOf[t]][1] \in Pools
    BY <1>3, QueueAssumption DEF CompleteJob, Queues
  <2> QED
    BY <1>a, <1>3, Steps, <2>1
    DEF CompleteJob, GoTo, HoldsQueue, HoldsAgent, FrontendSteps, SessionSteps
<1>4. ASSUME NEW r \in Requests, DeleteReported(t, r) PROVE RegisterInv'
  BY <1>a, <1>4, Steps
  DEF DeleteReported, Remove, GoTo, HoldsQueue, HoldsAgent, FrontendSteps, SessionSteps
<1>5. ASSUME NEW r \in Requests, ForgetGone(t, r) PROVE RegisterInv'
  BY <1>a, <1>5, Steps
  DEF ForgetGone, GoTo, HoldsQueue, HoldsAgent, FrontendSteps, SessionSteps
<1> QED
  BY <1>1, <1>2, <1>3, <1>4, <1>5 DEF SessionStep

\* The first step of a collector keeps the invariant about agents.
LEMMA CollectorRegisterInv ==
  ASSUME RegisterInv, NEW t \in Threads, CollectorStep(t)
  PROVE  RegisterInv'
<1> USE DEF RegisterInv, TypeOK, Roles, RegisterSound, OneCollector, store, local, counters, At
<1>a. AgentOf \in [Threads -> Agents]
  BY RoleAssumption
<1>1. ASSUME NEW d \in Agents, GcReference(t, d) PROVE RegisterInv'
  BY <1>a, <1>1, Steps
  DEF GcReference, AddBatchToOwnership, AgentLocked, GoTo, HoldsQueue, HoldsAgent,
      FrontendSteps, SessionSteps
<1> QED
  BY <1>1 DEF CollectorStep

\* A failed ownership switch keeps the invariant about agents.
LEMMA ErrorRegisterInv ==
  ASSUME RegisterInv, NEW t \in Threads, ErrorStep(t)
  PROVE  RegisterInv'
<1> USE DEF RegisterInv, TypeOK, Roles, RegisterSound, OneCollector, store, local, counters, At
<1>a. AgentOf \in [Threads -> Agents]
  BY RoleAssumption
<1>1. ASSUME NEW r \in Requests, PopSwitchError(t, r) PROVE RegisterInv'
  BY <1>a, <1>1, Steps
  DEF PopSwitchError, GoTo, HoldsQueue, HoldsAgent, FrontendSteps, SessionSteps
<1>2. ASSUME NEW r \in Requests, RequeueSwitchError(t, r) PROVE RegisterInv'
  <2>1. cur[t] \in Queues
    BY <1>2 DEF RequeueSwitchError, HoldsQueue
  <2>2. /\ owner' \in [Requests -> [Pools -> Agents \cup Queues \cup {NoOwner}]]
        /\ forsaken' \subseteq Requests \X (Agents \cup Queues)
    <3>1. CASE UNCHANGED <<owner, forsaken>>
      BY <3>1
    <3>2. CASE /\ owner' = [owner EXCEPT ![r][cur[t][1]] = cur[t]]
               /\ forsaken' = forsaken \cup {<<r, cur[t]>>}
      <4>1. owner' \in [Requests -> [Pools -> Agents \cup Queues \cup {NoOwner}]]
        BY <2>1, <3>2, OwnerTyped
      <4>2. PICK q \in Queues : q = cur[t]
        BY <2>1
      <4>3. <<r, q>> \in Requests \X (Agents \cup Queues)
        OBVIOUS
      <4> QED
        BY <3>2, <4>1, <4>2, <4>3
    <3> QED
      BY <1>2, <3>1, <3>2 DEF RequeueSwitchError
  <2>3. failed' \in [Threads -> SUBSET Requests] /\ todo' \in [Threads -> SUBSET Requests]
    BY <1>2 DEF RequeueSwitchError
  <2>4. TypeOK'
    BY <1>2, <2>2, <2>3 DEF RequeueSwitchError
  <2>5. (Roles /\ RegisterSound /\ OneCollector)'
    BY <1>2 DEF RequeueSwitchError
  <2> QED
    BY <2>4, <2>5
<1> QED
  BY <1>1, <1>2 DEF ErrorStep

\* The steps of an operation in progress keep the invariant about agents.
LEMMA ContinueRegisterInv ==
  ASSUME RegisterInv, NEW t \in Threads, Continue(t)
  PROVE  RegisterInv'
<1> USE DEF RegisterInv, TypeOK, Roles, RegisterSound, OneCollector, store, local, counters, At
<1>a. AgentOf \in [Threads -> Agents]
  BY RoleAssumption
<1>1. ASSUME NEW r \in Requests, QueueArchiveInsert(t, r) PROVE RegisterInv'
  BY <1>a, <1>1, Steps
  DEF QueueArchiveInsert, GoTo, HoldsQueue, HoldsAgent, FrontendSteps, SessionSteps
<1>2. ASSUME NEW r \in Requests, BottomHalfLock(t, r) PROVE RegisterInv'
  <2>1. PICK s \in {"enqueue", "ended"} : GoTo(t, s)
    BY <1>2 DEF BottomHalfLock
  <2>2. s \in PCs /\ s \notin HoldsQueue \cup {"reqRef"}
    BY Steps DEF HoldsRequest
  <2>3. batch' \in [Threads -> SUBSET Requests]
    BY <1>2 DEF BottomHalfLock
  <2>4. TypeOK'
    <3>1. /\ pc' \in [Threads -> PCs]
          /\ cur' \in [Threads -> Queues \cup {NoQueue}]
          /\ \A u \in Threads : pc'[u] \in HoldsQueue \cup {"reqRef"} => cur'[u] \in Queues
      BY <1>2, <2>1, <2>2 DEF BottomHalfLock, GoTo
    <3> QED
      BY <1>2, <2>3, <3>1 DEF BottomHalfLock
  <2>5. (Roles /\ RegisterSound /\ OneCollector)'
    BY <1>a, <1>2, <2>1 DEF BottomHalfLock, GoTo, HoldsAgent, FrontendSteps, SessionSteps
  <2> QED
    BY <2>4, <2>5
<1>3. ASSUME NEW r \in Requests, NEW p \in Pools, BottomHalfReference(t, r, p) PROVE RegisterInv'
  <2>1. <<p, FirstType>> \in Queues
    BY QueueAssumption DEF Queues
  <2>2. TypeOK'
    <3>1. /\ pc' \in [Threads -> PCs]
          /\ cur' \in [Threads -> Queues \cup {NoQueue}]
          /\ \A u \in Threads : pc'[u] \in HoldsQueue \cup {"reqRef"} => cur'[u] \in Queues
      BY <1>3, <2>1, QueueTyped, Steps DEF BottomHalfReference, HoldsQueue
    <3>2. refs' \in [Queues -> SUBSET Requests]
      BY <1>3, <2>1 DEF BottomHalfReference
    <3>3. UNCHANGED <<rstate, owner, type, list, agObj, agOwner, registered, untracked, life,
                      held, batch, todo, failed, kept, victim, plan, others, other, stops,
                      errors, requeues, forsaken>>
      BY <1>3 DEF BottomHalfReference
    <3> QED
      BY <3>1, <3>2, <3>3
  <2>3. (Roles /\ RegisterSound /\ OneCollector)'
    BY <1>a, <1>3 DEF BottomHalfReference, GoTo, HoldsAgent, FrontendSteps, SessionSteps
  <2> QED
    BY <2>2, <2>3
<1>4. ASSUME NEW r \in Requests, BottomHalfCommit(t, r) PROVE RegisterInv'
  <2>1. cur[t] \in Queues
    BY <1>4 DEF BottomHalfCommit, HoldsQueue
  <2>2. owner' \in [Requests -> [Pools -> Agents \cup Queues \cup {NoOwner}]]
    BY <1>4, <2>1, OwnerTyped DEF BottomHalfCommit
  <2>3. PICK s \in {"enqueue", "deref"} : GoTo(t, s)
    BY <1>4 DEF BottomHalfCommit
  <2>4. s \in PCs /\ s \notin HoldsQueue \cup {"reqRef"}
    BY Steps DEF HoldsRequest
  <2>5. TypeOK'
    BY <1>4, <2>2, <2>3, <2>4, QueueTyped DEF BottomHalfCommit
  <2>6. (Roles /\ RegisterSound /\ OneCollector)'
    BY <1>a, <1>4, <2>3 DEF BottomHalfCommit, GoTo, HoldsAgent, FrontendSteps, SessionSteps
  <2> QED
    BY <2>5, <2>6
<1>5. ASSUME NEW r \in Requests, PopSwitch(t, r) PROVE RegisterInv'
  <2>1. cur[t] \in Queues
    BY <1>5 DEF PopSwitch, HoldsQueue
  <2>2. owner' \in [Requests -> [Pools -> Agents \cup Queues \cup {NoOwner}]]
    <3>1. CASE UNCHANGED owner
      BY <3>1
    <3>2. CASE owner' = [owner EXCEPT ![r][cur[t][1]] = AgentOf[t]]
      BY <1>a, <2>1, <3>2, OwnerTyped
    <3> QED
      BY <1>5, <3>1, <3>2 DEF PopSwitch
  <2>3. failed' \in [Threads -> SUBSET Requests] /\ todo' \in [Threads -> SUBSET Requests]
    <3>1. failed' = failed \/ failed' = [failed EXCEPT ![t] = @ \cup {r}]
      BY <1>5 DEF PopSwitch
    <3>2. todo' = [todo EXCEPT ![t] = @ \ {r}]
      BY <1>5 DEF PopSwitch
    <3>3. /\ failed \in [Threads -> SUBSET Requests]
          /\ todo \in [Threads -> SUBSET Requests]
      OBVIOUS
    <3> HIDE DEF RegisterInv
    <3> QED
      BY <3>1, <3>2, <3>3
  <2>4. TypeOK'
    BY <1>5, <2>2, <2>3 DEF PopSwitch
  <2>5. (Roles /\ RegisterSound /\ OneCollector)'
    BY <1>5 DEF PopSwitch
  <2> QED
    BY <2>4, <2>5
<1>6. ASSUME NEW r \in Requests, RequeueSwitch(t, r) PROVE RegisterInv'
  <2>1. cur[t] \in Queues
    BY <1>6 DEF RequeueSwitch, HoldsQueue
  <2>2. owner' \in [Requests -> [Pools -> Agents \cup Queues \cup {NoOwner}]]
    <3>1. CASE UNCHANGED owner
      BY <3>1
    <3>2. CASE owner' = [owner EXCEPT ![r][cur[t][1]] = cur[t]]
      BY <1>a, <2>1, <3>2, OwnerTyped
    <3> QED
      BY <1>6, <3>1, <3>2 DEF RequeueSwitch
  <2>3. failed' \in [Threads -> SUBSET Requests] /\ todo' \in [Threads -> SUBSET Requests]
    <3>1. failed' = failed \/ failed' = [failed EXCEPT ![t] = @ \cup {r}]
      BY <1>6 DEF RequeueSwitch
    <3>2. todo' = [todo EXCEPT ![t] = @ \ {r}]
      BY <1>6 DEF RequeueSwitch
    <3>3. /\ failed \in [Threads -> SUBSET Requests]
          /\ todo \in [Threads -> SUBSET Requests]
      OBVIOUS
    <3> HIDE DEF RegisterInv
    <3> QED
      BY <3>1, <3>2, <3>3
  <2>4. TypeOK'
    BY <1>6, <2>2, <2>3 DEF RequeueSwitch
  <2>5. (Roles /\ RegisterSound /\ OneCollector)'
    BY <1>6 DEF RequeueSwitch
  <2> QED
    BY <2>4, <2>5
<1>7. ASSUME NEW r \in Requests, GcSwitch(t, r) PROVE RegisterInv'
  <2>1. cur[t] \in Queues
    BY <1>7 DEF GcSwitch, HoldsQueue
  <2>2. owner' \in [Requests -> [Pools -> Agents \cup Queues \cup {NoOwner}]]
    <3>1. CASE UNCHANGED owner
      BY <3>1
    <3>2. CASE owner' = [owner EXCEPT ![r][cur[t][1]] = cur[t]]
      BY <1>a, <2>1, <3>2, OwnerTyped
    <3> QED
      BY <1>7, <3>1, <3>2 DEF GcSwitch
  <2>3. failed' \in [Threads -> SUBSET Requests] /\ todo' \in [Threads -> SUBSET Requests]
    <3>1. failed' = failed \/ failed' = [failed EXCEPT ![t] = @ \cup {r}]
      BY <1>7 DEF GcSwitch
    <3>2. todo' = [todo EXCEPT ![t] = @ \ {r}]
      BY <1>7 DEF GcSwitch
    <3>3. /\ failed \in [Threads -> SUBSET Requests]
          /\ todo \in [Threads -> SUBSET Requests]
      OBVIOUS
    <3> HIDE DEF RegisterInv
    <3> QED
      BY <3>1, <3>2, <3>3
  <2>4. TypeOK'
    BY <1>7, <2>2, <2>3 DEF GcSwitch
  <2>5. (Roles /\ RegisterSound /\ OneCollector)'
    BY <1>7 DEF GcSwitch
  <2> QED
    BY <2>4, <2>5
<1>8. CASE Dereference(t)
  BY <1>a, <1>8, Steps
  DEF Dereference, RemoveBatchFromOwnership, GoTo, HoldsQueue, HoldsAgent, FrontendSteps,
      SessionSteps
<1>9. CASE PopCommit(t)
  BY <1>a, <1>9, Steps DEF PopCommit, GoTo, HoldsQueue, HoldsAgent, FrontendSteps, SessionSteps
<1>10. CASE RequeueReference(t)
  BY <1>a, <1>10, Steps
  DEF RequeueReference, GoTo, HoldsQueue, HoldsAgent, FrontendSteps, SessionSteps
<1>11. CASE RequeueCommit(t)
  BY <1>a, <1>11, Steps
  DEF RequeueCommit, GoTo, HoldsQueue, HoldsAgent, FrontendSteps, SessionSteps
<1>12. CASE GcOwn(t)
  BY <1>a, <1>12, Steps DEF GcOwn, GoTo, HoldsQueue, HoldsAgent, FrontendSteps, SessionSteps
<1>13. CASE GcTrack(t)
  BY <1>a, <1>13, Steps DEF GcTrack, GoTo, HoldsQueue, HoldsAgent, FrontendSteps, SessionSteps
<1>14. CASE GcFetch(t)
  BY <1>a, <1>14, Steps DEF GcFetch, GoTo, HoldsQueue, HoldsAgent, FrontendSteps, SessionSteps
<1>15. CASE GcSort(t)
  BY <1>a, <1>15, Steps
  DEF GcSort, StillOwned, AfterJobs, GoTo, HoldsQueue, HoldsAgent, FrontendSteps, SessionSteps
<1>16. ASSUME NEW q \in Queues, GcRequeueReference(t, q) PROVE RegisterInv'
  BY <1>a, <1>16, Steps
  DEF GcRequeueReference, GoTo, HoldsQueue, HoldsAgent, FrontendSteps, SessionSteps
<1>17. CASE GcRequeueCommit(t)
  BY <1>a, <1>17, Steps
  DEF GcRequeueCommit, GoTo, HoldsQueue, HoldsAgent, FrontendSteps, SessionSteps
<1>18. CASE GcErase(t)
  BY <1>a, <1>18, Steps
  DEF GcErase, AfterJobs, GoTo, HoldsQueue, HoldsAgent, FrontendSteps, SessionSteps
<1>19. ASSUME NEW x \in Agents, GcUntrack(t, x) PROVE RegisterInv'
  BY <1>a, <1>19, Steps
  DEF GcUntrack, UntrackAgent, GoTo, HoldsQueue, HoldsAgent, FrontendSteps, SessionSteps
<1>20. CASE GcHandBack(t)
  BY <1>a, <1>20, Steps
  DEF GcHandBack, GoTo, HoldsQueue, HoldsAgent, FrontendSteps, SessionSteps
<1>21. CASE GcRelinquish(t)
  BY <1>a, <1>21, Steps
  DEF GcRelinquish, GoTo, HoldsQueue, HoldsAgent, FrontendSteps, SessionSteps
<1>22. CASE GcRemove(t)
  BY <1>a, <1>22, Steps DEF GcRemove, GoTo, HoldsQueue, HoldsAgent, FrontendSteps, SessionSteps
<1>23. CASE GcUnregister(t)
  BY <1>a, <1>23, Steps
  DEF GcUnregister, RemoveAgent, GoTo, HoldsQueue, HoldsAgent, FrontendSteps, SessionSteps
<1>24. CASE GcDone(t)
  BY <1>a, <1>24, Steps
  DEF GcDone, RemoveBatchFromOwnership, GoTo, HoldsQueue, HoldsAgent, FrontendSteps,
      SessionSteps
<1> QED
  BY <1>1, <1>2, <1>3, <1>4, <1>5, <1>6, <1>7, <1>8, <1>9, <1>10, <1>11, <1>12, <1>13, <1>14,
     <1>15, <1>16, <1>17, <1>18, <1>19, <1>20, <1>21, <1>22, <1>23, <1>24
  DEF Continue

\* Every step keeps the invariant about agents.
LEMMA RegisterNext == RegisterInv /\ [Next]_vars => RegisterInv'
<1> SUFFICES ASSUME RegisterInv, [Next]_vars PROVE RegisterInv'
  OBVIOUS
<1>1. CASE UNCHANGED vars
  BY <1>1 DEF RegisterInv, TypeOK, Roles, RegisterSound, OneCollector, vars
<1>2. CASE LifeStep
  BY <1>2, LifeRegisterInv
<1>3. ASSUME NEW t \in Threads,
             FrontendStep(t) \/ SessionStep(t) \/ CollectorStep(t) \/ ErrorStep(t) \/ Continue(t)
      PROVE  RegisterInv'
  BY <1>3, FrontendRegisterInv, SessionRegisterInv, CollectorRegisterInv, ErrorRegisterInv,
     ContinueRegisterInv
<1> QED
  BY <1>1, <1>2, <1>3 DEF Next

\* The inductive invariant about agents holds in every reachable state.
THEOREM RegisterCorrect == Spec => []RegisterInv
  BY RegisterInit, RegisterNext, PTL DEF Spec

\* Type correctness, for every instance: in particular AgentRegister::untrackAgent()
\* never makes an agent untracked that the register does not list.
THEOREM TypeCorrect == Spec => []TypeOK
<1>1. RegisterInv => TypeOK
  BY DEF RegisterInv
<1> QED
  BY <1>1, RegisterCorrect, PTL

-----------------------------------------------------------------------------
(* The inductive invariant about jobs                                      *)

\* A request that is not stored yet is only known to the thread that inserts it.
FreshUnknown ==
    \A r \in Requests : rstate[r] \in {"none", "claimed"} =>
        /\ \A q \in Queues : r \notin refs[q]
        /\ \A a \in Agents : r \notin held[a]
        /\ \A t \in Threads :
             /\ r \in batch[t] => pc[t] = "insert" /\ rstate[r] = "claimed"
             /\ \A q \in Queues : <<r, q>> \notin plan[t]

InsertOnce ==
    /\ \A t, u \in Threads : \A r \in batch[t] :
         /\ pc[t] = "insert" => rstate[r] = "claimed"
         /\ pc[t] = "insert" /\ r \in batch[u] => u = t
    /\ \A t \in Threads : pc[t] \in FrontendSteps => \A r, s \in batch[t] : r = s

\* The results of ownership switches belong to the operation in progress.
SwitchResults ==
    \A t \in Threads :
        /\ todo[t] \subseteq batch[t] /\ failed[t] \subseteq batch[t]
        /\ pc[t] \notin {"popSwitch", "reqSwitch", "gcSwitch"} => todo[t] = {} /\ failed[t] = {}

\* A locked request stays in the store, and its job stays with the frontend until
\* the frontend commits it to the queue.
RequestLockHeld ==
    \A t, u \in Threads : pc[t] \in HoldsRequest => \A r \in batch[t] :
        /\ rstate[r] = "stored"
        /\ pc[u] \in HoldsRequest /\ r \in batch[u] => u = t
        /\ pc[t] = "commitJob" => owner[r][cur[t][1]] = AgentOf[t]

\* Only running sessions hold jobs.
HeldByRunning == \A a \in Agents : held[a] # {} => a \in Sessions /\ life[a] = "up"

OwnershipInv ==
    /\ FreshUnknown
    /\ InsertOnce
    /\ SwitchResults
    /\ RequestLockHeld
    /\ HeldByRunning

\* No job exists yet.
LEMMA OwnershipInit == Init => OwnershipInv
  BY RoleAssumption
  DEF Init, OwnershipInv, FreshUnknown, InsertOnce, SwitchResults, RequestLockHeld,
      HeldByRunning, Stored, FrontendSteps, HoldsRequest

\* The effect of committing a new owner of one job.
LEMMA OneJobChanges ==
  ASSUME owner \in [Requests -> [Pools -> Agents \cup Queues \cup {NoOwner}]],
         NEW r \in Requests, NEW p, NEW o, owner' = [owner EXCEPT ![r][p] = o]
  PROVE  \A x \in Requests, y \in Pools :
           owner'[x][y] = IF x = r /\ y = p THEN o ELSE owner[x][y]
  OBVIOUS

\* The pool of a queue.
LEMMA PoolOf == \A q \in Queues : q[1] \in Pools
  BY DEF Queues

\* The types of what the invariant about jobs mentions.
LEMMA JobTypes ==
  ASSUME RegisterInv
  PROVE  /\ rstate \in [Requests -> {"none", "claimed", "stored", "gone"}]
         /\ owner \in [Requests -> [Pools -> Agents \cup Queues \cup {NoOwner}]]
         /\ refs \in [Queues -> SUBSET Requests]
         /\ life \in [Agents -> {"new", "starting", "up", "leaving", "down"}]
         /\ held \in [Agents -> SUBSET Requests]
         /\ pc \in [Threads -> PCs]
         /\ cur \in [Threads -> Queues \cup {NoQueue}]
         /\ \A u \in Threads : pc[u] \in HoldsQueue \cup {"reqRef"} => cur[u] \in Queues
         /\ batch \in [Threads -> SUBSET Requests]
         /\ todo \in [Threads -> SUBSET Requests]
         /\ failed \in [Threads -> SUBSET Requests]
         /\ plan \in [Threads -> SUBSET (Requests \X Queues)]
  BY DEF RegisterInv, TypeOK

\* Starts, crashes and exits keep the invariant about jobs.
LEMMA LifeOwnershipInv ==
  ASSUME RegisterInv, OwnershipInv, LifeStep
  PROVE  OwnershipInv'
<1> USE DEF OwnershipInv, store, local, counters, At, GoTo
<1>r. Roles /\ OneCollector
  BY DEF RegisterInv
<1>a. AgentOf \in [Threads -> Agents]
  BY RoleAssumption
<1>q. \A a \in Sessions : SessionQueue[a][1] \in Pools /\ a \in Agents
  BY RoleAssumption, QueueAssumption, PoolOf
<1>1. ASSUME NEW a \in Agents, StartRegister(a) PROVE OwnershipInv'
  BY JobTypes, <1>1
  DEF StartRegister, FreshUnknown, InsertOnce, FrontendSteps, SwitchResults, RequestLockHeld,
      HoldsRequest, HeldByRunning, Stored
<1>2. ASSUME NEW a \in Agents, StartInsert(a) PROVE OwnershipInv'
  BY JobTypes, <1>2
  DEF StartInsert, FreshUnknown, InsertOnce, FrontendSteps, SwitchResults, RequestLockHeld,
      HoldsRequest, HeldByRunning, Stored
<1>3. ASSUME NEW a \in Agents, Crash(a) PROVE OwnershipInv'
  BY JobTypes, <1>3
  DEF Crash, FreshUnknown, InsertOnce, FrontendSteps, SwitchResults, RequestLockHeld,
      HoldsRequest, HeldByRunning, Stored
<1>4. ASSUME NEW a \in Agents, ExitLeavingObjects(a) PROVE OwnershipInv'
  BY JobTypes, <1>4
  DEF ExitLeavingObjects, Quiet, FreshUnknown, InsertOnce, FrontendSteps, SwitchResults,
      RequestLockHeld, HoldsRequest, HeldByRunning, Stored
<1>5. ASSUME NEW a \in Agents, ExitRemove(a) PROVE OwnershipInv'
  BY JobTypes, <1>5
  DEF ExitRemove, Quiet, FreshUnknown, InsertOnce, FrontendSteps, SwitchResults,
      RequestLockHeld, HoldsRequest, HeldByRunning, Stored
<1>6. ASSUME NEW a \in Agents, ExitUnregister(a) PROVE OwnershipInv'
  BY JobTypes, <1>6
  DEF ExitUnregister, RemoveAgent, FreshUnknown, InsertOnce, FrontendSteps, SwitchResults,
      RequestLockHeld, HoldsRequest, HeldByRunning, Stored
<1> QED
  BY <1>1, <1>2, <1>3, <1>4, <1>5, <1>6 DEF LifeStep

\* The first steps of a frontend keep the invariant about jobs.
LEMMA FrontendOwnershipInv ==
  ASSUME RegisterInv, OwnershipInv, NEW t \in Threads, FrontendStep(t)
  PROVE  OwnershipInv'
<1> USE DEF OwnershipInv, store, local, counters, At, GoTo
<1>r. Roles /\ OneCollector
  BY DEF RegisterInv
<1>a. AgentOf \in [Threads -> Agents]
  BY RoleAssumption
<1>q. \A a \in Sessions : SessionQueue[a][1] \in Pools /\ a \in Agents
  BY RoleAssumption, QueueAssumption, PoolOf
<1>1. ASSUME NEW r \in Requests, QueueArchiveReference(t, r) PROVE OwnershipInv'
  BY JobTypes, <1>1
  DEF QueueArchiveReference, AddBatchToOwnership, FreshUnknown, InsertOnce, FrontendSteps,
      SwitchResults, RequestLockHeld, HoldsRequest, HeldByRunning, Stored
<1>2. ASSUME NEW r \in Requests, CancelArchive(t, r) PROVE OwnershipInv'
  <2>1. FreshUnknown'
    BY JobTypes, <1>r, <1>a, <1>2
    DEF CancelArchive, Remove, FreshUnknown, InsertOnce, FrontendSteps, Stored
  <2>2. InsertOnce'
    BY JobTypes, <1>r, <1>a, <1>2
    DEF CancelArchive, Remove, FreshUnknown, InsertOnce, FrontendSteps, Stored
  <2>s. SwitchResults'
    BY JobTypes, <1>2 DEF CancelArchive, Remove, SwitchResults
  <2>3. RequestLockHeld'
    BY JobTypes, <1>r, <1>a, <1>2, OneJobChanges, PoolOf
    DEF CancelArchive, Remove, RequestLockHeld, HoldsRequest, RequestLocked, FreshUnknown,
        InsertOnce, Stored
  <2>5. HeldByRunning'
    BY JobTypes, <1>r, <1>a, <1>2
    DEF CancelArchive, Remove, HeldByRunning, Roles, SessionSteps, InsertOnce
  <2> QED
    BY <2>s, <2>1, <2>2, <2>3, <2>5
<1> QED
  BY <1>1, <1>2 DEF FrontendStep

\* The first steps of a session keep the invariant about jobs.
LEMMA SessionOwnershipInv ==
  ASSUME RegisterInv, OwnershipInv, NEW t \in Threads, SessionStep(t)
  PROVE  OwnershipInv'
<1> USE DEF OwnershipInv, store, local, counters, At, GoTo
<1>r. Roles /\ OneCollector
  BY DEF RegisterInv
<1>a. AgentOf \in [Threads -> Agents]
  BY RoleAssumption
<1>q. \A a \in Sessions : SessionQueue[a][1] \in Pools /\ a \in Agents
  BY RoleAssumption, QueueAssumption, PoolOf
<1>1. ASSUME NEW S \in SUBSET Requests, PopReference(t, S) PROVE OwnershipInv'
  <2>0. SessionQueue[AgentOf[t]] \in Queues
    BY <1>1, QueueAssumption DEF PopReference
  <2>1. FreshUnknown'
    BY JobTypes, <1>r, <1>a, <1>1, <2>0
    DEF PopReference, AddBatchToOwnership, FreshUnknown, InsertOnce, FrontendSteps, Stored
  <2>2. InsertOnce'
    BY JobTypes, <1>r, <1>a, <1>1, <2>0
    DEF PopReference, AddBatchToOwnership, FreshUnknown, InsertOnce, FrontendSteps, Stored
  <2>s. SwitchResults'
    BY JobTypes, <1>1 DEF PopReference, AddBatchToOwnership, SwitchResults
  <2>3. RequestLockHeld'
    BY JobTypes, <1>r, <1>a, <1>1, OneJobChanges, PoolOf
    DEF PopReference, AddBatchToOwnership, RequestLockHeld, HoldsRequest, RequestLocked,
        FreshUnknown, InsertOnce, Stored
  <2>5. HeldByRunning'
    BY JobTypes, <1>r, <1>a, <1>1
    DEF PopReference, AddBatchToOwnership, HeldByRunning, Roles, SessionSteps,
        InsertOnce
  <2> QED
    BY <2>s, <2>1, <2>2, <2>3, <2>5
<1>2. ASSUME NEW r \in Requests, NEW ty \in Types, UpdateStatus(t, r, ty) PROVE OwnershipInv'
  BY JobTypes, <1>a, <1>2
  DEF UpdateStatus, SetJobStatus, FreshUnknown, InsertOnce, FrontendSteps, SwitchResults,
      RequestLockHeld, HoldsRequest, HeldByRunning, Stored
<1>3. ASSUME NEW r \in Requests, CompleteJob(t, r) PROVE OwnershipInv'
  <2>1. FreshUnknown'
    BY JobTypes, <1>r, <1>a, <1>3 DEF CompleteJob, FreshUnknown, InsertOnce, FrontendSteps,
       Stored
  <2>2. InsertOnce'
    BY JobTypes, <1>r, <1>a, <1>3 DEF CompleteJob, FreshUnknown, InsertOnce, FrontendSteps,
       Stored
  <2>s. SwitchResults'
    BY JobTypes, <1>3 DEF CompleteJob, SwitchResults
  <2>3. RequestLockHeld'
    BY JobTypes, <1>r, <1>a, <1>3, OneJobChanges, PoolOf
    DEF CompleteJob, RequestLockHeld, HoldsRequest, RequestLocked, FreshUnknown, InsertOnce,
        Stored
  <2>5. HeldByRunning'
    BY JobTypes, <1>r, <1>a, <1>3
    DEF CompleteJob, HeldByRunning, Roles, SessionSteps, InsertOnce
  <2> QED
    BY <2>s, <2>1, <2>2, <2>3, <2>5
<1>4. ASSUME NEW r \in Requests, DeleteReported(t, r) PROVE OwnershipInv'
  <2>1. FreshUnknown'
    BY JobTypes, <1>r, <1>a, <1>4
    DEF DeleteReported, Remove, FreshUnknown, InsertOnce, FrontendSteps, Stored
  <2>2. InsertOnce'
    BY JobTypes, <1>r, <1>a, <1>4
    DEF DeleteReported, Remove, FreshUnknown, InsertOnce, FrontendSteps, Stored
  <2>s. SwitchResults'
    BY JobTypes, <1>4 DEF DeleteReported, Remove, SwitchResults
  <2>3. RequestLockHeld'
    BY JobTypes, <1>r, <1>a, <1>4, OneJobChanges, PoolOf
    DEF DeleteReported, Remove, RequestLockHeld, HoldsRequest, RequestLocked, FreshUnknown,
        InsertOnce, Stored
  <2>5. HeldByRunning'
    BY JobTypes, <1>r, <1>a, <1>4
    DEF DeleteReported, Remove, HeldByRunning, Roles, SessionSteps, InsertOnce
  <2> QED
    BY <2>s, <2>1, <2>2, <2>3, <2>5
<1>5. ASSUME NEW r \in Requests, ForgetGone(t, r) PROVE OwnershipInv'
  BY JobTypes, <1>5
  DEF ForgetGone, FreshUnknown, InsertOnce, FrontendSteps, SwitchResults, RequestLockHeld,
      HoldsRequest, HeldByRunning, Stored
<1> QED
  BY <1>1, <1>2, <1>3, <1>4, <1>5 DEF SessionStep

\* The first step of a collector keeps the invariant about jobs.
LEMMA CollectorOwnershipInv ==
  ASSUME RegisterInv, OwnershipInv, NEW t \in Threads, CollectorStep(t)
  PROVE  OwnershipInv'
<1> USE DEF OwnershipInv, store, local, counters, At, GoTo
<1>r. Roles /\ OneCollector
  BY DEF RegisterInv
<1>a. AgentOf \in [Threads -> Agents]
  BY RoleAssumption
<1>q. \A a \in Sessions : SessionQueue[a][1] \in Pools /\ a \in Agents
  BY RoleAssumption, QueueAssumption, PoolOf
<1>1. ASSUME NEW d \in Agents, GcReference(t, d) PROVE OwnershipInv'
  BY JobTypes, <1>1
  DEF GcReference, AddBatchToOwnership, AgentLocked, FreshUnknown, InsertOnce, FrontendSteps,
      SwitchResults, RequestLockHeld, HoldsRequest, HeldByRunning, Stored
<1> QED
  BY <1>1 DEF CollectorStep

\* A failed ownership switch keeps the invariant about jobs.
LEMMA ErrorOwnershipInv ==
  ASSUME RegisterInv, OwnershipInv, NEW t \in Threads, ErrorStep(t)
  PROVE  OwnershipInv'
<1> USE DEF OwnershipInv, store, local, counters, At, GoTo
<1>r. Roles /\ OneCollector
  BY DEF RegisterInv
<1>a. AgentOf \in [Threads -> Agents]
  BY RoleAssumption
<1>q. \A a \in Sessions : SessionQueue[a][1] \in Pools /\ a \in Agents
  BY RoleAssumption, QueueAssumption, PoolOf
<1>1. ASSUME NEW r \in Requests, PopSwitchError(t, r) PROVE OwnershipInv'
  BY JobTypes, <1>1
  DEF PopSwitchError, FreshUnknown, InsertOnce, FrontendSteps, SwitchResults, RequestLockHeld,
      HoldsRequest, HeldByRunning, Stored
<1>2. ASSUME NEW r \in Requests, RequeueSwitchError(t, r) PROVE OwnershipInv'
  <2>1. FreshUnknown'
    BY JobTypes, <1>r, <1>a, <1>2
    DEF RequeueSwitchError, FreshUnknown, InsertOnce, FrontendSteps, Stored
  <2>2. InsertOnce'
    BY JobTypes, <1>r, <1>a, <1>2
    DEF RequeueSwitchError, FreshUnknown, InsertOnce, FrontendSteps, Stored
  <2>s. SwitchResults'
    BY JobTypes, <1>2 DEF RequeueSwitchError, SwitchResults
  <2>3. RequestLockHeld'
    <3>1. \A x \in Requests : x # r => owner'[x] = owner[x]
      BY JobTypes, <1>2 DEF RequeueSwitchError
    <3>2. owner' # owner => \A u \in Threads : pc[u] \in HoldsRequest => r \notin batch[u]
      BY <1>2 DEF RequeueSwitchError, RequestLocked
    <3>3. UNCHANGED <<rstate, pc, cur, batch>>
      BY <1>2 DEF RequeueSwitchError
    <3> QED
      BY JobTypes, <3>1, <3>2, <3>3 DEF RequestLockHeld
  <2>5. HeldByRunning'
    BY JobTypes, <1>2 DEF RequeueSwitchError, HeldByRunning
  <2> QED
    BY <2>s, <2>1, <2>2, <2>3, <2>5
<1> QED
  BY <1>1, <1>2 DEF ErrorStep

\* The steps of an operation in progress keep the invariant about jobs.
LEMMA ContinueOwnershipInv ==
  ASSUME RegisterInv, OwnershipInv, NEW t \in Threads, Continue(t)
  PROVE  OwnershipInv'
<1> USE DEF OwnershipInv, store, local, counters, At, GoTo
<1>r. Roles /\ OneCollector
  BY DEF RegisterInv
<1>a. AgentOf \in [Threads -> Agents]
  BY RoleAssumption
<1>q. \A a \in Sessions : SessionQueue[a][1] \in Pools /\ a \in Agents
  BY RoleAssumption, QueueAssumption, PoolOf
<1>1. ASSUME NEW r \in Requests, QueueArchiveInsert(t, r) PROVE OwnershipInv'
  <2>1. FreshUnknown'
    BY JobTypes, <1>r, <1>a, <1>1
    DEF QueueArchiveInsert, FreshUnknown, InsertOnce, FrontendSteps, Stored
  <2>2. InsertOnce'
    BY JobTypes, <1>r, <1>a, <1>1
    DEF QueueArchiveInsert, FreshUnknown, InsertOnce, FrontendSteps, Stored
  <2>s. SwitchResults'
    BY JobTypes, <1>1 DEF QueueArchiveInsert, SwitchResults
  <2>3. RequestLockHeld'
    BY JobTypes, <1>r, <1>a, <1>1, OneJobChanges, PoolOf
    DEF QueueArchiveInsert, RequestLockHeld, HoldsRequest, RequestLocked, FreshUnknown,
        InsertOnce, Stored
  <2>5. HeldByRunning'
    BY JobTypes, <1>r, <1>a, <1>1
    DEF QueueArchiveInsert, HeldByRunning, Roles, SessionSteps, InsertOnce
  <2> QED
    BY <2>s, <2>1, <2>2, <2>3, <2>5
<1>2. ASSUME NEW r \in Requests, BottomHalfLock(t, r) PROVE OwnershipInv'
  <2>1. FreshUnknown'
    BY JobTypes, <1>r, <1>a, <1>2
    DEF BottomHalfLock, FreshUnknown, InsertOnce, FrontendSteps, Stored
  <2>2. InsertOnce'
    <3>1. \A u \in Threads : batch'[u] \subseteq batch[u] /\ (u # t => pc'[u] = pc[u])
      BY JobTypes, <1>2 DEF BottomHalfLock
    <3>2. pc[t] \in FrontendSteps /\ pc'[t] # "insert" /\ UNCHANGED rstate
      BY JobTypes, <1>2 DEF BottomHalfLock, FrontendSteps
    <3> QED
      BY <3>1, <3>2 DEF InsertOnce
  <2>s. SwitchResults'
    BY JobTypes, <1>2 DEF BottomHalfLock, SwitchResults
  <2>3. RequestLockHeld'
    <3>1. CASE Stored(r) /\ GoTo(t, "enqueue") /\ UNCHANGED batch
      <4>1. \A u \in Threads : pc[u] \in HoldsRequest => r \notin batch[u]
        BY <1>2 DEF BottomHalfLock, RequestLocked
      <4>2. \A x \in batch[t] : x = r
        BY <1>2 DEF BottomHalfLock, InsertOnce, FrontendSteps
      <4>3. UNCHANGED <<rstate, owner, cur>>
        BY <1>2 DEF BottomHalfLock
      <4> QED
        BY JobTypes, <3>1, <4>1, <4>2, <4>3 DEF RequestLockHeld, Stored
    <3>2. CASE GoTo(t, "ended")
      BY JobTypes, <1>2, <3>2 DEF BottomHalfLock, RequestLockHeld, HoldsRequest
    <3> QED
      BY <1>2, <3>1, <3>2 DEF BottomHalfLock
  <2>5. HeldByRunning'
    BY JobTypes, <1>r, <1>a, <1>2
    DEF BottomHalfLock, HeldByRunning, Roles, SessionSteps, InsertOnce
  <2> QED
    BY <2>s, <2>1, <2>2, <2>3, <2>5
<1>3. ASSUME NEW r \in Requests, NEW p \in Pools, BottomHalfReference(t, r, p) PROVE OwnershipInv'
  <2>1. FreshUnknown'
    BY JobTypes, <1>r, <1>a, <1>3
    DEF BottomHalfReference, FreshUnknown, InsertOnce, FrontendSteps, Stored
  <2>2. InsertOnce'
    BY JobTypes, <1>r, <1>a, <1>3
    DEF BottomHalfReference, FreshUnknown, InsertOnce, FrontendSteps, Stored
  <2>s. SwitchResults'
    BY JobTypes, <1>3 DEF BottomHalfReference, SwitchResults
  <2>3. RequestLockHeld'
    <3>1. owner[r][p] = AgentOf[t] /\ \A x \in batch[t] : x = r
      BY <1>3 DEF BottomHalfReference, NextCopy, InsertOnce, FrontendSteps
    <3>2. cur'[t][1] = p /\ \A u \in Threads : u # t => cur'[u] = cur[u] /\ pc'[u] = pc[u]
      BY JobTypes, <1>3 DEF BottomHalfReference
    <3>3. UNCHANGED <<rstate, owner, batch>> /\ pc[t] = "enqueue" /\ pc'[t] = "commitJob"
      BY JobTypes, <1>3 DEF BottomHalfReference
    <3> QED
      BY <3>1, <3>2, <3>3 DEF RequestLockHeld, HoldsRequest
  <2>5. HeldByRunning'
    BY JobTypes, <1>r, <1>a, <1>3
    DEF BottomHalfReference, HeldByRunning, Roles, SessionSteps, InsertOnce
  <2> QED
    BY <2>s, <2>1, <2>2, <2>3, <2>5
<1>4. ASSUME NEW r \in Requests, BottomHalfCommit(t, r) PROVE OwnershipInv'
  <2>1. FreshUnknown'
    BY JobTypes, <1>r, <1>a, <1>4
    DEF BottomHalfCommit, FreshUnknown, InsertOnce, FrontendSteps, Stored
  <2>2. InsertOnce'
    BY JobTypes, <1>r, <1>a, <1>4
    DEF BottomHalfCommit, FreshUnknown, InsertOnce, FrontendSteps, Stored
  <2>s. SwitchResults'
    BY JobTypes, <1>4 DEF BottomHalfCommit, SwitchResults
  <2>3. RequestLockHeld'
    BY JobTypes, <1>r, <1>a, <1>4, OneJobChanges, PoolOf
    DEF BottomHalfCommit, RequestLockHeld, HoldsRequest, RequestLocked, FreshUnknown,
        InsertOnce, Stored
  <2>5. HeldByRunning'
    BY JobTypes, <1>r, <1>a, <1>4
    DEF BottomHalfCommit, HeldByRunning, Roles, SessionSteps, InsertOnce
  <2> QED
    BY <2>s, <2>1, <2>2, <2>3, <2>5
<1>5. ASSUME NEW r \in Requests, PopSwitch(t, r) PROVE OwnershipInv'
  <2>1. FreshUnknown'
    BY JobTypes, <1>r, <1>a, <1>5 DEF PopSwitch, FreshUnknown, InsertOnce, FrontendSteps, Stored
  <2>2. InsertOnce'
    BY JobTypes, <1>r, <1>a, <1>5 DEF PopSwitch, FreshUnknown, InsertOnce, FrontendSteps, Stored
  <2>s. SwitchResults'
    BY JobTypes, <1>5 DEF PopSwitch, SwitchResults
  <2>3. RequestLockHeld'
    <3>1. \A x \in Requests : x # r => owner'[x] = owner[x]
      BY JobTypes, <1>5 DEF PopSwitch
    <3>2. \A u \in Threads : pc[u] \in HoldsRequest => r \notin batch[u]
      BY <1>5 DEF PopSwitch, RequestLocked
    <3>3. UNCHANGED <<rstate, pc, cur, batch>>
      BY <1>5 DEF PopSwitch
    <3> QED
      BY JobTypes, <3>1, <3>2, <3>3 DEF RequestLockHeld
  <2>5. HeldByRunning'
    BY JobTypes, <1>r, <1>a, <1>5
    DEF PopSwitch, HeldByRunning, Roles, SessionSteps, InsertOnce
  <2> QED
    BY <2>s, <2>1, <2>2, <2>3, <2>5
<1>6. ASSUME NEW r \in Requests, RequeueSwitch(t, r) PROVE OwnershipInv'
  <2>1. FreshUnknown'
    BY JobTypes, <1>r, <1>a, <1>6
    DEF RequeueSwitch, FreshUnknown, InsertOnce, FrontendSteps, Stored
  <2>2. InsertOnce'
    BY JobTypes, <1>r, <1>a, <1>6
    DEF RequeueSwitch, FreshUnknown, InsertOnce, FrontendSteps, Stored
  <2>s. SwitchResults'
    BY JobTypes, <1>6 DEF RequeueSwitch, SwitchResults
  <2>3. RequestLockHeld'
    <3>1. \A x \in Requests : x # r => owner'[x] = owner[x]
      BY JobTypes, <1>6 DEF RequeueSwitch
    <3>2. \A u \in Threads : pc[u] \in HoldsRequest => r \notin batch[u]
      BY <1>6 DEF RequeueSwitch, RequestLocked
    <3>3. UNCHANGED <<rstate, pc, cur, batch>>
      BY <1>6 DEF RequeueSwitch
    <3> QED
      BY JobTypes, <3>1, <3>2, <3>3 DEF RequestLockHeld
  <2>5. HeldByRunning'
    BY JobTypes, <1>r, <1>a, <1>6
    DEF RequeueSwitch, HeldByRunning, Roles, SessionSteps, InsertOnce
  <2> QED
    BY <2>s, <2>1, <2>2, <2>3, <2>5
<1>7. ASSUME NEW r \in Requests, GcSwitch(t, r) PROVE OwnershipInv'
  <2>1. FreshUnknown'
    BY JobTypes, <1>r, <1>a, <1>7 DEF GcSwitch, FreshUnknown, InsertOnce, FrontendSteps, Stored
  <2>2. InsertOnce'
    BY JobTypes, <1>r, <1>a, <1>7 DEF GcSwitch, FreshUnknown, InsertOnce, FrontendSteps, Stored
  <2>s. SwitchResults'
    BY JobTypes, <1>7 DEF GcSwitch, SwitchResults
  <2>3. RequestLockHeld'
    <3>1. \A x \in Requests : x # r => owner'[x] = owner[x]
      BY JobTypes, <1>7 DEF GcSwitch
    <3>2. \A u \in Threads : pc[u] \in HoldsRequest => r \notin batch[u]
      BY <1>7 DEF GcSwitch, RequestLocked
    <3>3. UNCHANGED <<rstate, pc, cur, batch>>
      BY <1>7 DEF GcSwitch
    <3> QED
      BY JobTypes, <3>1, <3>2, <3>3 DEF RequestLockHeld
  <2>5. HeldByRunning'
    BY JobTypes, <1>r, <1>a, <1>7
    DEF GcSwitch, HeldByRunning, Roles, SessionSteps, InsertOnce
  <2> QED
    BY <2>s, <2>1, <2>2, <2>3, <2>5
<1>8. CASE Dereference(t)
  BY JobTypes, <1>8
  DEF Dereference, RemoveBatchFromOwnership, FreshUnknown, InsertOnce, FrontendSteps,
      SwitchResults, RequestLockHeld, HoldsRequest, HeldByRunning, Stored
<1>9. CASE PopCommit(t)
  <2>1. FreshUnknown'
    BY JobTypes, <1>r, <1>a, <1>9
    DEF PopCommit, FreshUnknown, InsertOnce, FrontendSteps, Stored, SwitchResults
  <2>2. InsertOnce'
    BY JobTypes, <1>r, <1>a, <1>9
    DEF PopCommit, FreshUnknown, InsertOnce, FrontendSteps, Stored, SwitchResults
  <2>s. SwitchResults'
    BY JobTypes, <1>9 DEF PopCommit, SwitchResults
  <2>3. RequestLockHeld'
    BY JobTypes, <1>r, <1>a, <1>9, OneJobChanges, PoolOf
    DEF PopCommit, RequestLockHeld, HoldsRequest, RequestLocked, FreshUnknown, InsertOnce,
        Stored
  <2>5. HeldByRunning'
    BY JobTypes, <1>r, <1>a, <1>9
    DEF PopCommit, HeldByRunning, Roles, SessionSteps, InsertOnce
  <2> QED
    BY <2>s, <2>1, <2>2, <2>3, <2>5
<1>10. CASE RequeueReference(t)
  BY JobTypes, <1>10
  DEF RequeueReference, FreshUnknown, InsertOnce, FrontendSteps, SwitchResults,
      RequestLockHeld, HoldsRequest, HeldByRunning, Stored
<1>11. CASE RequeueCommit(t)
  BY JobTypes, <1>11
  DEF RequeueCommit, FreshUnknown, InsertOnce, FrontendSteps, SwitchResults, RequestLockHeld,
      HoldsRequest, HeldByRunning, Stored
<1>12. CASE GcOwn(t)
  BY JobTypes, <1>12
  DEF GcOwn, FreshUnknown, InsertOnce, FrontendSteps, SwitchResults, RequestLockHeld,
      HoldsRequest, HeldByRunning, Stored
<1>13. CASE GcTrack(t)
  BY JobTypes, <1>13
  DEF GcTrack, FreshUnknown, InsertOnce, FrontendSteps, SwitchResults, RequestLockHeld,
      HoldsRequest, HeldByRunning, Stored
<1>14. CASE GcFetch(t)
  BY JobTypes, <1>14
  DEF GcFetch, FreshUnknown, InsertOnce, FrontendSteps, SwitchResults, RequestLockHeld,
      HoldsRequest, HeldByRunning, Stored
<1>15. CASE GcSort(t)
  BY JobTypes, <1>15
  DEF GcSort, StillOwned, AfterJobs, FreshUnknown, InsertOnce, FrontendSteps, SwitchResults,
      RequestLockHeld, HoldsRequest, HeldByRunning, Stored
<1>16. ASSUME NEW q \in Queues, GcRequeueReference(t, q) PROVE OwnershipInv'
  BY JobTypes, <1>16
  DEF GcRequeueReference, FreshUnknown, InsertOnce, FrontendSteps, SwitchResults,
      RequestLockHeld, HoldsRequest, HeldByRunning, Stored
<1>17. CASE GcRequeueCommit(t)
  BY JobTypes, <1>17
  DEF GcRequeueCommit, FreshUnknown, InsertOnce, FrontendSteps, SwitchResults, RequestLockHeld,
      HoldsRequest, HeldByRunning, Stored
<1>18. CASE GcErase(t)
  BY JobTypes, <1>18
  DEF GcErase, AfterJobs, FreshUnknown, InsertOnce, FrontendSteps, SwitchResults,
      RequestLockHeld, HoldsRequest, HeldByRunning, Stored
<1>19. ASSUME NEW x \in Agents, GcUntrack(t, x) PROVE OwnershipInv'
  BY JobTypes, <1>19
  DEF GcUntrack, UntrackAgent, FreshUnknown, InsertOnce, FrontendSteps, SwitchResults,
      RequestLockHeld, HoldsRequest, HeldByRunning, Stored
<1>20. CASE GcHandBack(t)
  BY JobTypes, <1>20
  DEF GcHandBack, FreshUnknown, InsertOnce, FrontendSteps, SwitchResults, RequestLockHeld,
      HoldsRequest, HeldByRunning, Stored
<1>21. CASE GcRelinquish(t)
  BY JobTypes, <1>21
  DEF GcRelinquish, FreshUnknown, InsertOnce, FrontendSteps, SwitchResults, RequestLockHeld,
      HoldsRequest, HeldByRunning, Stored
<1>22. CASE GcRemove(t)
  BY JobTypes, <1>22
  DEF GcRemove, FreshUnknown, InsertOnce, FrontendSteps, SwitchResults, RequestLockHeld,
      HoldsRequest, HeldByRunning, Stored
<1>23. CASE GcUnregister(t)
  BY JobTypes, <1>23
  DEF GcUnregister, RemoveAgent, FreshUnknown, InsertOnce, FrontendSteps, SwitchResults,
      RequestLockHeld, HoldsRequest, HeldByRunning, Stored
<1>24. CASE GcDone(t)
  BY JobTypes, <1>24
  DEF GcDone, RemoveBatchFromOwnership, FreshUnknown, InsertOnce, FrontendSteps, SwitchResults,
      RequestLockHeld, HoldsRequest, HeldByRunning, Stored
<1> QED
  BY <1>1, <1>2, <1>3, <1>4, <1>5, <1>6, <1>7, <1>8, <1>9, <1>10, <1>11, <1>12, <1>13, <1>14,
     <1>15, <1>16, <1>17, <1>18, <1>19, <1>20, <1>21, <1>22, <1>23, <1>24
  DEF Continue

\* Every step keeps the invariant about jobs.
LEMMA OwnershipNext == RegisterInv /\ OwnershipInv /\ [Next]_vars => OwnershipInv'
<1> SUFFICES ASSUME RegisterInv, OwnershipInv, [Next]_vars PROVE OwnershipInv'
  OBVIOUS
<1>1. CASE UNCHANGED vars
  BY <1>1 DEF OwnershipInv, FreshUnknown, InsertOnce, SwitchResults, RequestLockHeld,
     HeldByRunning, Stored, vars
<1>2. CASE LifeStep
  BY <1>2, LifeOwnershipInv
<1>3. ASSUME NEW t \in Threads,
             FrontendStep(t) \/ SessionStep(t) \/ CollectorStep(t) \/ ErrorStep(t) \/ Continue(t)
      PROVE  OwnershipInv'
  BY <1>3, FrontendOwnershipInv, SessionOwnershipInv, CollectorOwnershipInv,
     ErrorOwnershipInv, ContinueOwnershipInv
<1> QED
  BY <1>1, <1>2, <1>3 DEF Next

-----------------------------------------------------------------------------
(* The inductive invariant about agent objects                             *)

\* The steps at which a collector owns the agent it cleans up, those at which it
\* knows what this agent owned, and those at which it has sorted its list.
Owning == HoldsAgent \ {"gcOwn", "gcUnregister", "gcDone"}
Knowing == Owning \ {"gcTrack", "gcFetch"}
Sorted == Knowing \ {"gcSort"}

\* A running process has an agent object, one that has not started has none; only
\* the agents of dead processes are taken from the register.
AliveHasObject ==
    \A a \in Agents :
        /\ life[a] = "up" => a \in agObj
        /\ life[a] \in {"new", "starting"} => a \notin agObj
        /\ life[a] = "starting" => a \in untracked
        /\ life[a] # "down" => agOwner[a] = Register

\* The agent a collector cleans up is in its list, and belongs to it from GcOwn on.
VictimSound(t) ==
    /\ pc[t] \in HoldsAgent => victim[t] \in list[AgentOf[t]]
    /\ pc[t] = "gcOwn" => victim[t] \in agObj /\ agOwner[victim[t]] = Register
    /\ pc[t] \in Owning => victim[t] \in agObj /\ agOwner[victim[t]] = AgentOf[t]
    /\ pc[t] \in {"gcUnregister", "gcDone"} => victim[t] \notin agObj

\* A collector knows all the agents that its victim was cleaning up; the one it is
\* handing back is watched again before it belongs to the register.
OthersSound(t) ==
    /\ pc[t] \in Knowing => \A x \in agObj :
         agOwner[x] = victim[t] => x \in others[t] \/ (pc[t] = "gcHandBack" /\ x = other[t])
    /\ pc[t] = "gcHandBack" =>
         /\ other[t] \in agObj
         /\ other[t] \in untracked
         /\ agOwner[other[t]] = victim[t]
    /\ pc[t] = "gcRelinquish" => agOwner[other[t]] # victim[t]

\* What is left in the list of the victim is what the collector still has to settle.
ListSettled(t) ==
    /\ pc[t] \in Sorted => \A o \in list[victim[t]] :
         \/ o \in others[t]
         \/ \E j \in plan[t] : j[1] = o
         \/ pc[t] = "gcErase" /\ o \in batch[t]
         \/ pc[t] \in {"gcHandBack", "gcRelinquish"} /\ o = other[t]
    /\ pc[t] \in {"gcOther", "gcHandBack", "gcRelinquish"} => plan[t] = {}

CleanupInv ==
    /\ AliveHasObject
    /\ \A t \in Threads : VictimSound(t)
    /\ \A t \in Threads : OthersSound(t)
    /\ \A t \in Threads : ListSettled(t)
    /\ AgentReachable

\* What a step of thread t may do to the agents: it leaves the other threads alone,
\* changes no list but its own and that of the agent it cleans up, and an agent
\* object only as its collector.
AgentsRespected(t) ==
    /\ life' = life
    /\ \A u \in Threads : u # t =>
         /\ pc'[u] = pc[u] /\ victim'[u] = victim[u] /\ batch'[u] = batch[u]
         /\ plan'[u] = plan[u] /\ others'[u] = others[u] /\ other'[u] = other[u]
    /\ \A a \in Agents : a # AgentOf[t] /\ (a # victim[t] \/ pc[t] \notin HoldsAgent) =>
         list'[a] = list[a]
    /\ \A x \in Agents : x \in list[AgentOf[t]] =>
         x \in list'[AgentOf[t]] \/ (pc[t] = "gcDone" /\ x = victim[t])
    /\ pc[t] \in HoldsAgent =>
         \A x \in agObj : agOwner[x] = victim[t] /\ x \in list[victim[t]] =>
            x \in list'[victim[t]]
    /\ agObj' \subseteq agObj
    /\ \A x \in agObj :
         x \in agObj' \/ (pc[t] = "gcOther" /\ x = victim[t] /\ list[x] = {})
    /\ \A x \in Agents :
         \/ agOwner'[x] = agOwner[x]
         \/ pc[t] = "gcOwn" /\ x = victim[t] /\ agOwner'[x] = AgentOf[t]
         \/ pc[t] = "gcHandBack" /\ x = other[t] /\ agOwner'[x] = Register
    /\ \A x \in untracked :
         x \in untracked' \/ (pc[t] \in {"gcTrack", "gcUnregister"} /\ x = victim[t])

\* The types of what the invariant about agent objects mentions.
LEMMA AgentTypes ==
  ASSUME RegisterInv
  PROVE  /\ list \in [Agents -> SUBSET (Requests \cup Agents)]
         /\ agObj \subseteq registered
         /\ registered \subseteq Agents
         /\ agOwner \in [Agents -> Agents \cup {Register}]
         /\ untracked \subseteq registered
         /\ life \in [Agents -> {"new", "starting", "up", "leaving", "down"}]
         /\ pc \in [Threads -> PCs]
         /\ batch \in [Threads -> SUBSET Requests]
         /\ victim \in [Threads -> Agents]
         /\ plan \in [Threads -> SUBSET (Requests \X Queues)]
         /\ others \in [Threads -> SUBSET Agents]
         /\ other \in [Threads -> Agents]
  BY DEF RegisterInv, TypeOK, RegisterSound

\* Who cleans up an agent runs, the agent does not, and no two clean up the same.
LEMMA CollectorFacts ==
  ASSUME RegisterInv, NEW t \in Threads, pc[t] \in HoldsAgent
  PROVE  /\ life[AgentOf[t]] = "up"
         /\ life[victim[t]] = "down"
         /\ \A u \in Threads : pc[u] \in HoldsAgent /\ u # t => victim[u] # victim[t]
<1>1. pc[t] \notin {"idle", "ended"}
  BY DEF HoldsAgent
<1> QED
  BY <1>1 DEF RegisterInv, Roles, OneCollector

\* The sections of a collector.
LEMMA Sections ==
  /\ Owning \subseteq HoldsAgent /\ Knowing \subseteq Owning /\ Sorted \subseteq Knowing
  /\ {"gcOther", "gcHandBack", "gcRelinquish", "gcErase", "gcSwitch", "gcRequeue"} \subseteq Sorted
  /\ {"gcTrack", "gcFetch", "gcSort"} \subseteq Owning
  /\ "gcSort" \in Knowing
  /\ {"gcOwn", "gcUnregister", "gcDone"} \subseteq HoldsAgent
  /\ {"gcOwn", "gcUnregister", "gcDone"} \cap Owning = {}
  /\ {"gcTrack", "gcFetch"} \cap Knowing = {}
  /\ "gcSort" \notin Sorted
  BY DEF Owning, Knowing, Sorted, HoldsAgent

\* A step of one thread does not disturb what another one relies on.
LEMMA OthersUndisturbed ==
  ASSUME RegisterInv, CleanupInv, NEW t \in Threads, life[AgentOf[t]] = "up",
         AgentsRespected(t), NEW u \in Threads, u # t
  PROVE  VictimSound(u)' /\ OthersSound(u)' /\ ListSettled(u)'
<1>a. AgentOf \in [Threads -> Agents] /\ Register \notin Agents
  BY RoleAssumption, AddressAssumption
<1>t. /\ AgentOf[t] \in Agents /\ AgentOf[u] \in Agents
      /\ victim[t] \in Agents /\ victim[u] \in Agents
      /\ other[t] \in Agents /\ other[u] \in Agents /\ agObj \subseteq Agents
  BY <1>a, AgentTypes
<1>c. pc[t] \in HoldsAgent => life[victim[t]] = "down"
  BY CollectorFacts
<1>d. pc[u] \in HoldsAgent =>
        /\ life[AgentOf[u]] = "up" /\ life[victim[u]] = "down"
        /\ pc[t] \in HoldsAgent => victim[u] # victim[t]
  BY CollectorFacts
<1>e. /\ VictimSound(t) /\ OthersSound(t) /\ VictimSound(u) /\ OthersSound(u) /\ ListSettled(u)
  BY DEF CleanupInv
<1>s. /\ pc'[u] = pc[u] /\ victim'[u] = victim[u] /\ batch'[u] = batch[u]
      /\ plan'[u] = plan[u] /\ others'[u] = others[u] /\ other'[u] = other[u]
  BY DEF AgentsRespected
<1>o. pc[t] \in {"gcOwn", "gcHandBack", "gcOther", "gcTrack", "gcUnregister", "gcDone"} =>
        pc[t] \in HoldsAgent
  BY DEF HoldsAgent
<1>h. pc[u] \in HoldsAgent => \A x \in Agents :
        agOwner'[x] = victim[u] => agOwner[x] = victim[u]
  BY <1>a, <1>t, <1>d DEF AgentsRespected
<1>1. VictimSound(u)'
  <2>1. pc[u] \in HoldsAgent => victim[u] \in list'[AgentOf[u]]
    BY <1>t, <1>c, <1>d, <1>e, <1>o DEF AgentsRespected, VictimSound
  <2>2. pc[u] \in HoldsAgent /\ victim[u] \in agObj => victim[u] \in agObj'
    BY <1>t, <1>d, <1>o DEF AgentsRespected
  <2>3. pc[u] = "gcOwn" \/ pc[u] \in Owning => agOwner'[victim[u]] = agOwner[victim[u]]
    <3>1. pc[u] = "gcOwn" \/ pc[u] \in Owning => pc[u] \in HoldsAgent
      BY Sections
    <3>2. pc[t] = "gcHandBack" => agOwner[other[t]] = victim[t] /\ life[victim[t]] = "down"
      BY <1>c, <1>e, <1>o DEF OthersSound
    <3>3. pc[u] = "gcOwn" \/ pc[u] \in Owning =>
             agOwner[victim[u]] = Register \/ agOwner[victim[u]] = AgentOf[u]
      BY <1>e DEF VictimSound
    <3> QED
      BY <1>a, <1>t, <1>d, <1>o, <3>1, <3>2, <3>3 DEF AgentsRespected
  <2>4. agObj' \subseteq agObj
    BY DEF AgentsRespected
  <2> QED
    BY <1>e, <1>s, <2>1, <2>2, <2>3, <2>4, Sections DEF VictimSound
<1>2. OthersSound(u)'
  <2>1. pc[u] = "gcHandBack" =>
           other[u] \in agObj' /\ other[u] \in untracked' /\ agOwner'[other[u]] = victim[u]
    <3> SUFFICES ASSUME pc[u] = "gcHandBack"
                 PROVE  other[u] \in agObj' /\ other[u] \in untracked'
                        /\ agOwner'[other[u]] = victim[u]
      OBVIOUS
    <3>1. /\ other[u] \in agObj /\ other[u] \in untracked /\ agOwner[other[u]] = victim[u]
          /\ pc[u] \in HoldsAgent
      BY <1>e DEF OthersSound, HoldsAgent
    <3>2. pc[t] \in Owning => agOwner[victim[t]] = AgentOf[t]
      BY <1>e DEF VictimSound
    <3>3. pc[t] \in {"gcOther", "gcTrack"} => other[u] # victim[t]
      BY <1>d, <1>t, <3>1, <3>2, Sections
    <3>4. pc[t] = "gcUnregister" => other[u] # victim[t]
      BY <1>e, <3>1 DEF VictimSound
    <3>5. pc[t] = "gcOwn" => other[u] # victim[t]
      BY <1>a, <1>e, <1>t, <3>1 DEF VictimSound
    <3>6. pc[t] = "gcHandBack" => other[u] # other[t]
      BY <1>d, <1>e, <1>o, <3>1 DEF OthersSound
    <3> QED
      BY <1>t, <3>1, <3>3, <3>4, <3>5, <3>6 DEF AgentsRespected
  <2>2. pc[u] = "gcRelinquish" => agOwner'[other[u]] # victim[u]
    BY <1>e, <1>h, <1>t DEF OthersSound, HoldsAgent
  <2>3. pc[u] \in Knowing => pc[u] \in HoldsAgent
    BY Sections
  <2>4. agObj' \subseteq agObj
    BY DEF AgentsRespected
  <2>5. pc[u] \in Knowing => \A x \in agObj' :
           agOwner'[x] = victim[u] => x \in others[u] \/ (pc[u] = "gcHandBack" /\ x = other[u])
    BY <1>e, <1>h, <1>t, <2>3, <2>4 DEF OthersSound
  <2> QED
    BY <1>s, <2>1, <2>2, <2>5 DEF OthersSound
<1>3. ListSettled(u)'
  <2>1. pc[u] \in Sorted \/ pc[u] \in HoldsAgent => list'[victim[u]] = list[victim[u]]
    BY <1>t, <1>d, Sections DEF AgentsRespected
  <2> QED
    BY <1>e, <1>s, <2>1 DEF ListSettled
<1> QED
  BY <1>1, <1>2, <1>3

\* Nor does it make an agent object unreachable.
LEMMA ReachableUndisturbed ==
  ASSUME RegisterInv, RegisterInv', CleanupInv, NEW t \in Threads, life[AgentOf[t]] = "up",
         AgentsRespected(t)
  PROVE  AliveHasObject' /\ AgentReachable'
<1>a. AgentOf \in [Threads -> Agents] /\ Register \notin Agents
  BY RoleAssumption, AddressAssumption
<1>t. /\ AgentOf[t] \in Agents /\ victim[t] \in Agents /\ other[t] \in Agents
      /\ agObj \subseteq Agents /\ agObj' \subseteq registered'
  <2>1. agObj' \subseteq registered'
    BY DEF RegisterInv, RegisterSound
  <2> QED
    BY <1>a, <2>1, AgentTypes
<1>c. pc[t] \in HoldsAgent => life[victim[t]] = "down"
  BY CollectorFacts
<1>e. AliveHasObject /\ AgentReachable /\ VictimSound(t) /\ OthersSound(t)
  BY DEF CleanupInv
<1>o. pc[t] \in {"gcOwn", "gcHandBack", "gcOther", "gcTrack", "gcUnregister", "gcDone"} =>
        pc[t] \in HoldsAgent
  BY DEF HoldsAgent
<1>1. AliveHasObject'
  <2>1. ASSUME NEW a \in Agents, life[a] # "down" PROVE agOwner'[a] = Register
    BY <1>c, <1>e, <1>o, <1>t, <2>1 DEF AliveHasObject, AgentsRespected
  <2> QED
    BY <1>c, <1>e, <1>o, <1>t, <2>1 DEF AliveHasObject, AgentsRespected
<1>2. ASSUME NEW x \in agObj', agOwner'[x] = Register PROVE x \in untracked'
  <2>1. x \in agObj /\ x \in Agents
    BY <1>t DEF AgentsRespected
  <2>2. CASE agOwner'[x] = agOwner[x]
    <3>1. x \in untracked
      BY <1>2, <1>e, <2>1, <2>2 DEF AgentReachable
    <3>2. pc[t] = "gcTrack" => x # victim[t]
      BY <1>2, <1>a, <1>e, <1>t, <2>2, Sections DEF VictimSound
    <3>3. pc[t] = "gcUnregister" => x # victim[t]
      BY <1>e, <2>1 DEF VictimSound
    <3> QED
      BY <3>1, <3>2, <3>3 DEF AgentsRespected
  <2>3. CASE pc[t] = "gcHandBack" /\ x = other[t]
    BY <1>e, <2>3 DEF OthersSound, AgentsRespected
  <2> QED
    BY <1>2, <1>a, <1>t, <2>1, <2>2, <2>3 DEF AgentsRespected
<1>3. ASSUME NEW x \in agObj', agOwner'[x] # Register
      PROVE  agOwner'[x] \in agObj' /\ x \in list'[agOwner'[x]]
  <2>1. x \in agObj /\ x \in Agents
    BY <1>t DEF AgentsRespected
  <2>2. CASE agOwner'[x] = agOwner[x]
    <3>1. agOwner[x] \in agObj /\ x \in list[agOwner[x]]
      BY <1>3, <1>e, <2>1, <2>2 DEF AgentReachable
    <3>2. agOwner[x] \in agObj'
      BY <3>1 DEF AgentsRespected
    <3>3. x \in list'[agOwner[x]]
      <4>1. CASE agOwner[x] = AgentOf[t]
        BY <1>e, <2>1, <3>1, <4>1 DEF AgentsRespected, VictimSound
      <4>2. CASE agOwner[x] = victim[t] /\ pc[t] \in HoldsAgent
        BY <2>1, <3>1, <4>2 DEF AgentsRespected
      <4>3. CASE agOwner[x] # AgentOf[t] /\ (agOwner[x] # victim[t] \/ pc[t] \notin HoldsAgent)
        BY <1>t, <3>1, <4>3 DEF AgentsRespected
      <4> QED
        BY <4>1, <4>2, <4>3
    <3> QED
      BY <2>2, <3>2, <3>3
  <2>3. CASE pc[t] = "gcOwn" /\ x = victim[t] /\ agOwner'[x] = AgentOf[t]
    <3>1. x \in list'[AgentOf[t]]
      BY <1>e, <1>o, <2>1, <2>3 DEF VictimSound, AgentsRespected
    <3>2. AgentOf[t] \in agObj'
      BY <1>c, <1>e, <1>o, <1>t DEF AliveHasObject, AgentsRespected
    <3> QED
      BY <2>3, <3>1, <3>2
  <2> QED
    BY <1>3, <2>1, <2>2, <2>3 DEF AgentsRespected
<1>4. AgentReachable'
  BY <1>t, <1>2, <1>3 DEF AgentReachable
<1> QED
  BY <1>1, <1>4

\* No collector cleans up an agent yet.
LEMMA CleanupInit == Init => CleanupInv
<1> SUFFICES ASSUME Init PROVE CleanupInv
  OBVIOUS
<1>1. \A t \in Threads : pc[t] = "idle"
  BY DEF Init
<1>2. "idle" \notin HoldsAgent
  BY DEF HoldsAgent
<1>3. \A t \in Threads : VictimSound(t) /\ OthersSound(t) /\ ListSettled(t)
  BY <1>1, <1>2, Sections DEF VictimSound, OthersSound, ListSettled
<1>4. AliveHasObject
  BY RoleAssumption DEF Init, AliveHasObject
<1>5. AgentReachable
  BY RoleAssumption DEF Init, AgentReachable
<1> QED
  BY <1>3, <1>4, <1>5 DEF CleanupInv

\* A step that respects the agents has to keep what its own thread relies on.
LEMMA CleanupStep ==
  ASSUME RegisterInv, RegisterInv', CleanupInv, NEW t \in Threads, life[AgentOf[t]] = "up",
         AgentsRespected(t), VictimSound(t)', OthersSound(t)', ListSettled(t)'
  PROVE  CleanupInv'
<1>1. \A u \in Threads : VictimSound(u)' /\ OthersSound(u)' /\ ListSettled(u)'
  BY OthersUndisturbed
<1>2. AliveHasObject' /\ AgentReachable'
  BY ReachableUndisturbed
<1> QED
  BY <1>1, <1>2 DEF CleanupInv

\* The steps of frontends and sessions have nothing to do with agent objects.
LEMMA Uninvolved ==
  ASSUME RegisterInv, RegisterInv', CleanupInv, NEW t \in Threads, life[AgentOf[t]] = "up",
         UNCHANGED <<agObj, agOwner, untracked, life, victim, plan, others, other>>,
         \A u \in Threads : u # t => pc'[u] = pc[u] /\ batch'[u] = batch[u],
         \A a \in Agents : a # AgentOf[t] => list'[a] = list[a],
         \A x \in Agents : x \in list[AgentOf[t]] => x \in list'[AgentOf[t]],
         pc[t] \notin HoldsAgent, pc'[t] \notin HoldsAgent
  PROVE  CleanupInv'
<1>1. AgentsRespected(t)
  BY DEF AgentsRespected
<1>2. VictimSound(t)' /\ OthersSound(t)' /\ ListSettled(t)'
  BY Sections DEF VictimSound, OthersSound, ListSettled
<1> QED
  BY <1>1, <1>2, CleanupStep

\* The first steps of a frontend keep the invariant about agent objects.
LEMMA FrontendCleanupInv ==
  ASSUME RegisterInv, RegisterInv', CleanupInv, NEW t \in Threads, FrontendStep(t)
  PROVE  CleanupInv'
<1> USE AgentTypes, RoleAssumption, AddressAssumption DEF local, store, counters, At, GoTo
<1>1. ASSUME NEW r \in Requests, QueueArchiveReference(t, r) PROVE CleanupInv'
  <2>1. pc[t] \notin HoldsAgent /\ pc'[t] \notin HoldsAgent
    BY <1>1 DEF QueueArchiveReference, HoldsAgent
  <2> QED
    BY <1>1, <2>1, Uninvolved DEF QueueArchiveReference, AddBatchToOwnership
<1>2. ASSUME NEW r \in Requests, CancelArchive(t, r) PROVE CleanupInv'
  <2>1. pc[t] \notin HoldsAgent /\ pc'[t] \notin HoldsAgent
    BY <1>2 DEF CancelArchive, HoldsAgent
  <2> QED
    BY <1>2, <2>1, Uninvolved DEF CancelArchive
<1> QED
  BY <1>1, <1>2 DEF FrontendStep

\* The first steps of a session keep the invariant about agent objects.
LEMMA SessionCleanupInv ==
  ASSUME RegisterInv, RegisterInv', CleanupInv, NEW t \in Threads,
         SessionStep(t) \/ ErrorStep(t)
  PROVE  CleanupInv'
<1> USE AgentTypes, RoleAssumption, AddressAssumption DEF local, store, counters, At, GoTo
<1>1. ASSUME NEW S \in SUBSET Requests, PopReference(t, S) PROVE CleanupInv'
  <2>1. pc[t] \notin HoldsAgent /\ pc'[t] \notin HoldsAgent
    BY <1>1 DEF PopReference, HoldsAgent
  <2> QED
    BY <1>1, <2>1, Uninvolved DEF PopReference, AddBatchToOwnership
<1>2. ASSUME NEW r \in Requests, NEW ty \in Types, UpdateStatus(t, r, ty) PROVE CleanupInv'
  <2>1. pc[t] \notin HoldsAgent /\ pc'[t] \notin HoldsAgent
    BY <1>2 DEF UpdateStatus, HoldsAgent
  <2> QED
    BY <1>2, <2>1, Uninvolved DEF UpdateStatus
<1>3. ASSUME NEW r \in Requests, CompleteJob(t, r) PROVE CleanupInv'
  <2>1. pc[t] \notin HoldsAgent /\ pc'[t] \notin HoldsAgent
    BY <1>3 DEF CompleteJob, HoldsAgent
  <2> QED
    BY <1>3, <2>1, Uninvolved DEF CompleteJob
<1>4. ASSUME NEW r \in Requests, DeleteReported(t, r) PROVE CleanupInv'
  <2>1. pc[t] \notin HoldsAgent /\ pc'[t] \notin HoldsAgent
    BY <1>4 DEF DeleteReported, HoldsAgent
  <2> QED
    BY <1>4, <2>1, Uninvolved DEF DeleteReported
<1>5. ASSUME NEW r \in Requests, ForgetGone(t, r) PROVE CleanupInv'
  <2>1. pc[t] \notin HoldsAgent /\ pc'[t] \notin HoldsAgent
    BY <1>5 DEF ForgetGone, HoldsAgent
  <2> QED
    BY <1>5, <2>1, Uninvolved DEF ForgetGone
<1>6. ASSUME NEW r \in Requests, PopSwitchError(t, r) PROVE CleanupInv'
  <2>1. pc[t] \notin HoldsAgent /\ pc'[t] \notin HoldsAgent
    BY <1>6 DEF PopSwitchError, HoldsAgent
  <2> QED
    BY <1>6, <2>1, Uninvolved DEF PopSwitchError
<1>7. ASSUME NEW r \in Requests, RequeueSwitchError(t, r) PROVE CleanupInv'
  <2>1. pc[t] \notin HoldsAgent /\ pc'[t] \notin HoldsAgent
    BY <1>7 DEF RequeueSwitchError, HoldsAgent
  <2> QED
    BY <1>7, <2>1, Uninvolved DEF RequeueSwitchError
<1> QED
  BY <1>1, <1>2, <1>3, <1>4, <1>5, <1>6, <1>7 DEF SessionStep, ErrorStep

\* The steps of Continue(t) that belong to frontends and sessions ...
TransferStep(t) ==
    \/ \E r \in Requests :
         \/ QueueArchiveInsert(t, r)
         \/ BottomHalfLock(t, r)
         \/ \E p \in Pools : BottomHalfReference(t, r, p)
         \/ BottomHalfCommit(t, r)
         \/ PopSwitch(t, r)
         \/ RequeueSwitch(t, r)
    \/ Dereference(t)
    \/ PopCommit(t)
    \/ RequeueReference(t)
    \/ RequeueCommit(t)

\* ... and those of a collector: it takes the agent and reads what it owns, ...
TakeStep(t) == GcOwn(t) \/ GcTrack(t) \/ GcFetch(t) \/ GcSort(t)

\* ... requeues the jobs, ...
RequeueStep(t) ==
    \/ \E q \in Queues : GcRequeueReference(t, q)
    \/ \E r \in Requests : GcSwitch(t, r)
    \/ GcRequeueCommit(t)
    \/ GcErase(t)

\* ... hands agents back and removes the agent object.
RemoveStep(t) ==
    \/ \E x \in Agents : GcUntrack(t, x)
    \/ GcHandBack(t)
    \/ GcRelinquish(t)
    \/ GcRemove(t)
    \/ GcUnregister(t)
    \/ GcDone(t)

\* These are all steps of an operation in progress.
LEMMA ContinueSteps ==
  \A t \in Threads :
    Continue(t) <=> TransferStep(t) \/ TakeStep(t) \/ RequeueStep(t) \/ RemoveStep(t)
  BY DEF Continue, TransferStep, TakeStep, RequeueStep, RemoveStep

\* The steps of frontends and sessions in an operation keep the invariant about agent objects.
LEMMA TransferCleanupInv ==
  ASSUME RegisterInv, RegisterInv', CleanupInv, NEW t \in Threads, TransferStep(t)
  PROVE  CleanupInv'
<1> USE AgentTypes, RoleAssumption, AddressAssumption DEF local, store, counters, At, GoTo
<1>1. ASSUME NEW r \in Requests, QueueArchiveInsert(t, r) PROVE CleanupInv'
  <2>1. pc[t] \notin HoldsAgent /\ pc'[t] \notin HoldsAgent
    BY <1>1 DEF QueueArchiveInsert, HoldsAgent
  <2> QED
    BY <1>1, <2>1, Uninvolved DEF QueueArchiveInsert
<1>2. ASSUME NEW r \in Requests, BottomHalfLock(t, r) PROVE CleanupInv'
  <2>1. pc[t] \notin HoldsAgent /\ pc'[t] \notin HoldsAgent
    BY <1>2 DEF BottomHalfLock, HoldsAgent
  <2>2. \A u \in Threads : u # t => pc'[u] = pc[u] /\ batch'[u] = batch[u]
    BY <1>2 DEF BottomHalfLock
  <2> QED
    BY <1>2, <2>1, <2>2, Uninvolved DEF BottomHalfLock
<1>3. ASSUME NEW r \in Requests, NEW p \in Pools, BottomHalfReference(t, r, p) PROVE CleanupInv'
  <2>1. pc[t] \notin HoldsAgent /\ pc'[t] \notin HoldsAgent
    BY <1>3 DEF BottomHalfReference, HoldsAgent
  <2> QED
    BY <1>3, <2>1, Uninvolved DEF BottomHalfReference
<1>4. ASSUME NEW r \in Requests, BottomHalfCommit(t, r) PROVE CleanupInv'
  <2>1. pc[t] \notin HoldsAgent /\ pc'[t] \notin HoldsAgent
    BY <1>4 DEF BottomHalfCommit, HoldsAgent
  <2> QED
    BY <1>4, <2>1, Uninvolved DEF BottomHalfCommit
<1>5. ASSUME NEW r \in Requests, PopSwitch(t, r) PROVE CleanupInv'
  <2>1. pc[t] \notin HoldsAgent /\ pc'[t] \notin HoldsAgent
    BY <1>5 DEF PopSwitch, HoldsAgent
  <2> QED
    BY <1>5, <2>1, Uninvolved DEF PopSwitch
<1>6. ASSUME NEW r \in Requests, RequeueSwitch(t, r) PROVE CleanupInv'
  <2>1. pc[t] \notin HoldsAgent /\ pc'[t] \notin HoldsAgent
    BY <1>6 DEF RequeueSwitch, HoldsAgent
  <2> QED
    BY <1>6, <2>1, Uninvolved DEF RequeueSwitch
<1>7. CASE Dereference(t)
  <2>1. pc[t] \notin HoldsAgent /\ pc'[t] \notin HoldsAgent
    BY <1>7 DEF Dereference, HoldsAgent
  <2> QED
    BY <1>7, <2>1, Uninvolved DEF Dereference, RemoveBatchFromOwnership
<1>8. CASE PopCommit(t)
  <2>1. pc[t] \notin HoldsAgent /\ pc'[t] \notin HoldsAgent
    BY <1>8 DEF PopCommit, HoldsAgent
  <2> QED
    BY <1>8, <2>1, Uninvolved DEF PopCommit
<1>9. CASE RequeueReference(t)
  <2>1. pc[t] \notin HoldsAgent /\ pc'[t] \notin HoldsAgent
    BY <1>9 DEF RequeueReference, HoldsAgent
  <2> QED
    BY <1>9, <2>1, Uninvolved DEF RequeueReference
<1>10. CASE RequeueCommit(t)
  <2>1. pc[t] \notin HoldsAgent /\ pc'[t] \notin HoldsAgent
    BY <1>10 DEF RequeueCommit, HoldsAgent
  <2> QED
    BY <1>10, <2>1, Uninvolved DEF RequeueCommit
<1> QED
  BY <1>1, <1>2, <1>3, <1>4, <1>5, <1>6, <1>7, <1>8, <1>9, <1>10 DEF TransferStep

\* Taking a dead agent and reading what it owns keeps the invariant about agent objects.
LEMMA TakeCleanupInv ==
  ASSUME RegisterInv, RegisterInv', CleanupInv, NEW t \in Threads,
         CollectorStep(t) \/ TakeStep(t)
  PROVE  CleanupInv'
<1> USE AgentTypes, RoleAssumption, AddressAssumption DEF local, store, counters, At, GoTo
<1>e. VictimSound(t) /\ OthersSound(t) /\ ListSettled(t) /\ AgentReachable
  BY DEF CleanupInv
<1>1. ASSUME NEW d \in Agents, GcReference(t, d) PROVE CleanupInv'
  <2>1. AgentsRespected(t)
    BY <1>1 DEF GcReference, AddBatchToOwnership, AgentsRespected, HoldsAgent
  <2>2. VictimSound(t)'
    BY <1>1 DEF GcReference, AddBatchToOwnership, VictimSound, Owning, HoldsAgent
  <2>3. OthersSound(t)' /\ ListSettled(t)'
    BY <1>1 DEF GcReference, OthersSound, ListSettled, Sorted, Knowing, Owning
  <2> QED
    BY <1>1, <2>1, <2>2, <2>3, CleanupStep DEF GcReference
<1>2. CASE GcOwn(t)
  <2>1. AgentsRespected(t)
    BY <1>2 DEF GcOwn, AgentsRespected, HoldsAgent
  <2>2. VictimSound(t)'
    BY <1>e, <1>2 DEF GcOwn, VictimSound, Owning, HoldsAgent
  <2>3. OthersSound(t)' /\ ListSettled(t)'
    BY <1>2 DEF GcOwn, OthersSound, ListSettled, Sorted, Knowing, Owning
  <2> QED
    BY <1>2, <2>1, <2>2, <2>3, CleanupStep DEF GcOwn
<1>3. CASE GcTrack(t)
  <2>1. AgentsRespected(t)
    BY <1>3 DEF GcTrack, AgentsRespected, HoldsAgent
  <2>2. VictimSound(t)'
    BY <1>e, <1>3 DEF GcTrack, VictimSound, Owning, HoldsAgent
  <2>3. OthersSound(t)' /\ ListSettled(t)'
    BY <1>3 DEF GcTrack, OthersSound, ListSettled, Sorted, Knowing, Owning
  <2> QED
    BY <1>3, <2>1, <2>2, <2>3, CleanupStep DEF GcTrack
<1>4. CASE GcFetch(t)
  <2>0. /\ pc[t] = "gcFetch" /\ pc'[t] = "gcSort" /\ life[AgentOf[t]] = "up"
        /\ list' = [list EXCEPT ![victim[t]] =
                      @ \ ({r \in Requests : ~ Stored(r)} \cup (Agents \ agObj))]
        /\ others'[t] = {x \in agObj : x \in list[victim[t]] /\ agOwner[x] = victim[t]}
        /\ UNCHANGED <<agObj, agOwner, untracked, life, victim, batch, other>>
        /\ \A u \in Threads : u # t =>
             pc'[u] = pc[u] /\ plan'[u] = plan[u] /\ others'[u] = others[u]
    BY <1>4 DEF GcFetch
  <2>d. life[victim[t]] = "down" /\ pc[t] \in HoldsAgent
    BY <2>0, CollectorFacts DEF HoldsAgent
  <2>l. /\ \A a \in Agents : a # victim[t] => list'[a] = list[a]
        /\ \A x \in agObj :
             agOwner[x] = victim[t] /\ x \in list[victim[t]] => x \in list'[victim[t]]
    BY <2>0
  <2>1. AgentsRespected(t)
    BY <2>0, <2>d, <2>l DEF AgentsRespected
  <2>2. VictimSound(t)'
    BY <1>e, <2>0, <2>d DEF VictimSound, Owning, HoldsAgent
  <2>3. OthersSound(t)' /\ ListSettled(t)'
    BY <1>e, <2>0 DEF OthersSound, ListSettled, Sorted, Knowing, Owning, AgentReachable
  <2> QED
    BY <2>0, <2>1, <2>2, <2>3, CleanupStep
<1>5. CASE GcSort(t)
  <2>0. /\ pc[t] = "gcSort" /\ pc'[t] = AfterJobs(plan[t]) /\ life[AgentOf[t]] = "up"
        /\ list' = [list EXCEPT ![victim[t]] = StillOwned(t)]
        /\ UNCHANGED <<agObj, agOwner, untracked, life, victim, batch, other, plan, others>>
        /\ \A u \in Threads : u # t => pc'[u] = pc[u]
    BY <1>5 DEF GcSort
  <2>s. pc'[t] \in {"gcOther", "gcRequeue"} /\ (pc'[t] = "gcOther" => plan[t] = {})
    BY <2>0 DEF AfterJobs
  <2>d. life[victim[t]] = "down" /\ pc[t] \in HoldsAgent
    BY <2>0, CollectorFacts DEF HoldsAgent
  <2>o. \A x \in agObj : agOwner[x] = victim[t] => x \in others[t]
    BY <1>e, <2>0, Sections DEF OthersSound
  <2>l. /\ \A a \in Agents : a # victim[t] => list'[a] = list[a]
        /\ \A x \in agObj :
             agOwner[x] = victim[t] /\ x \in list[victim[t]] => x \in list'[victim[t]]
    BY <2>0, <2>o DEF StillOwned
  <2>1. AgentsRespected(t)
    BY <2>0, <2>d, <2>l DEF AgentsRespected
  <2>2. VictimSound(t)'
    BY <1>e, <2>0, <2>d, <2>s, Sections DEF VictimSound
  <2>3. OthersSound(t)'
    BY <2>0, <2>s, <2>o DEF OthersSound
  <2>4. ListSettled(t)'
    BY <2>0, <2>s DEF ListSettled, StillOwned
  <2> QED
    BY <2>0, <2>1, <2>2, <2>3, <2>4, CleanupStep
<1> QED
  BY <1>1, <1>2, <1>3, <1>4, <1>5 DEF CollectorStep, TakeStep

\* Requeueing the jobs of a dead agent keeps the invariant about agent objects.
LEMMA RequeueCleanupInv ==
  ASSUME RegisterInv, RegisterInv', CleanupInv, NEW t \in Threads, RequeueStep(t)
  PROVE  CleanupInv'
<1> USE AgentTypes, RoleAssumption, AddressAssumption DEF local, store, counters, At, GoTo
<1>e. VictimSound(t) /\ OthersSound(t) /\ ListSettled(t)
  BY DEF CleanupInv
<1>1. ASSUME NEW q \in Queues, GcRequeueReference(t, q) PROVE CleanupInv'
  <2>0. /\ pc[t] = "gcRequeue" /\ pc'[t] = "gcSwitch" /\ life[AgentOf[t]] = "up"
        /\ UNCHANGED <<list, agObj, agOwner, untracked, life, victim, plan, others, other>>
        /\ \A u \in Threads : u # t => pc'[u] = pc[u] /\ batch'[u] = batch[u]
    BY <1>1 DEF GcRequeueReference
  <2>1. AgentsRespected(t)
    BY <2>0 DEF AgentsRespected
  <2>2. VictimSound(t)' /\ OthersSound(t)' /\ ListSettled(t)'
    BY <1>e, <2>0, Sections DEF VictimSound, OthersSound, ListSettled
  <2> QED
    BY <2>0, <2>1, <2>2, CleanupStep
<1>2. ASSUME NEW r \in Requests, GcSwitch(t, r) PROVE CleanupInv'
  <2>0. /\ pc[t] = "gcSwitch" /\ life[AgentOf[t]] = "up"
        /\ UNCHANGED <<pc, batch, list, agObj, agOwner, untracked, life, victim, plan, others,
                       other>>
    BY <1>2 DEF GcSwitch
  <2>1. AgentsRespected(t)
    BY <2>0 DEF AgentsRespected
  <2>2. VictimSound(t)' /\ OthersSound(t)' /\ ListSettled(t)'
    BY <1>e, <2>0 DEF VictimSound, OthersSound, ListSettled
  <2> QED
    BY <2>0, <2>1, <2>2, CleanupStep
<1>3. CASE GcRequeueCommit(t)
  <2>0. /\ pc[t] = "gcSwitch" /\ pc'[t] = "gcErase" /\ life[AgentOf[t]] = "up"
        /\ UNCHANGED <<batch, list, agObj, agOwner, untracked, life, victim, others, other>>
        /\ plan'[t] = plan[t] \ (batch[t] \X {cur[t]})
        /\ \A u \in Threads : u # t => pc'[u] = pc[u] /\ plan'[u] = plan[u]
    BY <1>3 DEF GcRequeueCommit
  <2>1. AgentsRespected(t)
    BY <2>0 DEF AgentsRespected
  <2>2. VictimSound(t)' /\ OthersSound(t)'
    BY <1>e, <2>0, Sections DEF VictimSound, OthersSound
  <2>3. ListSettled(t)'
    <3>1. \A o \in list[victim[t]] : o \in others[t] \/ \E j \in plan[t] : j[1] = o
      BY <1>e, <2>0, Sections DEF ListSettled
    <3>2. \A j \in plan[t] : j \in plan'[t] \/ j[1] \in batch[t]
      BY <2>0
    <3> QED
      BY <2>0, <3>1, <3>2 DEF ListSettled
  <2> QED
    BY <2>0, <2>1, <2>2, <2>3, CleanupStep
<1>4. CASE GcErase(t)
  <2>0. /\ pc[t] = "gcErase" /\ pc'[t] = AfterJobs(plan[t]) /\ life[AgentOf[t]] = "up"
        /\ list' = [list EXCEPT ![victim[t]] = @ \ LastUsed(t)]
        /\ UNCHANGED <<agObj, agOwner, untracked, life, victim, plan, others, other>>
        /\ \A u \in Threads : u # t => pc'[u] = pc[u] /\ batch'[u] = batch[u]
    BY <1>4 DEF GcErase
  <2>s. pc'[t] \in {"gcOther", "gcRequeue"} /\ (pc'[t] = "gcOther" => plan[t] = {})
    BY <2>0 DEF AfterJobs
  <2>d. life[victim[t]] = "down" /\ pc[t] \in HoldsAgent
    BY <2>0, CollectorFacts DEF HoldsAgent
  <2>l. /\ \A a \in Agents : a # victim[t] => list'[a] = list[a]
        /\ \A x \in agObj :
             agOwner[x] = victim[t] /\ x \in list[victim[t]] => x \in list'[victim[t]]
    BY <2>0 DEF LastUsed
  <2>1. AgentsRespected(t)
    BY <2>0, <2>d, <2>l DEF AgentsRespected
  <2>2. VictimSound(t)' /\ OthersSound(t)'
    BY <1>e, <2>0, <2>s, <2>d, Sections DEF VictimSound, OthersSound
  <2>3. ListSettled(t)'
    BY <1>e, <2>0, <2>s, Sections DEF ListSettled, LastUsed
  <2> QED
    BY <2>0, <2>1, <2>2, <2>3, CleanupStep
<1> QED
  BY <1>1, <1>2, <1>3, <1>4 DEF RequeueStep

\* Handing agents back and removing a dead agent keeps the invariant about agent objects.
LEMMA RemoveCleanupInv ==
  ASSUME RegisterInv, RegisterInv', CleanupInv, NEW t \in Threads, RemoveStep(t)
  PROVE  CleanupInv'
<1> USE AgentTypes, RoleAssumption, AddressAssumption DEF local, store, counters, At, GoTo
<1>e. VictimSound(t) /\ OthersSound(t) /\ ListSettled(t)
  BY DEF CleanupInv
<1>1. ASSUME NEW x \in Agents, GcUntrack(t, x) PROVE CleanupInv'
  <2>0. /\ pc[t] = "gcOther" /\ pc'[t] = "gcHandBack" /\ life[AgentOf[t]] = "up"
        /\ x \in agObj /\ agOwner[x] = victim[t] /\ x \in others[t]
        /\ untracked' = untracked \cup {x} /\ others'[t] = others[t] \ {x} /\ other'[t] = x
        /\ UNCHANGED <<list, agObj, agOwner, life, victim, plan, batch>>
        /\ \A u \in Threads : u # t =>
             pc'[u] = pc[u] /\ others'[u] = others[u] /\ other'[u] = other[u]
    BY <1>1 DEF GcUntrack, UntrackAgent
  <2>1. AgentsRespected(t)
    BY <2>0 DEF AgentsRespected
  <2>2. VictimSound(t)'
    BY <1>e, <2>0, Sections DEF VictimSound
  <2>3. OthersSound(t)' /\ ListSettled(t)'
    BY <1>e, <2>0, Sections DEF OthersSound, ListSettled
  <2> QED
    BY <2>0, <2>1, <2>2, <2>3, CleanupStep
<1>2. CASE GcHandBack(t)
  <2>0. /\ pc[t] = "gcHandBack" /\ pc'[t] = "gcRelinquish" /\ life[AgentOf[t]] = "up"
        /\ agOwner' = [agOwner EXCEPT ![other[t]] = Register]
        /\ UNCHANGED <<list, agObj, untracked, life, victim, plan, batch, others, other>>
        /\ \A u \in Threads : u # t => pc'[u] = pc[u]
    BY <1>2 DEF GcHandBack
  <2>1. AgentsRespected(t)
    BY <2>0 DEF AgentsRespected
  <2>d. pc[t] \in HoldsAgent /\ life[victim[t]] = "down" /\ victim[t] \in Agents
    BY <2>0, CollectorFacts, Sections
  <2>2. VictimSound(t)'
    <3>1. other[t] # victim[t]
      BY <1>e, <2>0, <2>d, Sections DEF VictimSound, OthersSound
    <3> QED
      BY <1>e, <2>0, <3>1, Sections DEF VictimSound
  <2>3. OthersSound(t)' /\ ListSettled(t)'
    BY <1>e, <2>0, <2>d, Sections DEF OthersSound, ListSettled
  <2> QED
    BY <2>0, <2>1, <2>2, <2>3, CleanupStep
<1>3. CASE GcRelinquish(t)
  <2>0. /\ pc[t] = "gcRelinquish" /\ pc'[t] = "gcOther" /\ life[AgentOf[t]] = "up"
        /\ list' = [list EXCEPT ![victim[t]] = @ \ {other[t]}]
        /\ UNCHANGED <<agOwner, agObj, untracked, life, victim, plan, batch, others>>
        /\ \A u \in Threads : u # t => pc'[u] = pc[u] /\ other'[u] = other[u]
    BY <1>3 DEF GcRelinquish
  <2>d. life[victim[t]] = "down" /\ pc[t] \in HoldsAgent
    BY <2>0, CollectorFacts DEF HoldsAgent
  <2>l. /\ \A a \in Agents : a # victim[t] => list'[a] = list[a]
        /\ \A x \in agObj :
             agOwner[x] = victim[t] /\ x \in list[victim[t]] => x \in list'[victim[t]]
    BY <1>e, <2>0 DEF OthersSound
  <2>1. AgentsRespected(t)
    BY <2>0, <2>d, <2>l DEF AgentsRespected
  <2>2. VictimSound(t)'
    BY <1>e, <2>0, <2>d, Sections DEF VictimSound
  <2>3. OthersSound(t)' /\ ListSettled(t)'
    BY <1>e, <2>0, Sections DEF OthersSound, ListSettled
  <2> QED
    BY <2>0, <2>1, <2>2, <2>3, CleanupStep
<1>4. CASE GcRemove(t)
  <2>0. /\ pc[t] = "gcOther" /\ pc'[t] = "gcUnregister" /\ life[AgentOf[t]] = "up"
        /\ agObj' = agObj \ {victim[t]} /\ list[victim[t]] = {}
        /\ UNCHANGED <<list, agOwner, untracked, life, victim, plan, batch, others, other>>
        /\ \A u \in Threads : u # t => pc'[u] = pc[u]
    BY <1>4 DEF GcRemove
  <2>1. AgentsRespected(t)
    BY <2>0 DEF AgentsRespected
  <2>2. VictimSound(t)'
    BY <1>e, <2>0, Sections DEF VictimSound
  <2>3. OthersSound(t)' /\ ListSettled(t)'
    BY <2>0, Sections DEF OthersSound, ListSettled
  <2> QED
    BY <2>0, <2>1, <2>2, <2>3, CleanupStep
<1>5. CASE GcUnregister(t)
  <2>0. /\ pc[t] = "gcUnregister" /\ pc'[t] = "gcDone" /\ life[AgentOf[t]] = "up"
        /\ untracked' = untracked \ {victim[t]}
        /\ UNCHANGED <<agObj, list, agOwner, life, victim, plan, batch, others, other>>
        /\ \A u \in Threads : u # t => pc'[u] = pc[u]
    BY <1>5 DEF GcUnregister, RemoveAgent
  <2>1. AgentsRespected(t)
    BY <2>0 DEF AgentsRespected
  <2>2. VictimSound(t)'
    BY <1>e, <2>0, Sections DEF VictimSound
  <2>3. OthersSound(t)' /\ ListSettled(t)'
    BY <2>0, Sections DEF OthersSound, ListSettled
  <2> QED
    BY <2>0, <2>1, <2>2, <2>3, CleanupStep
<1>6. CASE GcDone(t)
  <2>0. /\ pc[t] = "gcDone" /\ pc'[t] = "idle" /\ life[AgentOf[t]] = "up"
        /\ list' = [list EXCEPT ![AgentOf[t]] = @ \ {victim[t]}]
        /\ UNCHANGED <<agObj, agOwner, untracked, life, plan, batch, others, other>>
        /\ \A u \in Threads : u # t => pc'[u] = pc[u] /\ victim'[u] = victim[u]
    BY <1>6 DEF GcDone, RemoveBatchFromOwnership
  <2>d. life[victim[t]] = "down" /\ pc[t] \in HoldsAgent
    BY <2>0, CollectorFacts DEF HoldsAgent
  <2>1. AgentsRespected(t)
    BY <2>0, <2>d DEF AgentsRespected
  <2>2. pc'[t] \notin HoldsAgent
    BY <2>0 DEF HoldsAgent
  <2>3. VictimSound(t)' /\ OthersSound(t)' /\ ListSettled(t)'
    BY <2>2, Sections DEF VictimSound, OthersSound, ListSettled
  <2> QED
    BY <2>0, <2>1, <2>3, CleanupStep
<1> QED
  BY <1>1, <1>2, <1>3, <1>4, <1>5, <1>6 DEF RemoveStep

\* Starts, crashes and exits keep the invariant about agent objects.
LEMMA LifeCleanupInv ==
  ASSUME RegisterInv, RegisterInv', CleanupInv, LifeStep
  PROVE  CleanupInv'
<1> USE AgentTypes, RoleAssumption, AddressAssumption DEF local, store, counters
<1>e. /\ AliveHasObject /\ AgentReachable
      /\ \A t \in Threads : VictimSound(t) /\ OthersSound(t) /\ ListSettled(t)
  BY DEF CleanupInv
<1>r. agObj' \subseteq registered'
  BY DEF RegisterInv, RegisterSound
<1>c. \A t \in Threads : pc[t] \in HoldsAgent => life[victim[t]] = "down"
  BY CollectorFacts
<1>h. \A t \in Threads :
        (pc[t] \in Owning \/ pc[t] \in Knowing \/ pc[t] \in Sorted
          \/ pc[t] \in {"gcOwn", "gcUnregister", "gcDone", "gcHandBack", "gcRelinquish"}) =>
            pc[t] \in HoldsAgent
  BY Sections DEF HoldsAgent
<1>1. ASSUME NEW a \in Agents, StartRegister(a) PROVE CleanupInv'
  <2>1. /\ life[a] = "new" /\ life' = [life EXCEPT ![a] = "starting"]
        /\ untracked' = untracked \cup {a}
        /\ UNCHANGED <<list, agObj, agOwner, pc, victim, batch, plan, others, other>>
    BY <1>1 DEF StartRegister
  <2>2. AliveHasObject' /\ AgentReachable'
    BY <1>e, <1>r, <2>1 DEF AliveHasObject, AgentReachable
  <2>3. \A t \in Threads : VictimSound(t)' /\ OthersSound(t)' /\ ListSettled(t)'
    BY <1>e, <2>1 DEF VictimSound, OthersSound, ListSettled
  <2> QED
    BY <2>2, <2>3 DEF CleanupInv
<1>2. ASSUME NEW a \in Agents, StartInsert(a) PROVE CleanupInv'
  <2>1. /\ life[a] = "starting" /\ life' = [life EXCEPT ![a] = "up"]
        /\ agObj' = agObj \cup {a} /\ agOwner' = [agOwner EXCEPT ![a] = Register]
        /\ UNCHANGED <<list, untracked, pc, victim, batch, plan, others, other>>
    BY <1>2 DEF StartInsert
  <2>2. AliveHasObject' /\ AgentReachable'
    BY <1>e, <1>r, <2>1 DEF AliveHasObject, AgentReachable
  <2>n. a \notin agObj
    BY <1>e, <2>1 DEF AliveHasObject
  <2>3. ASSUME NEW t \in Threads PROVE VictimSound(t)' /\ OthersSound(t)' /\ ListSettled(t)'
    <3>1. pc[t] \in HoldsAgent => victim[t] # a /\ victim[t] \in Agents
      BY <1>c, <2>1
    <3>2. VictimSound(t)'
      BY <1>e, <1>h, <2>1, <3>1 DEF VictimSound
    <3>3. OthersSound(t)'
      <4>1. pc[t] \in Knowing => \A x \in agObj' : agOwner'[x] = victim[t] =>
               x \in others[t] \/ (pc[t] = "gcHandBack" /\ x = other[t])
        BY <1>e, <1>h, <2>1, <3>1 DEF OthersSound
      <4>2. pc[t] = "gcHandBack" => other[t] \in agObj' /\ other[t] \in untracked'
                                     /\ agOwner'[other[t]] = victim[t]
        BY <1>e, <2>1, <2>n DEF OthersSound
      <4>3. pc[t] = "gcRelinquish" => agOwner'[other[t]] # victim[t]
        BY <1>e, <1>h, <2>1, <3>1 DEF OthersSound
      <4> QED
        BY <2>1, <4>1, <4>2, <4>3 DEF OthersSound
    <3>4. ListSettled(t)'
      BY <1>e, <2>1 DEF ListSettled
    <3> QED
      BY <3>2, <3>3, <3>4
  <2> QED
    BY <2>2, <2>3 DEF CleanupInv
<1>3. ASSUME NEW a \in Agents, Crash(a) PROVE CleanupInv'
  <2>1. /\ life' = [life EXCEPT ![a] = "down"]
        /\ UNCHANGED <<list, agObj, agOwner, untracked>>
        /\ \A t \in Threads : AgentOf[t] = a => pc'[t] = "idle"
        /\ \A t \in Threads : AgentOf[t] # a =>
             /\ pc'[t] = pc[t] /\ victim'[t] = victim[t] /\ batch'[t] = batch[t]
             /\ plan'[t] = plan[t] /\ others'[t] = others[t] /\ other'[t] = other[t]
    BY <1>3 DEF Crash
  <2>2. AliveHasObject' /\ AgentReachable'
    BY <1>e, <1>r, <2>1 DEF AliveHasObject, AgentReachable
  <2>3. ASSUME NEW t \in Threads PROVE VictimSound(t)' /\ OthersSound(t)' /\ ListSettled(t)'
    <3>1. CASE AgentOf[t] = a
      <4>1. pc'[t] = "idle" /\ "idle" \notin HoldsAgent
        BY <2>1, <3>1 DEF HoldsAgent
      <4> QED
        BY <4>1, Sections DEF VictimSound, OthersSound, ListSettled
    <3>2. CASE AgentOf[t] # a
      BY <1>e, <2>1, <3>2 DEF VictimSound, OthersSound, ListSettled
    <3> QED
      BY <3>1, <3>2
  <2> QED
    BY <2>2, <2>3 DEF CleanupInv
<1>4. ASSUME NEW a \in Agents, ExitLeavingObjects(a) PROVE CleanupInv'
  <2>1. /\ life' = [life EXCEPT ![a] = "down"]
        /\ UNCHANGED <<list, agObj, agOwner, untracked, pc, victim, batch, plan, others, other>>
    BY <1>4 DEF ExitLeavingObjects
  <2>2. AliveHasObject' /\ AgentReachable'
    BY <1>e, <1>r, <2>1 DEF AliveHasObject, AgentReachable
  <2>3. \A t \in Threads : VictimSound(t)' /\ OthersSound(t)' /\ ListSettled(t)'
    BY <1>e, <2>1 DEF VictimSound, OthersSound, ListSettled
  <2> QED
    BY <2>2, <2>3 DEF CleanupInv
<1>5. ASSUME NEW a \in Agents, ExitRemove(a) PROVE CleanupInv'
  <2>1. /\ life[a] = "up" /\ list[a] = {}
        /\ life' = [life EXCEPT ![a] = "leaving"] /\ agObj' = agObj \ {a}
        /\ UNCHANGED <<list, agOwner, untracked, pc, victim, batch, plan, others, other>>
    BY <1>5 DEF ExitRemove
  <2>2. AliveHasObject' /\ AgentReachable'
    BY <1>e, <1>r, <2>1 DEF AliveHasObject, AgentReachable
  <2>3. ASSUME NEW t \in Threads PROVE VictimSound(t)' /\ OthersSound(t)' /\ ListSettled(t)'
    <3>1. pc[t] \in HoldsAgent => victim[t] # a /\ victim[t] \in Agents
      BY <1>c, <2>1
    <3>2. pc[t] = "gcHandBack" => other[t] # a
      BY <1>e, <1>h, <2>1, <3>1 DEF OthersSound, AliveHasObject
    <3>3. VictimSound(t)'
      BY <1>e, <1>h, <2>1, <3>1 DEF VictimSound
    <3>4. OthersSound(t)' /\ ListSettled(t)'
      BY <1>e, <2>1, <3>2 DEF OthersSound, ListSettled
    <3> QED
      BY <3>3, <3>4
  <2> QED
    BY <2>2, <2>3 DEF CleanupInv
<1>6. ASSUME NEW a \in Agents, ExitUnregister(a) PROVE CleanupInv'
  <2>1. /\ life[a] = "leaving" /\ life' = [life EXCEPT ![a] = "down"]
        /\ untracked' = untracked \ {a}
        /\ UNCHANGED <<list, agObj, agOwner, pc, victim, batch, plan, others, other>>
    BY <1>6 DEF ExitUnregister, RemoveAgent
  <2>n. a \notin agObj
    BY <2>1 DEF RegisterInv, RegisterSound
  <2>2. AliveHasObject' /\ AgentReachable'
    BY <1>e, <1>r, <2>1, <2>n DEF AliveHasObject, AgentReachable
  <2>3. \A t \in Threads : VictimSound(t)' /\ OthersSound(t)' /\ ListSettled(t)'
    BY <1>e, <2>1, <2>n DEF VictimSound, OthersSound, ListSettled
  <2> QED
    BY <2>2, <2>3 DEF CleanupInv
<1> QED
  BY <1>1, <1>2, <1>3, <1>4, <1>5, <1>6 DEF LifeStep

\* Every step keeps the invariant about agent objects.
LEMMA CleanupNext ==
  RegisterInv /\ RegisterInv' /\ CleanupInv /\ [Next]_vars => CleanupInv'
<1> SUFFICES ASSUME RegisterInv, RegisterInv', CleanupInv, [Next]_vars PROVE CleanupInv'
  OBVIOUS
<1>1. CASE UNCHANGED vars
  BY <1>1 DEF CleanupInv, AliveHasObject, VictimSound, OthersSound, ListSettled, AgentReachable,
     vars
<1>2. CASE LifeStep
  BY <1>2, LifeCleanupInv
<1>3. ASSUME NEW t \in Threads,
             FrontendStep(t) \/ SessionStep(t) \/ CollectorStep(t) \/ ErrorStep(t) \/ Continue(t)
      PROVE  CleanupInv'
  BY <1>3, FrontendCleanupInv, SessionCleanupInv, ContinueSteps, TransferCleanupInv,
     TakeCleanupInv, RequeueCleanupInv, RemoveCleanupInv
<1> QED
  BY <1>1, <1>2, <1>3 DEF Next

\* The inductive invariant about agent objects holds in every reachable state.
THEOREM CleanupCorrect == Spec => []CleanupInv
  BY CleanupInit, CleanupNext, RegisterCorrect, PTL DEF Spec

\* Every agent object can be found by a collector: whichever processes start, exit
\* or crash, collectors in the middle of cleanupDeadAgent() included, it is
\* watched or in the list of the agent that has taken it.
THEOREM AgentReachableCorrect == Spec => []AgentReachable
<1>1. CleanupInv => AgentReachable
  BY DEF CleanupInv
<1> QED
  BY <1>1, CleanupCorrect, PTL

\* cleanupDeadAgent() always empties the list of the dead agent, so that
\* removeAndUnregisterSelf() never throws AgentStillOwnsObjects.
THEOREM CleanupSucceedsCorrect == Spec => []CleanupSucceeds
<1>1. CleanupInv => CleanupSucceeds
  BY Sections DEF CleanupInv, ListSettled, CleanupSucceeds, At
<1> QED
  BY <1>1, CleanupCorrect, PTL

-----------------------------------------------------------------------------
(* The inductive invariant about lost jobs                                 *)

\* A new request has no owner and a process that is not started owns no job;
\* frontends and sessions only own the jobs their role gives them.
JobsOfRole ==
    \A r \in Requests, p \in Pools :
        /\ rstate[r] \in {"none", "claimed"} => owner[r][p] = NoOwner /\ type[r][p] = FirstType
        /\ owner[r][p] \in Agents => life[owner[r][p]] \notin {"new", "starting"}
        /\ owner[r][p] \in Frontends => p \in Copies[r] /\ type[r][p] = FirstType
        /\ owner[r][p] \in Sessions => p = SessionQueue[owner[r][p]][1]

\* The lock of a queue excludes other threads.
QueueLocks ==
    \A t, u \in Threads :
        pc[t] \in HoldsQueue /\ pc[u] \in HoldsQueue /\ cur[t] = cur[u] => t = u

\* Two threads of one process.
Siblings(t, u) == t # u /\ AgentOf[t] = AgentOf[u]

\* The jobs of its agent that thread t of a session works on: those it requeues and
\* those it has popped.
Claimed(t) ==
    IF pc[t] \in {"reqRef", "reqSwitch"} THEN batch[t]
    ELSE IF pc[t] = "popSwitch" THEN batch[t] \ (todo[t] \cup failed[t])
    ELSE {}

\* A job is in one hand: of one thread, or waiting to be processed.
HandsApart ==
    /\ \A t, u \in Threads : Siblings(t, u) =>
         \A r \in Claimed(t) : r \in Claimed(u) => ~ Stored(r)
    /\ \A t \in Threads : \A r \in Claimed(t) : r \in held[AgentOf[t]] => ~ Stored(r)

\* What a thread is about to remove from the list no other thread of its process
\* pops, but for what is known to be at risk.
LeaveApart ==
    \A t, u \in Threads : Siblings(t, u) /\ pc[t] = "deref" /\ pc[u] = "popSwitch" =>
        \A r \in batch[t] : r \in batch[u] /\ Stored(r) => <<r, AgentOf[t]>> \in forsaken

\* The addresses an operation works on were committed before: to the queue whose
\* lock the thread holds, to the list of the agent that will own them.  Each is
\* switched once.
IntentLogged(t) ==
    /\ pc[t] \in HoldsQueue => batch[t] \subseteq refs[cur[t]] /\ todo[t] \cap failed[t] = {}
    /\ pc[t] = "insert" => batch[t] \subseteq list[AgentOf[t]]
    /\ pc[t] = "popSwitch" => \A r \in batch[t] : Stored(r) =>
         r \in list[AgentOf[t]] \/ <<r, AgentOf[t]>> \in forsaken
    /\ pc[t] = "commitJob" => cur[t][2] = FirstType

\* popNextBatch(): exactly what it has switched is its own, and what it has given
\* up without an error does not belong to the queue.
PopSound(t) ==
    /\ kept[t] \subseteq failed[t]
    /\ pc[t] # "popSwitch" => kept[t] = {}
    /\ pc[t] = "popSwitch" => cur[t] = SessionQueue[AgentOf[t]]
    /\ pc[t] = "popSwitch" => \A r \in batch[t] : Stored(r) =>
         /\ r \in todo[t] \cup failed[t] => owner[r][cur[t][1]] # AgentOf[t]
         /\ r \notin todo[t] \cup failed[t] => owner[r][cur[t][1]] = AgentOf[t]
         /\ r \in failed[t] \ kept[t] => owner[r][cur[t][1]] # cur[t]

\* referenceAndSwitchOwnership(): the job is the agent's, with the status of its new
\* queue, until it is switched.  A job that goes to another queue is not in the one
\* the session pops from.
RequeueSound(t) ==
    LET a == AgentOf[t]
        q == cur[t] IN
    /\ pc[t] \in {"reqRef", "reqSwitch"} => q[1] = SessionQueue[a][1]
    /\ pc[t] \in {"reqRef", "reqSwitch"} => \A r \in batch[t] :
         Stored(r) /\ (pc[t] = "reqRef" \/ r \in todo[t]) =>
            owner[r][q[1]] = a /\ type[r][q[1]] = q[2]
    /\ pc[t] = "reqSwitch" => \A r \in batch[t] \ todo[t] : Stored(r) =>
         /\ r \in failed[t] => owner[r][q[1]] = a \/ (owner[r][q[1]] = q /\ <<r, q>> \in forsaken)
         /\ r \notin failed[t] => owner[r][q[1]] = q
    /\ pc[t] = "reqSwitch" /\ q # SessionQueue[a] => \A r \in batch[t] :
         Stored(r) => r \notin refs[SessionQueue[a]]

\* Thread t is in the middle of an operation on the job of r and on the queue its
\* session pops from.
Engaged(t, r) ==
    pc[t] \in {"popSwitch", "reqSwitch"} /\ cur[t] = SessionQueue[AgentOf[t]] /\ r \in batch[t]

\* A running session owns no job its queue refers to, except in the middle of an
\* operation on both.
NotReferenced(a) ==
    a \in Sessions /\ life[a] = "up" => \A r \in refs[SessionQueue[a]] :
        Stored(r) /\ owner[r][SessionQueue[a][1]] = a =>
            \E t \in Threads : AgentOf[t] = a /\ Engaged(t, r)

\* What is about to leave the list of an agent does not belong to the agent.
DereferenceSound(t) ==
    pc[t] = "deref" => \A r \in batch[t], p \in Pools : Stored(r) =>
        owner[r][p] # AgentOf[t] \/ <<r, AgentOf[t]>> \in forsaken

\* The plan of a collector is exact: it has all jobs of the victim, with their
\* status, and no others, but for those just switched and those at risk.
PlanSound(t) ==
    /\ pc[t] \in Knowing => \A j \in plan[t] : Stored(j[1]) =>
         \/ owner[j[1]][j[2][1]] = victim[t] /\ type[j[1]][j[2][1]] = j[2][2]
         \/ pc[t] = "gcSwitch" /\ j[2] = cur[t] /\ j[1] \in batch[t] \ todo[t]
    /\ pc[t] \in Knowing => \A r \in Requests, p \in Pools :
         Stored(r) /\ owner[r][p] = victim[t] =>
            <<r, <<p, type[r][p]>>>> \in plan[t] \/ <<r, victim[t]>> \in forsaken
    /\ pc[t] = "gcSwitch" => \A r \in batch[t] :
         /\ <<r, cur[t]>> \in plan[t]
         /\ Stored(r) /\ r \notin todo[t] => owner[r][cur[t][1]] # victim[t] /\ r \notin failed[t]

\* What thread t relies on.
ThreadSound(t) ==
    /\ IntentLogged(t)
    /\ PopSound(t)
    /\ RequeueSound(t)
    /\ DereferenceSound(t)
    /\ PlanSound(t)

LostInv ==
    /\ JobsOfRole
    /\ QueueLocks
    /\ \A t \in Threads : ThreadSound(t)
    /\ \A a \in Agents : NotReferenced(a)
    /\ HandsApart
    /\ LeaveApart
    /\ HeldIsOwned
    /\ QueueMatchesStatus
    /\ NoLostJob

\* What a step of thread t does to the processes: it only changes its own local state
\* and the jobs its own session holds.
LocalsKept(t) ==
    /\ life' = life
    /\ forsaken \subseteq forsaken'
    /\ \A a \in Agents : a # AgentOf[t] => held'[a] = held[a]
    /\ \A u \in Threads : u # t =>
         /\ pc'[u] = pc[u] /\ cur'[u] = cur[u] /\ batch'[u] = batch[u] /\ todo'[u] = todo[u]
         /\ failed'[u] = failed[u] /\ kept'[u] = kept[u] /\ victim'[u] = victim[u]
         /\ plan'[u] = plan[u]

\* The job is in the hand of the thread, or the thread takes it from those that the
\* session holds.
Handles(t, r) ==
    AgentOf[t] \in Sessions =>
        r \in Claimed(t) \/ (r \in held[AgentOf[t]] /\ r \notin held'[AgentOf[t]])

\* The step may take the job from its present owner: it is new, or its own agent's,
\* or its victim's, or belongs to the queue whose lock it holds ...
MayTake(t, r, p) ==
    \/ rstate[r] = "claimed"
    \/ owner[r][p] = AgentOf[t] /\ Handles(t, r)
    \/ pc[t] = "gcSwitch" /\ owner[r][p] = victim[t]
    \/ pc[t] \in HoldsQueue /\ owner[r][p] = cur[t]

\* ... and gives it to an owner that knows it: to the queue whose lock it holds, if
\* the status of the job asks for this queue, or to its own agent.
GivenTo(t, r, p) ==
    \/ owner'[r][p] = NoOwner
    \/ /\ pc[t] \in HoldsQueue /\ owner'[r][p] = cur[t]
       /\ cur[t] = <<p, type[r][p]>> /\ r \in refs'[cur[t]]
    \/ /\ owner'[r][p] = AgentOf[t] /\ pc[t] \in {"insert", "popSwitch"} /\ r \in batch[t]
       /\ r \in list'[AgentOf[t]] \/ <<r, AgentOf[t]>> \in forsaken'
       /\ AgentOf[t] \in Frontends => p \in Copies[r] /\ type[r][p] = FirstType
       /\ AgentOf[t] \in Sessions => p = SessionQueue[AgentOf[t]][1]

OwnersRespected(t) ==
    /\ \A r \in Requests :
         /\ rstate'[r] \in {"none", "claimed"} => rstate[r] \in {"none", "claimed"}
         /\ rstate'[r] = "stored" => rstate[r] \in {"claimed", "stored"}
    /\ \A r \in Requests, p \in Pools :
         /\ \/ type'[r][p] = type[r][p]
            \/ /\ AgentOf[t] \in Sessions /\ rstate[r] = "stored" /\ Handles(t, r)
               /\ owner[r][p] = AgentOf[t] /\ owner'[r][p] = owner[r][p]
         /\ \/ owner'[r][p] = owner[r][p] /\ (rstate'[r] = "stored" => rstate[r] = "stored")
            \/ owner'[r][p] = NoOwner /\ rstate'[r] # "stored"
            \/ rstate'[r] = "stored" /\ MayTake(t, r, p) /\ GivenTo(t, r, p)

\* The step changes no queue that another thread has locked, removes no reference
\* that is needed, and adds references to its own or its victim's jobs.
RefsRespected(t) ==
    \A q \in Queues :
        /\ \/ refs'[q] = refs[q]
           \/ \A u \in Threads : u # t /\ pc[u] \in HoldsQueue => cur[u] # q
        /\ \A r \in refs[q] \ refs'[q] : rstate'[r] = "stored" =>
             owner'[r][q[1]] # q \/ <<r, q>> \in forsaken'
        /\ \A r \in refs'[q] \ refs[q] : rstate'[r] = "stored" =>
             \/ owner[r][q[1]] = AgentOf[t] /\ (AgentOf[t] \in Sessions => r \in Claimed(t))
             \/ pc[t] \in HoldsAgent /\ owner[r][q[1]] = victim[t]

\* It changes no list but its own and its victim's, removes no address that is
\* needed, from its own list only when that is what it is at, and no agent object
\* with a list.
ListsRespected(t) ==
    \A a \in Agents :
        /\ a # AgentOf[t] /\ (a # victim[t] \/ pc[t] \notin HoldsAgent) => list'[a] = list[a]
        /\ \A r \in Requests : r \in list[a] \ list'[a] =>
             /\ rstate'[r] = "stored" =>
                  \A p \in Pools : owner'[r][p] # a \/ <<r, a>> \in forsaken'
             /\ a = AgentOf[t] => pc[t] = "deref" /\ r \in batch[t]
        /\ a \in agObj \ agObj' => list[a] = {}

\* It takes the lock of a queue only when it is free.
LocksRespected(t) ==
    pc'[t] \in HoldsQueue =>
        \/ pc[t] \in HoldsQueue /\ cur'[t] = cur[t]
        \/ ~ QueueLocked(cur'[t])

\* It takes a job in its hand from those its session holds or from the queue it has
\* locked, and puts there only what it has popped.
HandsRespected(t) ==
    LET a == AgentOf[t] IN
    /\ \A r \in Claimed(t)' : rstate'[r] = "stored" =>
         \/ r \in Claimed(t) \/ r \in held[a]
         \/ pc[t] = "popSwitch" /\ owner[r][cur[t][1]] = cur[t]
    /\ \A r \in held'[a] : rstate'[r] = "stored" =>
         /\ r \notin Claimed(t)'
         /\ r \in held[a] \/ (r \in Claimed(t) /\ owner'[r][SessionQueue[a][1]] = a)

\* What it pops or is about to remove from the list is not removed or popped by
\* another thread of its process, or else known to be at risk.
LeavesRespected(t) ==
    \A u \in Threads : Siblings(t, u) => \A r \in batch'[t] :
        /\ r \in batch[u] /\ rstate'[r] = "stored"
        /\ \/ pc'[t] = "deref" /\ pc[u] = "popSwitch"
           \/ pc'[t] = "popSwitch" /\ pc[u] = "deref"
        => <<r, AgentOf[t]>> \in forsaken'

\* A job its session comes to own while the queue refers to it is one it is engaged
\* with.
QueueRespected(t) ==
    LET a == AgentOf[t]
        q == SessionQueue[a] IN
    a \in Sessions => \A r \in refs'[q] : rstate'[r] = "stored" /\ owner'[r][q[1]] = a =>
        \/ Engaged(t, r)'
        \/ r \in refs[q] /\ rstate[r] = "stored" /\ owner[r][q[1]] = a /\ ~ Engaged(t, r)

StepRespects(t) ==
    /\ LocalsKept(t) /\ OwnersRespected(t) /\ RefsRespected(t) /\ ListsRespected(t)
    /\ LocksRespected(t) /\ HandsRespected(t) /\ LeavesRespected(t) /\ QueueRespected(t)

\* The jobs of o are not touched.
JobsKept(o) ==
    \A r \in Requests, p \in Pools : rstate'[r] = "stored" =>
        /\ owner'[r][p] = o => rstate[r] = "stored" /\ owner[r][p] = o
        /\ rstate[r] = "stored" /\ owner[r][p] = o =>
             owner'[r][p] = o /\ (o \in Agents => type'[r][p] = type[r][p])

\* The steps at which a thread relies on nothing.
Resting == {"idle", "ended", "bottomHalf", "enqueue", "gcOwn", "gcTrack", "gcFetch",
            "gcUnregister", "gcDone"}

\* Only a thread of a session has jobs in its hand, and they are in its batch.
LEMMA ClaimedIsOwn ==
  ASSUME RegisterInv, NEW t \in Threads, NEW r \in Claimed(t)
  PROVE  /\ r \in batch[t] /\ r \in Requests
         /\ pc[t] \in {"popSwitch", "reqRef", "reqSwitch"}
         /\ AgentOf[t] \in Sessions /\ life[AgentOf[t]] = "up"
         /\ cur[t] \in Queues /\ cur[t][1] \in Pools
<1>1. r \in batch[t] /\ pc[t] \in {"popSwitch", "reqRef", "reqSwitch"}
  BY DEF Claimed
<1>2. cur[t] \in Queues
  BY <1>1, JobTypes DEF HoldsQueue
<1> QED
  BY <1>1, <1>2, JobTypes, PoolOf DEF RegisterInv, Roles, SessionSteps

\* A job in the hand of a thread belongs to its agent, or the thread has just given
\* it to the queue it has locked.
LEMMA ClaimedOwner ==
  ASSUME RegisterInv, LostInv, NEW t \in Threads, NEW r \in Claimed(t), rstate[r] = "stored"
  PROVE  /\ cur[t][1] = SessionQueue[AgentOf[t]][1]
         /\ \/ owner[r][cur[t][1]] = AgentOf[t]
            \/ pc[t] = "reqSwitch" /\ owner[r][cur[t][1]] = cur[t]
<1>1. PopSound(t) /\ RequeueSound(t)
  BY DEF LostInv, ThreadSound
<1>2. r \in batch[t]
  BY ClaimedIsOwn
<1>3. CASE pc[t] = "popSwitch"
  BY <1>1, <1>2, <1>3 DEF Claimed, PopSound, Stored
<1>4. CASE pc[t] = "reqRef"
  BY <1>1, <1>2, <1>4 DEF RequeueSound, Stored
<1>5. CASE pc[t] = "reqSwitch"
  BY <1>1, <1>2, <1>5 DEF RequeueSound, Stored
<1> QED
  BY <1>3, <1>4, <1>5, ClaimedIsOwn

\* A step of thread t does not touch the jobs of another running process, of the
\* agent another thread cleans up and of the queue whose lock it holds.
LEMMA OthersJobsKept ==
  ASSUME RegisterInv, LostInv, NEW t \in Threads, life[AgentOf[t]] = "up",
         OwnersRespected(t)
  PROVE  /\ \A a \in Agents : life[a] = "up" /\ a # AgentOf[t] => JobsKept(a)
         /\ \A u \in Threads : u # t =>
              /\ pc[u] \in HoldsAgent => JobsKept(victim[u])
              /\ pc[u] \in HoldsQueue => JobsKept(cur[u])
<1>t. /\ AgentOf[t] \in Agents /\ victim[t] \in Agents
      /\ pc[t] \in HoldsQueue => cur[t] \in Queues
  BY RoleAssumption, AgentTypes, JobTypes
<1>c. pc[t] = "gcSwitch" => pc[t] \in HoldsAgent /\ life[victim[t]] = "down"
  BY CollectorFacts DEF HoldsAgent
<1>f. \A r \in Requests, p \in Pools : rstate[r] = "claimed" => owner[r][p] = NoOwner
  BY DEF LostInv, JobsOfRole
<1>1. ASSUME NEW o, o # NoOwner, o # AgentOf[t], pc[t] = "gcSwitch" => o # victim[t],
             pc[t] \in HoldsQueue => o # cur[t]
      PROVE  JobsKept(o)
  <2>1. ASSUME NEW r \in Requests, NEW p \in Pools, rstate'[r] = "stored"
        PROVE  /\ owner'[r][p] = o => rstate[r] = "stored" /\ owner[r][p] = o
               /\ rstate[r] = "stored" /\ owner[r][p] = o =>
                    owner'[r][p] = o /\ type'[r][p] = type[r][p]
    <3>1. /\ type'[r][p] = type[r][p] \/ owner[r][p] = AgentOf[t]
          /\ \/ owner'[r][p] = owner[r][p] /\ rstate[r] = "stored"
             \/ MayTake(t, r, p) /\ GivenTo(t, r, p)
      BY <2>1 DEF OwnersRespected
    <3>2. MayTake(t, r, p) => owner[r][p] # o
      BY <1>1, <1>f DEF MayTake
    <3>3. GivenTo(t, r, p) => owner'[r][p] # o
      BY <1>1 DEF GivenTo
    <3> QED
      BY <1>1, <3>1, <3>2, <3>3
  <2> QED
    BY <2>1 DEF JobsKept
<1>2. ASSUME NEW a \in Agents, life[a] = "up", a # AgentOf[t] PROVE JobsKept(a)
  <2>1. a # NoOwner /\ (pc[t] \in HoldsQueue => a # cur[t])
    BY <1>t, AddressAssumption
  <2> QED
    BY <1>1, <1>2, <1>c, <2>1
<1>3. ASSUME NEW u \in Threads, u # t, pc[u] \in HoldsAgent PROVE JobsKept(victim[u])
  <2>1. victim[u] \in Agents
    BY AgentTypes
  <2>2. victim[u] # NoOwner /\ (pc[t] \in HoldsQueue => victim[u] # cur[t])
    BY <1>t, <2>1, AddressAssumption
  <2>3. life[victim[u]] = "down" /\ (pc[t] \in HoldsAgent => victim[t] # victim[u])
    BY <1>3, CollectorFacts
  <2> QED
    BY <1>1, <1>c, <2>2, <2>3
<1>4. ASSUME NEW u \in Threads, u # t, pc[u] \in HoldsQueue PROVE JobsKept(cur[u])
  <2>1. cur[u] \in Queues
    BY <1>4, JobTypes
  <2>2. cur[u] # NoOwner /\ cur[u] # AgentOf[t] /\ cur[u] # victim[t]
    BY <1>t, <2>1, AddressAssumption
  <2>3. pc[t] \in HoldsQueue => cur[t] # cur[u]
    BY <1>4 DEF LostInv, QueueLocks
  <2> QED
    BY <1>1, <2>2, <2>3
<1> QED
  BY <1>2, <1>3, <1>4

\* A request another thread works on was stored before.
LEMMA KnownIsStored ==
  ASSUME RegisterInv, OwnershipInv, NEW t \in Threads, OwnersRespected(t), NEW u \in Threads
  PROVE  /\ \A r \in batch[u] : pc[u] # "insert" /\ rstate'[r] = "stored" => rstate[r] = "stored"
         /\ \A j \in plan[u] : rstate'[j[1]] = "stored" => rstate[j[1]] = "stored"
         /\ \A q \in Queues : \A r \in refs[q] : rstate'[r] = "stored" => rstate[r] = "stored"
         /\ \A a \in Agents : \A r \in held[a] : rstate'[r] = "stored" => rstate[r] = "stored"
<1>1. /\ \A r \in batch[u] : r \in Requests
      /\ \A j \in plan[u] : j[1] \in Requests /\ j[2] \in Queues /\ j = <<j[1], j[2]>>
      /\ \A q \in Queues : \A r \in refs[q] : r \in Requests
      /\ \A a \in Agents : \A r \in held[a] : r \in Requests
  BY JobTypes
<1>2. FreshUnknown
  BY DEF OwnershipInv
<1> QED
  BY <1>1, <1>2 DEF FreshUnknown, OwnersRespected

\* What a step of thread t does to the jobs of its own agent: it does not touch those
\* in the hand of another thread of its process, nor those the session holds on to,
\* and a job that the agent gets is in the batch that the thread pops.
LEMMA SiblingsJobsKept ==
  ASSUME RegisterInv, OwnershipInv, LostInv, NEW t \in Threads, life[AgentOf[t]] = "up",
         OwnersRespected(t)
  PROVE  /\ \A u \in Threads : Siblings(t, u) => \A r \in Claimed(u), p \in Pools :
              rstate[r] = "stored" /\ rstate'[r] = "stored" /\ owner[r][p] = AgentOf[t] =>
                 owner'[r][p] = AgentOf[t] /\ type'[r][p] = type[r][p]
         /\ \A r \in held[AgentOf[t]], p \in Pools :
              /\ r \in held'[AgentOf[t]] /\ rstate[r] = "stored" /\ rstate'[r] = "stored"
              /\ owner[r][p] = AgentOf[t]
              => owner'[r][p] = AgentOf[t]
         /\ \A r \in Requests, p \in Pools :
              /\ rstate[r] = "stored" /\ rstate'[r] = "stored"
              /\ owner'[r][p] = AgentOf[t] /\ owner[r][p] # AgentOf[t]
              => pc[t] = "popSwitch" /\ r \in batch[t]
<1> DEFINE a == AgentOf[t]
<1>t. a \in Agents /\ a # NoOwner /\ (pc[t] \in HoldsQueue => cur[t] \in Queues /\ cur[t] # a)
  BY RoleAssumption, JobTypes, AddressAssumption
<1>c. pc[t] = "gcSwitch" => victim[t] # a
  BY CollectorFacts DEF HoldsAgent
<1>h. HandsApart
  BY DEF LostInv
<1>s. held[a] # {} => a \in Sessions
  BY <1>t DEF OwnershipInv, HeldByRunning
<1> HIDE DEF a
\* Nobody takes a job that it does not handle.
<1>1. ASSUME NEW r \in Requests, NEW p \in Pools, rstate[r] = "stored", rstate'[r] = "stored",
             owner[r][p] = a, ~ Handles(t, r)
      PROVE  owner'[r][p] = a /\ type'[r][p] = type[r][p]
  BY <1>1, <1>c, <1>t DEF OwnersRespected, MayTake, a
<1>2. ASSUME NEW u \in Threads, Siblings(t, u), NEW r \in Claimed(u), NEW p \in Pools,
             rstate[r] = "stored", rstate'[r] = "stored", owner[r][p] = a
      PROVE  owner'[r][p] = a /\ type'[r][p] = type[r][p]
  <2>1. r \in Requests /\ a \in Sessions
    BY <1>2, ClaimedIsOwn DEF Siblings, a
  <2>2. r \notin Claimed(t) /\ r \notin held[a]
    BY <1>2, <1>h DEF HandsApart, Siblings, Stored, a
  <2> QED
    BY <1>1, <1>2, <2>1, <2>2 DEF Handles, a
<1>3. ASSUME NEW r \in held[a], NEW p \in Pools, r \in held'[a], rstate[r] = "stored",
             rstate'[r] = "stored", owner[r][p] = a
      PROVE  owner'[r][p] = a
  <2>1. r \in Requests /\ a \in Sessions
    BY <1>s, <1>t, JobTypes
  <2>2. r \notin Claimed(t)
    BY <1>3, <1>h DEF HandsApart, Stored, a
  <2> QED
    BY <1>1, <1>3, <2>1, <2>2 DEF Handles, a
<1>4. ASSUME NEW r \in Requests, NEW p \in Pools, rstate[r] = "stored", rstate'[r] = "stored",
             owner'[r][p] = a, owner[r][p] # a
      PROVE  pc[t] = "popSwitch" /\ r \in batch[t]
  <2>1. GivenTo(t, r, p)
    BY <1>4 DEF OwnersRespected
  <2>2. pc[t] \in {"insert", "popSwitch"} /\ r \in batch[t]
    BY <1>4, <1>t, <2>1 DEF GivenTo, a
  <2>3. pc[t] # "insert"
    BY <1>4, <2>2 DEF OwnershipInv, InsertOnce
  <2> QED
    BY <2>2, <2>3
<1> QED
  BY <1>2, <1>3, <1>4 DEF a

\* A step of one thread does not disturb what another one relies on, be it of the
\* same process or not.
LEMMA OthersStaySound ==
  ASSUME RegisterInv, RegisterInv', OwnershipInv, LostInv, NEW t \in Threads,
         life[AgentOf[t]] = "up", StepRespects(t), NEW u \in Threads, u # t
  PROVE  ThreadSound(u)'
<1> USE DEF Stored
<1> DEFINE a == AgentOf[u]
<1>s. LocalsKept(t) /\ OwnersRespected(t) /\ RefsRespected(t) /\ ListsRespected(t)
  BY DEF StepRespects
<1>e. ThreadSound(u)
  BY DEF LostInv
<1>l. /\ pc'[u] = pc[u] /\ cur'[u] = cur[u] /\ batch'[u] = batch[u] /\ todo'[u] = todo[u]
      /\ failed'[u] = failed[u] /\ kept'[u] = kept[u] /\ victim'[u] = victim[u]
      /\ plan'[u] = plan[u] /\ life' = life /\ forsaken \subseteq forsaken'
  BY <1>s DEF LocalsKept
<1>t. /\ AgentOf[t] \in Agents /\ a \in Agents
      /\ pc[u] \in HoldsQueue \cup {"reqRef"} => cur[u] \in Queues /\ cur[u][1] \in Pools
      /\ batch[u] \subseteq Requests /\ todo[u] \subseteq Requests
      /\ \A j \in plan[u] : j[1] \in Requests /\ j[2] \in Queues /\ j[2][1] \in Pools
      /\ victim[u] \in Agents /\ victim[t] \in Agents
  BY RoleAssumption, JobTypes, AgentTypes, PoolOf
<1>v. pc[t] \in HoldsAgent => life[victim[t]] = "down"
  BY CollectorFacts
<1>r. pc[u] \notin {"idle", "ended"} => life[a] = "up"
  BY DEF RegisterInv, Roles
<1>m. a = AgentOf[t] => Siblings(t, u) /\ Siblings(u, t)
  BY DEF Siblings
<1>j. life[a] = "up" /\ a # AgentOf[t] => JobsKept(a)
  BY <1>s, <1>t, OthersJobsKept
<1>k. /\ pc[u] \in HoldsAgent => JobsKept(victim[u])
      /\ pc[u] \in HoldsQueue => JobsKept(cur[u])
  BY <1>s, OthersJobsKept
<1>b. /\ \A r \in batch[u] : pc[u] # "insert" /\ rstate'[r] = "stored" => rstate[r] = "stored"
      /\ \A j \in plan[u] : rstate'[j[1]] = "stored" => rstate[j[1]] = "stored"
  BY <1>s, KnownIsStored
\* The jobs in the hand of u stay with its agent.
<1>1. ASSUME NEW r \in Claimed(u), NEW p \in Pools, rstate[r] = "stored",
             rstate'[r] = "stored", owner[r][p] = a
      PROVE  owner'[r][p] = a /\ type'[r][p] = type[r][p]
  <2>1. r \in Requests /\ life[a] = "up"
    BY <1>1, ClaimedIsOwn
  <2>2. CASE a # AgentOf[t]
    BY <1>1, <1>j, <1>t, <2>1, <2>2 DEF JobsKept
  <2>3. CASE a = AgentOf[t]
    BY <1>1, <1>m, <1>s, <2>3, SiblingsJobsKept
  <2> QED
    BY <2>2, <2>3
\* Its agent gets none of the jobs in its batch, unless another thread pops them.
<1>2. ASSUME NEW r \in batch[u], NEW p \in Pools, rstate[r] = "stored",
             rstate'[r] = "stored", owner'[r][p] = a, life[a] = "up"
      PROVE  \/ owner[r][p] = a
             \/ Siblings(t, u) /\ Siblings(u, t) /\ pc[t] = "popSwitch" /\ r \in batch[t]
  <2>1. r \in Requests
    BY <1>t
  <2>2. CASE a # AgentOf[t]
    BY <1>2, <1>j, <2>1, <2>2 DEF JobsKept
  <2>3. CASE a = AgentOf[t]
    BY <1>2, <1>m, <1>s, <2>1, <2>3, SiblingsJobsKept
  <2> QED
    BY <2>2, <2>3
\* Who removes an address from the list of its agent is another thread of the process.
<1>3. ASSUME NEW r \in Requests, r \in list[a], r \notin list'[a], life[a] = "up"
      PROVE  Siblings(t, u) /\ pc[t] = "deref" /\ r \in batch[t]
  <2>1. a = AgentOf[t]
    BY <1>3, <1>s, <1>t, <1>v DEF ListsRespected
  <2> QED
    BY <1>3, <1>m, <1>s, <1>t, <2>1 DEF ListsRespected
<1> HIDE DEF a
<1>4. IntentLogged(u)'
  <2>1. pc[u] \in HoldsQueue => refs'[cur[u]] = refs[cur[u]]
    BY <1>s, <1>t DEF RefsRespected
  <2>2. ASSUME pc[u] = "insert", NEW r \in batch[u] PROVE r \in list'[a]
    <3>1. r \in list[a] /\ r \in Requests /\ life[a] = "up"
      BY <1>e, <1>r, <1>t, <2>2 DEF ThreadSound, IntentLogged, a
    <3>2. r \notin batch[t]
      BY <2>2 DEF OwnershipInv, InsertOnce
    <3> QED
      BY <1>3, <3>1, <3>2
  <2>3. ASSUME pc[u] = "popSwitch", NEW r \in batch[u], rstate'[r] = "stored"
        PROVE  r \in list'[a] \/ <<r, a>> \in forsaken'
    <3>1. r \in Requests /\ life[a] = "up" /\ rstate[r] = "stored"
      BY <1>b, <1>r, <1>t, <2>3
    <3>2. r \in list[a] \/ <<r, a>> \in forsaken
      BY <1>e, <2>3, <3>1 DEF ThreadSound, IntentLogged, a
    <3>3. CASE r \in list[a] /\ r \notin list'[a]
      <4>1. Siblings(t, u) /\ pc[t] = "deref" /\ r \in batch[t]
        BY <1>3, <3>1, <3>3
      <4>2. <<r, AgentOf[t]>> \in forsaken
        BY <2>3, <3>1, <4>1 DEF LostInv, LeaveApart
      <4> QED
        BY <1>l, <4>1, <4>2 DEF Siblings, a
    <3> QED
      BY <1>l, <3>2, <3>3
  <2> QED
    BY <1>e, <1>l, <2>1, <2>2, <2>3 DEF ThreadSound, IntentLogged, a
<1>5. PopSound(u)'
  <2>1. PopSound(u)
    BY <1>e DEF ThreadSound
  <2>2. ASSUME pc[u] = "popSwitch", NEW r \in batch[u], rstate'[r] = "stored"
        PROVE  /\ r \in todo[u] \cup failed[u] => owner'[r][cur[u][1]] # a
               /\ r \notin todo[u] \cup failed[u] => owner'[r][cur[u][1]] = a
               /\ r \in failed[u] \ kept[u] => owner'[r][cur[u][1]] # cur[u]
    <3>1. /\ rstate[r] = "stored" /\ r \in Requests /\ life[a] = "up"
          /\ cur[u] \in Queues /\ cur[u][1] \in Pools /\ JobsKept(cur[u])
      BY <1>b, <1>k, <1>r, <1>t, <2>2 DEF HoldsQueue
    <3>2. /\ r \in todo[u] \cup failed[u] => owner[r][cur[u][1]] # a
          /\ r \notin todo[u] \cup failed[u] => owner[r][cur[u][1]] = a
          /\ r \in failed[u] \ kept[u] => owner[r][cur[u][1]] # cur[u]
      BY <2>1, <2>2, <3>1 DEF PopSound, a
    <3>3. ~ (Siblings(t, u) /\ pc[t] = "popSwitch")
      <4> SUFFICES ASSUME Siblings(t, u), pc[t] = "popSwitch" PROVE FALSE
        OBVIOUS
      <4>1. cur[t] = SessionQueue[AgentOf[t]] /\ cur[u] = SessionQueue[AgentOf[u]]
        BY <2>1, <2>2 DEF LostInv, ThreadSound, PopSound
      <4>2. cur[t] = cur[u] /\ pc[t] \in HoldsQueue /\ pc[u] \in HoldsQueue
        BY <2>2, <4>1 DEF Siblings, HoldsQueue
      <4> QED
        BY <4>2 DEF LostInv, QueueLocks
    <3>4. r \in todo[u] \cup failed[u] => owner'[r][cur[u][1]] # a
      BY <1>2, <2>2, <3>1, <3>2, <3>3
    <3>5. r \notin todo[u] \cup failed[u] => r \in Claimed(u)
      BY <2>2 DEF Claimed
    <3>6. r \notin todo[u] \cup failed[u] => owner'[r][cur[u][1]] = a
      BY <1>1, <2>2, <3>1, <3>2, <3>5
    <3>7. r \in failed[u] \ kept[u] => owner'[r][cur[u][1]] # cur[u]
      BY <2>2, <3>1, <3>2 DEF JobsKept
    <3> QED
      BY <3>4, <3>6, <3>7
  <2> QED
    BY <1>l, <2>1, <2>2 DEF PopSound, a
<1>6. RequeueSound(u)'
  <2>1. RequeueSound(u)
    BY <1>e DEF ThreadSound
  <2>2. ASSUME pc[u] \in {"reqRef", "reqSwitch"}, NEW r \in batch[u], rstate'[r] = "stored"
        PROVE  /\ rstate[r] = "stored" /\ r \in Requests /\ r \in Claimed(u)
               /\ cur[u] \in Queues /\ cur[u][1] \in Pools
               /\ cur[u][1] = SessionQueue[a][1] /\ life[a] = "up"
    BY <1>b, <1>r, <1>t, <2>1, <2>2 DEF Claimed, HoldsQueue, RequeueSound, a
  <2>3. ASSUME pc[u] \in {"reqRef", "reqSwitch"}, NEW r \in batch[u], rstate'[r] = "stored",
               pc[u] = "reqRef" \/ r \in todo[u]
        PROVE  owner'[r][cur[u][1]] = a /\ type'[r][cur[u][1]] = cur[u][2]
    <3>1. /\ rstate[r] = "stored" /\ r \in Claimed(u) /\ cur[u][1] \in Pools
      BY <2>2, <2>3
    <3>2. owner[r][cur[u][1]] = a /\ type[r][cur[u][1]] = cur[u][2]
      BY <2>1, <2>3, <3>1 DEF RequeueSound, a
    <3> QED
      BY <1>1, <2>3, <3>1, <3>2
  <2>4. ASSUME pc[u] = "reqSwitch", NEW r \in batch[u] \ todo[u], rstate'[r] = "stored"
        PROVE  /\ r \in failed[u] =>
                    \/ owner'[r][cur[u][1]] = a
                    \/ owner'[r][cur[u][1]] = cur[u] /\ <<r, cur[u]>> \in forsaken'
               /\ r \notin failed[u] => owner'[r][cur[u][1]] = cur[u]
    <3>1. /\ rstate[r] = "stored" /\ r \in Requests /\ r \in Claimed(u)
          /\ cur[u] \in Queues /\ cur[u][1] \in Pools
      BY <2>2, <2>4
    <3>2. /\ r \in failed[u] =>
               owner[r][cur[u][1]] = a \/ (owner[r][cur[u][1]] = cur[u] /\ <<r, cur[u]>> \in forsaken)
          /\ r \notin failed[u] => owner[r][cur[u][1]] = cur[u]
      BY <2>1, <2>4, <3>1 DEF RequeueSound, a
    <3>3. JobsKept(cur[u])
      BY <1>k, <2>4 DEF HoldsQueue
    <3>4. owner[r][cur[u][1]] = cur[u] => owner'[r][cur[u][1]] = cur[u]
      BY <2>4, <3>1, <3>3 DEF JobsKept
    <3>5. owner[r][cur[u][1]] = a => owner'[r][cur[u][1]] = a
      BY <1>1, <2>4, <3>1
    <3> QED
      BY <1>l, <3>2, <3>4, <3>5
  <2>5. ASSUME pc[u] = "reqSwitch", cur[u] # SessionQueue[a], NEW r \in batch[u],
               rstate'[r] = "stored"
        PROVE  r \notin refs'[SessionQueue[a]]
    <3>1. /\ rstate[r] = "stored" /\ r \in Requests /\ r \in Claimed(u)
          /\ cur[u] \in Queues /\ cur[u][1] = SessionQueue[a][1] /\ life[a] = "up"
      BY <2>2, <2>5
    <3>2. a \in Sessions /\ SessionQueue[a] \in Queues
      BY <2>5, ClaimedIsOwn, <3>1, QueueAssumption DEF a
    <3>3. PICK q \in Queues : q = SessionQueue[a]
      BY <3>2
    <3>4. r \notin refs[q]
      BY <2>1, <2>5, <3>1, <3>3 DEF RequeueSound, a
    <3>5. owner[r][q[1]] \in {a, cur[u]}
      BY <2>1, <2>5, <3>1, <3>3 DEF RequeueSound, a
    <3>6. cur[u] # AgentOf[t] /\ cur[u] # victim[t]
      BY <1>t, <3>1, AddressAssumption
    <3>7. pc[t] \in HoldsAgent => owner[r][q[1]] # victim[t]
      BY <1>v, <3>1, <3>5, <3>6
    <3>8. AgentOf[t] \in Sessions /\ r \in Claimed(t) => owner[r][q[1]] # AgentOf[t]
      <4> SUFFICES ASSUME r \in Claimed(t), owner[r][q[1]] = AgentOf[t] PROVE FALSE
        OBVIOUS
      <4>1. AgentOf[t] = a
        BY <3>5, <3>6
      <4>2. Siblings(t, u)
        BY <1>m, <4>1
      <4> QED
        BY <3>1, <4>2 DEF LostInv, HandsApart
    <3>9. AgentOf[t] \notin Sessions => owner[r][q[1]] # AgentOf[t]
      BY <3>2, <3>5, <3>6
    <3> QED
      BY <1>s, <2>5, <3>3, <3>4, <3>7, <3>8, <3>9 DEF RefsRespected
  <2>6. pc[u] \in {"reqRef", "reqSwitch"} => cur[u][1] = SessionQueue[a][1]
    BY <2>1 DEF RequeueSound, a
  <2> QED
    BY <1>l, <2>3, <2>4, <2>5, <2>6 DEF RequeueSound, a
<1>7. DereferenceSound(u)'
  <2>1. ASSUME pc[u] = "deref", NEW r \in batch[u], NEW p \in Pools, rstate'[r] = "stored",
               owner'[r][p] = a
        PROVE  <<r, a>> \in forsaken
    <3>1. rstate[r] = "stored" /\ life[a] = "up" /\ r \in Requests
      BY <1>b, <1>r, <1>t, <2>1
    <3>2. CASE owner[r][p] = a
      BY <1>e, <2>1, <3>1, <3>2 DEF ThreadSound, DereferenceSound, a
    <3>3. CASE Siblings(u, t) /\ pc[t] = "popSwitch" /\ r \in batch[t]
      BY <2>1, <3>1, <3>3 DEF LostInv, LeaveApart, a
    <3> QED
      BY <1>2, <2>1, <3>1, <3>2, <3>3
  <2> QED
    BY <1>l, <2>1 DEF DereferenceSound, a
<1>8. PlanSound(u)'
  <2>1. pc[u] \in Knowing => JobsKept(victim[u])
    BY <1>k, Sections
  <2>2. pc[u] = "gcSwitch" => pc[u] \in Knowing /\ cur[u][1] \in Pools
    BY <1>t, Sections DEF HoldsQueue
  <2>3. ASSUME pc[u] \in Knowing, NEW j \in plan[u], rstate'[j[1]] = "stored"
        PROVE  \/ owner'[j[1]][j[2][1]] = victim[u] /\ type'[j[1]][j[2][1]] = j[2][2]
               \/ pc[u] = "gcSwitch" /\ j[2] = cur[u] /\ j[1] \in batch[u] \ todo[u]
    <3>1. /\ rstate[j[1]] = "stored" /\ j[1] \in Requests /\ j[2][1] \in Pools
          /\ victim[u] \in Agents
      BY <1>b, <1>t, <2>3
    <3>2. \/ owner[j[1]][j[2][1]] = victim[u] /\ type[j[1]][j[2][1]] = j[2][2]
          \/ pc[u] = "gcSwitch" /\ j[2] = cur[u] /\ j[1] \in batch[u] \ todo[u]
      BY <1>e, <2>3, <3>1 DEF ThreadSound, PlanSound
    <3> QED
      BY <2>1, <2>3, <3>1, <3>2 DEF JobsKept
  <2>4. ASSUME pc[u] \in Knowing, NEW r \in Requests, NEW p \in Pools, rstate'[r] = "stored",
               owner'[r][p] = victim[u]
        PROVE  <<r, <<p, type'[r][p]>>>> \in plan[u] \/ <<r, victim[u]>> \in forsaken'
    <3>1. rstate[r] = "stored" /\ owner[r][p] = victim[u] /\ type'[r][p] = type[r][p]
      BY <1>t, <2>1, <2>4 DEF JobsKept
    <3>2. <<r, <<p, type[r][p]>>>> \in plan[u] \/ <<r, victim[u]>> \in forsaken
      BY <1>e, <2>4, <3>1 DEF ThreadSound, PlanSound
    <3> QED
      BY <1>l, <3>1, <3>2
  <2>5. ASSUME pc[u] = "gcSwitch", NEW r \in batch[u]
        PROVE  /\ <<r, cur[u]>> \in plan[u]
               /\ rstate'[r] = "stored" /\ r \notin todo[u] =>
                    owner'[r][cur[u][1]] # victim[u] /\ r \notin failed[u]
    BY <1>b, <1>e, <1>t, <2>1, <2>2, <2>5 DEF ThreadSound, PlanSound, JobsKept
  <2> QED
    BY <1>l, <2>3, <2>4, <2>5 DEF PlanSound
<1> QED
  BY <1>4, <1>5, <1>6, <1>7, <1>8 DEF ThreadSound

\* A step that respects the jobs keeps those of the other threads and the properties
\* of all jobs; it remains to be shown that its own thread goes on soundly.
LEMMA LostStep ==
  ASSUME RegisterInv, RegisterInv', OwnershipInv, CleanupInv', LostInv,
         NEW t \in Threads, life[AgentOf[t]] = "up", StepRespects(t), ThreadSound(t)'
  PROVE  LostInv'
<1> USE DEF Stored
<1>s. /\ LocalsKept(t) /\ OwnersRespected(t) /\ RefsRespected(t) /\ ListsRespected(t)
      /\ LocksRespected(t) /\ HandsRespected(t) /\ LeavesRespected(t) /\ QueueRespected(t)
  BY DEF StepRespects
<1>a. /\ AgentOf[t] \in Agents /\ NoOwner \notin Agents /\ NoOwner \notin Queues
      /\ Queues \cap Agents = {} /\ Frontends \subseteq Agents /\ Sessions \subseteq Agents
      /\ Frontends \cap Sessions = {}
      /\ pc[t] \in HoldsQueue => cur[t] \in Queues
  BY RoleAssumption, AddressAssumption, JobTypes
<1>e. /\ JobsOfRole /\ QueueLocks /\ QueueMatchesStatus /\ NoLostJob /\ HandsApart /\ LeaveApart
      /\ HeldIsOwned
  BY DEF LostInv
<1>l. /\ life' = life /\ forsaken \subseteq forsaken'
      /\ \A u \in Threads : u # t =>
           /\ pc'[u] = pc[u] /\ cur'[u] = cur[u] /\ batch'[u] = batch[u] /\ todo'[u] = todo[u]
           /\ failed'[u] = failed[u]
  BY <1>s DEF LocalsKept
<1>c. \A u \in Threads : u # t => Claimed(u)' = Claimed(u)
  BY <1>l DEF Claimed
<1>k. \A u \in Threads : \A r \in Claimed(u) :
        r \in Requests /\ r \in batch[u] /\ (rstate'[r] = "stored" => rstate[r] = "stored")
  <2> SUFFICES ASSUME NEW u \in Threads, NEW r \in Claimed(u)
               PROVE  r \in Requests /\ r \in batch[u] /\ (rstate'[r] = "stored" => rstate[r] = "stored")
    OBVIOUS
  <2> QED
    BY <1>s, ClaimedIsOwn, KnownIsStored
<1>1. \A u \in Threads : ThreadSound(u)'
  BY OthersStaySound
<1>2. JobsOfRole'
  <2> SUFFICES ASSUME NEW r \in Requests, NEW p \in Pools
               PROVE  /\ rstate'[r] \in {"none", "claimed"} =>
                            owner'[r][p] = NoOwner /\ type'[r][p] = FirstType
                      /\ owner'[r][p] \in Agents => life[owner'[r][p]] \notin {"new", "starting"}
                      /\ owner'[r][p] \in Frontends => p \in Copies[r] /\ type'[r][p] = FirstType
                      /\ owner'[r][p] \in Sessions => p = SessionQueue[owner'[r][p]][1]
    BY <1>l DEF JobsOfRole
  <2>1. /\ rstate[r] \in {"none", "claimed"} => owner[r][p] = NoOwner /\ type[r][p] = FirstType
        /\ owner[r][p] \in Agents => life[owner[r][p]] \notin {"new", "starting"}
        /\ owner[r][p] \in Frontends => p \in Copies[r] /\ type[r][p] = FirstType
        /\ owner[r][p] \in Sessions => p = SessionQueue[owner[r][p]][1]
    BY <1>e DEF JobsOfRole
  <2>2. type'[r][p] = type[r][p] \/ (/\ AgentOf[t] \in Sessions /\ rstate[r] = "stored"
                                     /\ owner[r][p] = AgentOf[t] /\ owner'[r][p] = owner[r][p])
    BY <1>s DEF OwnersRespected
  <2>3. rstate'[r] \in {"none", "claimed"} => rstate[r] \in {"none", "claimed"}
    BY <1>s DEF OwnersRespected
  <2>4. CASE owner'[r][p] = owner[r][p]
    BY <1>a, <2>1, <2>2, <2>3, <2>4
  <2>5. CASE owner'[r][p] = NoOwner
    BY <1>a, <2>1, <2>2, <2>3, <2>5
  <2>6. CASE rstate'[r] = "stored" /\ GivenTo(t, r, p) /\ owner'[r][p] # owner[r][p]
    BY <1>a, <2>2, <2>6 DEF GivenTo
  <2> QED
    BY <1>s, <2>4, <2>5, <2>6 DEF OwnersRespected
<1>3. QueueLocks'
  BY <1>e, <1>s DEF LocksRespected, LocalsKept, QueueLocks, QueueLocked
<1>4. ASSUME NEW r \in Requests, NEW p \in Pools, rstate'[r] = "stored",
             owner'[r][p] \in Queues
      PROVE  /\ owner'[r][p] = <<p, type'[r][p]>>
             /\ r \in refs'[owner'[r][p]] \/ <<r, owner'[r][p]>> \in forsaken'
  <2>1. type'[r][p] = type[r][p]
    BY <1>a, <1>s, <1>4 DEF OwnersRespected
  <2>2. CASE owner'[r][p] = owner[r][p] /\ rstate[r] = "stored"
    <3>1. /\ owner[r][p] = <<p, type[r][p]>>
          /\ r \in refs[owner[r][p]] \/ <<r, owner[r][p]>> \in forsaken
      BY <1>e, <1>4, <2>2 DEF QueueMatchesStatus, NoLostJob, PointsBack
    <3>2. PICK q \in Queues : q = owner[r][p]
      BY <1>4, <2>2
    <3>3. q[1] = p
      BY <3>1, <3>2
    <3>4. r \in refs'[q] \/ <<r, q>> \in forsaken'
      BY <1>l, <1>s, <1>4, <2>2, <3>1, <3>2, <3>3 DEF RefsRespected
    <3> QED
      BY <2>1, <2>2, <3>1, <3>2, <3>4
  <2>3. CASE GivenTo(t, r, p)
    BY <1>a, <1>4, <2>1, <2>3 DEF GivenTo
  <2> QED
    BY <1>s, <1>4, <2>2, <2>3 DEF OwnersRespected
<1>5. ASSUME NEW r \in Requests, NEW p \in Pools, rstate'[r] = "stored",
             owner'[r][p] \in Agents
      PROVE  \/ owner'[r][p] \in agObj' /\ r \in list'[owner'[r][p]]
             \/ <<r, owner'[r][p]>> \in forsaken'
  <2>1. CASE owner'[r][p] = owner[r][p] /\ rstate[r] = "stored"
    <3>1. (owner[r][p] \in agObj /\ r \in list[owner[r][p]]) \/ <<r, owner[r][p]>> \in forsaken
      BY <1>e, <1>5, <2>1 DEF NoLostJob, PointsBack
    <3>2. PICK a \in Agents : a = owner[r][p]
      BY <1>5, <2>1
    <3>3. (a \in agObj' /\ r \in list'[a]) \/ <<r, a>> \in forsaken'
      BY <1>l, <1>s, <1>5, <2>1, <3>1, <3>2 DEF ListsRespected
    <3> QED
      BY <2>1, <3>2, <3>3
  <2>2. CASE GivenTo(t, r, p)
    <3>1. /\ owner'[r][p] = AgentOf[t]
          /\ r \in list'[AgentOf[t]] \/ <<r, AgentOf[t]>> \in forsaken'
      BY <1>a, <1>5, <2>2 DEF GivenTo
    <3>2. AgentOf[t] \in agObj'
      BY <1>a, <1>l DEF CleanupInv, AliveHasObject
    <3> QED
      BY <3>1, <3>2
  <2> QED
    BY <1>s, <1>5, <2>1, <2>2 DEF OwnersRespected
<1>6. QueueMatchesStatus' /\ NoLostJob'
  BY <1>4, <1>5 DEF QueueMatchesStatus, NoLostJob, PointsBack
<1>7. ASSUME NEW b \in Agents PROVE NotReferenced(b)'
  <2> DEFINE q == SessionQueue[b]
  <2> SUFFICES ASSUME b \in Sessions, life[b] = "up", NEW r \in refs'[q],
                      rstate'[r] = "stored", owner'[r][q[1]] = b
               PROVE  \E u \in Threads : AgentOf[u] = b /\ Engaged(u, r)'
    BY <1>l DEF NotReferenced
  <2>1. q \in Queues /\ q[1] \in Pools
    BY QueueAssumption, PoolOf
  <2>2. r \in Requests
    BY <2>1 DEF RegisterInv, TypeOK
  <2>o. NotReferenced(b)
    BY DEF LostInv
  <2> HIDE DEF q
  <2>3. ASSUME r \in refs[q], rstate[r] = "stored", owner[r][q[1]] = b,
               b = AgentOf[t] => ~ Engaged(t, r)
        PROVE  \E u \in Threads : AgentOf[u] = b /\ Engaged(u, r)'
    <3>1. PICK u \in Threads : AgentOf[u] = b /\ Engaged(u, r)
      BY <2>o, <2>3 DEF NotReferenced, q
    <3>2. u # t
      BY <2>3, <3>1
    <3>3. Engaged(u, r)'
      BY <1>l, <3>1, <3>2 DEF Engaged
    <3> QED
      BY <3>1, <3>3
  <2>4. CASE b = AgentOf[t]
    <3>1. \/ Engaged(t, r)'
          \/ r \in refs[q] /\ rstate[r] = "stored" /\ owner[r][q[1]] = b /\ ~ Engaged(t, r)
      BY <1>s, <2>4 DEF QueueRespected, q
    <3> QED
      BY <2>3, <2>4, <3>1
  <2>5. CASE b # AgentOf[t]
    <3>1. JobsKept(b)
      BY <1>s, <2>5, OthersJobsKept
    <3>2. rstate[r] = "stored" /\ owner[r][q[1]] = b
      BY <2>1, <2>2, <3>1 DEF JobsKept
    <3>3. pc[t] \in HoldsAgent => victim[t] # b
      BY CollectorFacts
    <3>4. r \in refs[q]
      BY <1>s, <2>1, <2>5, <3>2, <3>3 DEF RefsRespected
    <3> QED
      BY <2>3, <2>5, <3>2, <3>4
  <2> QED
    BY <2>4, <2>5
\* A job that thread t takes in its hand is in that of no other thread.
<1>8. ASSUME NEW u \in Threads, Siblings(t, u), NEW r \in Claimed(t)', r \in Claimed(u),
             rstate'[r] = "stored"
      PROVE  FALSE
  <2>1. r \in Requests /\ rstate[r] = "stored"
    BY <1>8, <1>k
  <2>2. /\ r \notin Claimed(t) /\ r \notin held[AgentOf[u]]
    BY <1>8, <1>e, <2>1 DEF HandsApart
  <2>3. pc[t] = "popSwitch" /\ owner[r][cur[t][1]] = cur[t]
    BY <1>8, <1>s, <2>2 DEF HandsRespected, Siblings
  <2>4. cur[t] = SessionQueue[AgentOf[t]] /\ pc[t] \in HoldsQueue
    BY <2>3 DEF LostInv, ThreadSound, PopSound, HoldsQueue
  <2>5. /\ cur[u][1] = SessionQueue[AgentOf[u]][1]
        /\ \/ owner[r][cur[u][1]] = AgentOf[u]
           \/ pc[u] = "reqSwitch" /\ owner[r][cur[u][1]] = cur[u]
    BY <1>8, <2>1, ClaimedOwner
  <2>6. AgentOf[u] = AgentOf[t] /\ u # t
    BY <1>8 DEF Siblings
  <2>7. cur[t] # AgentOf[t]
    BY <1>a, <2>4
  <2>8. pc[u] = "reqSwitch" /\ cur[u] = cur[t]
    BY <2>3, <2>4, <2>5, <2>6, <2>7
  <2> QED
    BY <1>e, <2>4, <2>6, <2>8 DEF QueueLocks, HoldsQueue
<1>9. HandsApart'
  <2>1. ASSUME NEW x \in Threads, NEW y \in Threads, Siblings(x, y), NEW r \in Claimed(x)',
               r \in Claimed(y)', rstate'[r] = "stored"
        PROVE  FALSE
    <3>1. CASE x # t /\ y # t
      BY <1>c, <1>e, <1>k, <2>1, <3>1 DEF HandsApart
    <3>2. CASE x = t
      <4>1. y # t /\ Siblings(t, y)
        BY <2>1, <3>2 DEF Siblings
      <4>2. r \in Claimed(t)' /\ r \in Claimed(y)
        BY <1>c, <2>1, <3>2, <4>1
      <4> QED
        BY <1>8, <2>1, <4>1, <4>2
    <3>3. CASE y = t
      <4>1. x # t /\ Siblings(t, x)
        BY <2>1, <3>3 DEF Siblings
      <4>2. r \in Claimed(t)' /\ r \in Claimed(x)
        BY <1>c, <2>1, <3>3, <4>1
      <4> QED
        BY <1>8, <2>1, <4>1, <4>2
    <3> QED
      BY <3>1, <3>2, <3>3
  <2>2. ASSUME NEW u \in Threads, NEW r \in Claimed(u)', r \in held'[AgentOf[u]],
               rstate'[r] = "stored"
        PROVE  FALSE
    <3>1. CASE u = t
      BY <1>s, <2>2, <3>1 DEF HandsRespected
    <3>2. CASE u # t
      <4>1. r \in Claimed(u) /\ rstate[r] = "stored" /\ AgentOf[u] \in Agents
        BY <1>c, <1>k, <2>2, <3>2, RoleAssumption
      <4>2. CASE AgentOf[u] # AgentOf[t]
        BY <1>e, <1>s, <2>2, <4>1, <4>2 DEF LocalsKept, HandsApart
      <4>3. CASE AgentOf[u] = AgentOf[t]
        <5>1. r \in held[AgentOf[u]] \/ r \in Claimed(t)
          BY <1>s, <2>2, <4>3 DEF HandsRespected
        <5>2. Siblings(t, u)
          BY <3>2, <4>3 DEF Siblings
        <5> QED
          BY <1>e, <4>1, <5>1, <5>2 DEF HandsApart
      <4> QED
        BY <4>2, <4>3
    <3> QED
      BY <3>1, <3>2
  <2> QED
    BY <2>1, <2>2 DEF HandsApart, Siblings
<1>10. LeaveApart'
  <2> SUFFICES ASSUME NEW x \in Threads, NEW y \in Threads, Siblings(x, y), pc'[x] = "deref",
                      pc'[y] = "popSwitch", NEW r \in batch'[x], r \in batch'[y],
                      rstate'[r] = "stored"
               PROVE  <<r, AgentOf[x]>> \in forsaken'
    BY DEF LeaveApart, Siblings
  <2>1. CASE x # t /\ y # t
    <3>1. pc[x] = "deref" /\ pc[y] = "popSwitch" /\ r \in batch[x] /\ r \in batch[y]
      BY <1>l, <2>1
    <3>2. rstate[r] = "stored"
      BY <1>s, <3>1, KnownIsStored
    <3> QED
      BY <1>e, <1>l, <3>1, <3>2 DEF LeaveApart
  <2>2. CASE x = t
    BY <1>l, <1>s, <2>2 DEF LeavesRespected, Siblings
  <2>3. CASE y = t
    BY <1>l, <1>s, <2>3 DEF LeavesRespected, Siblings
  <2> QED
    BY <2>1, <2>2, <2>3
<1>11. HeldIsOwned'
  <2> SUFFICES ASSUME NEW b \in Sessions, NEW r \in held'[b], rstate'[r] = "stored"
               PROVE  owner'[r][SessionQueue[b][1]] = b
    BY DEF HeldIsOwned
  <2>1. b \in Agents /\ SessionQueue[b][1] \in Pools
    BY <1>a, QueueAssumption, PoolOf
  <2>2. ASSUME r \in held[b]
        PROVE  /\ r \in Requests /\ rstate[r] = "stored" /\ life[b] = "up"
               /\ owner[r][SessionQueue[b][1]] = b
    <3>1. r \in Requests /\ rstate[r] = "stored"
      BY <1>s, <2>1, <2>2, KnownIsStored, JobTypes
    <3> QED
      BY <1>e, <2>1, <2>2, <3>1 DEF HeldIsOwned, OwnershipInv, HeldByRunning
  <2>3. CASE b # AgentOf[t]
    <3>1. r \in held[b]
      BY <1>s, <2>1, <2>3 DEF LocalsKept
    <3>2. JobsKept(b)
      BY <1>s, <2>1, <2>2, <2>3, <3>1, OthersJobsKept
    <3> QED
      BY <2>1, <2>2, <3>1, <3>2 DEF JobsKept
  <2>4. CASE b = AgentOf[t]
    <3>1. r \in held[b] \/ owner'[r][SessionQueue[b][1]] = b
      BY <1>s, <2>4 DEF HandsRespected
    <3>2. CASE r \in held[b]
      BY <1>s, <2>1, <2>2, <2>4, <3>2, SiblingsJobsKept
    <3> QED
      BY <3>1, <3>2
  <2> QED
    BY <2>3, <2>4
<1> QED
  BY <1>1, <1>2, <1>3, <1>6, <1>7, <1>9, <1>10, <1>11 DEF LostInv

\* No job exists yet, and no thread relies on anything.
LEMMA LostInit == Init => LostInv
<1> SUFFICES ASSUME Init PROVE LostInv
  OBVIOUS
<1>1. \A t \in Threads : pc[t] = "idle" /\ failed[t] = {} /\ kept[t] = {} /\ batch[t] = {}
  BY DEF Init
<1>2. "idle" \notin Knowing /\ "idle" \notin HoldsQueue
  BY DEF Knowing, Owning, HoldsAgent, HoldsQueue
<1>3. \A r \in Requests : rstate[r] = "none"
  BY DEF Init
<1>4. \A r \in Requests, p \in Pools : owner[r][p] = NoOwner /\ type[r][p] = FirstType
  BY DEF Init
<1>5. NoOwner \notin Agents /\ NoOwner \notin Queues
  BY AddressAssumption
<1>6. \A q \in Queues : refs[q] = {}
  BY DEF Init
<1>7. ASSUME NEW t \in Threads PROVE ThreadSound(t)
  <2>1. IntentLogged(t) /\ PopSound(t) /\ RequeueSound(t) /\ DereferenceSound(t) /\ PlanSound(t)
    BY <1>1, <1>2 DEF IntentLogged, PopSound, RequeueSound, DereferenceSound, PlanSound
  <2> QED
    BY <2>1 DEF ThreadSound
<1>8. JobsOfRole
  BY <1>4, <1>5, RoleAssumption DEF JobsOfRole
<1>9. QueueLocks
  BY <1>1, <1>2 DEF QueueLocks
<1>10. QueueMatchesStatus /\ NoLostJob
  BY <1>3 DEF QueueMatchesStatus, NoLostJob, Stored
<1>11. \A a \in Agents : NotReferenced(a)
  BY <1>6, QueueAssumption DEF NotReferenced
<1>12. HandsApart /\ LeaveApart
  BY <1>1 DEF HandsApart, LeaveApart, Claimed
<1>13. HeldIsOwned
  BY RoleAssumption DEF Init, HeldIsOwned
<1> QED
  BY <1>7, <1>8, <1>9, <1>10, <1>11, <1>12, <1>13 DEF LostInv

\* What a step leaves alone it respects.
LEMMA Untouched ==
  ASSUME NEW t \in Threads
  PROVE  /\ UNCHANGED <<rstate, owner, type>> => OwnersRespected(t)
         /\ UNCHANGED refs => RefsRespected(t)
         /\ UNCHANGED <<list, agObj>> => ListsRespected(t)
         /\ pc'[t] \notin HoldsQueue => LocksRespected(t)
         /\ pc[t] \in HoldsQueue /\ cur'[t] = cur[t] => LocksRespected(t)
         /\ UNCHANGED held /\ pc'[t] \notin SessionSteps => HandsRespected(t)
         /\ pc'[t] \notin {"deref", "popSwitch"} => LeavesRespected(t)
<1>1. UNCHANGED <<rstate, owner, type>> => OwnersRespected(t)
  BY DEF OwnersRespected
<1>2. UNCHANGED refs => RefsRespected(t)
  BY DEF RefsRespected
<1>3. UNCHANGED <<list, agObj>> => ListsRespected(t)
  BY DEF ListsRespected
<1>4. UNCHANGED held /\ pc'[t] \notin SessionSteps => HandsRespected(t)
  <2>1. pc'[t] \notin SessionSteps => Claimed(t)' = {}
    BY DEF Claimed, SessionSteps
  <2> QED
    BY <2>1 DEF HandsRespected
<1>5. pc'[t] \notin {"deref", "popSwitch"} => LeavesRespected(t)
  BY DEF LeavesRespected
<1> QED
  BY <1>1, <1>2, <1>3, <1>4, <1>5 DEF LocksRespected

\* Frontends and collectors hold no jobs and have no queue of their own.
LEMMA NoSession ==
  ASSUME RegisterInv, RegisterInv', NEW t \in Threads, AgentOf[t] \notin Sessions,
         UNCHANGED held
  PROVE  HandsRespected(t) /\ LeavesRespected(t) /\ QueueRespected(t)
<1>1. pc'[t] \notin SessionSteps
  BY DEF RegisterInv, Roles
<1>2. \A u \in Threads : Siblings(t, u) => pc[u] # "popSwitch"
  BY DEF RegisterInv, Roles, SessionSteps, Siblings
<1>3. LeavesRespected(t)
  BY <1>1, <1>2 DEF LeavesRespected, SessionSteps
<1> QED
  BY <1>1, <1>3, Untouched DEF QueueRespected

\* A session that is not switching owners gets no job that its queue refers to.
LEMMA QueueKept ==
  ASSUME RegisterInv, NEW t \in Threads,
         pc[t] \notin {"popSwitch", "reqSwitch"},
         AgentOf[t] \in Sessions =>
           /\ refs'[SessionQueue[AgentOf[t]]] \subseteq refs[SessionQueue[AgentOf[t]]]
           /\ \A r \in Requests, p \in Pools :
                rstate'[r] = "stored" /\ owner'[r][p] = AgentOf[t] =>
                   rstate[r] = "stored" /\ owner[r][p] = AgentOf[t]
  PROVE  QueueRespected(t)
<1>1. AgentOf[t] \in Sessions =>
        SessionQueue[AgentOf[t]] \in Queues /\ SessionQueue[AgentOf[t]][1] \in Pools
  BY QueueAssumption, PoolOf
<1>2. AgentOf[t] \in Sessions => refs[SessionQueue[AgentOf[t]]] \subseteq Requests
  BY <1>1, JobTypes
<1> QED
  BY <1>1, <1>2 DEF QueueRespected, Engaged

\* A thread that goes on with its operation touches nothing that another one of its
\* process removes or pops.
LEMMA LeavesKept ==
  ASSUME RegisterInv, OwnershipInv, LostInv, NEW t \in Threads, OwnersRespected(t),
         pc'[t] = pc[t], batch'[t] = batch[t], forsaken \subseteq forsaken'
  PROVE  LeavesRespected(t)
<1> SUFFICES ASSUME NEW u \in Threads, Siblings(t, u), NEW r \in batch[t], r \in batch[u],
                    rstate'[r] = "stored",
                    \/ pc[t] = "deref" /\ pc[u] = "popSwitch"
                    \/ pc[t] = "popSwitch" /\ pc[u] = "deref"
             PROVE  <<r, AgentOf[t]>> \in forsaken
  BY DEF LeavesRespected
<1>1. rstate[r] = "stored"
  BY KnownIsStored
<1> QED
  BY <1>1 DEF LostInv, LeaveApart, Siblings, Stored

\* A thread that goes to a step of rest goes on soundly.
LEMMA RestingSound ==
  ASSUME NEW t \in Threads, pc'[t] \in Resting, kept'[t] = {}
  PROVE  ThreadSound(t)'
<1>1. pc'[t] \notin HoldsQueue /\ pc'[t] \notin Knowing
  BY DEF Resting, HoldsQueue, Knowing, Owning, HoldsAgent
<1>2. pc'[t] \notin {"insert", "popSwitch", "reqRef", "reqSwitch", "commitJob", "deref", "gcSwitch"}
  BY DEF Resting
<1>3. /\ IntentLogged(t)' /\ PopSound(t)' /\ RequeueSound(t)' /\ DereferenceSound(t)'
      /\ PlanSound(t)'
  BY <1>1, <1>2 DEF IntentLogged, PopSound, RequeueSound, DereferenceSound, PlanSound
<1> QED
  BY <1>3 DEF ThreadSound

\* Starts, crashes and exits keep the invariant about lost jobs.
LEMMA LifeLostInv ==
  ASSUME RegisterInv, OwnershipInv, CleanupInv, LostInv, LifeStep
  PROVE  LostInv'
<1> USE DEF local, store, counters
<1>e. /\ JobsOfRole /\ QueueLocks /\ QueueMatchesStatus /\ NoLostJob /\ HandsApart /\ LeaveApart
      /\ HeldIsOwned
      /\ \A t \in Threads : ThreadSound(t)
      /\ \A a \in Agents : NotReferenced(a)
  BY DEF LostInv
<1>q. \A a \in Agents : a \in Sessions =>
        /\ SessionQueue[a] \in Queues /\ SessionQueue[a][1] \in Pools
        /\ refs[SessionQueue[a]] \subseteq Requests
  BY QueueAssumption, PoolOf, JobTypes
\* A process that starts or stops owns what it owned.
<1>1. ASSUME NEW a \in Agents, UNCHANGED <<rstate, owner, type, refs, list, pc, cur, batch, todo,
                                            failed, kept, victim, plan, forsaken>>,
             \A b \in Agents : held'[b] \subseteq held[b],
             \A b \in Agents : b # a => life'[b] = life[b],
             life'[a] = "up" => life[a] = "starting",
             life'[a] \in {"new", "starting"} => life[a] \in {"new", "starting"},
             \A b \in Agents : b \in agObj \ agObj' => list[b] = {}
      PROVE  LostInv'
  <2>1. \A t \in Threads : ThreadSound(t)'
    BY <1>1, <1>e
    DEF ThreadSound, IntentLogged, PopSound, RequeueSound, DereferenceSound, PlanSound, Stored
  <2>2. ASSUME NEW b \in Agents PROVE NotReferenced(b)'
    <3>1. CASE b = a /\ life'[a] = "up" /\ a \in Sessions
      <4>1. \A r \in Requests, p \in Pools : owner[r][p] # a
        BY <1>1, <1>e, <3>1 DEF JobsOfRole
      <4> QED
        BY <1>1, <1>q, <3>1, <4>1 DEF NotReferenced, Stored
    <3>2. CASE b # a
      BY <1>1, <1>e, <3>2 DEF NotReferenced, Engaged, Stored
    <3> QED
      BY <1>1, <3>1, <3>2 DEF NotReferenced
  <2>3. NoLostJob'
    BY <1>1, <1>e, JobTypes DEF NoLostJob, PointsBack, Stored
  <2>4. QueueLocks' /\ QueueMatchesStatus'
    BY <1>1, <1>e DEF QueueLocks, QueueMatchesStatus, Stored
  <2>5. JobsOfRole'
    BY <1>1, <1>e DEF JobsOfRole
  <2>6. HandsApart' /\ LeaveApart'
    BY <1>1, <1>e, RoleAssumption DEF HandsApart, LeaveApart, Claimed, Siblings, Stored
  <2>7. HeldIsOwned'
    BY <1>1, <1>e, RoleAssumption DEF HeldIsOwned, Stored
  <2> QED
    BY <2>1, <2>2, <2>3, <2>4, <2>5, <2>6, <2>7 DEF LostInv
<1>2. ASSUME NEW a \in Agents, StartRegister(a) PROVE LostInv'
  BY <1>1, <1>2, JobTypes DEF StartRegister
<1>3. ASSUME NEW a \in Agents, StartInsert(a) PROVE LostInv'
  BY <1>1, <1>3, JobTypes DEF StartInsert
<1>4. ASSUME NEW a \in Agents, Crash(a) PROVE LostInv'
  <2>1. /\ UNCHANGED <<rstate, owner, type, refs, list, agObj, forsaken>>
        /\ life' = [life EXCEPT ![a] = "down"]
        /\ held' = [held EXCEPT ![a] = {}]
        /\ \A t \in Threads : AgentOf[t] = a => pc'[t] = "idle" /\ kept'[t] = {}
        /\ \A t \in Threads : AgentOf[t] # a =>
             /\ pc'[t] = pc[t] /\ cur'[t] = cur[t] /\ batch'[t] = batch[t] /\ todo'[t] = todo[t]
             /\ failed'[t] = failed[t] /\ kept'[t] = kept[t] /\ victim'[t] = victim[t]
             /\ plan'[t] = plan[t]
    BY <1>4 DEF Crash
  <2>l. \A b \in Agents : /\ b # a => life'[b] = life[b] /\ held'[b] = held[b]
                          /\ b = a => life'[b] = "down" /\ held'[b] = {}
    BY <2>1, JobTypes
  <2>2. ASSUME NEW t \in Threads PROVE ThreadSound(t)'
    <3>1. CASE AgentOf[t] = a
      BY <2>1, <3>1, RestingSound DEF Resting
    <3>2. CASE AgentOf[t] # a
      <4>2. ThreadSound(t)
        BY <1>e
      <4>3. IntentLogged(t)' /\ PopSound(t)' /\ RequeueSound(t)'
        BY <2>1, <3>2, <4>2 DEF ThreadSound, IntentLogged, PopSound, RequeueSound, Stored
      <4>4. DereferenceSound(t)'
        BY <2>1, <3>2, <4>2 DEF ThreadSound, DereferenceSound, Stored
      <4>5. PlanSound(t)'
        BY <2>1, <3>2, <4>2 DEF ThreadSound, PlanSound, Stored
      <4> QED
        BY <4>3, <4>4, <4>5 DEF ThreadSound
    <3> QED
      BY <3>1, <3>2
  <2>3. QueueMatchesStatus' /\ NoLostJob'
    BY <1>e, <2>1 DEF QueueMatchesStatus, NoLostJob, PointsBack, Stored
  <2>4. JobsOfRole'
    BY <1>e, <2>1, <2>l DEF JobsOfRole
  <2>5. QueueLocks'
    BY <1>e, <2>1 DEF QueueLocks, HoldsQueue
  <2>6. ASSUME NEW b \in Agents PROVE NotReferenced(b)'
    BY <1>e, <2>1, <2>l DEF NotReferenced, Engaged, Stored
  <2>7. \A t \in Threads : Claimed(t)' = IF AgentOf[t] = a THEN {} ELSE Claimed(t)
    BY <2>1 DEF Claimed
  <2>8. HandsApart'
    BY <1>e, <2>1, <2>l, <2>7, RoleAssumption DEF HandsApart, Siblings, Stored
  <2>9. LeaveApart'
    BY <1>e, <2>1 DEF LeaveApart, Siblings, Stored
  <2>10. HeldIsOwned'
    BY <1>e, <2>1, <2>l, RoleAssumption DEF HeldIsOwned, Stored
  <2> QED
    BY <2>2, <2>3, <2>4, <2>5, <2>6, <2>8, <2>9, <2>10 DEF LostInv
<1>5. ASSUME NEW a \in Agents, ExitLeavingObjects(a) PROVE LostInv'
  BY <1>1, <1>5, JobTypes DEF ExitLeavingObjects
<1>6. ASSUME NEW a \in Agents, ExitRemove(a) PROVE LostInv'
  BY <1>1, <1>6, JobTypes DEF ExitRemove
<1>7. ASSUME NEW a \in Agents, ExitUnregister(a) PROVE LostInv'
  BY <1>1, <1>7, JobTypes DEF ExitUnregister
<1> QED
  BY <1>2, <1>3, <1>4, <1>5, <1>6, <1>7 DEF LifeStep

\* What a thread relies on depends on the step it is at.
LEMMA NothingToRelyOn ==
  ASSUME NEW t \in Threads
  PROVE  /\ pc'[t] \notin HoldsQueue \cup {"insert"} => IntentLogged(t)'
         /\ pc'[t] # "popSwitch" /\ kept'[t] = {} => PopSound(t)'
         /\ pc'[t] \notin {"reqRef", "reqSwitch"} => RequeueSound(t)'
         /\ pc'[t] # "deref" => DereferenceSound(t)'
         /\ pc'[t] \notin Knowing => PlanSound(t)'
<1>1. {"popSwitch", "commitJob"} \subseteq HoldsQueue /\ "gcSwitch" \in Knowing
  BY Sections DEF HoldsQueue
<1> QED
  BY <1>1 DEF IntentLogged, PopSound, RequeueSound, DereferenceSound, PlanSound

\* A thread that is not switching owners has no results of switches.
LEMMA NoResults ==
  ASSUME OwnershipInv, LostInv, NEW t \in Threads,
         pc[t] \notin {"popSwitch", "reqSwitch", "gcSwitch"}
  PROVE  todo[t] = {} /\ failed[t] = {} /\ kept[t] = {}
  BY DEF OwnershipInv, SwitchResults, LostInv, ThreadSound, PopSound

\* The first steps of a frontend keep the invariant about lost jobs.
LEMMA FrontendLostInv ==
  ASSUME RegisterInv, RegisterInv', OwnershipInv, CleanupInv', LostInv,
         NEW t \in Threads, FrontendStep(t)
  PROVE  LostInv'
<1> USE DEF local, At, counters
<1>1. ASSUME NEW r \in Requests, QueueArchiveReference(t, r) PROVE LostInv'
  <2>1. /\ pc[t] = "idle" /\ life[AgentOf[t]] = "up" /\ AgentOf[t] \in Frontends
        /\ rstate[r] = "none" /\ rstate' = [rstate EXCEPT ![r] = "claimed"]
        /\ list' = [list EXCEPT ![AgentOf[t]] = @ \cup {r}]
        /\ batch'[t] = {r} /\ pc'[t] = "insert"
        /\ UNCHANGED <<owner, type, refs, agObj, life, held, todo, failed, kept>>
    BY <1>1, JobTypes DEF QueueArchiveReference, AddBatchToOwnership, GoTo
  <2>2. LocalsKept(t)
    BY <1>1, JobTypes DEF QueueArchiveReference, GoTo, LocalsKept
  <2>3. OwnersRespected(t)
    BY <2>1, JobTypes DEF OwnersRespected
  <2>4. ListsRespected(t)
    BY <2>1, AgentTypes DEF ListsRespected
  <2>5. pc'[t] \notin HoldsQueue /\ pc'[t] \notin Knowing
    BY <2>1 DEF HoldsQueue, Knowing, Owning, HoldsAgent
  <2>6. IntentLogged(t)'
    BY <2>1, <2>5, AgentTypes, RoleAssumption DEF IntentLogged
  <2>7. HandsRespected(t) /\ LeavesRespected(t) /\ QueueRespected(t)
    BY <2>1, NoSession, RoleAssumption
  <2>8. kept'[t] = {}
    BY <2>1, NoResults
  <2>9. ThreadSound(t)'
    BY <2>1, <2>5, <2>6, <2>8, NothingToRelyOn DEF ThreadSound
  <2> QED
    BY <2>1, <2>2, <2>3, <2>4, <2>5, <2>7, <2>9, Untouched, LostStep DEF StepRespects
<1>2. ASSUME NEW r \in Requests, CancelArchive(t, r) PROVE LostInv'
  <2>1. /\ pc[t] = "idle" /\ life[AgentOf[t]] = "up" /\ AgentOf[t] \in Frontends
        /\ rstate[r] = "stored" /\ rstate' = [rstate EXCEPT ![r] = "gone"]
        /\ owner' = [owner EXCEPT ![r] = [p \in Pools |-> NoOwner]]
        /\ UNCHANGED <<type, refs, list, agObj, life, held, local>>
    BY <1>2 DEF CancelArchive, Remove, Stored
  <2>2. LocalsKept(t)
    BY <1>2, <2>1 DEF CancelArchive, LocalsKept
  <2>3. OwnersRespected(t)
    BY <2>1, JobTypes DEF OwnersRespected
  <2>4. HandsRespected(t) /\ LeavesRespected(t) /\ QueueRespected(t)
    BY <2>1, NoSession, RoleAssumption
  <2>5. pc'[t] \in Resting /\ pc'[t] \notin HoldsQueue /\ kept'[t] = {}
    BY <2>1, NoResults DEF Resting, HoldsQueue
  <2> QED
    BY <2>1, <2>2, <2>3, <2>4, <2>5, RestingSound, Untouched, LostStep DEF StepRespects
<1> QED
  BY <1>1, <1>2 DEF FrontendStep

\* A step in the middle of switching owners that gives its session no job.
LEMMA SwitchKept ==
  ASSUME RegisterInv, OwnershipInv, LostInv, NEW t \in Threads, OwnersRespected(t),
         pc'[t] = pc[t], cur'[t] = cur[t], batch'[t] = batch[t], Claimed(t)' = Claimed(t),
         UNCHANGED <<rstate, refs, held>>, forsaken \subseteq forsaken',
         \A r \in Requests, p \in Pools :
            owner'[r][p] = AgentOf[t] => owner[r][p] = AgentOf[t]
  PROVE  HandsRespected(t) /\ LeavesRespected(t) /\ QueueRespected(t)
<1>1. LeavesRespected(t)
  BY LeavesKept
<1>2. HandsRespected(t)
  BY DEF HandsRespected, LostInv, HandsApart, Stored
<1>3. QueueRespected(t)
  <2> DEFINE a == AgentOf[t]
             q == SessionQueue[a]
  <2> SUFFICES ASSUME a \in Sessions, NEW r \in refs[q], rstate[r] = "stored",
                      owner'[r][q[1]] = a, ~ Engaged(t, r)'
               PROVE  owner[r][q[1]] = a /\ ~ Engaged(t, r)
    BY DEF QueueRespected
  <2>1. q \in Queues /\ q[1] \in Pools
    BY QueueAssumption, PoolOf
  <2>2. r \in Requests
    BY <2>1, JobTypes
  <2>3. ~ Engaged(t, r)
    BY DEF Engaged
  <2> QED
    BY <2>1, <2>2, <2>3
<1> QED
  BY <1>1, <1>2, <1>3

\* The first steps of a session keep the invariant about lost jobs.
LEMMA SessionLostInv ==
  ASSUME RegisterInv, RegisterInv', OwnershipInv, CleanupInv', LostInv,
         NEW t \in Threads, SessionStep(t)
  PROVE  LostInv'
<1> USE DEF local, store, At, counters
<1> DEFINE a == AgentOf[t]
           q == SessionQueue[a]
<1>a. a \in Agents /\ (a \in Sessions => q \in Queues /\ q[1] \in Pools)
  BY RoleAssumption, QueueAssumption, PoolOf
<1>h. HandsApart /\ HeldIsOwned
  BY DEF LostInv
\* A session that gives up a job it holds keeps the others.
<1>k. ASSUME NEW r, held' = [held EXCEPT ![a] = @ \ {r}], pc'[t] \notin SessionSteps
      PROVE  HandsRespected(t)
  <2>1. held'[a] \subseteq held[a]
    BY <1>a, <1>k, JobTypes
  <2>2. Claimed(t)' = {}
    BY <1>k DEF Claimed, SessionSteps
  <2> QED
    BY <2>1, <2>2 DEF HandsRespected
<1>1. ASSUME NEW S \in SUBSET Requests, PopReference(t, S) PROVE LostInv'
  <2>1. /\ pc[t] = "idle" /\ life[a] = "up" /\ a \in Sessions /\ ~ QueueLocked(q)
        /\ S \subseteq refs[q] /\ list' = [list EXCEPT ![a] = @ \cup S]
        /\ cur'[t] = q /\ batch'[t] = S /\ todo'[t] = S /\ pc'[t] = "popSwitch"
        /\ forsaken' = forsaken \cup ((S \cap AboutToLeave(t)) \X {a})
        /\ UNCHANGED <<rstate, owner, type, refs, agObj, life, held, failed, kept>>
    BY <1>1, JobTypes DEF PopReference, AddBatchToOwnership, GoTo
  <2>2. LocalsKept(t)
    BY <1>1, JobTypes DEF PopReference, GoTo, LocalsKept
  <2>3. ListsRespected(t)
    BY <2>1, AgentTypes DEF ListsRespected
  <2>4. LocksRespected(t)
    BY <2>1 DEF LocksRespected
  <2>5. failed'[t] = {} /\ kept'[t] = {}
    BY <2>1, NoResults
  <2>6. pc'[t] \notin Knowing
    BY <2>1 DEF Knowing, Owning, HoldsAgent
  <2>7. IntentLogged(t)'
    BY <1>a, <2>1, <2>5, AgentTypes DEF IntentLogged
  \* Whoever had a job in its hand and in the queue would have locked the queue.
  <2>8. \A r \in S : rstate[r] = "stored" => owner[r][q[1]] # a
    <3> SUFFICES ASSUME NEW r \in S, rstate[r] = "stored", owner[r][q[1]] = a PROVE FALSE
      OBVIOUS
    <3>1. NotReferenced(a)
      BY <1>a DEF LostInv
    <3>2. PICK u \in Threads : AgentOf[u] = a /\ Engaged(u, r)
      BY <2>1, <3>1 DEF NotReferenced, Stored
    <3> QED
      BY <2>1, <3>2 DEF Engaged, QueueLocked, HoldsQueue
  <2>9. PopSound(t)'
    BY <2>1, <2>5, <2>8 DEF PopSound, Stored
  <2>10. HandsRespected(t)
    <3>1. Claimed(t)' = {}
      BY <2>1 DEF Claimed
    <3> QED
      BY <2>1, <3>1 DEF HandsRespected
  <2>11. LeavesRespected(t)
    <3> SUFFICES ASSUME NEW u \in Threads, Siblings(t, u), NEW r \in S, r \in batch[u],
                        pc[u] = "deref"
                 PROVE  <<r, a>> \in forsaken'
      BY <2>1 DEF LeavesRespected
    <3>1. r \in AboutToLeave(t)
      BY DEF AboutToLeave, Siblings
    <3> QED
      BY <2>1, <3>1
  <2>12. QueueRespected(t)
    BY <2>1, QueueKept
  <2>13. ThreadSound(t)'
    BY <2>1, <2>6, <2>7, <2>9, NothingToRelyOn DEF ThreadSound
  <2> QED
    BY <2>1, <2>2, <2>3, <2>4, <2>10, <2>11, <2>12, <2>13, Untouched, LostStep DEF StepRespects
<1>2. ASSUME NEW r \in Requests, NEW ty \in Types, UpdateStatus(t, r, ty) PROVE LostInv'
  <2>1. /\ pc[t] = "idle" /\ life[a] = "up" /\ a \in Sessions /\ r \in held[a]
        /\ rstate[r] = "stored" /\ type' = [type EXCEPT ![r][q[1]] = ty]
        /\ held' = [held EXCEPT ![a] = @ \ {r}]
        /\ cur'[t] = <<q[1], ty>> /\ batch'[t] = {r} /\ pc'[t] = "reqRef"
        /\ UNCHANGED <<rstate, owner, refs, list, agObj, life, todo, failed, kept>>
    BY <1>2, JobTypes DEF UpdateStatus, SetJobStatus, Stored, GoTo
  <2>2. LocalsKept(t)
    BY <1>2, JobTypes DEF UpdateStatus, GoTo, LocalsKept
  <2>3. owner[r][q[1]] = a
    BY <1>h, <2>1 DEF HeldIsOwned, Stored
  <2>4. /\ type'[r][q[1]] = ty
        /\ \A x \in Requests, y \in Pools : x # r \/ y # q[1] => type'[x][y] = type[x][y]
    BY <1>a, <2>1 DEF RegisterInv, TypeOK
  <2>h. held'[a] = held[a] \ {r}
    BY <1>a, <2>1, JobTypes
  <2>5. OwnersRespected(t)
    BY <2>1, <2>3, <2>4, <2>h DEF OwnersRespected, Handles
  <2>6. kept'[t] = {}
    BY <2>1, NoResults
  <2>7. pc'[t] \notin HoldsQueue /\ pc'[t] \notin Knowing
    BY <2>1 DEF HoldsQueue, Knowing, Owning, HoldsAgent
  <2>8. RequeueSound(t)'
    BY <2>1, <2>3, <2>4 DEF RequeueSound
  <2>9. HandsRespected(t)
    <3>1. Claimed(t)' = {r}
      BY <2>1 DEF Claimed
    <3> QED
      BY <2>1, <2>h, <3>1 DEF HandsRespected
  <2>10. QueueRespected(t)
    BY <2>1, QueueKept
  <2>11. ThreadSound(t)'
    BY <2>1, <2>6, <2>7, <2>8, NothingToRelyOn DEF ThreadSound
  <2> QED
    BY <2>1, <2>2, <2>5, <2>7, <2>9, <2>10, <2>11, Untouched, LostStep DEF StepRespects
<1>3. ASSUME NEW r \in Requests, CompleteJob(t, r) PROVE LostInv'
  <2>1. /\ pc[t] = "idle" /\ life[a] = "up" /\ a \in Sessions /\ r \in held[a]
        /\ rstate[r] = "stored" /\ owner' = [owner EXCEPT ![r][q[1]] = NoOwner]
        /\ held' = [held EXCEPT ![a] = @ \ {r}]
        /\ batch'[t] = {r} /\ pc'[t] = "deref"
        /\ UNCHANGED <<rstate, type, refs, list, agObj, life, todo, failed, kept>>
    BY <1>3, JobTypes DEF CompleteJob, Stored, GoTo
  <2>2. LocalsKept(t)
    BY <1>3, JobTypes DEF CompleteJob, GoTo, LocalsKept
  <2>3. owner[r][q[1]] = a
    BY <1>h, <2>1 DEF HeldIsOwned, Stored
  <2>4. \A x \in Requests, y \in Pools :
          owner'[x][y] = IF x = r /\ y = q[1] THEN NoOwner ELSE owner[x][y]
    BY <2>1, OneJobChanges, JobTypes
  <2>h. held'[a] = held[a] \ {r}
    BY <1>a, <2>1, JobTypes
  <2>5. OwnersRespected(t)
    BY <2>1, <2>3, <2>4, <2>h DEF OwnersRespected, MayTake, GivenTo, Handles
  <2>6. DereferenceSound(t)'
    <3>1. a # NoOwner
      BY <1>a, AddressAssumption
    <3>2. \A p \in Pools : owner[r][p] = a => p = q[1]
      BY <2>1 DEF LostInv, JobsOfRole
    <3> QED
      BY <2>1, <2>4, <3>1, <3>2 DEF DereferenceSound
  <2>7. kept'[t] = {} /\ pc'[t] \notin HoldsQueue /\ pc'[t] \notin Knowing
    BY <2>1, NoResults DEF HoldsQueue, Knowing, Owning, HoldsAgent
  <2>8. QueueRespected(t)
    <3>1. a # NoOwner
      BY <1>a, AddressAssumption
    <3> QED
      BY <2>1, <2>4, <3>1, QueueKept
  \* A thread that has popped the job would have it in its hand.
  <2>9. LeavesRespected(t)
    <3> SUFFICES ASSUME NEW u \in Threads, Siblings(t, u), r \in batch[u], pc[u] = "popSwitch"
                 PROVE  FALSE
      BY <2>1 DEF LeavesRespected
    <3>1. PopSound(u) /\ AgentOf[u] = a
      BY DEF LostInv, ThreadSound, Siblings
    <3>2. r \in Claimed(u)
      BY <2>1, <2>3, <3>1 DEF PopSound, Claimed, Stored
    <3> QED
      BY <1>h, <2>1, <3>1, <3>2 DEF HandsApart, Stored
  <2>10. HandsRespected(t)
    BY <1>k, <2>1 DEF SessionSteps
  <2>11. ThreadSound(t)'
    BY <2>1, <2>6, <2>7, NothingToRelyOn DEF ThreadSound
  <2> QED
    BY <2>1, <2>2, <2>5, <2>7, <2>8, <2>9, <2>10, <2>11, Untouched, LostStep DEF StepRespects
<1>4. ASSUME NEW r \in Requests, DeleteReported(t, r) PROVE LostInv'
  <2>1. /\ pc[t] = "idle" /\ life[a] = "up" /\ a \in Sessions
        /\ rstate[r] = "stored" /\ rstate' = [rstate EXCEPT ![r] = "gone"]
        /\ owner' = [owner EXCEPT ![r] = [p \in Pools |-> NoOwner]]
        /\ held' = [held EXCEPT ![a] = @ \ {r}]
        /\ batch'[t] = {r} /\ pc'[t] = "deref"
        /\ UNCHANGED <<type, refs, list, agObj, life, todo, failed, kept>>
    BY <1>4, JobTypes DEF DeleteReported, Remove, Stored, GoTo
  <2>2. LocalsKept(t)
    BY <1>4, JobTypes DEF DeleteReported, GoTo, LocalsKept
  <2>3. \A x \in Requests, p \in Pools :
          /\ x = r => rstate'[x] = "gone" /\ owner'[x][p] = NoOwner
          /\ x # r => rstate'[x] = rstate[x] /\ owner'[x][p] = owner[x][p]
    BY <2>1, JobTypes
  <2>4. OwnersRespected(t)
    BY <2>1, <2>3, JobTypes DEF OwnersRespected
  <2>5. DereferenceSound(t)' /\ LeavesRespected(t)
    <3>1. rstate'[r] = "gone"
      BY <2>1, JobTypes
    <3> QED
      BY <2>1, <3>1 DEF DereferenceSound, LeavesRespected, Stored
  <2>6. kept'[t] = {} /\ pc'[t] \notin HoldsQueue /\ pc'[t] \notin Knowing
    BY <2>1, NoResults DEF HoldsQueue, Knowing, Owning, HoldsAgent
  <2>7. QueueRespected(t)
    BY <2>1, <2>3, QueueKept
  <2>8. HandsRespected(t)
    BY <1>k, <2>1 DEF SessionSteps
  <2>9. ThreadSound(t)'
    BY <2>1, <2>5, <2>6, NothingToRelyOn DEF ThreadSound
  <2> QED
    BY <2>1, <2>2, <2>4, <2>5, <2>6, <2>7, <2>8, <2>9, Untouched, LostStep DEF StepRespects
<1>5. ASSUME NEW r \in Requests, ForgetGone(t, r) PROVE LostInv'
  <2>1. /\ pc[t] = "idle" /\ life[a] = "up" /\ UNCHANGED <<store, life, local, forsaken>>
        /\ held' = [held EXCEPT ![a] = @ \ {r}]
    BY <1>5 DEF ForgetGone
  <2>2. LocalsKept(t)
    BY <2>1, JobTypes DEF LocalsKept
  <2>3. QueueRespected(t)
    BY <2>1, QueueKept
  <2>4. pc'[t] \in Resting /\ pc'[t] \notin HoldsQueue /\ kept'[t] = {}
    BY <2>1, NoResults DEF Resting, HoldsQueue
  <2>5. HandsRespected(t) /\ LeavesRespected(t)
    BY <1>k, <2>1, Untouched DEF SessionSteps
  <2> QED
    BY <2>1, <2>2, <2>3, <2>4, <2>5, RestingSound, Untouched, LostStep DEF StepRespects
<1> QED
  BY <1>1, <1>2, <1>3, <1>4, <1>5 DEF SessionStep

\* An ownership switch that ends with an error keeps the invariant about lost jobs.
LEMMA ErrorLostInv ==
  ASSUME RegisterInv, RegisterInv', OwnershipInv, CleanupInv', LostInv,
         NEW t \in Threads, ErrorStep(t)
  PROVE  LostInv'
<1> USE DEF store, At, counters
<1> DEFINE a == AgentOf[t]
           q == cur[t]
           p == cur[t][1]
<1>e. /\ todo[t] \subseteq batch[t] /\ batch[t] \subseteq Requests
      /\ IntentLogged(t) /\ PopSound(t) /\ RequeueSound(t)
  BY JobTypes DEF OwnershipInv, SwitchResults, LostInv, ThreadSound
<1>1. ASSUME NEW r \in Requests, PopSwitchError(t, r) PROVE LostInv'
  <2>1. /\ pc[t] = "popSwitch" /\ life[AgentOf[t]] = "up" /\ r \in todo[t]
        /\ todo'[t] = todo[t] \ {r} /\ failed'[t] = failed[t] \cup {r}
        /\ kept'[t] = kept[t] \cup {r}
        /\ UNCHANGED <<rstate, owner, type, refs, list, agObj, life, held, pc, cur, batch,
                       forsaken>>
    BY <1>1, JobTypes DEF PopSwitchError, RegisterInv, TypeOK
  <2>2. LocalsKept(t)
    BY <1>1 DEF PopSwitchError, LocalsKept, RegisterInv, TypeOK
  <2>3. pc[t] \in HoldsQueue /\ pc'[t] \notin Knowing
    BY <2>1 DEF HoldsQueue, Knowing, Owning, HoldsAgent
  <2>4. IntentLogged(t)'
    BY <1>e, <2>1, <2>3 DEF IntentLogged, Stored
  <2>5. PopSound(t)'
    BY <1>e, <2>1 DEF PopSound, Stored
  <2>6. HandsRespected(t) /\ LeavesRespected(t) /\ QueueRespected(t)
    <3>1. Claimed(t)' = Claimed(t)
      BY <2>1 DEF Claimed
    <3>2. OwnersRespected(t)
      BY <2>1, Untouched
    <3> QED
      BY <2>1, <3>1, <3>2, SwitchKept
  <2>7. ThreadSound(t)'
    BY <2>1, <2>3, <2>4, <2>5, NothingToRelyOn DEF ThreadSound
  <2> QED
    BY <2>1, <2>2, <2>3, <2>6, <2>7, Untouched, LostStep DEF StepRespects
<1>2. ASSUME NEW r \in Requests, RequeueSwitchError(t, r) PROVE LostInv'
  <2>1. /\ pc[t] = "reqSwitch" /\ life[a] = "up" /\ r \in todo[t]
        /\ todo'[t] = todo[t] \ {r} /\ failed'[t] = failed[t] \cup {r}
        /\ \/ owner' = owner /\ forsaken' = forsaken
           \/ /\ rstate[r] = "stored"
              /\ owner' = [owner EXCEPT ![r][p] = q] /\ forsaken' = forsaken \cup {<<r, q>>}
        /\ UNCHANGED <<rstate, type, refs, list, agObj, life, held, pc, cur, batch, kept>>
    BY <1>2, JobTypes DEF RequeueSwitchError, CanSwitch, Stored
  <2>2. LocalsKept(t)
    BY <1>2, JobTypes DEF RequeueSwitchError, LocalsKept
  <2>3. pc[t] \in HoldsQueue /\ pc'[t] \notin Knowing
    BY <2>1 DEF HoldsQueue, Knowing, Owning, HoldsAgent
  <2>4. q \in Queues /\ p \in Pools /\ q = <<p, q[2]>> /\ q # a
    BY <2>3, JobTypes, RoleAssumption, AddressAssumption DEF Queues
  <2>5. /\ r \in batch[t] /\ r \in refs[q] /\ r \notin failed[t]
        /\ rstate[r] = "stored" => owner[r][p] = a /\ type[r][p] = q[2]
    BY <1>e, <2>1, <2>3 DEF IntentLogged, RequeueSound, Stored
  <2>6. /\ forsaken \subseteq forsaken'
        /\ owner' = owner \/ (owner'[r][p] = q /\ <<r, q>> \in forsaken' /\ rstate[r] = "stored")
    BY <2>1, <2>4, JobTypes
  <2>7. \A x \in Requests, y \in Pools : owner'[x][y] = owner[x][y] \/ (x = r /\ y = p)
    BY <2>1, OneJobChanges, JobTypes
  <2>8. OwnersRespected(t)
    <3>1. CASE owner' = owner
      BY <2>1, <3>1, Untouched
    <3>2. CASE owner'[r][p] = q /\ rstate[r] = "stored"
      <4>1. Handles(t, r)
        BY <2>1, <2>5 DEF Handles, Claimed
      <4>2. MayTake(t, r, p)
        BY <2>5, <3>2, <4>1 DEF MayTake
      <4>3. GivenTo(t, r, p)
        BY <2>1, <2>3, <2>4, <2>5, <3>2 DEF GivenTo
      <4> HIDE DEF p, q, a
      <4> QED
        BY <2>1, <2>7, <3>2, <4>2, <4>3 DEF OwnersRespected
    <3> QED
      BY <2>6, <3>1, <3>2
  <2>9. IntentLogged(t)'
    BY <1>e, <2>1, <2>3 DEF IntentLogged
  <2>10. RequeueSound(t)'
    <3>1. ASSUME NEW x \in batch[t], rstate[x] = "stored"
          PROVE  /\ x \in todo'[t] => owner'[x][p] = a /\ type[x][p] = q[2]
                 /\ x \notin todo'[t] /\ x \in failed'[t] =>
                      owner'[x][p] = a \/ (owner'[x][p] = q /\ <<x, q>> \in forsaken')
                 /\ x \notin todo'[t] /\ x \notin failed'[t] => owner'[x][p] = q
      <4>1. CASE x = r
        BY <2>1, <2>5, <2>6, <3>1, <4>1
      <4>2. CASE x # r
        <5>1. /\ (x \in todo'[t]) = (x \in todo[t]) /\ (x \in failed'[t]) = (x \in failed[t])
              /\ owner'[x][p] = owner[x][p]
          BY <1>e, <2>1, <2>4, <2>7, <3>1, <4>2
        <5>2. /\ x \in todo[t] => owner[x][p] = a /\ type[x][p] = q[2]
              /\ x \notin todo[t] /\ x \in failed[t] =>
                   owner[x][p] = a \/ (owner[x][p] = q /\ <<x, q>> \in forsaken)
              /\ x \notin todo[t] /\ x \notin failed[t] => owner[x][p] = q
          BY <1>e, <2>1, <3>1 DEF RequeueSound, Stored
        <5> QED
          BY <2>6, <5>1, <5>2
      <4> QED
        BY <4>1, <4>2
    <3> QED
      BY <1>e, <2>1, <3>1 DEF RequeueSound, Stored
  <2>11. HandsRespected(t) /\ LeavesRespected(t) /\ QueueRespected(t)
    <3>1. Claimed(t)' = Claimed(t)
      BY <2>1 DEF Claimed
    <3>2. \A x \in Requests, y \in Pools : owner'[x][y] = a => owner[x][y] = a
      BY <2>4, <2>6, <2>7
    <3> QED
      BY <2>1, <2>6, <2>8, <3>1, <3>2, SwitchKept
  <2>12. kept'[t] = {}
    BY <1>e, <2>1 DEF PopSound
  <2>13. ThreadSound(t)'
    BY <2>1, <2>3, <2>9, <2>10, <2>12, NothingToRelyOn DEF ThreadSound
  <2> QED
    BY <2>1, <2>2, <2>3, <2>8, <2>11, <2>13, Untouched, LostStep DEF StepRespects
<1> QED
  BY <1>1, <1>2 DEF ErrorStep

\* The steps with which a frontend enqueues the jobs of a new request.
EnqueueStep(t) ==
    \E r \in Requests :
        \/ QueueArchiveInsert(t, r)
        \/ BottomHalfLock(t, r)
        \/ \E p \in Pools : BottomHalfReference(t, r, p)
        \/ BottomHalfCommit(t, r)

\* Inserting and enqueueing a request keeps the invariant about lost jobs.
LEMMA EnqueueLostInv ==
  ASSUME RegisterInv, RegisterInv', OwnershipInv, CleanupInv', LostInv,
         NEW t \in Threads, EnqueueStep(t)
  PROVE  LostInv'
<1> USE DEF store, At, counters
<1> DEFINE a == AgentOf[t]
<1>a. a \in Agents /\ a # NoOwner
  BY RoleAssumption, AddressAssumption
<1>e. IntentLogged(t) /\ JobsOfRole
  BY DEF LostInv, ThreadSound
<1>f. pc[t] \in FrontendSteps => a \in Frontends /\ a \notin Sessions /\ life[a] = "up"
  BY RoleAssumption DEF RegisterInv, Roles, FrontendSteps
<1>s. pc[t] \in FrontendSteps => \A r, s \in batch[t] : r = s
  BY DEF OwnershipInv, InsertOnce
<1>1. ASSUME NEW r \in Requests, QueueArchiveInsert(t, r) PROVE LostInv'
  <2>1. /\ pc[t] = "insert" /\ r \in batch[t] /\ rstate' = [rstate EXCEPT ![r] = "stored"]
        /\ owner' = [owner EXCEPT ![r] = [p \in Pools |-> IF p \in Copies[r] THEN a ELSE NoOwner]]
        /\ pc'[t] = "bottomHalf"
        /\ UNCHANGED <<type, refs, list, agObj, life, held, kept>>
    BY <1>1, JobTypes DEF QueueArchiveInsert, GoTo
  <2>2. LocalsKept(t)
    BY <1>1, JobTypes DEF QueueArchiveInsert, GoTo, LocalsKept
  <2>3. a \in Frontends /\ a \notin Sessions /\ life[a] = "up"
    BY <1>f, <2>1 DEF FrontendSteps
  <2>4. rstate[r] = "claimed" /\ r \in list[a]
    BY <1>e, <2>1 DEF OwnershipInv, InsertOnce, IntentLogged
  <2>5. \A x \in Requests, p \in Pools :
          /\ x = r => /\ rstate'[x] = "stored"
                      /\ owner'[x][p] = IF p \in Copies[r] THEN a ELSE NoOwner
          /\ x # r => rstate'[x] = rstate[x] /\ owner'[x][p] = owner[x][p]
    BY <2>1, JobTypes
  <2>6. \A p \in Pools : type[r][p] = FirstType
    BY <1>e, <2>4 DEF JobsOfRole
  <2>7. OwnersRespected(t)
    <3>1. \A p \in Pools : MayTake(t, r, p) /\ GivenTo(t, r, p)
      BY <2>1, <2>3, <2>4, <2>5, <2>6 DEF MayTake, GivenTo
    <3>2. \A x \in Requests : (x = r => rstate'[x] = "stored") /\ (x # r => rstate'[x] = rstate[x])
      BY <2>1, JobTypes
    <3> QED
      BY <2>1, <2>4, <2>5, <3>1, <3>2 DEF OwnersRespected
  <2>8. HandsRespected(t) /\ LeavesRespected(t) /\ QueueRespected(t)
    BY <2>1, <2>3, NoSession
  <2>9. pc'[t] \in Resting /\ pc'[t] \notin HoldsQueue /\ kept'[t] = {}
    BY <2>1, NoResults DEF Resting, HoldsQueue
  <2> QED
    BY <2>1, <2>2, <2>3, <2>7, <2>8, <2>9, RestingSound, Untouched, LostStep DEF StepRespects
<1>2. ASSUME NEW r \in Requests, BottomHalfLock(t, r) PROVE LostInv'
  <2>1. /\ pc[t] = "bottomHalf" /\ pc'[t] \in {"enqueue", "ended"}
        /\ UNCHANGED <<store, life, held, kept>>
    BY <1>2, JobTypes DEF BottomHalfLock, GoTo
  <2>2. LocalsKept(t)
    BY <1>2, JobTypes DEF BottomHalfLock, GoTo, LocalsKept
  <2>3. a \notin Sessions /\ life[a] = "up"
    BY <1>f, <2>1 DEF FrontendSteps
  <2>4. HandsRespected(t) /\ LeavesRespected(t) /\ QueueRespected(t)
    BY <2>1, <2>3, NoSession
  <2>5. pc'[t] \in Resting /\ pc'[t] \notin HoldsQueue /\ kept'[t] = {}
    BY <2>1, NoResults DEF Resting, HoldsQueue
  <2> QED
    BY <2>1, <2>2, <2>3, <2>4, <2>5, RestingSound, Untouched, LostStep DEF StepRespects
<1>3. ASSUME NEW r \in Requests, NEW p \in Pools, BottomHalfReference(t, r, p) PROVE LostInv'
  <2> DEFINE q == <<p, FirstType>>
  <2>q. q \in Queues /\ q[1] = p /\ q[2] = FirstType
    BY QueueAssumption DEF Queues
  <2>1. /\ pc[t] = "enqueue" /\ r \in batch[t] /\ owner[r][p] = a /\ ~ QueueLocked(q)
        /\ refs' = [refs EXCEPT ![q] = @ \cup {r}] /\ cur'[t] = q /\ pc'[t] = "commitJob"
        /\ UNCHANGED <<rstate, owner, type, list, agObj, life, held, batch, todo, failed, kept>>
    BY <1>3, JobTypes DEF BottomHalfReference, NextCopy, GoTo
  <2>2. LocalsKept(t)
    BY <1>3, JobTypes DEF BottomHalfReference, GoTo, LocalsKept
  <2> HIDE DEF q
  <2>3. a \notin Sessions /\ life[a] = "up" /\ \A s \in batch[t] : s = r
    BY <1>f, <1>s, <2>1 DEF FrontendSteps
  <2>4. \A x \in Queues : refs'[x] = IF x = q THEN refs[x] \cup {r} ELSE refs[x]
    BY <2>1, JobTypes
  <2>5. RefsRespected(t)
    BY <2>q, <2>1, <2>3, <2>4 DEF RefsRespected, QueueLocked
  <2>6. LocksRespected(t)
    BY <2>1 DEF LocksRespected
  <2>7. todo'[t] = {} /\ kept'[t] = {} /\ pc'[t] \notin Knowing
    BY <2>1, NoResults DEF Knowing, Owning, HoldsAgent
  <2>8. IntentLogged(t)'
    BY <2>q, <2>1, <2>3, <2>4, <2>7 DEF IntentLogged
  <2>9. HandsRespected(t) /\ LeavesRespected(t) /\ QueueRespected(t)
    BY <2>1, <2>3, NoSession
  <2>10. ThreadSound(t)'
    BY <2>1, <2>7, <2>8, NothingToRelyOn DEF ThreadSound
  <2> QED
    BY <2>1, <2>2, <2>3, <2>5, <2>6, <2>9, <2>10, Untouched, LostStep DEF StepRespects
<1>4. ASSUME NEW r \in Requests, BottomHalfCommit(t, r) PROVE LostInv'
  <2> DEFINE p == cur[t][1]
  <2>1. /\ pc[t] = "commitJob" /\ r \in batch[t] /\ owner' = [owner EXCEPT ![r][p] = cur[t]]
        /\ pc'[t] = IF \E p2 \in Copies[r] \ {p} : owner[r][p2] = a THEN "enqueue" ELSE "deref"
        /\ UNCHANGED <<rstate, type, refs, list, agObj, life, held, batch, kept>>
    BY <1>4, JobTypes DEF BottomHalfCommit, GoTo
  <2>2. LocalsKept(t)
    BY <1>4, JobTypes DEF BottomHalfCommit, GoTo, LocalsKept
  <2>3. a \in Frontends /\ a \notin Sessions /\ life[a] = "up" /\ \A s \in batch[t] : s = r
    BY <1>f, <1>s, <2>1 DEF FrontendSteps
  <2>4. pc[t] \in HoldsQueue /\ pc[t] \in HoldsRequest
    BY <2>1 DEF HoldsQueue, HoldsRequest
  <2>5. cur[t] \in Queues /\ p \in Pools /\ cur[t] = <<p, cur[t][2]>> /\ cur[t] # a
    BY <1>a, <2>4, JobTypes, AddressAssumption DEF Queues
  <2>6. rstate[r] = "stored" /\ owner[r][p] = a
    BY <2>1, <2>4 DEF OwnershipInv, RequestLockHeld
  <2>7. cur[t] = <<p, type[r][p]>> /\ r \in refs[cur[t]]
    BY <1>e, <2>1, <2>3, <2>4, <2>5, <2>6 DEF JobsOfRole, IntentLogged
  <2>8. \A x \in Requests, y \in Pools :
          owner'[x][y] = IF x = r /\ y = p THEN cur[t] ELSE owner[x][y]
    BY <2>1, OneJobChanges, JobTypes
  <2>9. OwnersRespected(t)
    <3> HIDE DEF p
    <3>1. MayTake(t, r, p)
      BY <2>3, <2>6 DEF MayTake, Handles
    <3>2. GivenTo(t, r, p)
      BY <2>1, <2>4, <2>5, <2>7, <2>8 DEF GivenTo
    <3> QED
      BY <2>1, <2>6, <2>8, <3>1, <3>2 DEF OwnersRespected
  <2>10. pc'[t] \notin HoldsQueue /\ pc'[t] \notin Knowing /\ kept'[t] = {}
    BY <2>1, NoResults DEF HoldsQueue, Knowing, Owning, HoldsAgent
  <2>11. DereferenceSound(t)'
    <3>1. ASSUME pc'[t] = "deref", NEW p2 \in Pools PROVE owner'[r][p2] # a
      <4>1. CASE p2 = p
        BY <2>5, <2>8, <4>1
      <4>2. CASE p2 # p
        BY <1>e, <2>1, <2>3, <2>8, <3>1, <4>2 DEF JobsOfRole
      <4> QED
        BY <4>1, <4>2
    <3> QED
      BY <2>1, <2>3, <3>1 DEF DereferenceSound
  <2>12. HandsRespected(t) /\ LeavesRespected(t) /\ QueueRespected(t)
    BY <2>1, <2>3, NoSession
  <2>13. ThreadSound(t)'
    BY <2>1, <2>10, <2>11, NothingToRelyOn DEF ThreadSound
  <2> QED
    BY <2>1, <2>2, <2>3, <2>9, <2>10, <2>12, <2>13, Untouched, LostStep DEF StepRespects
<1> QED
  BY <1>1, <1>2, <1>3, <1>4 DEF EnqueueStep

\* The steps of popNextBatch() and referenceAndSwitchOwnership(), and the one that
\* ends every operation.
SwitchStep(t) ==
    \/ \E r \in Requests : PopSwitch(t, r) \/ RequeueSwitch(t, r)
    \/ Dereference(t)
    \/ PopCommit(t)
    \/ RequeueReference(t)
    \/ RequeueCommit(t)

\* Popping and requeueing jobs keeps the invariant about lost jobs.
LEMMA SwitchLostInv ==
  ASSUME RegisterInv, RegisterInv', OwnershipInv, CleanupInv', LostInv,
         NEW t \in Threads, SwitchStep(t)
  PROVE  LostInv'
<1> USE DEF At, counters
<1> DEFINE a == AgentOf[t]
           q == cur[t]
           p == cur[t][1]
           sq == SessionQueue[a]
<1>a. a \in Agents /\ a # NoOwner
  BY RoleAssumption, AddressAssumption
<1>e. /\ IntentLogged(t) /\ PopSound(t) /\ RequeueSound(t) /\ DereferenceSound(t)
      /\ JobsOfRole /\ HandsApart /\ HeldIsOwned /\ NotReferenced(a)
  BY <1>a DEF LostInv, ThreadSound
<1>b. todo[t] \subseteq batch[t] /\ failed[t] \subseteq batch[t] /\ batch[t] \subseteq Requests
  BY JobTypes DEF OwnershipInv, SwitchResults
<1>s. pc[t] \in SessionSteps =>
        /\ a \in Sessions /\ a \notin Frontends /\ life[a] = "up"
        /\ q \in Queues /\ p \in Pools /\ q = <<p, q[2]>> /\ q # a
        /\ sq \in Queues /\ sq[1] \in Pools /\ refs[sq] \subseteq Requests
  <2>1. pc[t] \in SessionSteps => q \in Queues /\ p \in Pools /\ q = <<p, q[2]>>
    BY JobTypes DEF SessionSteps, HoldsQueue, Queues
  <2>2. pc[t] \in SessionSteps => a \in Sessions /\ life[a] = "up"
    BY DEF RegisterInv, Roles, SessionSteps
  <2>3. a \in Sessions => sq \in Queues /\ sq[1] \in Pools
    BY QueueAssumption, PoolOf
  <2> QED
    BY <1>a, <2>1, <2>2, <2>3, RoleAssumption, AddressAssumption, JobTypes
<1>j. a \in Sessions => \A r \in Requests, y \in Pools : owner[r][y] = a => y = sq[1]
  BY <1>e DEF JobsOfRole
<1>o. pc[t] \in HoldsQueue => \A u \in Threads : u # t /\ pc[u] \in HoldsQueue => cur[u] # q
  BY DEF LostInv, QueueLocks
\* Another thread of the process that pops works on the queue of the session.
<1>u. ASSUME NEW u \in Threads, Siblings(t, u), pc[u] = "popSwitch"
      PROVE  /\ AgentOf[u] = a /\ u # t /\ cur[u] = sq /\ pc[u] \in HoldsQueue
             /\ batch[u] \subseteq refs[sq]
  BY <1>u DEF LostInv, ThreadSound, PopSound, IntentLogged, Siblings, HoldsQueue
<1> HIDE DEF a, q, p, sq
<1>1. ASSUME NEW r \in Requests, PopSwitch(t, r) PROVE LostInv'
  <2>1. /\ pc[t] = "popSwitch" /\ r \in todo[t] /\ todo'[t] = todo[t] \ {r}
        /\ \/ /\ rstate[r] = "stored" /\ owner[r][p] \in {q, a}
              /\ owner' = [owner EXCEPT ![r][p] = a] /\ failed'[t] = failed[t]
           \/ /\ rstate[r] = "stored" => owner[r][p] \notin {q, a}
              /\ owner' = owner /\ failed'[t] = failed[t] \cup {r}
        /\ UNCHANGED <<rstate, type, refs, list, agObj, life, held, pc, cur, batch, kept, forsaken>>
    BY <1>1, JobTypes DEF PopSwitch, CanSwitch, Stored, a, q, p
  <2>2. LocalsKept(t)
    BY <1>1, JobTypes DEF PopSwitch, LocalsKept
  <2>3. /\ a \in Sessions /\ a \notin Frontends /\ life[a] = "up"
        /\ q \in Queues /\ p \in Pools /\ q # a
    BY <1>s, <2>1 DEF SessionSteps
  <2>4. pc[t] \in HoldsQueue /\ pc'[t] \notin Knowing
    BY <2>1 DEF HoldsQueue, Knowing, Owning, HoldsAgent
  <2>5. /\ r \in batch[t] /\ r \in refs[q] /\ r \notin failed[t] /\ r \notin kept[t]
        /\ rstate[r] = "stored" => r \in list[a] \/ <<r, a>> \in forsaken
    BY <1>b, <1>e, <2>1, <2>4 DEF IntentLogged, PopSound, Stored, q, a
  <2>6. q = sq /\ p = sq[1]
    BY <1>e, <2>1 DEF PopSound, q, a, p, sq
  <2>7. rstate[r] = "stored" => owner[r][p] # a
    BY <1>e, <2>1, <2>5 DEF PopSound, Stored, p, a
  <2>8. \A x \in Requests, y \in Pools : owner'[x][y] = owner[x][y] \/ (x = r /\ y = p)
    BY <2>1, OneJobChanges, JobTypes
  <2>9. failed'[t] = failed[t] => rstate[r] = "stored" /\ owner[r][p] = q /\ owner'[r][p] = a
    BY <2>1, <2>3, <2>5, <2>7, JobTypes
  <2>10. failed'[t] # failed[t] =>
           /\ owner' = owner /\ (rstate[r] = "stored" => owner[r][p] \notin {q, a})
           /\ failed'[t] = failed[t] \cup {r}
    BY <2>1
  <2>11. OwnersRespected(t)
    <3>1. CASE failed'[t] = failed[t]
      <4>1. MayTake(t, r, p)
        BY <2>4, <2>9, <3>1 DEF MayTake, q
      <4>2. GivenTo(t, r, p)
        BY <2>1, <2>3, <2>5, <2>6, <2>9, <3>1 DEF GivenTo, a, sq
      <4> QED
        BY <2>1, <2>8, <2>9, <3>1, <4>1, <4>2 DEF OwnersRespected
    <3>2. CASE failed'[t] # failed[t]
      BY <2>1, <2>10, <3>2, Untouched
    <3> QED
      BY <3>1, <3>2
  <2>12. IntentLogged(t)'
    BY <1>e, <2>1, <2>5 DEF IntentLogged, Stored
  <2>13. PopSound(t)'
    <3>1. ASSUME NEW x \in batch[t], rstate[x] = "stored"
          PROVE  /\ x \in todo'[t] \cup failed'[t] => owner'[x][p] # a
                 /\ x \notin todo'[t] \cup failed'[t] => owner'[x][p] = a
                 /\ x \in failed'[t] \ kept[t] => owner'[x][p] # q
      <4>1. CASE x = r
        BY <2>1, <2>5, <2>9, <2>10, <3>1, <4>1
      <4>2. CASE x # r
        <5>1. /\ (x \in todo'[t]) = (x \in todo[t]) /\ (x \in failed'[t]) = (x \in failed[t])
              /\ owner'[x][p] = owner[x][p]
          BY <1>b, <2>1, <2>3, <2>8, <3>1, <4>2
        <5>2. /\ x \in todo[t] \cup failed[t] => owner[x][p] # a
              /\ x \notin todo[t] \cup failed[t] => owner[x][p] = a
              /\ x \in failed[t] \ kept[t] => owner[x][p] # q
          BY <1>e, <2>1, <3>1 DEF PopSound, Stored, p, q, a
        <5> QED
          BY <5>1, <5>2
      <4> QED
        BY <4>1, <4>2
    <3> QED
      BY <1>e, <2>1, <3>1 DEF PopSound, Stored, p, q, a
  <2>14. HandsRespected(t) /\ LeavesRespected(t) /\ QueueRespected(t)
    <3>1. CASE failed'[t] = failed[t]
      <4>1. LeavesRespected(t)
        BY <2>1, <2>11, LeavesKept
      <4>2. HandsRespected(t)
        <5>1. \A x \in Claimed(t)' : x \in Claimed(t) \/ x = r
          BY <2>1, <3>1 DEF Claimed
        <5>2. r \notin held[a]
          BY <1>e, <2>3, <2>6, <2>9, <3>1 DEF HeldIsOwned, Stored, sq
        <5>3. \A x \in held[a] : x \in Claimed(t) => rstate[x] # "stored"
          BY <1>e DEF HandsApart, Stored, a
        <5> QED
          BY <2>1, <2>9, <3>1, <5>1, <5>2, <5>3 DEF HandsRespected, a, p, q
      <4>3. QueueRespected(t)
        <5> SUFFICES ASSUME NEW x \in refs[sq], rstate[x] = "stored", owner'[x][sq[1]] = a,
                            ~ Engaged(t, x)'
                     PROVE  owner[x][sq[1]] = a /\ ~ Engaged(t, x)
          BY <2>1 DEF QueueRespected, a, sq
        <5>1. ~ Engaged(t, x)
          BY <2>1 DEF Engaged
        <5>2. x # r
          BY <2>1, <2>5, <2>6, <5>1 DEF Engaged, a, q, sq
        <5>3. x \in Requests /\ sq[1] \in Pools
          BY <1>s, <2>1 DEF SessionSteps
        <5> QED
          BY <2>8, <5>1, <5>2, <5>3
      <4> QED
        BY <4>1, <4>2, <4>3
    <3>2. CASE failed'[t] # failed[t]
      <4>1. Claimed(t)' = Claimed(t)
        BY <2>1, <2>10, <3>2 DEF Claimed
      <4> QED
        BY <2>1, <2>10, <2>11, <3>2, <4>1, SwitchKept
    <3> QED
      BY <3>1, <3>2
  <2>15. ThreadSound(t)'
    BY <2>1, <2>4, <2>12, <2>13, NothingToRelyOn DEF ThreadSound
  <2> QED
    BY <2>1, <2>2, <2>3, <2>4, <2>11, <2>14, <2>15, Untouched, LostStep DEF StepRespects, a
<1>2. ASSUME NEW r \in Requests, RequeueSwitch(t, r) PROVE LostInv'
  <2>1. /\ pc[t] = "reqSwitch" /\ r \in todo[t] /\ todo'[t] = todo[t] \ {r}
        /\ \/ /\ rstate[r] = "stored"
              /\ owner' = [owner EXCEPT ![r][p] = q] /\ failed'[t] = failed[t]
           \/ /\ rstate[r] = "stored" => owner[r][p] \notin {q, a}
              /\ owner' = owner /\ failed'[t] = failed[t] \cup {r}
        /\ UNCHANGED <<rstate, type, refs, list, agObj, life, held, pc, cur, batch, kept, forsaken>>
    BY <1>2, JobTypes DEF RequeueSwitch, CanSwitch, Stored, a, q, p
  <2>2. LocalsKept(t)
    BY <1>2, JobTypes DEF RequeueSwitch, LocalsKept
  <2>3. /\ a \in Sessions /\ a \notin Frontends /\ life[a] = "up"
        /\ q \in Queues /\ p \in Pools /\ q = <<p, q[2]>> /\ q # a
    BY <1>s, <2>1 DEF SessionSteps
  <2>4. pc[t] \in HoldsQueue /\ pc'[t] \notin Knowing
    BY <2>1 DEF HoldsQueue, Knowing, Owning, HoldsAgent
  <2>5. r \in batch[t] /\ r \in refs[q] /\ r \notin failed[t]
    BY <1>b, <1>e, <2>1, <2>4 DEF IntentLogged, q
  <2>6. rstate[r] = "stored" => owner[r][p] = a /\ type[r][p] = q[2]
    BY <1>e, <2>1, <2>5 DEF RequeueSound, Stored, p, q, a
  <2>7. \A x \in Requests, y \in Pools : owner'[x][y] = owner[x][y] \/ (x = r /\ y = p)
    BY <2>1, OneJobChanges, JobTypes
  <2>8. rstate[r] = "stored" => owner'[r][p] = q /\ failed'[t] = failed[t]
    BY <2>1, <2>3, <2>6, JobTypes
  <2>c. Claimed(t)' = Claimed(t) /\ r \in Claimed(t)
    BY <2>1, <2>5 DEF Claimed
  <2>9. OwnersRespected(t)
    <3>1. CASE rstate[r] = "stored"
      <4>1. MayTake(t, r, p)
        BY <2>6, <2>c, <3>1 DEF MayTake, Handles, a
      <4>2. GivenTo(t, r, p)
        BY <2>1, <2>3, <2>4, <2>5, <2>6, <2>8, <3>1 DEF GivenTo, q
      <4> QED
        BY <2>1, <2>7, <3>1, <4>1, <4>2 DEF OwnersRespected
    <3>2. CASE rstate[r] # "stored"
      BY <2>1, <3>2, Untouched
    <3> QED
      BY <3>1, <3>2
  <2>10. IntentLogged(t)'
    BY <1>e, <2>1, <2>5 DEF IntentLogged
  <2>11. RequeueSound(t)'
    <3>1. ASSUME NEW x \in batch[t], rstate[x] = "stored"
          PROVE  /\ x \in todo'[t] => owner'[x][p] = a /\ type[x][p] = q[2]
                 /\ x \notin todo'[t] /\ x \in failed'[t] =>
                      owner'[x][p] = a \/ (owner'[x][p] = q /\ <<x, q>> \in forsaken)
                 /\ x \notin todo'[t] /\ x \notin failed'[t] => owner'[x][p] = q
      <4>1. CASE x = r
        BY <2>1, <2>3, <2>5, <2>8, <3>1, <4>1
      <4>2. CASE x # r
        <5>1. /\ (x \in todo'[t]) = (x \in todo[t]) /\ (x \in failed'[t]) = (x \in failed[t])
              /\ owner'[x][p] = owner[x][p]
          BY <1>b, <2>1, <2>3, <2>7, <3>1, <4>2
        <5>2. /\ x \in todo[t] => owner[x][p] = a /\ type[x][p] = q[2]
              /\ x \notin todo[t] /\ x \in failed[t] =>
                   owner[x][p] = a \/ (owner[x][p] = q /\ <<x, q>> \in forsaken)
              /\ x \notin todo[t] /\ x \notin failed[t] => owner[x][p] = q
          BY <1>e, <2>1, <3>1 DEF RequeueSound, Stored, p, q, a
        <5> QED
          BY <5>1, <5>2
      <4> QED
        BY <4>1, <4>2
    <3> QED
      BY <1>e, <2>1, <3>1 DEF RequeueSound, Stored, p, q, a
  <2>12. HandsRespected(t) /\ LeavesRespected(t) /\ QueueRespected(t)
    <3>1. \A x \in Requests, y \in Pools : owner'[x][y] = a => owner[x][y] = a
      <4>1. rstate[r] # "stored" => owner' = owner
        BY <2>1
      <4> QED
        BY <2>3, <2>7, <2>8, <4>1
    <3> QED
      BY <2>1, <2>9, <2>c, <3>1, SwitchKept DEF a
  <2>13. kept'[t] = {}
    BY <1>e, <2>1 DEF PopSound
  <2>14. ThreadSound(t)'
    BY <2>1, <2>4, <2>10, <2>11, <2>13, NothingToRelyOn DEF ThreadSound
  <2> QED
    BY <2>1, <2>2, <2>3, <2>4, <2>9, <2>12, <2>14, Untouched, LostStep DEF StepRespects, a
<1>3. ASSUME Dereference(t) PROVE LostInv'
  <2>1. /\ pc[t] = "deref" /\ life[a] = "up" /\ list' = [list EXCEPT ![a] = @ \ batch[t]]
        /\ pc'[t] = "idle"
        /\ UNCHANGED <<rstate, owner, type, refs, agObj, life, held, kept, forsaken>>
    BY <1>3, JobTypes DEF Dereference, RemoveBatchFromOwnership, GoTo, a
  <2>2. LocalsKept(t)
    BY <1>3, JobTypes DEF Dereference, GoTo, LocalsKept
  <2>3. ListsRespected(t)
    <3>1. \A b \in Agents : list'[b] = IF b = a THEN list[b] \ batch[t] ELSE list[b]
      BY <2>1, AgentTypes
    <3>2. \A r \in batch[t], y \in Pools :
            rstate[r] = "stored" => owner[r][y] # a \/ <<r, a>> \in forsaken
      BY <1>e, <2>1 DEF DereferenceSound, Stored, a
    <3> QED
      BY <2>1, <3>1, <3>2 DEF ListsRespected, a
  <2>4. QueueRespected(t)
    BY <2>1, QueueKept
  <2>5. pc'[t] \in Resting /\ pc'[t] \notin HoldsQueue /\ kept'[t] = {}
    BY <2>1, NoResults DEF Resting, HoldsQueue
  <2>6. pc'[t] \notin SessionSteps
    BY <2>1 DEF SessionSteps
  <2> QED
    BY <2>1, <2>2, <2>3, <2>4, <2>5, <2>6, RestingSound, Untouched, LostStep DEF StepRespects, a
<1>4. ASSUME PopCommit(t) PROVE LostInv'
  <2>1. /\ pc[t] = "popSwitch" /\ todo[t] = {}
        /\ refs' = [refs EXCEPT ![q] = @ \ (batch[t] \ kept[t])]
        /\ held' = [held EXCEPT ![a] = @ \cup (batch[t] \ failed[t])]
        /\ batch'[t] = failed[t] /\ kept'[t] = {} /\ pc'[t] \in {"idle", "deref"}
        /\ UNCHANGED <<rstate, owner, type, list, agObj, life, forsaken>>
    BY <1>4, JobTypes DEF PopCommit, GoTo, RegisterInv, TypeOK, q, a
  <2>2. LocalsKept(t)
    BY <1>4, JobTypes DEF PopCommit, GoTo, LocalsKept, RegisterInv, TypeOK
  <2>3. /\ a \in Sessions /\ life[a] = "up" /\ q \in Queues /\ p \in Pools /\ q # a
        /\ refs[sq] \subseteq Requests
    BY <1>s, <2>1 DEF SessionSteps
  <2>4. pc[t] \in HoldsQueue
    BY <2>1 DEF HoldsQueue
  <2>5. \A x \in Queues : refs'[x] = IF x = q THEN refs[x] \ (batch[t] \ kept[t]) ELSE refs[x]
    BY <2>1, JobTypes
  <2>6. q = sq /\ p = q[1] /\ kept[t] \subseteq failed[t]
    BY <1>e, <2>1 DEF PopSound, q, a, p, sq
  <2>7. \A r \in batch[t] : rstate[r] = "stored" =>
          /\ r \in failed[t] => owner[r][p] # a
          /\ r \in failed[t] \ kept[t] => owner[r][p] # q
          /\ r \notin failed[t] => owner[r][p] = a
    BY <1>e, <2>1 DEF PopSound, Stored, a, p, q
  <2>9. RefsRespected(t)
    BY <1>o, <2>1, <2>3, <2>4, <2>5, <2>6, <2>7 DEF RefsRespected
  <2>10. pc'[t] \notin HoldsQueue /\ pc'[t] \notin Knowing
    BY <2>1 DEF HoldsQueue, Knowing, Owning, HoldsAgent
  <2>11. DereferenceSound(t)'
    <3>1. \A r \in failed[t], y \in Pools : rstate[r] = "stored" => owner[r][y] # a
      BY <1>b, <1>j, <2>3, <2>6, <2>7
    <3> QED
      BY <2>1, <3>1 DEF DereferenceSound, Stored, a
  <2>12. HandsRespected(t)
    <3>1. Claimed(t)' = {}
      BY <2>1 DEF Claimed
    <3>2. held'[a] = held[a] \cup (batch[t] \ failed[t])
      BY <1>a, <2>1, JobTypes
    <3>3. Claimed(t) = batch[t] \ failed[t]
      BY <2>1 DEF Claimed
    <3> QED
      BY <2>1, <2>6, <2>7, <3>1, <3>2, <3>3 DEF HandsRespected, a, sq
  <2>13. LeavesRespected(t)
    <3> SUFFICES ASSUME NEW u \in Threads, Siblings(t, u), pc[u] = "popSwitch" PROVE FALSE
      BY <2>1 DEF LeavesRespected
    <3> QED
      BY <1>o, <1>u, <2>4, <2>6
  <2>14. QueueRespected(t)
    <3> SUFFICES ASSUME NEW r \in refs'[sq], rstate[r] = "stored", owner[r][sq[1]] = a
                 PROVE  r \in refs[sq] /\ ~ Engaged(t, r)
      BY <2>1 DEF QueueRespected, a, sq
    <3>1. r \in refs[sq] /\ r \notin batch[t] \ kept[t]
      BY <2>3, <2>5, <2>6
    <3>2. r \notin batch[t]
      BY <2>6, <2>7, <3>1
    <3> QED
      BY <3>1, <3>2 DEF Engaged
  <2>15. ThreadSound(t)'
    BY <2>1, <2>10, <2>11, NothingToRelyOn DEF ThreadSound
  <2> QED
    BY <2>1, <2>2, <2>3, <2>9, <2>10, <2>12, <2>13, <2>14, <2>15, Untouched, LostStep
    DEF StepRespects, a
<1>5. ASSUME RequeueReference(t) PROVE LostInv'
  <2>1. /\ pc[t] = "reqRef" /\ ~ QueueLocked(q) /\ refs' = [refs EXCEPT ![q] = @ \cup batch[t]]
        /\ todo'[t] = batch[t] /\ pc'[t] = "reqSwitch"
        /\ UNCHANGED <<rstate, owner, type, list, agObj, life, held, cur, batch, failed, kept,
                       forsaken>>
    BY <1>5, JobTypes DEF RequeueReference, GoTo, q
  <2>2. LocalsKept(t)
    BY <1>5, JobTypes DEF RequeueReference, GoTo, LocalsKept
  <2>3. /\ a \in Sessions /\ life[a] = "up" /\ q \in Queues /\ p \in Pools /\ q = <<p, q[2]>>
        /\ sq \in Queues
    BY <1>s, <2>1 DEF SessionSteps
  <2>4. \A x \in Queues : refs'[x] = IF x = q THEN refs[x] \cup batch[t] ELSE refs[x]
    BY <2>1, JobTypes
  <2>5. /\ p = sq[1] /\ q[1] = p
        /\ \A r \in batch[t] : rstate[r] = "stored" => owner[r][p] = a /\ type[r][p] = q[2]
    BY <1>e, <2>1 DEF RequeueSound, Stored, a, p, q, sq
  <2>c. Claimed(t) = batch[t] /\ Claimed(t)' = batch[t]
    BY <2>1 DEF Claimed
  <2>6. RefsRespected(t)
    BY <2>1, <2>4, <2>5, <2>c DEF RefsRespected, QueueLocked, a
  <2>7. LocksRespected(t)
    BY <2>1 DEF LocksRespected, q
  <2>8. failed'[t] = {} /\ kept'[t] = {} /\ pc'[t] \notin Knowing
    BY <2>1, NoResults DEF Knowing, Owning, HoldsAgent
  <2>9. IntentLogged(t)'
    BY <2>1, <2>3, <2>4, <2>8 DEF IntentLogged, q
  \* A job of the session that its queue refers to is in the hand of another thread.
  <2>10. ASSUME NEW r \in batch[t], rstate[r] = "stored", r \in refs[sq] PROVE FALSE
    <3>1. PICK u \in Threads : AgentOf[u] = a /\ Engaged(u, r)
      BY <1>e, <2>3, <2>5, <2>10 DEF NotReferenced, Stored, sq
    <3>2. u # t /\ Siblings(t, u)
      BY <2>1, <3>1 DEF Engaged, Siblings, a
    <3>3. r \in Claimed(u)
      <4>1. CASE pc[u] = "reqSwitch"
        BY <3>1, <4>1 DEF Engaged, Claimed
      <4>2. CASE pc[u] = "popSwitch"
        <5>1. PopSound(u) /\ cur[u] = sq
          BY <3>1 DEF LostInv, ThreadSound, Engaged, sq
        <5> QED
          BY <2>5, <2>10, <3>1, <4>2, <5>1 DEF PopSound, Engaged, Claimed, Stored
      <4> QED
        BY <3>1, <4>1, <4>2 DEF Engaged
    <3> QED
      BY <1>e, <2>10, <2>c, <3>2, <3>3 DEF HandsApart, Stored
  <2>11. RequeueSound(t)'
    <3>1. q # sq => \A r \in batch[t] : rstate[r] = "stored" => r \notin refs'[sq]
      BY <2>3, <2>4, <2>10
    <3> QED
      BY <2>1, <2>5, <3>1 DEF RequeueSound, Stored, a, p, q, sq
  <2>12. HandsRespected(t)
    BY <1>e, <2>1, <2>c DEF HandsRespected, HandsApart, Stored, a
  <2>13. QueueRespected(t)
    <3> SUFFICES ASSUME NEW r \in refs'[sq], rstate[r] = "stored", owner[r][sq[1]] = a,
                        ~ Engaged(t, r)'
                 PROVE  r \in refs[sq] /\ ~ Engaged(t, r)
      BY <2>1 DEF QueueRespected, a, sq
    <3>1. ~ Engaged(t, r)
      BY <2>1 DEF Engaged
    <3>2. q = sq => r \notin batch[t]
      BY <2>1 DEF Engaged, a, q, sq
    <3> QED
      BY <2>3, <2>4, <3>1, <3>2
  <2>14. ThreadSound(t)'
    BY <2>1, <2>8, <2>9, <2>11, NothingToRelyOn DEF ThreadSound
  <2> QED
    BY <2>1, <2>2, <2>3, <2>6, <2>7, <2>12, <2>13, <2>14, Untouched, LostStep DEF StepRespects, a
<1>6. ASSUME RequeueCommit(t) PROVE LostInv'
  <2>1. /\ pc[t] = "reqSwitch" /\ todo[t] = {} /\ refs' = [refs EXCEPT ![q] = @ \ failed[t]]
        /\ batch'[t] = batch[t] \ failed[t] /\ pc'[t] \in {"idle", "deref"}
        /\ UNCHANGED <<rstate, owner, type, list, agObj, life, held, kept, forsaken>>
    BY <1>6, JobTypes DEF RequeueCommit, GoTo, q
  <2>2. LocalsKept(t)
    BY <1>6, JobTypes DEF RequeueCommit, GoTo, LocalsKept
  <2>3. /\ a \in Sessions /\ life[a] = "up" /\ q \in Queues /\ p \in Pools /\ q # a
        /\ sq \in Queues /\ refs[sq] \subseteq Requests
    BY <1>s, <2>1 DEF SessionSteps
  <2>4. pc[t] \in HoldsQueue /\ pc'[t] \notin SessionSteps
    BY <2>1 DEF HoldsQueue, SessionSteps
  <2>5. \A x \in Queues : refs'[x] = IF x = q THEN refs[x] \ failed[t] ELSE refs[x]
    BY <2>1, JobTypes
  <2>6. /\ p = sq[1] /\ q[1] = p
        /\ \A r \in batch[t] : rstate[r] = "stored" =>
             /\ r \in failed[t] => owner[r][p] = a \/ (owner[r][p] = q /\ <<r, q>> \in forsaken)
             /\ r \notin failed[t] => owner[r][p] = q
             /\ q # sq => r \notin refs[sq]
    BY <1>e, <2>1 DEF RequeueSound, Stored, a, p, q, sq
  <2>7. RefsRespected(t)
    BY <1>b, <1>o, <2>1, <2>3, <2>4, <2>5, <2>6 DEF RefsRespected
  <2>8. pc'[t] \notin HoldsQueue /\ pc'[t] \notin Knowing
    BY <2>1 DEF HoldsQueue, Knowing, Owning, HoldsAgent
  <2>9. DereferenceSound(t)'
    <3>1. \A r \in batch[t] \ failed[t], y \in Pools : rstate[r] = "stored" => owner[r][y] # a
      BY <1>b, <1>j, <2>3, <2>6
    <3> QED
      BY <2>1, <3>1 DEF DereferenceSound, Stored, a
  <2>10. LeavesRespected(t)
    <3> SUFFICES ASSUME NEW u \in Threads, Siblings(t, u), pc[u] = "popSwitch",
                        NEW r \in batch[t], r \in batch[u], rstate[r] = "stored"
                 PROVE  FALSE
      BY <2>1 DEF LeavesRespected
    <3>1. cur[u] = sq /\ u # t /\ pc[u] \in HoldsQueue /\ r \in refs[sq]
      BY <1>u
    <3> QED
      BY <1>o, <2>4, <2>6, <3>1
  <2>11. QueueRespected(t)
    <3> SUFFICES ASSUME NEW r \in refs'[sq], rstate[r] = "stored", owner[r][sq[1]] = a
                 PROVE  r \in refs[sq] /\ ~ Engaged(t, r)
      BY <2>1 DEF QueueRespected, a, sq
    <3>1. r \in refs[sq] /\ (q = sq => r \notin failed[t])
      BY <2>3, <2>5
    <3>2. q = sq => r \notin batch[t]
      BY <2>3, <2>6, <3>1
    <3> QED
      BY <3>1, <3>2 DEF Engaged, a, q, sq
  <2>12. kept'[t] = {}
    BY <1>e, <2>1 DEF PopSound
  <2>13. ThreadSound(t)'
    BY <2>1, <2>8, <2>9, <2>12, NothingToRelyOn DEF ThreadSound
  <2> QED
    BY <2>1, <2>2, <2>3, <2>4, <2>7, <2>8, <2>10, <2>11, <2>13, Untouched, LostStep
    DEF StepRespects, a
<1> QED
  BY <1>1, <1>2, <1>3, <1>4, <1>5, <1>6 DEF SwitchStep

\* The plan of a collector that is not switching owners stays exact as long as no
\* job changes.
LEMMA PlanKept ==
  ASSUME LostInv, NEW t \in Threads, UNCHANGED <<rstate, owner, type>>,
         pc[t] \in Knowing, pc[t] # "gcSwitch", pc'[t] # "gcSwitch",
         plan'[t] = plan[t], victim'[t] = victim[t], forsaken \subseteq forsaken'
  PROVE  PlanSound(t)'
<1>1. PlanSound(t)
  BY DEF LostInv, ThreadSound
<1> QED
  BY <1>1 DEF PlanSound, Stored

\* Taking a dead agent and reading what it owns keeps the invariant about lost jobs.
LEMMA TakeLostInv ==
  ASSUME RegisterInv, RegisterInv', OwnershipInv, CleanupInv', LostInv,
         NEW t \in Threads, CollectorStep(t) \/ TakeStep(t)
  PROVE  LostInv'
<1> USE DEF At, counters
<1> DEFINE v == victim[t]
<1>a. AgentOf[t] \in Agents /\ v \in Agents
  BY RoleAssumption, AgentTypes
<1>c. pc[t] \in HoldsAgent =>
        AgentOf[t] \notin Sessions /\ life[AgentOf[t]] = "up" /\ v # AgentOf[t]
  BY RoleAssumption, CollectorFacts DEF RegisterInv, Roles
<1>d. \A r \in Requests : r \notin Agents
  BY AddressAssumption
<1>e. PlanSound(t) /\ NoLostJob
  BY DEF LostInv, ThreadSound
<1>1. ASSUME NEW d \in Agents, GcReference(t, d) PROVE LostInv'
  <2>1. /\ pc[t] = "idle" /\ life[AgentOf[t]] = "up" /\ AgentOf[t] \in Collectors
        /\ list' = [list EXCEPT ![AgentOf[t]] = @ \cup {d}] /\ pc'[t] = "gcOwn"
        /\ UNCHANGED <<rstate, owner, type, refs, agObj, life, held, kept, forsaken>>
    BY <1>1, JobTypes DEF GcReference, AddBatchToOwnership, GoTo
  <2>2. LocalsKept(t)
    BY <1>1, JobTypes, AgentTypes DEF GcReference, GoTo, LocalsKept
  <2>3. ListsRespected(t)
    BY <2>1, AgentTypes DEF ListsRespected
  <2>4. HandsRespected(t) /\ LeavesRespected(t) /\ QueueRespected(t)
    BY <2>1, NoSession, RoleAssumption
  <2>5. pc'[t] \in Resting /\ pc'[t] \notin HoldsQueue /\ kept'[t] = {}
    BY <2>1, NoResults DEF Resting, HoldsQueue
  <2> QED
    BY <2>1, <2>2, <2>3, <2>4, <2>5, RestingSound, Untouched, LostStep DEF StepRespects
<1>2. ASSUME GcOwn(t) \/ GcTrack(t) PROVE LostInv'
  <2>1. /\ pc[t] \in {"gcOwn", "gcTrack"} /\ pc'[t] \in {"gcTrack", "gcFetch"}
        /\ UNCHANGED <<rstate, owner, type, refs, list, agObj, life, held, kept>>
    BY <1>2, JobTypes DEF GcOwn, GcTrack, GoTo
  <2>2. LocalsKept(t)
    BY <1>2, JobTypes DEF GcOwn, GcTrack, GoTo, LocalsKept
  <2>3. AgentOf[t] \notin Sessions /\ life[AgentOf[t]] = "up"
    BY <1>c, <2>1 DEF HoldsAgent
  <2>4. HandsRespected(t) /\ LeavesRespected(t) /\ QueueRespected(t)
    BY <2>1, <2>3, NoSession
  <2>5. pc'[t] \in Resting /\ pc'[t] \notin HoldsQueue /\ kept'[t] = {}
    BY <2>1, NoResults DEF Resting, HoldsQueue
  <2> QED
    BY <2>1, <2>2, <2>3, <2>4, <2>5, RestingSound, Untouched, LostStep DEF StepRespects
<1>3. ASSUME GcFetch(t) PROVE LostInv'
  <2>1. /\ pc[t] = "gcFetch" /\ pc'[t] = "gcSort" /\ victim'[t] = v
        /\ plan'[t] = {j \in Requests \X Queues :
                         /\ j[1] \in list[v] /\ rstate[j[1]] = "stored"
                         /\ owner[j[1]][j[2][1]] = v /\ type[j[1]][j[2][1]] = j[2][2]}
        /\ list' = [list EXCEPT ![v] = @ \ ({r \in Requests : rstate[r] # "stored"}
                                             \cup (Agents \ agObj))]
        /\ UNCHANGED <<rstate, owner, type, refs, agObj, life, held, kept, forsaken>>
    BY <1>3, JobTypes DEF GcFetch, GoTo, Stored
  <2>2. LocalsKept(t)
    BY <1>3, JobTypes DEF GcFetch, GoTo, LocalsKept
  <2> HIDE DEF v
  <2>3. /\ AgentOf[t] \notin Sessions /\ life[AgentOf[t]] = "up" /\ v # AgentOf[t]
        /\ pc[t] \in HoldsAgent
    BY <1>c, <2>1 DEF HoldsAgent
  <2>4. ListsRespected(t)
    <3>1. \A b \in Agents : b # v => list'[b] = list[b]
      BY <2>1, AgentTypes
    <3>2. \A r \in Requests : r \in list[v] \ list'[v] => rstate[r] # "stored"
      BY <1>a, <1>d, <2>1, AgentTypes
    <3> QED
      BY <2>1, <2>3, <3>1, <3>2 DEF ListsRespected, v
  <2>5. PlanSound(t)'
    <3>1. \A j \in plan'[t] : owner[j[1]][j[2][1]] = v /\ type[j[1]][j[2][1]] = j[2][2]
      BY <2>1
    <3>2. ASSUME NEW r \in Requests, NEW p \in Pools, rstate[r] = "stored", owner[r][p] = v
          PROVE  <<r, <<p, type[r][p]>>>> \in plan'[t] \/ <<r, v>> \in forsaken
      <4>1. r \in list[v] \/ <<r, v>> \in forsaken
        BY <1>a, <1>e, <3>2 DEF NoLostJob, PointsBack, Stored
      <4>2. <<p, type[r][p]>> \in Queues
        BY DEF RegisterInv, TypeOK, Queues
      <4> QED
        BY <2>1, <3>2, <4>1, <4>2
    <3> QED
      BY <2>1, <3>1, <3>2 DEF PlanSound, Stored
  <2>6. HandsRespected(t) /\ LeavesRespected(t) /\ QueueRespected(t)
    BY <2>1, <2>3, NoSession
  <2>7. pc'[t] \notin HoldsQueue /\ kept'[t] = {}
    BY <2>1, NoResults DEF HoldsQueue
  <2>8. ThreadSound(t)'
    BY <2>1, <2>5, <2>7, NothingToRelyOn DEF ThreadSound
  <2> QED
    BY <2>1, <2>2, <2>3, <2>4, <2>6, <2>7, <2>8, Untouched, LostStep DEF StepRespects
<1>4. ASSUME GcSort(t) PROVE LostInv'
  <2>1. /\ pc[t] = "gcSort" /\ pc'[t] \in {"gcOther", "gcRequeue"}
        /\ list' = [list EXCEPT ![v] = StillOwned(t)] /\ victim'[t] = v /\ plan'[t] = plan[t]
        /\ UNCHANGED <<rstate, owner, type, refs, agObj, life, held, kept, forsaken>>
    BY <1>4, JobTypes DEF GcSort, AfterJobs, GoTo
  <2>2. LocalsKept(t)
    BY <1>4, JobTypes DEF GcSort, GoTo, LocalsKept
  <2> HIDE DEF v
  <2>3. /\ AgentOf[t] \notin Sessions /\ life[AgentOf[t]] = "up" /\ v # AgentOf[t]
        /\ pc[t] \in HoldsAgent
    BY <1>c, <2>1 DEF HoldsAgent
  <2>4. pc[t] \in Knowing
    BY <2>1, Sections
  <2>5. ListsRespected(t)
    <3>1. \A b \in Agents : list'[b] = IF b = v THEN StillOwned(t) ELSE list[b]
      BY <2>1, AgentTypes
    <3>2. ASSUME NEW r \in Requests, r \in list[v] \ StillOwned(t), rstate[r] = "stored",
                 NEW p \in Pools, owner[r][p] = v, <<r, v>> \notin forsaken
          PROVE  FALSE
      <4>1. PICK j \in plan[t] : j = <<r, <<p, type[r][p]>>>>
        BY <1>e, <2>4, <3>2 DEF PlanSound, Stored, v
      <4> QED
        BY <3>2, <4>1 DEF StillOwned, v
    <3> QED
      BY <2>1, <2>3, <3>1, <3>2 DEF ListsRespected, v
  <2>6. PlanSound(t)'
    BY <2>1, <2>4, PlanKept DEF v
  <2>7. HandsRespected(t) /\ LeavesRespected(t) /\ QueueRespected(t)
    BY <2>1, <2>3, NoSession
  <2>8. pc'[t] \notin HoldsQueue /\ kept'[t] = {}
    BY <2>1, NoResults DEF HoldsQueue
  <2>9. ThreadSound(t)'
    BY <2>1, <2>6, <2>8, NothingToRelyOn DEF ThreadSound
  <2> QED
    BY <2>1, <2>2, <2>3, <2>5, <2>7, <2>8, <2>9, Untouched, LostStep DEF StepRespects
<1> QED
  BY <1>1, <1>2, <1>3, <1>4 DEF CollectorStep, TakeStep

\* Requeueing the jobs of a dead agent keeps the invariant about lost jobs.
LEMMA RequeueLostInv ==
  ASSUME RegisterInv, RegisterInv', OwnershipInv, CleanupInv', LostInv,
         NEW t \in Threads, RequeueStep(t)
  PROVE  LostInv'
<1> USE DEF At, counters
<1> DEFINE v == victim[t]
<1>a. AgentOf[t] \in Agents /\ v \in Agents
  BY RoleAssumption, AgentTypes
<1>c. pc[t] \in HoldsAgent =>
        AgentOf[t] \notin Sessions /\ life[AgentOf[t]] = "up" /\ v # AgentOf[t]
  BY RoleAssumption, CollectorFacts DEF RegisterInv, Roles
<1>e. PlanSound(t) /\ IntentLogged(t)
  BY DEF LostInv, ThreadSound
<1>b. todo[t] \subseteq batch[t] /\ failed[t] \subseteq batch[t] /\ batch[t] \subseteq Requests
  BY JobTypes DEF OwnershipInv, SwitchResults
<1>p. \A j \in plan[t] : j[1] \in Requests /\ j[2] \in Queues /\ j[2][1] \in Pools
        /\ j = <<j[1], j[2]>> /\ j[2] = <<j[2][1], j[2][2]>>
  BY JobTypes DEF Queues
<1> HIDE DEF v
<1>1. ASSUME NEW q \in Queues, GcRequeueReference(t, q) PROVE LostInv'
  <2> DEFINE S == {r \in Requests : <<r, q>> \in plan[t]}
  <2>1. /\ pc[t] = "gcRequeue" /\ ~ QueueLocked(q) /\ refs' = [refs EXCEPT ![q] = @ \cup S]
        /\ cur'[t] = q /\ batch'[t] = S /\ todo'[t] = S /\ pc'[t] = "gcSwitch"
        /\ victim'[t] = v /\ plan'[t] = plan[t]
        /\ UNCHANGED <<rstate, owner, type, list, agObj, life, held, failed, kept, forsaken>>
    BY <1>1, JobTypes DEF GcRequeueReference, GoTo, v
  <2>2. LocalsKept(t)
    BY <1>1, JobTypes DEF GcRequeueReference, GoTo, LocalsKept
  <2>3. /\ AgentOf[t] \notin Sessions /\ life[AgentOf[t]] = "up" /\ v # AgentOf[t]
        /\ pc[t] \in HoldsAgent
    BY <1>c, <2>1 DEF HoldsAgent
  <2>4. pc[t] \in Knowing /\ pc'[t] \in Knowing
    BY <2>1, Sections
  <2>5. \A r \in S : <<r, q>> \in plan[t]
    OBVIOUS
  <2> HIDE DEF S
  <2>6. \A x \in Queues : refs'[x] = IF x = q THEN refs[x] \cup S ELSE refs[x]
    BY <2>1, JobTypes
  <2>7. \A r \in S : rstate[r] = "stored" => owner[r][q[1]] = v
    <3> SUFFICES ASSUME NEW r \in S, rstate[r] = "stored" PROVE owner[r][q[1]] = v
      OBVIOUS
    <3>1. PICK j \in plan[t] : j = <<r, q>>
      BY <2>5
    <3> QED
      BY <1>e, <2>1, <2>4, <3>1 DEF PlanSound, Stored, v
  <2>8. RefsRespected(t)
    BY <2>1, <2>3, <2>6, <2>7 DEF RefsRespected, QueueLocked, v
  <2>9. LocksRespected(t)
    BY <2>1 DEF LocksRespected
  <2>10. failed'[t] = {} /\ kept'[t] = {}
    BY <2>1, NoResults
  <2>11. IntentLogged(t)'
    BY <2>1, <2>6, <2>10 DEF IntentLogged
  <2>12. PlanSound(t)'
    BY <1>e, <2>1, <2>4, <2>5 DEF PlanSound, Stored, v
  <2>13. HandsRespected(t) /\ LeavesRespected(t) /\ QueueRespected(t)
    BY <2>1, <2>3, NoSession
  <2>14. ThreadSound(t)'
    BY <2>1, <2>10, <2>11, <2>12, NothingToRelyOn DEF ThreadSound
  <2> QED
    BY <2>1, <2>2, <2>3, <2>8, <2>9, <2>13, <2>14, Untouched, LostStep DEF StepRespects
<1>2. ASSUME NEW r \in Requests, GcSwitch(t, r) PROVE LostInv'
  <2> DEFINE q == cur[t]
             p == cur[t][1]
  <2>1. /\ pc[t] = "gcSwitch" /\ r \in todo[t] /\ todo'[t] = todo[t] \ {r}
        /\ \/ /\ rstate[r] = "stored"
              /\ owner' = [owner EXCEPT ![r][p] = q] /\ failed'[t] = failed[t]
           \/ /\ rstate[r] = "stored" => owner[r][p] \notin {q, v}
              /\ owner' = owner /\ failed'[t] = failed[t] \cup {r}
        /\ victim'[t] = v /\ plan'[t] = plan[t]
        /\ UNCHANGED <<rstate, type, refs, list, agObj, life, held, pc, cur, batch, kept, forsaken>>
    BY <1>2, JobTypes DEF GcSwitch, CanSwitch, Stored, v
  <2>2. LocalsKept(t)
    BY <1>2, JobTypes DEF GcSwitch, LocalsKept
  <2>3. /\ AgentOf[t] \notin Sessions /\ life[AgentOf[t]] = "up" /\ v # AgentOf[t]
        /\ pc[t] \in HoldsAgent
    BY <1>c, <2>1 DEF HoldsAgent
  <2>4. pc[t] \in HoldsQueue /\ pc[t] \in Knowing
    BY <2>1, Sections DEF HoldsQueue
  <2>5. q \in Queues /\ p \in Pools /\ q = <<p, q[2]>> /\ q # v
    BY <1>a, <2>4, JobTypes, AddressAssumption DEF Queues
  <2>6. r \in batch[t] /\ r \in refs[q] /\ r \notin failed[t] /\ <<r, q>> \in plan[t]
    BY <1>b, <1>e, <2>1, <2>4 DEF IntentLogged, PlanSound
  <2>7. rstate[r] = "stored" => owner[r][p] = v /\ type[r][p] = q[2]
    <3>1. PICK j \in plan[t] : j = <<r, q>>
      BY <2>6
    <3> QED
      BY <1>e, <2>1, <2>4, <3>1 DEF PlanSound, Stored, v
  <2> HIDE DEF q, p
  <2>8. \A x \in Requests, y \in Pools : owner'[x][y] = owner[x][y] \/ (x = r /\ y = p)
    BY <2>1, OneJobChanges, JobTypes
  <2>9. rstate[r] = "stored" => owner'[r][p] = q /\ failed'[t] = failed[t]
    BY <2>1, <2>5, <2>7, JobTypes
  <2>10. OwnersRespected(t)
    <3>1. CASE rstate[r] = "stored"
      <4>1. MayTake(t, r, p)
        BY <2>1, <2>7, <3>1 DEF MayTake, v
      <4>2. GivenTo(t, r, p)
        BY <2>1, <2>4, <2>5, <2>6, <2>7, <2>9, <3>1 DEF GivenTo, q
      <4> QED
        BY <2>1, <2>8, <3>1, <4>1, <4>2 DEF OwnersRespected
    <3>2. CASE rstate[r] # "stored"
      BY <2>1, <3>2, Untouched
    <3> QED
      BY <3>1, <3>2
  <2>11. IntentLogged(t)'
    BY <1>e, <2>1, <2>6 DEF IntentLogged
  <2>12. PlanSound(t)'
    <3>1. ASSUME NEW j \in plan[t], rstate[j[1]] = "stored"
          PROVE  \/ owner'[j[1]][j[2][1]] = v /\ type[j[1]][j[2][1]] = j[2][2]
                 \/ j[2] = q /\ j[1] \in batch[t] \ todo'[t]
      <4>1. \/ owner[j[1]][j[2][1]] = v /\ type[j[1]][j[2][1]] = j[2][2]
            \/ j[2] = q /\ j[1] \in batch[t] \ todo[t]
        BY <1>e, <2>4, <3>1 DEF PlanSound, Stored, v, q
      <4>2. CASE j[1] = r /\ j[2][1] = p
        <5>1. j[2] = q
          BY <1>p, <2>5, <2>7, <3>1, <4>1, <4>2
        <5> QED
          BY <2>1, <2>6, <4>2, <5>1
      <4>3. CASE ~ (j[1] = r /\ j[2][1] = p)
        <5>1. owner'[j[1]][j[2][1]] = owner[j[1]][j[2][1]]
          BY <1>p, <2>8, <4>3
        <5> QED
          BY <2>1, <4>1, <5>1
      <4> QED
        BY <4>2, <4>3
    <3>2. ASSUME NEW x \in Requests, NEW y \in Pools, rstate[x] = "stored", owner'[x][y] = v
          PROVE  <<x, <<y, type[x][y]>>>> \in plan[t] \/ <<x, v>> \in forsaken
      <4>1. owner[x][y] = v
        BY <2>5, <2>8, <2>9, <3>2
      <4> QED
        BY <1>e, <2>4, <3>2, <4>1 DEF PlanSound, Stored, v
    <3>3. ASSUME NEW x \in batch[t]
          PROVE  /\ <<x, q>> \in plan[t]
                 /\ rstate[x] = "stored" /\ x \notin todo'[t] =>
                      owner'[x][p] # v /\ x \notin failed'[t]
      <4>1. /\ <<x, q>> \in plan[t]
            /\ rstate[x] = "stored" /\ x \notin todo[t] => owner[x][p] # v /\ x \notin failed[t]
        BY <1>e, <2>1, <3>3 DEF PlanSound, Stored, v, q, p
      <4>2. CASE x = r
        BY <2>5, <2>6, <2>9, <4>1, <4>2
      <4>3. CASE x # r
        <5>1. /\ owner'[x][p] = owner[x][p]
              /\ (x \in todo'[t]) = (x \in todo[t]) /\ (x \in failed'[t]) = (x \in failed[t])
          BY <1>b, <2>1, <2>5, <2>8, <3>3, <4>3
        <5> QED
          BY <4>1, <5>1
      <4> QED
        BY <4>2, <4>3
    <3> QED
      BY <2>1, <3>1, <3>2, <3>3 DEF PlanSound, Stored, q, p
  <2>13. HandsRespected(t) /\ LeavesRespected(t) /\ QueueRespected(t)
    BY <2>1, <2>3, NoSession
  <2>14. kept'[t] = {}
    BY <2>1 DEF LostInv, ThreadSound, PopSound
  <2>15. ThreadSound(t)'
    BY <2>1, <2>11, <2>12, <2>14, NothingToRelyOn DEF ThreadSound
  <2> QED
    BY <2>1, <2>2, <2>3, <2>4, <2>10, <2>13, <2>15, Untouched, LostStep DEF StepRespects
<1>3. ASSUME GcRequeueCommit(t) PROVE LostInv'
  <2> DEFINE q == cur[t]
  <2>1. /\ pc[t] = "gcSwitch" /\ todo[t] = {} /\ refs' = [refs EXCEPT ![q] = @ \ failed[t]]
        /\ plan'[t] = plan[t] \ (batch[t] \X {q}) /\ pc'[t] = "gcErase" /\ victim'[t] = v
        /\ UNCHANGED <<rstate, owner, type, list, agObj, life, held, kept, forsaken>>
    BY <1>3, JobTypes DEF GcRequeueCommit, GoTo, v
  <2>2. LocalsKept(t)
    BY <1>3, JobTypes DEF GcRequeueCommit, GoTo, LocalsKept
  <2>3. /\ AgentOf[t] \notin Sessions /\ life[AgentOf[t]] = "up" /\ v # AgentOf[t]
        /\ pc[t] \in HoldsAgent
    BY <1>c, <2>1 DEF HoldsAgent
  <2>4. pc[t] \in HoldsQueue /\ pc[t] \in Knowing /\ pc'[t] \notin HoldsQueue
    BY <2>1, Sections DEF HoldsQueue
  <2>5. \A u \in Threads : u # t /\ pc[u] \in HoldsQueue => cur[u] # q
    BY <2>4 DEF LostInv, QueueLocks
  <2>6. q \in Queues
    BY <2>4, JobTypes
  <2>7. \A r \in batch[t] : rstate[r] = "stored" => owner[r][q[1]] # v /\ r \notin failed[t]
    BY <1>e, <2>1 DEF PlanSound, Stored, v
  <2>8. /\ \A j \in plan[t] : rstate[j[1]] = "stored" =>
             \/ owner[j[1]][j[2][1]] = v /\ type[j[1]][j[2][1]] = j[2][2]
             \/ j[2] = q /\ j[1] \in batch[t]
        /\ \A r \in Requests, p \in Pools :
             rstate[r] = "stored" /\ owner[r][p] = v =>
                <<r, <<p, type[r][p]>>>> \in plan[t] \/ <<r, v>> \in forsaken
    BY <1>e, <2>4 DEF PlanSound, Stored, v
  <2> HIDE DEF q
  <2>9. RefsRespected(t)
    <3>1. \A x \in Queues : refs'[x] = IF x = q THEN refs[x] \ failed[t] ELSE refs[x]
      BY <2>1, JobTypes
    <3> QED
      BY <1>b, <2>1, <2>5, <2>7, <3>1 DEF RefsRespected
  <2>10. PlanSound(t)'
    <3>1. ASSUME NEW j \in plan'[t], rstate[j[1]] = "stored"
          PROVE  owner[j[1]][j[2][1]] = v /\ type[j[1]][j[2][1]] = j[2][2]
      BY <1>p, <2>1, <2>8, <3>1
    <3>2. ASSUME NEW r \in Requests, NEW p \in Pools, rstate[r] = "stored", owner[r][p] = v
          PROVE  <<r, <<p, type[r][p]>>>> \in plan'[t] \/ <<r, v>> \in forsaken
      <4>1. <<r, <<p, type[r][p]>>>> \in plan[t] \/ <<r, v>> \in forsaken
        BY <2>8, <3>2
      <4>2. ~ (r \in batch[t] /\ <<p, type[r][p]>> = q)
        BY <2>7, <3>2
      <4> QED
        BY <2>1, <4>1, <4>2
    <3> QED
      BY <2>1, <3>1, <3>2 DEF PlanSound, Stored
  <2>11. HandsRespected(t) /\ LeavesRespected(t) /\ QueueRespected(t)
    BY <2>1, <2>3, NoSession
  <2>12. kept'[t] = {}
    BY <2>1 DEF LostInv, ThreadSound, PopSound
  <2>13. ThreadSound(t)'
    BY <2>1, <2>4, <2>10, <2>12, NothingToRelyOn DEF ThreadSound
  <2> QED
    BY <2>1, <2>2, <2>3, <2>4, <2>9, <2>11, <2>13, Untouched, LostStep DEF StepRespects
<1>4. ASSUME GcErase(t) PROVE LostInv'
  <2>1. /\ pc[t] = "gcErase" /\ pc'[t] \in {"gcOther", "gcRequeue"}
        /\ list' = [list EXCEPT ![v] = @ \ LastUsed(t)] /\ victim'[t] = v /\ plan'[t] = plan[t]
        /\ UNCHANGED <<rstate, owner, type, refs, agObj, life, held, kept, forsaken>>
    BY <1>4, JobTypes DEF GcErase, AfterJobs, GoTo, v
  <2>2. LocalsKept(t)
    BY <1>4, JobTypes DEF GcErase, GoTo, LocalsKept
  <2>3. /\ AgentOf[t] \notin Sessions /\ life[AgentOf[t]] = "up" /\ v # AgentOf[t]
        /\ pc[t] \in HoldsAgent
    BY <1>c, <2>1 DEF HoldsAgent
  <2>4. pc[t] \in Knowing
    BY <2>1, Sections
  <2>5. ListsRespected(t)
    <3>1. \A b \in Agents : list'[b] = IF b = v THEN list[b] \ LastUsed(t) ELSE list[b]
      BY <2>1, AgentTypes
    <3>2. ASSUME NEW r \in Requests, r \in LastUsed(t), rstate[r] = "stored",
                 NEW p \in Pools, owner[r][p] = v, <<r, v>> \notin forsaken
          PROVE  FALSE
      <4>1. PICK j \in plan[t] : j = <<r, <<p, type[r][p]>>>>
        BY <1>e, <2>4, <3>2 DEF PlanSound, Stored, v
      <4> QED
        BY <3>2, <4>1 DEF LastUsed
    <3> QED
      BY <2>1, <2>3, <3>1, <3>2 DEF ListsRespected, v
  <2>6. PlanSound(t)'
    BY <2>1, <2>4, PlanKept DEF v
  <2>7. HandsRespected(t) /\ LeavesRespected(t) /\ QueueRespected(t)
    BY <2>1, <2>3, NoSession
  <2>8. pc'[t] \notin HoldsQueue /\ kept'[t] = {}
    BY <2>1, NoResults DEF HoldsQueue
  <2>9. ThreadSound(t)'
    BY <2>1, <2>6, <2>8, NothingToRelyOn DEF ThreadSound
  <2> QED
    BY <2>1, <2>2, <2>3, <2>5, <2>7, <2>8, <2>9, Untouched, LostStep DEF StepRespects
<1> QED
  BY <1>1, <1>2, <1>3, <1>4 DEF RequeueStep

\* Handing agents back and removing a dead agent keeps the invariant about lost jobs.
LEMMA RemoveLostInv ==
  ASSUME RegisterInv, RegisterInv', OwnershipInv, CleanupInv', LostInv,
         NEW t \in Threads, RemoveStep(t)
  PROVE  LostInv'
<1> USE DEF At, counters
<1> DEFINE v == victim[t]
<1>a. AgentOf[t] \in Agents /\ v \in Agents
  BY RoleAssumption, AgentTypes
<1>c. pc[t] \in HoldsAgent =>
        AgentOf[t] \notin Sessions /\ life[AgentOf[t]] = "up" /\ v # AgentOf[t]
  BY RoleAssumption, CollectorFacts DEF RegisterInv, Roles
<1>d. \A r \in Requests : r \notin Agents
  BY AddressAssumption
\* Agents leave the lists, requests do not.
<1>l. ASSUME pc[t] \in HoldsAgent, UNCHANGED agObj, NEW x \in Agents,
             list' = list \/ list' = [list EXCEPT ![v] = @ \ {x}]
                          \/ list' = [list EXCEPT ![AgentOf[t]] = @ \ {x}]
      PROVE  ListsRespected(t)
  BY <1>a, <1>d, <1>l, AgentTypes DEF ListsRespected
<1>1. ASSUME (\E x \in Agents : GcUntrack(t, x)) \/ GcHandBack(t) \/ GcRelinquish(t)
      PROVE  LostInv'
  <2>1. /\ pc[t] \in {"gcOther", "gcHandBack", "gcRelinquish"}
        /\ pc'[t] \in {"gcOther", "gcHandBack", "gcRelinquish"}
        /\ list' = list \/ list' = [list EXCEPT ![v] = @ \ {other[t]}]
        /\ UNCHANGED <<rstate, owner, type, refs, agObj, life, held, kept, victim, plan, forsaken>>
    BY <1>1, JobTypes DEF GcUntrack, GcHandBack, GcRelinquish, GoTo
  <2>2. LocalsKept(t)
    BY <1>1, JobTypes DEF GcUntrack, GcHandBack, GcRelinquish, GoTo, LocalsKept
  <2>3. /\ AgentOf[t] \notin Sessions /\ life[AgentOf[t]] = "up" /\ v # AgentOf[t]
        /\ pc[t] \in HoldsAgent
    BY <1>c, <2>1 DEF HoldsAgent
  <2>4. ListsRespected(t)
    BY <1>l, <2>1, <2>3, AgentTypes
  <2>5. PlanSound(t)'
    BY <2>1, Sections, PlanKept
  <2>6. HandsRespected(t) /\ LeavesRespected(t) /\ QueueRespected(t)
    BY <2>1, <2>3, NoSession
  <2>7. pc'[t] \notin HoldsQueue /\ kept'[t] = {}
    BY <2>1, NoResults DEF HoldsQueue
  <2>8. ThreadSound(t)'
    BY <2>1, <2>5, <2>7, NothingToRelyOn DEF ThreadSound
  <2> QED
    BY <2>1, <2>2, <2>3, <2>4, <2>6, <2>7, <2>8, Untouched, LostStep DEF StepRespects
<1>2. ASSUME GcRemove(t) PROVE LostInv'
  <2>1. /\ pc[t] = "gcOther" /\ list[v] = {} /\ agObj' = agObj \ {v} /\ pc'[t] = "gcUnregister"
        /\ UNCHANGED <<rstate, owner, type, refs, list, life, held, kept>>
    BY <1>2, JobTypes DEF GcRemove, GoTo
  <2>2. LocalsKept(t)
    BY <1>2, JobTypes DEF GcRemove, GoTo, LocalsKept
  <2>3. AgentOf[t] \notin Sessions /\ life[AgentOf[t]] = "up"
    BY <1>c, <2>1 DEF HoldsAgent
  <2>4. ListsRespected(t)
    BY <2>1 DEF ListsRespected
  <2>5. HandsRespected(t) /\ LeavesRespected(t) /\ QueueRespected(t)
    BY <2>1, <2>3, NoSession
  <2>6. pc'[t] \in Resting /\ pc'[t] \notin HoldsQueue /\ kept'[t] = {}
    BY <2>1, NoResults DEF Resting, HoldsQueue
  <2> QED
    BY <2>1, <2>2, <2>3, <2>4, <2>5, <2>6, RestingSound, Untouched, LostStep DEF StepRespects
<1>3. ASSUME GcUnregister(t) \/ GcDone(t) PROVE LostInv'
  <2>1. /\ pc[t] \in {"gcUnregister", "gcDone"} /\ pc'[t] \in {"gcDone", "idle"}
        /\ list' = list \/ list' = [list EXCEPT ![AgentOf[t]] = @ \ {v}]
        /\ UNCHANGED <<rstate, owner, type, refs, agObj, life, held, kept, forsaken>>
    BY <1>3, JobTypes DEF GcUnregister, GcDone, RemoveBatchFromOwnership, GoTo
  <2>2. LocalsKept(t)
    BY <1>3, JobTypes, AgentTypes DEF GcUnregister, GcDone, GoTo, LocalsKept
  <2>3. /\ AgentOf[t] \notin Sessions /\ life[AgentOf[t]] = "up" /\ v # AgentOf[t]
        /\ pc[t] \in HoldsAgent
    BY <1>c, <2>1 DEF HoldsAgent
  <2>4. ListsRespected(t)
    BY <1>a, <1>l, <2>1, <2>3
  <2>5. HandsRespected(t) /\ LeavesRespected(t) /\ QueueRespected(t)
    BY <2>1, <2>3, NoSession
  <2>6. pc'[t] \in Resting /\ pc'[t] \notin HoldsQueue /\ kept'[t] = {}
    BY <2>1, NoResults DEF Resting, HoldsQueue
  <2> QED
    BY <2>1, <2>2, <2>3, <2>4, <2>5, <2>6, RestingSound, Untouched, LostStep DEF StepRespects
<1> QED
  BY <1>1, <1>2, <1>3 DEF RemoveStep

\* Every step keeps the invariant about lost jobs.
LEMMA LostNext ==
    /\ RegisterInv /\ RegisterInv' /\ OwnershipInv /\ CleanupInv /\ CleanupInv' /\ LostInv
    /\ [Next]_vars
    => LostInv'
<1> SUFFICES ASSUME RegisterInv, RegisterInv', OwnershipInv, CleanupInv, CleanupInv', LostInv,
                    [Next]_vars
             PROVE  LostInv'
  OBVIOUS
<1>1. CASE UNCHANGED vars
  <2>1. ASSUME NEW t \in Threads PROVE ThreadSound(t)'
    <3>1. ThreadSound(t)
      BY DEF LostInv, ThreadSound
    <3>2. IntentLogged(t)' /\ PopSound(t)' /\ RequeueSound(t)'
      BY <1>1, <3>1 DEF ThreadSound, IntentLogged, PopSound, RequeueSound, Stored, vars
    <3>3. DereferenceSound(t)' /\ PlanSound(t)'
      BY <1>1, <3>1 DEF ThreadSound, DereferenceSound, PlanSound, Stored, vars
    <3> QED
      BY <3>2, <3>3 DEF ThreadSound
  <2>2. JobsOfRole' /\ QueueLocks' /\ QueueMatchesStatus' /\ NoLostJob'
    BY <1>1 DEF LostInv, JobsOfRole, QueueLocks, QueueMatchesStatus, NoLostJob, PointsBack,
                Stored, vars
  <2>3. ASSUME NEW a \in Agents PROVE NotReferenced(a)'
    BY <1>1 DEF LostInv, NotReferenced, Engaged, Stored, vars
  <2>4. HandsApart' /\ LeaveApart' /\ HeldIsOwned'
    BY <1>1 DEF LostInv, HandsApart, LeaveApart, HeldIsOwned, Claimed, Siblings, Stored, vars
  <2> QED
    BY <2>1, <2>2, <2>3, <2>4 DEF LostInv
<1>2. CASE LifeStep
  BY <1>2, LifeLostInv
<1>3. ASSUME NEW t \in Threads,
             FrontendStep(t) \/ SessionStep(t) \/ CollectorStep(t) \/ ErrorStep(t) \/ Continue(t)
      PROVE  LostInv'
  <2>1. Continue(t) => \/ EnqueueStep(t) \/ SwitchStep(t) \/ TakeStep(t) \/ RequeueStep(t)
                       \/ RemoveStep(t)
    BY DEF Continue, EnqueueStep, SwitchStep, TakeStep, RequeueStep, RemoveStep
  <2> QED
    BY <1>3, <2>1, FrontendLostInv, SessionLostInv, TakeLostInv, ErrorLostInv, EnqueueLostInv,
       SwitchLostInv, RequeueLostInv, RemoveLostInv
<1> QED
  BY <1>1, <1>2, <1>3 DEF Next

\* The inductive invariant about lost jobs holds in every reachable state.
THEOREM LostCorrect == Spec => [](RegisterInv /\ OwnershipInv /\ LostInv)
<1>1. Init => OwnershipInv /\ LostInv
  BY OwnershipInit, LostInit
<1>2. RegisterInv /\ OwnershipInv /\ [Next]_vars => OwnershipInv'
  BY OwnershipNext
<1>3. /\ RegisterInv /\ RegisterInv' /\ OwnershipInv /\ CleanupInv /\ CleanupInv' /\ LostInv
      /\ [Next]_vars
      => LostInv'
  BY LostNext
<1> QED
  BY <1>1, <1>2, <1>3, RegisterCorrect, CleanupCorrect, PTL DEF Spec

\* No job is ever lost: whatever crashes, exits, garbage collections,
\* cancellations and failed ownership switches happen, the owner of every job of
\* a stored request points back to it, for any number of processes and of threads
\* that share an agent.  Exactly two kinds of jobs are at risk: one popped while
\* another thread of its process was about to remove its address from the list, and
\* one requeued by an update that was committed and could not release its lock.
THEOREM NoLostJobCorrect == Spec => []NoLostJob
<1>1. LostInv => NoLostJob
  BY DEF LostInv
<1> QED
  BY <1>1, LostCorrect, PTL

\* A job waits in the queue its status asks for, also when a collector put it
\* there that only saw the request of a dead agent.
THEOREM QueueMatchesStatusCorrect == Spec => []QueueMatchesStatus
<1>1. LostInv => QueueMatchesStatus
  BY DEF LostInv
<1> QED
  BY <1>1, LostCorrect, PTL

\* A session only works on jobs it owns, whatever other threads of its process,
\* other sessions and collectors do.
THEOREM HeldIsOwnedCorrect == Spec => []HeldIsOwned
<1>1. LostInv => HeldIsOwned
  BY DEF LostInv
<1> QED
  BY <1>1, LostCorrect, PTL

\* Who takes a job of a stored request from an agent: a thread of the agent, at a
\* step that moves it on, or a collector once the process of the agent is down.
LEMMA TakenBy ==
  ASSUME RegisterInv, OwnershipInv, LostInv, NEW t \in Threads,
         FrontendStep(t) \/ SessionStep(t) \/ CollectorStep(t) \/ ErrorStep(t) \/ Continue(t),
         NEW r \in Requests, NEW p \in Pools, NEW a \in Agents, owner[r][p] = a,
         owner'[r][p] # a, rstate'[r] = "stored"
  PROVE  life[a] = "down" \/ (AgentOf[t] = a /\ (pc'[t] # pc[t] \/ todo'[t] # todo[t]))
<1> USE DEF local, store, At
<1>0. a \notin Queues /\ a # NoOwner
  BY AddressAssumption
<1>c. cur[t] \in Queues => cur[t] # a
  BY <1>0
<1>1. ASSUME NEW x \in Requests, QueueArchiveInsert(t, x) PROVE FALSE
  <2>1. /\ x \in batch[t] /\ pc[t] = "insert"
        /\ owner' = [owner EXCEPT ![x] =
                       [y \in Pools |-> IF y \in Copies[x] THEN AgentOf[t] ELSE NoOwner]]
    BY <1>1 DEF QueueArchiveInsert
  <2>2. rstate[x] = "claimed"
    BY <2>1 DEF OwnershipInv, InsertOnce
  <2>3. owner[x][p] = NoOwner
    BY <2>2 DEF LostInv, JobsOfRole
  <2> QED
    BY <1>0, <2>1, <2>3, JobTypes
<1>2. ASSUME NEW x \in Requests, BottomHalfCommit(t, x)
      PROVE  AgentOf[t] = a /\ pc'[t] # pc[t]
  <2>1. /\ x \in batch[t] /\ pc[t] = "commitJob" /\ pc'[t] \in {"enqueue", "deref"}
        /\ owner' = [owner EXCEPT ![x][cur[t][1]] = cur[t]]
    BY <1>2, JobTypes DEF BottomHalfCommit, GoTo
  <2>2. owner[x][cur[t][1]] = AgentOf[t]
    BY <2>1 DEF OwnershipInv, RequestLockHeld, HoldsRequest
  <2>3. x = r /\ cur[t][1] = p
    BY <2>1, OneJobChanges, JobTypes
  <2> QED
    BY <2>1, <2>2, <2>3
<1>3. ASSUME NEW x \in Requests, PopSwitch(t, x) \/ RequeueSwitch(t, x) \/ RequeueSwitchError(t, x)
      PROVE  AgentOf[t] = a /\ todo'[t] # todo[t]
  <2>1. /\ x \in todo[t] /\ todo'[t] = todo[t] \ {x} /\ pc[t] \in {"popSwitch", "reqSwitch"}
        /\ \/ owner' = owner
           \/ /\ owner[x][cur[t][1]] \in {cur[t], AgentOf[t]}
              /\ \E o : owner' = [owner EXCEPT ![x][cur[t][1]] = o]
    BY <1>3, JobTypes DEF PopSwitch, RequeueSwitch, RequeueSwitchError, CanSwitch
  <2>2. cur[t] # a
    BY <1>c, <2>1, JobTypes DEF HoldsQueue
  <2>3. x = r /\ cur[t][1] = p /\ owner[x][cur[t][1]] \in {cur[t], AgentOf[t]}
    BY <2>1, OneJobChanges, JobTypes
  <2> QED
    BY <2>1, <2>2, <2>3
<1>4. ASSUME NEW x \in Requests, GcSwitch(t, x) PROVE life[a] = "down"
  <2>1. /\ pc[t] = "gcSwitch"
        /\ \/ owner' = owner
           \/ /\ owner[x][cur[t][1]] \in {cur[t], victim[t]}
              /\ owner' = [owner EXCEPT ![x][cur[t][1]] = cur[t]]
    BY <1>4 DEF GcSwitch, CanSwitch
  <2>2. cur[t] # a
    BY <1>c, <2>1, JobTypes DEF HoldsQueue
  <2>3. x = r /\ cur[t][1] = p /\ owner[x][cur[t][1]] \in {cur[t], victim[t]}
    BY <2>1, OneJobChanges, JobTypes
  <2>4. life[victim[t]] = "down"
    BY <2>1, CollectorFacts DEF HoldsAgent
  <2> QED
    BY <2>2, <2>3, <2>4
<1>5. ASSUME NEW x \in Requests, CompleteJob(t, x) PROVE AgentOf[t] = a /\ pc'[t] # pc[t]
  <2>1. /\ pc[t] = "idle" /\ pc'[t] = "deref" /\ AgentOf[t] \in Sessions
        /\ x \in held[AgentOf[t]] /\ rstate[x] = "stored"
        /\ owner' = [owner EXCEPT ![x][SessionQueue[AgentOf[t]][1]] = NoOwner]
    BY <1>5, JobTypes DEF CompleteJob, Stored, GoTo
  <2>2. owner[x][SessionQueue[AgentOf[t]][1]] = AgentOf[t]
    BY <2>1 DEF LostInv, HeldIsOwned, Stored
  <2>3. x = r /\ SessionQueue[AgentOf[t]][1] = p
    BY <2>1, OneJobChanges, JobTypes
  <2> QED
    BY <2>1, <2>2, <2>3
<1>6. ASSUME NEW x \in Requests, CancelArchive(t, x) \/ DeleteReported(t, x) PROVE FALSE
  <2>1. /\ rstate' = [rstate EXCEPT ![x] = "gone"]
        /\ owner' = [owner EXCEPT ![x] = [y \in Pools |-> NoOwner]]
    BY <1>6 DEF CancelArchive, DeleteReported, Remove
  <2> QED
    BY <2>1, JobTypes
<1>7. CASE owner' = owner
  BY <1>7
<1>8. \/ owner' = owner
      \/ \E x \in Requests :
           \/ QueueArchiveInsert(t, x) \/ BottomHalfCommit(t, x)
           \/ PopSwitch(t, x) \/ RequeueSwitch(t, x) \/ RequeueSwitchError(t, x)
           \/ GcSwitch(t, x)
           \/ CompleteJob(t, x) \/ CancelArchive(t, x) \/ DeleteReported(t, x)
  <2>1. FrontendStep(t) =>
          owner' = owner \/ \E x \in Requests : CancelArchive(t, x)
    BY DEF FrontendStep, QueueArchiveReference
  <2>2. SessionStep(t) =>
          owner' = owner \/ \E x \in Requests : CompleteJob(t, x) \/ DeleteReported(t, x)
    BY DEF SessionStep, PopReference, UpdateStatus, ForgetGone
  <2>3. CollectorStep(t) \/ ErrorStep(t) =>
          owner' = owner \/ \E x \in Requests : RequeueSwitchError(t, x)
    BY DEF CollectorStep, ErrorStep, GcReference, PopSwitchError
  <2>4. TransferStep(t) =>
          \/ owner' = owner
          \/ \E x \in Requests : \/ QueueArchiveInsert(t, x) \/ BottomHalfCommit(t, x)
                                 \/ PopSwitch(t, x) \/ RequeueSwitch(t, x)
    BY DEF TransferStep, BottomHalfLock, BottomHalfReference, Dereference, PopCommit,
           RequeueReference, RequeueCommit
  <2>5. TakeStep(t) \/ RemoveStep(t) => owner' = owner
    BY DEF TakeStep, RemoveStep, GcOwn, GcTrack, GcFetch, GcSort, GcUntrack, GcHandBack,
           GcRelinquish, GcRemove, GcUnregister, GcDone
  <2>6. RequeueStep(t) => owner' = owner \/ \E x \in Requests : GcSwitch(t, x)
    BY DEF RequeueStep, GcRequeueReference, GcRequeueCommit, GcErase
  <2> QED
    BY <2>1, <2>2, <2>3, <2>4, <2>5, <2>6, ContinueSteps
<1> QED
  BY <1>1, <1>2, <1>3, <1>4, <1>5, <1>6, <1>7, <1>8

\* A job of a request that stays in the store is never taken from a running
\* process: only the process itself gives it away, at a step of the operation it
\* has in progress, or a collector takes it once the process is down.
THEOREM OwnerIsRespectedCorrect == Spec => OwnerIsRespected
<1> DEFINE Respected ==
      \A r \in Requests, p \in Pools :
         LET a == owner[r][p] IN
         a \in Agents /\ owner'[r][p] # a /\ rstate'[r] = "stored" =>
             \/ life[a] = "down"
             \/ \E t \in Threads : AgentOf[t] = a /\ (pc'[t] # pc[t] \/ todo'[t] # todo[t])
<1>1. RegisterInv /\ OwnershipInv /\ LostInv /\ [Next]_vars => [Respected]_vars
  <2> SUFFICES ASSUME RegisterInv, OwnershipInv, LostInv, Next,
                      NEW r \in Requests, NEW p \in Pools, owner[r][p] \in Agents,
                      owner'[r][p] # owner[r][p], rstate'[r] = "stored"
               PROVE  \/ life[owner[r][p]] = "down"
                      \/ \E t \in Threads : /\ AgentOf[t] = owner[r][p]
                                            /\ pc'[t] # pc[t] \/ todo'[t] # todo[t]
    OBVIOUS
  <2>1. ~ LifeStep
    BY DEF LifeStep, StartRegister, StartInsert, Crash, ExitLeavingObjects, ExitRemove,
           ExitUnregister, store
  <2>2. PICK t \in Threads :
          FrontendStep(t) \/ SessionStep(t) \/ CollectorStep(t) \/ ErrorStep(t) \/ Continue(t)
    BY <2>1 DEF Next
  <2> QED
    BY <2>2, TakenBy
<1> QED
  BY <1>1, LostCorrect, PTL DEF Spec, OwnerIsRespected
=============================================================================
