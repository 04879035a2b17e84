---------------------------- MODULE QueueLookup ----------------------------
(***************************************************************************)
(* How processes find, create and remove a queue.  The root entry points   *)
(* to the queue of each tape pool and type; this module follows one such   *)
(* pointer.  A thread that adds a job looks the queue up or creates it     *)
(* (Helpers::getLockedAndFetchedJobQueue()), one that pops jobs looks it   *)
(* up (getLockedAndFetchedNoCreate()) and removes it when it is empty      *)
(* (trimContainerIfNeeded()).  The pointer is read without a lock and the  *)
(* queue is locked later: it may be gone by then, or not be there yet.     *)
(* Threads may stop between any two steps, in particular between the       *)
(* commits of the root entry and the creation or removal of the queue.     *)
(*                                                                         *)
(* A lock is held in a section of the code, see HoldsRoot and HoldsQueue.  *)
(* The queues of archive, retrieve and repack requests are handled alike.  *)
(***************************************************************************)
EXTENDS Naturals

CONSTANTS
    Threads,
    Addresses,   \* addresses of queues; one that nobody knows any more is a new one
    NoQueue,     \* no address
    MaxAttempts, \* attempts of getLockedAndFetchedJobQueue()
    MaxCalls,    \* bound: calls of all threads
    MaxFaults    \* bound: threads that stop and errors of the object store

ASSUME AddressAssumption == NoQueue \notin Addresses
ASSUME NumberAssumption == MaxAttempts \in Nat /\ MaxCalls \in Nat /\ MaxFaults \in Nat

VARIABLES
    root,      \* the pointer in the root entry
    queues,    \* the queue objects that exist
    content,   \* the number of jobs in each
    queued,    \* history: the number of jobs that were added and not popped
    pc,
    purpose,   \* what a thread is doing: "add", "pop" or "trim"
    at,        \* the address it found
    attempt,
    disturbed, \* history: another thread has changed something during the call
    calls,
    faults

store == <<root, queues, content, queued>>
vars == <<store, pc, purpose, at, attempt, disturbed, calls, faults>>

Init ==
    /\ root = NoQueue
    /\ queues = {}
    /\ content = [q \in Addresses |-> 0]
    /\ queued = 0
    /\ pc = [t \in Threads |-> "idle"]
    /\ purpose = [t \in Threads |-> "add"]
    /\ at = [t \in Threads |-> NoQueue]
    /\ attempt = [t \in Threads |-> 0]
    /\ disturbed = [t \in Threads |-> FALSE]
    /\ calls = 0
    /\ faults = 0

-----------------------------------------------------------------------------

\* Mutant: a queue that is found empty is trimmed without releasing it first.
HoldsUntilTrimmed(t, q) ==
    \/ pc[t] \in {"locked", "clean", "remove"} /\ at[t] = q
    \/ pc[t] = "clean" /\ purpose[t] = "trim" /\ root = q

\* A thread has the lock of the root entry, of a queue.  A thread on its way to remove
\* the queue has an address only if it could not fetch the queue it has locked.
HoldsRoot(t) == pc[t] \in {"insert", "remove", "dereference"}
HoldsQueue(t, q) == pc[t] \in {"locked", "clean", "remove"} /\ at[t] = q

RootFree == \A t \in Threads : ~ HoldsRoot(t)
QueueFree(q) == \A t \in Threads : ~ HoldsQueue(t, q)

\* A thread goes on at step l, with the queue at address q.
GotoWith(t, l, q) ==
    /\ pc' = [pc EXCEPT ![t] = l]
    /\ at' = [at EXCEPT ![t] = q]

\* It goes on without one (resetAddress()).
Goto(t, l) == GotoWith(t, l, NoQueue)

\* What t has just changed may surprise the others.
Disturb(t) == disturbed' = [u \in Threads |-> (u # t /\ pc[u] # "idle") \/ disturbed[u]]

\* A call to add a job or to pop jobs.
Begin(t, p) ==
    /\ pc[t] = "idle"
    /\ calls < MaxCalls
    /\ calls' = calls + 1
    /\ Goto(t, "look")
    /\ purpose' = [purpose EXCEPT ![t] = p]
    /\ attempt' = [attempt EXCEPT ![t] = 0]
    /\ disturbed' = [disturbed EXCEPT ![t] = FALSE]
    /\ UNCHANGED <<store, faults>>

\* The root entry is read without a lock.  Without a queue there is nothing to pop
\* (NoSuchContainer).
FindQueue(t) ==
    /\ pc[t] = "look"
    /\ \/ root # NoQueue /\ GotoWith(t, "lock", root)
       \/ root = NoQueue /\ purpose[t] = "add" /\ Goto(t, "create")
       \/ root = NoQueue /\ purpose[t] = "pop" /\ Goto(t, "idle")
    /\ UNCHANGED <<store, purpose, attempt, disturbed, calls, faults>>

\* An address that has not been used: nextId().
Fresh == {q \in Addresses : q # root /\ q \notin queues /\ \A t \in Threads : at[t] # q}

\* Under the lock of the root entry, another thread may have been faster ...
GetQueue(t) ==
    /\ pc[t] = "create"
    /\ RootFree
    /\ root # NoQueue
    /\ GotoWith(t, "lock", root)
    /\ UNCHANGED <<store, purpose, attempt, disturbed, calls, faults>>

\* Mutants: the pointer is added although there is one by now; the address of the new
\* queue is not remembered.
AddPointerAgain(t) ==
    /\ pc[t] = "create"
    /\ RootFree
    /\ Fresh # {}
    /\ root' = CHOOSE q \in Fresh : TRUE
    /\ GotoWith(t, "insert", root')
    /\ Disturb(t)
    /\ UNCHANGED <<queues, content, queued, purpose, attempt, calls, faults>>

\* ... else the pointer is committed first,
AddPointer(t) ==
    /\ pc[t] = "create"
    /\ RootFree
    /\ root = NoQueue
    /\ Fresh # {}
    /\ root' = CHOOSE q \in Fresh : TRUE
    /\ GotoWith(t, "insert", root')
    /\ Disturb(t)
    /\ UNCHANGED <<queues, content, queued, purpose, attempt, calls, faults>>

\* then the queue object.
InsertQueue(t) ==
    /\ pc[t] = "insert"
    /\ queues' = queues \cup {at[t]}
    /\ content' = [content EXCEPT ![at[t]] = 0]
    /\ GotoWith(t, "lock", at[t])
    /\ Disturb(t)
    /\ UNCHANGED <<root, queued, purpose, attempt, calls, faults>>

LockQueue(t) ==
    /\ pc[t] = "lock"
    /\ at[t] \in queues
    /\ QueueFree(at[t])
    /\ GotoWith(t, "locked", at[t])
    /\ UNCHANGED <<store, purpose, attempt, disturbed, calls, faults>>

-----------------------------------------------------------------------------
(* What a thread does with the queue                                       *)

AddJob(t) ==
    /\ pc[t] = "locked"
    /\ purpose[t] = "add"
    /\ content' = [content EXCEPT ![at[t]] = @ + 1]
    /\ queued' = queued + 1
    /\ Goto(t, "idle")
    /\ UNCHANGED <<root, queues, purpose, attempt, disturbed, calls, faults>>

\* Some jobs leave the queue; if it is empty then it is released and trimmed.
PopJobs(t) ==
    /\ pc[t] = "locked"
    /\ purpose[t] = "pop"
    /\ \E left \in 0 .. content[at[t]] :
         /\ content' = [content EXCEPT ![at[t]] = left]
         /\ queued' = queued - (content[at[t]] - left)
    /\ IF content'[at[t]] = 0
         THEN Goto(t, "clean") /\ purpose' = [purpose EXCEPT ![t] = "trim"]
         ELSE Goto(t, "idle") /\ UNCHANGED purpose
    /\ UNCHANGED <<root, queues, attempt, disturbed, calls, faults>>

-----------------------------------------------------------------------------
(* Failures and the removal of a queue                                     *)

\* The next attempt, or the exception after the last one.
Retry(t) ==
    /\ attempt' = [attempt EXCEPT ![t] = @ + 1]
    /\ Goto(t, IF attempt[t] + 1 < MaxAttempts THEN "look" ELSE "idle")

\* Mutant: the pointer to a missing queue is never removed by a look-up.
CleansNever(t) == purpose[t] = "pop"

\* A look-up that finds no queue removes the pointer; getLockedAndFetchedJobQueue()
\* only if it is not its first attempt.
Cleans(t) == purpose[t] = "pop" \/ attempt[t] > 0

\* The queue is not there (NoSuchObject).
LockFails(t) ==
    /\ pc[t] = "lock"
    /\ at[t] \notin queues
    /\ IF Cleans(t) THEN Goto(t, "clean") /\ UNCHANGED attempt ELSE Retry(t)
    /\ UNCHANGED <<store, purpose, disturbed, calls, faults>>

\* The thread goes on after an attempt to remove the queue, whatever came of it.
AfterRemoval(t) ==
    \/ purpose[t] = "add" /\ Retry(t)
    \/ purpose[t] = "pop" /\ Goto(t, "look") /\ UNCHANGED attempt
    \/ purpose[t] = "trim" /\ Goto(t, "idle") /\ UNCHANGED attempt

\* removeArchiveQueueAndCommit() is called with the root entry locked; it throws
\* NoSuchArchiveQueue if there is no pointer.
LockRoot(t) ==
    /\ pc[t] = "clean"
    /\ RootFree
    /\ \/ root = NoQueue /\ AfterRemoval(t)
       \/ root # NoQueue /\ GotoWith(t, "remove", at[t]) /\ UNCHANGED attempt
    /\ UNCHANGED <<store, purpose, disturbed, calls, faults>>

\* Mutant: the queue is removed without its lock.
RemovableUnlocked == root \in queues /\ content[root] = 0

\* The queue the root entry points to now can be locked and is empty.
Removable == root \in queues /\ QueueFree(root) /\ content[root] = 0

\* It is removed, if it is there, and only then the pointer.
RemoveQueue(t) ==
    /\ pc[t] = "remove"
    /\ root \notin queues \/ Removable
    /\ queues' = queues \ {root}
    /\ Goto(t, "dereference")
    /\ Disturb(t)
    /\ UNCHANGED <<root, content, queued, purpose, attempt, calls, faults>>

\* ArchiveQueueNotEmpty: it is another queue, or somebody has added a job.
QueueNotEmpty(t) ==
    /\ pc[t] = "remove"
    /\ root \in queues
    /\ QueueFree(root)
    /\ content[root] > 0
    /\ AfterRemoval(t)
    /\ UNCHANGED <<store, purpose, disturbed, calls, faults>>

Dereference(t) ==
    /\ pc[t] = "dereference"
    /\ root' = NoQueue
    /\ AfterRemoval(t)
    /\ Disturb(t)
    /\ UNCHANGED <<queues, content, queued, purpose, calls, faults>>

\* The queue is there and cannot be locked or fetched.  A look-up to add releases it and
\* tries again; one to pop tries to remove it, and when it was the fetch that failed it
\* keeps the lock meanwhile.  A removal fails, which ends a call to pop.
StoreError(t) ==
    /\ faults < MaxFaults
    /\ faults' = faults + 1
    /\ disturbed' = [disturbed EXCEPT ![t] = TRUE]
    /\ \/ /\ pc[t] = "lock"
          /\ \/ purpose[t] = "add" /\ Retry(t)
             \/ purpose[t] = "pop" /\ Goto(t, "clean") /\ UNCHANGED attempt
             \/ /\ purpose[t] = "pop" /\ at[t] \in queues /\ QueueFree(at[t])
                /\ GotoWith(t, "clean", at[t]) /\ UNCHANGED attempt
       \/ /\ pc[t] = "remove"
          /\ root \in queues
          /\ \/ purpose[t] = "add" /\ Retry(t)
             \/ purpose[t] # "add" /\ Goto(t, "idle") /\ UNCHANGED attempt
    /\ UNCHANGED <<store, purpose, calls>>

\* A thread dies, or an exception of the object store ends its call.
Stop(t) ==
    /\ pc[t] # "idle"
    /\ faults < MaxFaults
    /\ faults' = faults + 1
    /\ Goto(t, "idle")
    /\ UNCHANGED <<store, purpose, attempt, disturbed, calls>>

-----------------------------------------------------------------------------

Continue(t) ==
    \/ FindQueue(t) \/ GetQueue(t) \/ AddPointer(t) \/ InsertQueue(t)
    \/ LockQueue(t) \/ AddJob(t) \/ PopJobs(t)
    \/ LockFails(t) \/ LockRoot(t) \/ RemoveQueue(t) \/ QueueNotEmpty(t) \/ Dereference(t)

Next ==
    \E t \in Threads :
        (\E p \in {"add", "pop"} : Begin(t, p)) \/ Continue(t) \/ StoreError(t) \/ Stop(t)

\* A thread goes on with its call.
Fairness == \A t \in Threads : WF_vars(Continue(t))

Spec == Init /\ [][Next]_vars
LiveSpec == Spec /\ Fairness

-----------------------------------------------------------------------------
(* Properties                                                              *)

Steps == {"idle", "look", "create", "insert", "lock", "locked", "clean", "remove", "dereference"}

\* The shape of the state.
TypeOK ==
    /\ root \in Addresses \cup {NoQueue}
    /\ queues \subseteq Addresses
    /\ content \in [Addresses -> Nat]
    /\ queued \in Nat
    /\ pc \in [Threads -> Steps]
    /\ purpose \in [Threads -> {"add", "pop", "trim"}]
    /\ at \in [Threads -> Addresses \cup {NoQueue}]
    /\ attempt \in [Threads -> Nat]
    /\ disturbed \in [Threads -> BOOLEAN]
    /\ calls \in Nat
    /\ faults \in Nat

\* However creation, removal and crashes interleave, the queue objects are at most the
\* one the root entry points to: none is left where nobody finds it
\* (addOrGetArchiveQueueAndCommit(), removeArchiveQueueAndCommit()).
NoOrphanQueue == queues \subseteq {root}

\* A job that was added and not popped is in the queue the root entry points to, and
\* only such jobs are: no queue is removed with a job in it, and nobody adds to a queue
\* that was removed after it had been looked up.
JobsReachable == queued = IF root \in queues THEN content[root] ELSE 0

\* Whatever state earlier crashes left, a look-up that nobody interferes with succeeds
\* in at most three of the attempts getLockedAndFetchedJobQueue() allows itself: it finds
\* that the queue is missing, removes the pointer, and creates a new one.
UndisturbedSucceeds == \A t \in Threads : attempt[t] > 2 => disturbed[t]

\* A thread asks for the root entry, or for the queue once more, with the queue locked:
\* getLockedAndFetchedNoCreate() calls removeArchiveQueueAndCommit() before it releases
\* the queue it could not fetch.
Entangled(t) == pc[t] \in {"clean", "remove"} /\ at[t] # NoQueue

\* Every call ends: look-ups, trimming and removal take the two locks in an order that
\* does not deadlock, and the unlimited retries of getLockedAndFetchedNoCreate() end.
\* The one exception is the thread that has failed to fetch a locked queue: it waits for
\* its own lock, and all others wait for it.
CallsEnd ==
    \A t \in Threads : pc[t] # "idle" ~> pc[t] = "idle" \/ \E u \in Threads : Entangled(u)
=============================================================================
