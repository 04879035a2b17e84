------------------------------ MODULE Watchdog ------------------------------
(***************************************************************************)
(* How a garbage collector finds out that a process is dead.  The process  *)
(* (AgentHeartbeatThread::run()) waits HeartRate, bumps the heartbeat in   *)
(* its agent object and exits when the update took longer than Deadline or *)
(* failed.  The collector (AgentWatchdog::checkAlive()) remembers the      *)
(* heartbeat counter and when it last saw it change; it declares the agent *)
(* dead when it asks for collection or when the counter has not changed    *)
(* for more than Timeout.                                                  *)
(*                                                                         *)
(* Time passes in Tick, in units of any length; the timers of both         *)
(* processes advance together.                                             *)
(***************************************************************************)
EXTENDS Naturals

CONSTANTS
    HeartRate,  \* m_heartRate
    Deadline,   \* m_heartbeatDeadline
    Timeout,    \* timeout_us of the agent
    MaxUpdate,  \* environment: how long an update of the heartbeat may take
    ReadDelay,  \* environment: time between the reading of the counter and that of the timer
    MaxRestarts \* bound: restarts of the collector

ASSUME TimeAssumption ==
    /\ HeartRate \in Nat
    /\ Deadline \in Nat
    /\ Timeout \in Nat
    /\ MaxUpdate \in Nat
    /\ ReadDelay \in Nat
    /\ MaxRestarts \in Nat

VARIABLES
    process, \* "runs", "died", "left" (it asked for collection), "gone" (so is its agent)
    beat,    \* the heartbeat thread: "wait", "update", "done" (an update that is stored)
    clock,   \* time since it began to wait or to update
    watched, \* the collector has a watchdog for the agent
    fresh,   \* the stored counter differs from m_heartbeatCounter
    timer,   \* m_timer
    check,   \* checkAlive() has read the agent object and not judged it yet
    read,    \* what it read: a new counter ("new"), the old one ("old"), needsGC ("gc")
    later,   \* the counter has changed since it was read
    delay,   \* time since it was read
    dead,    \* the agent was declared dead
    silence, \* history: time since the counter was stored last
    longest, \* history: the longest time it was not
    restarts

vars == <<process, beat, clock, watched, fresh, timer, check, read, later, delay, dead,
          silence, longest, restarts>>
history == <<silence, longest>>
thread == <<beat, clock>>
watchdog == <<watched, timer, check, read, delay, dead>>

Init ==
    /\ process = "runs"
    /\ beat = "wait"
    /\ clock = 0
    /\ watched = FALSE
    /\ fresh = FALSE
    /\ timer = 0
    /\ check = FALSE
    /\ read = "old"
    /\ later = FALSE
    /\ delay = 0
    /\ dead = FALSE
    /\ silence = 0
    /\ longest = 0
    /\ restarts = 0

\* Timers stop where nothing compares them any more.
Advance(t, limit) == IF t < limit THEN t + 1 ELSE t

\* The thread wakes up in time; updates end within MaxUpdate.
Tick ==
    /\ process = "runs" /\ beat = "wait" => clock < HeartRate
    /\ process = "runs" /\ beat # "wait" => clock < MaxUpdate
    /\ check => delay < ReadDelay
    /\ clock' = Advance(clock, HeartRate + MaxUpdate)
    /\ timer' = Advance(timer, Timeout + 1)
    /\ delay' = Advance(delay, ReadDelay)
    /\ silence' = Advance(silence, Timeout + 1)
    /\ longest' = IF longest < silence' THEN silence' ELSE longest
    /\ UNCHANGED <<process, beat, watched, fresh, check, read, later, dead, restarts>>

-----------------------------------------------------------------------------
(* The process                                                             *)

\* The waiting of the heartbeat thread is over: bumpHeatbeat() is called.
Wake ==
    /\ process = "runs"
    /\ beat = "wait"
    /\ clock = HeartRate
    /\ beat' = "update"
    /\ clock' = 0
    /\ UNCHANGED <<process, fresh, later, watchdog, history, restarts>>

\* The new counter is stored.
Bump ==
    /\ process = "runs"
    /\ beat = "update"
    /\ beat' = "done"
    /\ fresh' = TRUE
    /\ later' = TRUE
    /\ silence' = 0
    /\ UNCHANGED <<process, clock, watchdog, longest, restarts>>

TooLate == clock > Deadline

\* bumpHeatbeat() returns: the process waits again, or exits if it took too long.
Return ==
    /\ process = "runs"
    /\ beat = "done"
    /\ IF TooLate
         THEN process' = "died" /\ UNCHANGED thread
         ELSE process' = process /\ beat' = "wait" /\ clock' = 0
    /\ UNCHANGED <<fresh, later, watchdog, history, restarts>>

\* It throws, or the process dies for any other reason.
Die ==
    /\ process = "runs"
    /\ process' = "died"
    /\ UNCHANGED <<thread, fresh, later, watchdog, history, restarts>>

\* ~BackendPopulator(): the process ends and asks for the collection of its agent
\* or removes it.  The heartbeat thread was stopped.
Leave ==
    /\ process = "runs"
    /\ beat = "wait"
    /\ process' \in {"left", "gone"}
    /\ UNCHANGED <<thread, fresh, later, watchdog, history, restarts>>

-----------------------------------------------------------------------------
(* The collector                                                           *)

\* acquireTargets(): a watchdog is made for the agent.  Its timer starts before it reads
\* the counter.
AcquireTarget ==
    /\ ~ watched
    /\ ~ dead
    /\ process # "gone"
    /\ watched' = TRUE
    /\ timer' \in 0 .. ReadDelay
    /\ fresh' = FALSE
    /\ UNCHANGED <<process, thread, check, read, later, delay, dead, history,
                   restarts>>

\* trimGoneTargets(): the agent is no longer in the register.
TrimGoneTarget ==
    /\ watched
    /\ ~ check
    /\ process = "gone"
    /\ watched' = FALSE
    /\ UNCHANGED <<process, thread, fresh, timer, check, read, later, delay, dead,
                   history, restarts>>

\* readGCData(); nothing happens if the agent object is gone.
ReadGCData ==
    /\ watched
    /\ ~ check
    /\ process # "gone"
    /\ check' = TRUE
    /\ read' = CASE process = "left" -> "gc"
                 [] process # "left" /\ fresh -> "new"
                 [] OTHER -> "old"
    /\ later' = FALSE
    /\ delay' = 0
    /\ UNCHANGED <<process, thread, watched, fresh, timer, dead, history, restarts>>

Expired == timer > Timeout

\* Mutants: a changed counter is remembered and the timer goes on; the timer is
\* reset by every check.
RememberCounter == read = "new" /\ fresh' = later /\ timer' = timer
ResetEveryTime == fresh' = (fresh /\ (read = "new" => later)) /\ timer' = 0

\* The counter has changed: it is remembered and the timer restarted.
NewHeartbeat == read = "new" /\ fresh' = later /\ timer' = 0
SameHeartbeat == read = "old" /\ UNCHANGED <<fresh, timer>>
StillAlive == NewHeartbeat \/ SameHeartbeat

\* cleanupDeadAgent() is called and the watchdog is deleted; if the agent object is gone
\* by now it stays until it is trimmed.
DeclareDead ==
    IF process = "gone" THEN UNCHANGED <<dead, watched>> ELSE dead' = TRUE /\ watched' = FALSE

\* The rest of checkAlive(), and what checkHeartbeats() does with its answer.
Judge ==
    /\ check
    /\ check' = FALSE
    /\ IF read = "gc" \/ (read = "old" /\ Expired)
         THEN DeclareDead /\ UNCHANGED <<fresh, timer>>
         ELSE StillAlive /\ UNCHANGED <<watched, dead>>
    /\ UNCHANGED <<process, thread, read, later, delay, history, restarts>>

\* The collector is restarted and knows nothing.
Restart ==
    /\ restarts < MaxRestarts
    /\ restarts' = restarts + 1
    /\ watched' = FALSE
    /\ check' = FALSE
    /\ UNCHANGED <<process, thread, fresh, timer, read, later, delay, dead, history>>

-----------------------------------------------------------------------------

ProcessStep == Wake \/ Bump \/ Return \/ Die \/ Leave
CollectorStep == AcquireTarget \/ TrimGoneTarget \/ ReadGCData \/ Judge

Next == Tick \/ ProcessStep \/ CollectorStep \/ Restart

\* Time goes on, and the collector makes passes.
Fairness == SF_vars(Tick) /\ WF_vars(CollectorStep)

Spec == Init /\ [][Next]_vars
LiveSpec == Spec /\ Fairness

-----------------------------------------------------------------------------
(* Properties                                                              *)

\* The types; an agent that was declared dead is not watched any more, and only a
\* watched one is checked.
TypeOK ==
    /\ process \in {"runs", "died", "left", "gone"}
    /\ beat \in {"wait", "update", "done"}
    /\ clock \in Nat
    /\ watched \in BOOLEAN
    /\ fresh \in BOOLEAN
    /\ timer \in Nat
    /\ check \in BOOLEAN
    /\ read \in {"new", "old", "gc"}
    /\ later \in BOOLEAN
    /\ delay \in Nat
    /\ dead \in BOOLEAN
    /\ silence \in Nat
    /\ longest \in Nat
    /\ restarts \in Nat
    /\ check => watched
    /\ dead => ~ watched

\* A running process is declared dead only if it once left its counter unchanged for
\* the timeout, but for the delays of checkAlive(): however its updates, the checks and
\* the restarts of the collector interleave, nobody who stores a heartbeat often enough
\* is collected alive.
NeverMistaken ==
    [][~ dead /\ dead' => process # "runs" \/ longest + ReadDelay + ReadDelay > Timeout]_vars

\* What would make the two sides agree: a running process that keeps the deadline it
\* checks itself is not declared dead.  It does not hold for the times of the code, see
\* the README: an update may store the counter at its beginning, and the next one at its
\* end.
Punctual == process = "runs" /\ (beat # "wait" => clock <= Deadline)
PunctualIsSpared == [][~ dead /\ dead' => ~ Punctual]_vars

\* A process that died or asked for it is found, also when the collector restarts.
DeadFound == (process \in {"died", "left"}) ~> dead
=============================================================================
