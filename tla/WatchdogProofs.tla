--------------------------- MODULE WatchdogProofs ---------------------------
(***************************************************************************)
(* What a collector may conclude from a heartbeat that does not change,    *)
(* for every choice of the times.                                          *)
(***************************************************************************)
EXTENDS Watchdog, TLAPS

\* What the watchdog has read is judged in time.
ClockInv == check => delay <= ReadDelay

\* As long as the counter is the remembered one, the timer is hardly older than it; what
\* the watchdog has read is a little older, and may have been replaced since.
TimerInv ==
    /\ silence <= longest
    /\ watched /\ ~ fresh => timer <= silence + ReadDelay
    /\ check /\ read = "old" /\ process = "runs" => timer <= longest + ReadDelay + delay
    /\ process = "runs" /\ check => read # "gc"

WatchdogInv == TypeOK /\ ClockInv /\ TimerInv

\* Every step keeps the timers in order.
LEMMA WatchdogStep == WatchdogInv /\ [Next]_vars => WatchdogInv'
<1> SUFFICES ASSUME WatchdogInv, [Next]_vars PROVE WatchdogInv'
  OBVIOUS
<1> USE TimeAssumption DEF WatchdogInv
<1>1. CASE Tick
  <2>1. /\ timer' \in Nat /\ timer' <= timer + 1 /\ (check => delay' = delay + 1)
        /\ timer' <= Timeout + 1 \/ timer' = timer
        /\ silence' \in Nat /\ silence <= silence' /\ (silence' = silence + 1 \/ silence > Timeout)
        /\ clock' \in Nat /\ delay' \in Nat
    BY <1>1 DEF TypeOK, Tick, Advance
  <2>2. longest' \in Nat /\ longest <= longest' /\ silence' <= longest'
    BY <1>1, <2>1 DEF TypeOK, Tick
  <2>3. TypeOK' /\ ClockInv'
    BY <1>1, <2>1, <2>2 DEF TypeOK, ClockInv, Tick
  <2>5. watched' /\ ~ fresh' => timer' <= silence' + ReadDelay
    BY <1>1, <2>1 DEF TypeOK, TimerInv, Tick
  <2>6. check' /\ read' = "old" /\ process' = "runs" => timer' <= longest' + ReadDelay + delay'
    BY <1>1, <2>1, <2>2 DEF TypeOK, TimerInv, Tick
  <2> QED BY <1>1, <2>1, <2>2, <2>3, <2>5, <2>6 DEF TimerInv, Tick
<1>2. CASE Wake
  BY <1>2 DEF TypeOK, ClockInv, TimerInv, Wake, watchdog, history
<1>3. CASE Bump
  BY <1>3 DEF TypeOK, ClockInv, TimerInv, Bump, watchdog
<1>4. CASE Return
  BY <1>4 DEF TypeOK, ClockInv, TimerInv, Return, thread, watchdog, history
<1>5. CASE Die \/ Leave
  BY <1>5 DEF TypeOK, ClockInv, TimerInv, Die, Leave, thread, watchdog, history
<1>6. CASE AcquireTarget
  <2>1. TypeOK' /\ ClockInv'
    <3>0. timer' \in Nat
      BY <1>6 DEF AcquireTarget
    <3>1. watched' \in BOOLEAN /\ fresh' \in BOOLEAN /\ watched' /\ ~ dead
      BY <1>6, Zenon DEF AcquireTarget
    <3>2. UNCHANGED <<process, beat, clock, check, read, later, delay, dead, silence, longest, restarts>>
      BY <1>6 DEF AcquireTarget, thread, history
    <3> QED BY <3>0, <3>1, <3>2 DEF TypeOK, ClockInv
  <2>2. ~ check
    BY <1>6 DEF TypeOK, AcquireTarget
  <2>3. timer' <= silence' + ReadDelay /\ silence' <= longest'
    BY <1>6 DEF TypeOK, TimerInv, AcquireTarget, history
  <2> QED BY <1>6, <2>1, <2>2, <2>3 DEF TimerInv, AcquireTarget
<1>7. CASE TrimGoneTarget \/ Restart
  <2>1. /\ UNCHANGED <<process, beat, clock, fresh, timer, read, later, delay, dead, silence, longest>>
        /\ watched' \in BOOLEAN /\ check' \in BOOLEAN /\ ~ watched' /\ ~ check'
        /\ restarts' \in Nat
    <3>1. CASE TrimGoneTarget
      <4>1. UNCHANGED <<process, beat, clock, fresh, timer, read, later, delay, dead, silence, longest, restarts, check>>
        BY <3>1 DEF TrimGoneTarget, thread, history
      <4>2. watched' \in BOOLEAN /\ ~ watched' /\ ~ check
        BY <3>1, Zenon DEF TrimGoneTarget
      <4> QED BY <4>1, <4>2 DEF TypeOK
    <3>2. CASE Restart
      <4>1. UNCHANGED <<process, beat, clock, fresh, timer, read, later, delay, dead, silence, longest>>
        BY <3>2 DEF Restart, thread, history
      <4>2. watched' \in BOOLEAN /\ check' \in BOOLEAN /\ ~ watched' /\ ~ check'
        BY <3>2, Zenon DEF Restart
      <4>3. restarts' \in Nat
        BY <3>2 DEF TypeOK, Restart
      <4> QED BY <4>1, <4>2, <4>3
    <3> QED BY <1>7, <3>1, <3>2
  <2>2. TypeOK'
    BY <2>1 DEF TypeOK
  <2>3. ClockInv' /\ TimerInv'
    BY <2>1 DEF ClockInv, TimerInv
  <2> QED BY <2>2, <2>3
<1>8. CASE ReadGCData
  <2>0. read' \in {"new", "old", "gc"}
    BY <1>8 DEF TypeOK, ReadGCData
  <2>a. /\ UNCHANGED <<process, beat, clock, watched, fresh, timer, dead, silence, longest, restarts>>
        /\ check' \in BOOLEAN /\ watched /\ later' \in BOOLEAN /\ delay' = 0
    BY <1>8 DEF ReadGCData, thread, history
  <2>1. TypeOK' /\ ClockInv'
    BY <2>0, <2>a DEF TypeOK, ClockInv
  <2>2. /\ process = "runs" => read' # "gc"
        /\ read' = "old" => ~ fresh \/ process = "left"
    BY <1>8 DEF TypeOK, ReadGCData
  <2>3. check' /\ read' = "old" /\ process' = "runs" => timer' <= longest' + ReadDelay + delay'
    BY <1>8, <2>2, <2>a DEF TypeOK, TimerInv
  <2> QED BY <2>1, <2>2, <2>3, <2>a DEF TimerInv
<1>9. CASE Judge
  <2>3. check' = FALSE
    BY <1>9 DEF Judge
  <2>4. \/ watched' = FALSE
        \/ watched' = watched /\ timer' = 0
        \/ watched' = watched /\ timer' = timer /\ fresh' = fresh
    BY <1>9 DEF Judge, DeclareDead, StillAlive, NewHeartbeat, SameHeartbeat
  <2>5. /\ UNCHANGED <<process, beat, clock, read, later, delay, silence, longest, restarts>>
        /\ watched' \in BOOLEAN /\ dead' \in BOOLEAN /\ (dead' => ~ watched')
        /\ fresh' \in BOOLEAN /\ timer' \in Nat
    <3>1. UNCHANGED <<process, beat, clock, read, later, delay, silence, longest, restarts>>
      BY <1>9 DEF Judge, thread, history
    <3>2. watched' \in BOOLEAN /\ dead' \in BOOLEAN /\ (dead' => ~ watched')
      BY <1>9, Zenon DEF TypeOK, Judge, DeclareDead
    <3>3. fresh' \in BOOLEAN
      BY <1>9, Zenon DEF TypeOK, Judge, StillAlive, NewHeartbeat, SameHeartbeat
    <3>4. timer' \in Nat
      <4>1. timer' = 0 \/ timer' = timer
        BY <1>9, Zenon DEF Judge, StillAlive, NewHeartbeat, SameHeartbeat
      <4> QED BY <4>1 DEF TypeOK
    <3> QED BY <3>1, <3>2, <3>3, <3>4
  <2>2. TypeOK' /\ ClockInv'
    BY <2>3, <2>5 DEF TypeOK, ClockInv
  <2> QED BY <2>2, <2>3, <2>4, <2>5 DEF TypeOK, TimerInv
<1>10. CASE UNCHANGED vars
  BY <1>10 DEF TypeOK, ClockInv, TimerInv, vars
<1> QED BY <1>1, <1>2, <1>3, <1>4, <1>5, <1>6, <1>7, <1>8, <1>9, <1>10
        DEF Next, ProcessStep, CollectorStep

LEMMA WatchdogInductive == Spec => []WatchdogInv
<1>1. Init => WatchdogInv
  <2>0. 0 \in Nat
    OBVIOUS
  <2>1. Init => TypeOK
    BY <2>0, Zenon DEF Init, TypeOK
  <2>2. Init => ClockInv /\ TimerInv
    BY TimeAssumption DEF Init, ClockInv, TimerInv
  <2> QED BY <2>1, <2>2 DEF WatchdogInv
<1> QED BY <1>1, WatchdogStep, PTL DEF Spec

\* Type correctness, and a dead agent is not watched.
THEOREM WatchdogTyped == Spec => []TypeOK
<1>1. WatchdogInv => TypeOK
  BY DEF WatchdogInv
<1> QED BY <1>1, WatchdogInductive, PTL

\* For all times: a process that stores its heartbeat at least every Timeout minus twice
\* the delay of the watchdog is not declared dead while it runs.
THEOREM NeverMistakenCorrect == Spec => NeverMistaken
<1> DEFINE Silent == process # "runs" \/ longest + ReadDelay + ReadDelay > Timeout
<1>1. WatchdogInv /\ [Next]_vars => [~ dead /\ dead' => Silent]_vars
  <2> SUFFICES ASSUME WatchdogInv, [Next]_vars, ~ dead, dead' PROVE Silent
    OBVIOUS
  <2>1. Judge /\ (read = "gc" \/ (read = "old" /\ timer > Timeout))
    BY DEF WatchdogInv, TypeOK, Next, ProcessStep, CollectorStep, Tick, Wake, Bump, Return, Die, Leave,
           AcquireTarget, TrimGoneTarget, ReadGCData, Judge, Restart, StillAlive, Expired,
           vars, thread, watchdog
  <2>2. check
    BY <2>1 DEF Judge
  <2> QED BY <2>1, <2>2, TimeAssumption DEF WatchdogInv, TypeOK, ClockInv, TimerInv
<1> QED BY <1>1, WatchdogInductive, PTL DEF Spec, NeverMistaken
=============================================================================
