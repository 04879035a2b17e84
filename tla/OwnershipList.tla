--------------------------- MODULE OwnershipList ---------------------------
(***************************************************************************)
(* What AgentReference promises to the threads of a process: every call    *)
(* that adds objects to the ownership list of the agent, removes objects   *)
(* from it or bumps the heartbeat takes effect in the stored agent object  *)
(* at one moment between its start and its return.  Calls of several       *)
(* threads may take effect together, in some order.  A call that ends with *)
(* an exception took effect or not.  Once a garbage collector has claimed  *)
(* the agent no call takes effect any more.                                *)
(***************************************************************************)
CONSTANTS Threads, Objects

VARIABLES
    list,   \* the ownership list in the agent object
    closed, \* a garbage collector has claimed the agent
    kind,   \* kind[t]: the operation thread t calls
    objs,   \* objs[t]: its arguments
    phase   \* phase[t]: "idle", "pending", or the outcome "ok" or "error"

vars == <<list, closed, kind, objs, phase>>

Kinds == {"Add", "Remove", "Heartbeat"}

Adds(t, o) == kind[t] = "Add" /\ o \in objs[t]
Removes(t, o) == kind[t] = "Remove" /\ o \in objs[t]

\* L2 is what the calls of the threads S make of L1, in some order.
Effect(L1, L2, S) ==
    \A o \in Objects :
        /\ o \in L2 => \/ \E t \in S : Adds(t, o)
                       \/ o \in L1 /\ \A t \in S : ~ Removes(t, o)
        /\ o \notin L2 => \/ \E t \in S : Removes(t, o)
                          \/ o \notin L1 /\ \A t \in S : ~ Adds(t, o)

Init ==
    /\ list = {}
    /\ closed = FALSE
    /\ kind = [t \in Threads |-> "Heartbeat"]
    /\ objs = [t \in Threads |-> {}]
    /\ phase = [t \in Threads |-> "idle"]

Call(t, k, S) ==
    /\ phase[t] = "idle"
    /\ kind' = [kind EXCEPT ![t] = k]
    /\ objs' = [objs EXCEPT ![t] = S]
    /\ phase' = [phase EXCEPT ![t] = "pending"]
    /\ UNCHANGED <<list, closed>>

\* The calls of the threads S end together.
Take(S, outcome, L) ==
    /\ S # {}
    /\ \A t \in S : phase[t] = "pending"
    /\ \/ outcome = "error" /\ L = list
       \/ ~ closed /\ Effect(list, L, S)
    /\ list' = L
    /\ phase' = [t \in Threads |-> IF t \in S THEN outcome ELSE phase[t]]
    /\ UNCHANGED <<closed, kind, objs>>

Return(t) ==
    /\ phase[t] \in {"ok", "error"}
    /\ phase' = [phase EXCEPT ![t] = "idle"]
    /\ kind' = [kind EXCEPT ![t] = "Heartbeat"]
    /\ objs' = [objs EXCEPT ![t] = {}]
    /\ UNCHANGED <<list, closed>>

\* A garbage collector claims the agent, and then empties the list.
Collect(L) ==
    /\ closed' = TRUE
    /\ list' = L
    /\ closed \/ L = list
    /\ L \subseteq list
    /\ UNCHANGED <<kind, objs, phase>>

Next ==
    \/ \E t \in Threads, k \in Kinds, S \in SUBSET Objects : Call(t, k, S)
    \/ \E S \in SUBSET Threads, outcome \in {"ok", "error"}, L \in SUBSET Objects :
         Take(S, outcome, L)
    \/ \E t \in Threads : Return(t)
    \/ \E L \in SUBSET Objects : Collect(L)

Spec == Init /\ [][Next]_vars
=============================================================================
