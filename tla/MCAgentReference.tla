------------------------- MODULE MCAgentReference -------------------------
(* Instances of AgentReference for TLC. *)
EXTENDS AgentReference, TLC

CONSTANTS w1, w2, hb

\* The worker threads are interchangeable (used for safety only).
Workers == Permutations({w1, w2})
=============================================================================
