------------------------ MODULE MCObjectOwnership ------------------------
(* Instances of ObjectOwnership for TLC. *)
EXTENDS ObjectOwnership, TLC

CONSTANTS r1, r2, p1, p2, f, s1, s2, g1, g2

Transfer == "JobsToTransferForUser"
Report == "JobsToReportToUser"

\* One thread per process, named after its agent.
OneThread == [t \in Threads |-> t]

\* A session whose task injector and report packer are two threads that share
\* its agent.
TwoThreads == [t \in Threads |-> IF t = "thread2" THEN s1 ELSE t]

\* Every request has a copy in every pool, numbered alike.
AllCopies == [r \in Requests |-> Pools]
SameOrder == [r \in Requests |-> [p \in Pools |-> IF p = p1 THEN 1 ELSE 2]]

\* ... so that they can be exchanged.
Symmetry == Permutations(Requests)

\* s1 and s2 are mounts of different tape pools ...
TwoMounts == (s1 :> <<p1, Transfer>>) @@ (s2 :> <<p2, Transfer>>)
\* ... or a mount and a reporter of one tape pool ...
MountAndReporter == (s1 :> <<p1, Transfer>>) @@ (s2 :> <<p1, Report>>)
\* ... or there is a single mount.
OneMount == s1 :> <<p1, Transfer>>
=============================================================================
