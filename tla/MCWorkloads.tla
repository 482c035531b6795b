---------------------------- MODULE MCWorkloads ----------------------------
(***************************************************************************)
(* Workloads with three containers and profiles that overlap, on three     *)
(* hosts: `host` is chosen at the start and never changes.                 *)
(*   "stop"    Docker, workloads are stopped: the constants of the cfg     *)
(*   "pause"   Docker with the memory to pause them; no process exits      *)
(*   "faulty"  everything may fail and the administrator's calls overlap   *)
(***************************************************************************)
EXTENDS Workloads

CONSTANTS a, b, c

VARIABLE host

\* Alone, alone, and a profile of two that shares one workload with the first.
Overlapping == <<<<a>>, <<b>>, <<a, c>>>>
\* Two workloads, alone and together.
Small == <<<<a>>, <<b>>, <<a, b>>>>

Sizes == [n \in Names |-> IF n = b THEN 3 ELSE 2]

Pause == INSTANCE Workloads WITH LargeRam <- TRUE, Faults <- {"create", "late"}
Faulty == INSTANCE Workloads
            WITH Names <- {a, b}, ProfileOrder <- Small, Need <- [n \in {a, b} |-> Sizes[n]],
                 LargeRam <- TRUE,
                 Faults <- {"create", "api", "late", "exit", "nvml", "nogpu", "overlap"}

MCInit ==
    \/ host = "stop" /\ Init
    \/ host = "pause" /\ Pause!Init
    \/ host = "faulty" /\ Faulty!Init

MCNext ==
    /\ \/ host = "stop" /\ Next
       \/ host = "pause" /\ Pause!Next
       \/ host = "faulty" /\ Faulty!Next
    /\ UNCHANGED host

MCvars == <<vars, host>>

\* The fairness of Faulty!FairSpec.
MCFairSpec ==
    /\ MCInit /\ [][MCNext]_MCvars
    /\ WF_MCvars(host = "faulty" /\ Faulty!SwapStep /\ UNCHANGED host)
    /\ WF_MCvars(host = "faulty" /\ Faulty!AdminRecords /\ UNCHANGED host)

\* The host of the cfg alone.
OneHostSpec == host = "stop" /\ Init /\ [][Next /\ UNCHANGED host]_MCvars

-----------------------------------------------------------------------------
(* Properties *)

\* Nothing of another profile computes beside the target once its workloads are
\* started, whether teardown stops or pauses and whatever failed before.  Calls
\* of the runtime that are refused or overlap with a swap are excepted, and exits
\* where teardown pauses: it does not stop a workload that is being restarted
\* (the configuration MCCrashLoop.cfg shows it come back).
OthersAreDown == host # "faulty" => OthersDown

\* Where teardown stops, the loaded workloads always fit into the memory.
MemoryHolds == host = "stop" => NoOvercommit

\* Every swap and every startup ends on the host where everything may fail (the
\* others make swaps wait for the administrator's calls).
EverySwapEnds == host = "faulty" => SwapEnds
=============================================================================
