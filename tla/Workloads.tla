----------------------------- MODULE Workloads -----------------------------
(***************************************************************************)
(* Swaps of models that run in containers or pods of their own             *)
(* (ContainerOrchestrator in gateway/orchestrator.py with                  *)
(* gateway/backends): teardown by stopping or pausing, the VRAM check with *)
(* its forced second teardown, starting by the status a workload is found  *)
(* in, waiting, claiming, and what a restart of the gateway makes of the   *)
(* workloads it finds.                                                     *)
(*                                                                         *)
(* The swap lock is Orchestrator's subject: here one swap runs, beside the *)
(* administrator and the workloads themselves.  Faults says what may fail: *)
(*   "create"  create_and_start raises, with or without a container left   *)
(*   "api"     a stop, pause, unpause or removal is refused by the runtime *)
(*             (the backends log it and return)                            *)
(*   "late"    models are not up when the wait ends                        *)
(*   "exit"    the process of a workload exits; Docker restarts it         *)
(*             (unless-stopped), which may fail                            *)
(*   "nvml"    the GPUs cannot be read: the report says 0 MB free          *)
(*   "nogpu"   there is no NVML: the report is the simulated one           *)
(*   "overlap" an administrator's call is still under way in the runtime   *)
(*             while a swap takes its steps                                *)
(***************************************************************************)
EXTENDS Integers, Sequences, FiniteSets, SequencesExt, FiniteSetsExt

CONSTANTS
    Names,           \* workload names
    ProfileOrder,    \* PROFILES: sequences of workload names, in order
    Need,            \* vram_required_mb of each workload
    Vram,            \* the memory there is, VRAM_SAFETY_MARGIN_MB deducted
    Backend,         \* "docker" or "kubernetes"
    LargeRam,        \* SYSTEM_RAM_GB >= 512
    Faults,
    MaxCrashes       \* how often the gateway may crash

Profiles == 1..Len(ProfileOrder)
Of(p) == ToSet(ProfileOrder[p])
NoProfile == 0

ASSUME WorkloadsAssumption ==
    /\ IsFiniteSet(Names) /\ Profiles # {}
    /\ \A p \in Profiles : ProfileOrder[p] \in Seq(Names) /\ ProfileOrder[p] # <<>>
    /\ Need \in [Names -> Nat] /\ Vram \in Nat /\ MaxCrashes \in Nat
    /\ Backend \in {"docker", "kubernetes"} /\ LargeRam \in BOOLEAN

VARIABLES
    active,    \* _active_profile
    states,    \* _container_states
    pc,        \* where the swap is
    target,    \* its profile
    todo,      \* workloads its current loop still has to visit
    wl,        \* status of each workload in the runtime, "none" if there is none
    up,        \* workloads with their weights loaded, answering when not paused
    admin,     \* <<n, s>>: a call of the administrator that will record s for n
    crashes

vars == <<active, states, pc, target, todo, wl, up, admin, crashes>>

Init ==
    /\ active = NoProfile
    /\ states = [n \in Names |-> "absent"]
    /\ pc = "boot"
    /\ target = NoProfile
    /\ todo = <<>>
    /\ wl = [n \in Names |-> "none"]
    /\ up = {}
    /\ admin = <<>>
    /\ crashes = 0

-----------------------------------------------------------------------------
(* The runtime: what the calls of a backend do *)

SupportsPause == Backend = "docker"

\* get_swap_strategy
PauseUnpause == LargeRam

\* The strategy, corrected for what the backend can do.
Pausing == PauseUnpause /\ SupportsPause

\* A call that may be refused, which the caller does not notice.
Call(effect, none) == effect \/ ("api" \in Faults /\ none)

\* A workload that has been started is stopped for good: it is not restarted.
StopWorkload(n) ==
    Call(/\ wl' = [wl EXCEPT ![n] = IF @ \in {"none", "created"} THEN @ ELSE "exited"]
         /\ up' = up \ {n},
         UNCHANGED <<wl, up>>)

\* pause_workload, which leaves alone what is not running, a workload between an
\* exit and its restart too.
PauseWorkload(n) ==
    Call(/\ wl' = [wl EXCEPT ![n] = IF @ = "running" THEN "paused" ELSE @]
         /\ UNCHANGED up,
         UNCHANGED <<wl, up>>)

UnpauseWorkload(n) ==
    Call(wl' = [wl EXCEPT ![n] = "running"] /\ UNCHANGED up, UNCHANGED <<wl, up>>)

RemoveWorkload(n) ==
    Call(wl' = [wl EXCEPT ![n] = "none"] /\ up' = up \ {n}, UNCHANGED <<wl, up>>)

\* KubernetesBackend.create_and_start does not take the entrypoint the
\* orchestrator passes: the call raises.
TakesEntrypoint == Backend = "docker"

\* remove_workload and create_and_start.
Created(n) ==
    /\ TakesEntrypoint
    /\ wl' = [wl EXCEPT ![n] = "running"]
    /\ up' = up \ {n}

\* Docker may have created the container it then cannot start.
CreateRaises(n) ==
    /\ \E left \in {"none", "created"} :
         /\ IF TakesEntrypoint THEN "create" \in Faults ELSE left = "none"
         /\ wl' = [wl EXCEPT ![n] = left]
    /\ up' = up \ {n}

-----------------------------------------------------------------------------
(* switch_profile *)

\* Deviation: only what is READY is torn down.
TornDownReady(p) == {n \in Names \ Of(p) : states[n] = "ready"}

\* The workloads a teardown for p visits.
TornDown(p) == {n \in Names \ Of(p) : states[n] \in {"ready", "starting"}}

Begin(p) ==
    /\ target' = p
    /\ pc' = "teardown"
    /\ todo' = SetToSeq(TornDown(p))

SwitchProfile(p) ==
    /\ pc = "idle"
    /\ Begin(p)
    /\ UNCHANGED <<active, states, wl, up, crashes>>

\* One workload of _teardown_current, paused if the strategy says so.
Teardown ==
    /\ pc \in {"teardown", "deep"} /\ todo # <<>>
    /\ LET n == Head(todo) IN
       IF pc = "teardown" /\ Pausing
         THEN PauseWorkload(n) /\ states' = [states EXCEPT ![n] = "paused"]
         ELSE StopWorkload(n) /\ states' = [states EXCEPT ![n] = "stopped"]
    /\ todo' = Tail(todo)
    /\ UNCHANGED <<active, pc, target, crashes>>

Memory(S) == SumFunctionOnSet(Need, S)
Loaded == {n \in Names : wl[n] \in {"running", "paused"}}

\* total_free_mb of query_gpus, less the safety margin.
Free == Vram - Memory(Loaded)

HasEnoughVram == Free >= Memory(Of(target))

\* _ensure_vram_available: enough, or a second teardown that stops.
CheckVram ==
    /\ pc = "teardown" /\ todo = <<>>
    /\ \/ /\ HasEnoughVram \/ "nogpu" \in Faults
          /\ pc' = "start"
          /\ todo' = ProfileOrder[target]
       \/ /\ ~HasEnoughVram \/ "nvml" \in Faults
          /\ pc' = "deep"
          /\ todo' = SetToSeq(TornDown(target))
    /\ UNCHANGED <<active, states, target, wl, up, crashes>>

\* ... after which it waits, and goes on whether or not memory was freed.
CheckVramAgain ==
    /\ pc = "deep" /\ todo = <<>>
    /\ pc' = "start"
    /\ todo' = ProfileOrder[target]
    /\ UNCHANGED <<active, states, target, wl, up, crashes>>

\* Deviation: a paused workload is not resumed but replaced.
KeepsPausedNever(n) == wl[n] = "running"

\* The workload is used as it is found.
Keeps(n) == wl[n] = "running" \/ (wl[n] = "paused" /\ Pausing)

\* _ensure_container_running.  What is neither running nor resumed is removed
\* and created anew.
EnsureRunning ==
    /\ pc = "start" /\ todo # <<>>
    /\ LET n == Head(todo) IN
       /\ \/ Keeps(n) /\ wl[n] = "paused" /\ UnpauseWorkload(n)
          \/ Keeps(n) /\ wl[n] = "running" /\ UNCHANGED <<wl, up>>
          \/ ~Keeps(n) /\ Created(n)
       /\ states' = [states EXCEPT ![n] = "starting"]
    /\ todo' = Tail(todo)
    /\ UNCHANGED <<active, pc, target, crashes>>

\* The creation raises, by itself or because the old workload could be neither
\* seen nor removed and its name is taken: the swap has failed.
StartFails ==
    /\ pc = "start" /\ todo # <<>>
    /\ \/ ~Keeps(Head(todo)) /\ CreateRaises(Head(todo))
       \/ "api" \in Faults /\ wl[Head(todo)] # "none" /\ UNCHANGED <<wl, up>>
    /\ states' = [states EXCEPT ![Head(todo)] = "error"]
    /\ pc' = "idle" /\ todo' = <<>>
    /\ UNCHANGED <<active, target, crashes>>

StartDone ==
    /\ pc = "start" /\ todo = <<>>
    /\ pc' = "wait" /\ todo' = ProfileOrder[target]
    /\ UNCHANGED <<active, states, target, wl, up, crashes>>

\* _wait_all_ready: the next workload runs and answers.
Ready ==
    /\ pc = "wait" /\ todo # <<>>
    /\ wl[Head(todo)] = "running" /\ Head(todo) \in up
    /\ states' = [states EXCEPT ![Head(todo)] = "ready"]
    /\ todo' = Tail(todo)
    /\ UNCHANGED <<active, pc, target, wl, up, crashes>>

\* Deviation: the wait has no timeout.
WaitOverOnAnswers == todo = <<>>

WaitOver == todo = <<>> \/ "late" \in Faults

\* The end of the wait, by answers or by timeout, and the claim.
Claim ==
    /\ pc = "wait" /\ WaitOver
    /\ states' = [n \in Names |->
                    IF n \in Of(target) /\ states[n] = "starting" THEN "ready" ELSE states[n]]
    /\ active' = target
    /\ pc' = "idle" /\ todo' = <<>>
    /\ UNCHANGED <<target, wl, up, crashes>>

-----------------------------------------------------------------------------
(* Startup, the administrator, the workloads *)

\* The profiles all of whose workloads are there, running or about to be.
Adoptable == {p \in Profiles : \A n \in Of(p) : wl[n] \in {"running", "created", "restarting"}}

\* remove_workload on each of S, some of which may be refused.
RemoveAll(S) ==
    \E refused \in IF "api" \in Faults THEN SUBSET S ELSE {{}} :
        /\ wl' = [n \in Names |-> IF n \in S \ refused THEN "none" ELSE wl[n]]
        /\ up' = up \ (S \ refused)

\* Deviation: what does not belong to the adopted profile is left alone.
OrphansNone(p) == {}

\* The workloads an adoption of p removes.
Orphans(p) == Names \ Of(p)

\* detect_and_adopt_running_profile: the first one is adopted, the rest removed.
Adopt(p) ==
    /\ p \in Adoptable /\ \A q \in Adoptable : p <= q
    /\ active' = p
    /\ states' = [n \in Names |-> IF n \notin Of(p) THEN "absent"
                                  ELSE IF wl[n] = "running" THEN "ready" ELSE "starting"]
    /\ RemoveAll(Orphans(p))
    /\ pc' = "idle"
    /\ UNCHANGED <<target, todo>>

\* cleanup_orphaned_containers, then a swap to the persisted or default profile.
Cleanup ==
    /\ Adoptable = {}
    /\ RemoveAll(Names)
    /\ \E p \in Profiles : Begin(p)
    /\ UNCHANGED <<active, states>>

Boot ==
    /\ pc = "boot"
    /\ Cleanup \/ \E p \in Profiles : Adopt(p)
    /\ UNCHANGED <<admin, crashes>>

Crash ==
    /\ crashes < MaxCrashes
    /\ crashes' = crashes + 1
    /\ active' = NoProfile
    /\ states' = [n \in Names |-> "absent"]
    /\ pc' = "boot" /\ target' = NoProfile /\ todo' = <<>> /\ admin' = <<>>
    /\ UNCHANGED <<wl, up>>

\* stop_container and remove_container, past the swap lock: the runtime's part.
AdminCalls(n) ==
    /\ pc # "boot" /\ admin = <<>> /\ wl[n] # "none"
    /\ \/ StopWorkload(n) /\ admin' = <<n, "stopped">>
       \/ RemoveWorkload(n) /\ admin' = <<n, "absent">>
    /\ UNCHANGED <<active, states, pc, target, todo, crashes>>

\* ... and, when the call has returned, what the orchestrator records.
AdminRecords ==
    /\ admin # <<>>
    /\ states' = [states EXCEPT ![admin[1]] = admin[2]]
    /\ admin' = <<>>
    /\ UNCHANGED <<active, pc, target, todo, wl, up, crashes>>

Load(n) ==
    /\ wl[n] = "running" /\ n \notin up
    /\ up' = up \cup {n}
    /\ UNCHANGED <<active, states, pc, target, todo, wl, admin, crashes>>

\* The process exits: the runtime waits a moment and restarts it.
Exit(n) ==
    /\ "exit" \in Faults
    /\ wl[n] = "running"
    /\ wl' = [wl EXCEPT ![n] = "restarting"]
    /\ up' = up \ {n}
    /\ UNCHANGED <<active, states, pc, target, todo, admin, crashes>>

Restarts(n) ==
    /\ wl[n] = "restarting"
    /\ \E then \in {"running", "exited"} : wl' = [wl EXCEPT ![n] = then]
    /\ UNCHANGED <<active, states, pc, target, todo, up, admin, crashes>>

-----------------------------------------------------------------------------

SwapStep ==
    /\ admin = <<>> \/ "overlap" \in Faults
    /\ \/ Boot
       \/ /\ \/ Teardown \/ CheckVram \/ CheckVramAgain \/ EnsureRunning \/ StartFails
             \/ StartDone \/ Ready \/ Claim
          /\ UNCHANGED admin

Next ==
    \/ SwapStep
    \/ \E p \in Profiles : SwitchProfile(p) /\ UNCHANGED admin
    \/ \E n \in Names : AdminCalls(n) \/ Load(n) \/ Exit(n) \/ Restarts(n)
    \/ AdminRecords
    \/ Crash

Spec == Init /\ [][Next]_vars

\* Calls of the runtime return and the wait has SWAP_TIMEOUT_S; no workload is
\* assumed ever to be up.
FairSpec == Spec /\ WF_vars(SwapStep) /\ WF_vars(AdminRecords)

-----------------------------------------------------------------------------
(* Properties *)

TypeOK ==
    /\ active \in Profiles \cup {NoProfile}
    /\ states \in [Names -> {"absent", "starting", "ready", "stopped", "paused", "error"}]
    /\ pc \in {"boot", "idle", "teardown", "deep", "start", "wait"}
    /\ target \in Profiles \cup {NoProfile}
    /\ todo \in Seq(Names)
    /\ wl \in [Names -> {"none", "created", "running", "paused", "restarting", "exited"}]
    /\ up \in SUBSET Loaded
    /\ admin \in {<<>>} \cup (Names \X {"stopped", "absent"})
    /\ crashes \in 0..MaxCrashes

\* "Stops or pauses all workloads from the current profile": once a swap starts
\* its own workloads nothing else computes, although earlier swaps failed half
\* way, the administrator stopped and removed workloads and the gateway crashed.
OthersDown ==
    pc \in {"start", "wait"} => \A n \in Names \ Of(target) : wl[n] # "running"

\* When profiles fit by themselves, stopping before starting never has more
\* loaded than there is memory for.
NoOvercommit == Memory(Loaded) <= Vram

\* A workload that was paused with its weights is resumed with them: no swap
\* loads it again.
ResumeStep ==
    \A n \in DOMAIN wl : wl[n] = "paused" /\ n \in up /\ wl'[n] = "running" => n \in up'
PausedKeepsWeights == [][ResumeStep]_vars

\* "if insufficient, force a full teardown": after the second teardown only the
\* target's workloads still hold memory.
DeepCleanupFrees ==
    pc = "deep" /\ todo = <<>> => Loaded \subseteq Of(target)

\* "Both Docker and Kubernetes backends implement this interface": when nothing
\* fails, no workload ends in ERROR.
StartsWork == Faults \subseteq {"late"} => \A n \in Names : states[n] # "error"

\* Every swap and every startup comes to an end.
SwapEnds == pc # "idle" ~> pc = "idle"
=============================================================================
