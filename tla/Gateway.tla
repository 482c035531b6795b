------------------------------ MODULE Gateway ------------------------------
(***************************************************************************)
(* The parts of the running gateway together (gateway/app.py): admitted    *)
(* requests decide whether they need a swap and share swap tasks, swaps    *)
(* queue for the orchestrator's lock, the administrator swaps and stops    *)
(* past the admission queue, and the watchdog writes container states      *)
(* outside the lock.                                                       *)
(*                                                                         *)
(* Admission is here what GroupLock promises, and a swap is what           *)
(* Orchestrator details: stop the outgoing model, start the incoming one,  *)
(* wait, claim.  Every profile of the catalog is one model and all models  *)
(* share one container, so there is one container state; each model has a  *)
(* port of its own, so a probe tells them apart.                           *)
(*                                                                         *)
(* A step is what a task does between two awaits.  A task that finds the   *)
(* lock free enters at once; after a release the oldest waiter enters in a *)
(* step of its own, and until then no swap is in progress.                 *)
(***************************************************************************)
EXTENDS Integers, Sequences, FiniteSets

CONSTANTS
    Requests, Profiles, NoProfile,
    Ray,         \* the profiles with required_ray_nodes > 0
    SwapTasks,   \* swap tasks alive at the same time
    Admins,      \* calls of the administrator at the same time
    NoTask,      \* None
    limit,       \* MAX_CONCURRENT_REQUESTS
    Faults       \* which of "giveup", "fail", "late", "die", "ray" may happen

Tasks == SwapTasks \cup Admins

ASSUME LimitAssumption == limit \in Nat \ {0}
ASSUME SetsAssumption ==
    /\ NoProfile \notin Profiles /\ Ray \subseteq Profiles
    /\ NoTask \notin Tasks /\ SwapTasks \cap Admins = {}

VARIABLES
    active,       \* orchestrator._active_profile
    state,        \* the container's entry of _container_states
    swapping,     \* _swap_in_progress
    lock_queue,   \* waiters of _swap_lock, oldest first
    swap,         \* per task: phase of switch_profile, target and force
    tracked,      \* _active_swap_task, None or not done
    want, at,     \* per request: routed profile, and how far it is
    waits,        \* the swap task a request waits for
    exposed,      \* history: dispatched without a wait while somebody queued for the lock
    proc,         \* per profile: its serve processes
    ray_up,       \* Ray has the nodes it needs
    watch,        \* the watchdog
    ray           \* _ray_status with _ray_status_profile; `of` is history

request == <<want, at, waits, exposed>>
orchestrator == <<active, state, swapping, lock_queue, swap>>
watchdog == <<watch, ray>>
vars == <<orchestrator, tracked, request, proc, ray_up, watchdog>>

(* "granted" has its slot; "waiting" for a swap task; "true" and "false": it    *)
(* has ended, the request has not run yet; "inference" exchange with a live     *)
(* model; "broken" the model went away under it.                                *)
Phases == {"idle", "queued", "stop", "start", "wait", "stopping", "removing"}
Body == {"stop", "start", "wait"}
NoCall == [phase |-> "idle", target |-> NoProfile, force |-> FALSE]
Asleep == [pc |-> "idle", profile |-> NoProfile, healthy |-> TRUE]

Init ==
    /\ active = NoProfile
    /\ state = "absent"
    /\ swapping = FALSE
    /\ lock_queue = <<>>
    /\ swap = [t \in Tasks |-> NoCall]
    /\ tracked = NoTask
    /\ want = [r \in Requests |-> NoProfile]
    /\ at = [r \in Requests |-> "out"]
    /\ waits = [r \in Requests |-> NoTask]
    /\ exposed = {}
    /\ proc = [p \in Profiles |-> "none"]
    /\ ray_up = TRUE
    /\ watch = Asleep
    /\ ray = [verdict |-> "none", profile |-> NoProfile, of |-> NoProfile]

-----------------------------------------------------------------------------
(* The lock and the swap *)

\* The processes of the models in P are gone, and with them their exchanges.
Kill(P) ==
    /\ proc' = [p \in Profiles |-> IF p \in P THEN "none" ELSE proc[p]]
    /\ at' = [r \in Requests |->
                IF at[r] = "inference" /\ want[r] \in P THEN "broken" ELSE at[r]]

LockHeld == \E t \in Tasks : swap[t].phase \in Body

\* switch_profile(p, force) is called by t.
Call(t, p, force) ==
    LET enters == ~LockHeld /\ lock_queue = <<>> IN
    /\ swap' = [swap EXCEPT ![t] = [phase |-> IF enters THEN "stop" ELSE "queued",
                                    target |-> p, force |-> force]]
    /\ lock_queue' = IF enters THEN lock_queue ELSE Append(lock_queue, t)
    /\ swapping' = IF enters THEN TRUE ELSE swapping

\* Deviation: the tracking is cleared whichever task it points at.
FinishAny(t, success) ==
    /\ swap' = [swap EXCEPT ![t] = NoCall]
    /\ tracked' = IF t \in SwapTasks THEN NoTask ELSE tracked
    /\ at' = [r \in Requests |->
                IF waits[r] # t THEN at[r] ELSE IF success THEN "true" ELSE "false"]
    /\ waits' = [r \in Requests |-> IF waits[r] = t THEN NoTask ELSE waits[r]]

\* switch_profile returns to t; a swap task (_execute_swap_and_drain) goes on
\* to its end, clears the tracking if it is its own, and its waiters wake up.
Finish(t, success) ==
    /\ swap' = [swap EXCEPT ![t] = NoCall]
    /\ tracked' = IF tracked = t THEN NoTask ELSE tracked
    /\ at' = [r \in Requests |->
                IF waits[r] # t THEN at[r] ELSE IF success THEN "true" ELSE "false"]
    /\ waits' = [r \in Requests |-> IF waits[r] = t THEN NoTask ELSE waits[r]]

\* The oldest waiter gets the lock; the profile may have become active meanwhile.
Enter(t) ==
    /\ ~LockHeld /\ lock_queue # <<>> /\ t = Head(lock_queue)
    /\ lock_queue' = Tail(lock_queue)
    /\ IF active = swap[t].target /\ ~swap[t].force
         THEN Finish(t, TRUE) /\ UNCHANGED swapping
         ELSE /\ swapping' = TRUE
              /\ swap' = [swap EXCEPT ![t].phase = "stop"]
              /\ UNCHANGED <<tracked, at, waits>>
    /\ UNCHANGED <<active, state, want, exposed, proc, ray_up, watchdog>>

\* _teardown_current: the model of the active profile unless it is the target's.
Stop(t) ==
    LET outgoing == {active} \ {swap[t].target, NoProfile} IN
    /\ swap[t].phase = "stop"
    /\ Kill(outgoing)
    /\ state' = IF outgoing = {} THEN state ELSE "stopped"
    /\ swap' = [swap EXCEPT ![t].phase = "start"]
    /\ UNCHANGED <<active, swapping, lock_queue, tracked, want, waits, exposed, ray_up, watchdog>>

\* _ensure_container_running: leftovers of the target are killed, it is launched.
Start(t) ==
    /\ swap[t].phase = "start"
    /\ state' = "starting"
    /\ proc' = [proc EXCEPT ![swap[t].target] = "loading"]
    /\ at' = [r \in Requests |->
                IF at[r] = "inference" /\ want[r] = swap[t].target THEN "broken" ELSE at[r]]
    /\ swap' = [swap EXCEPT ![t].phase = "wait"]
    /\ UNCHANGED <<active, swapping, lock_queue, tracked, want, waits, exposed, ray_up, watchdog>>

\* Verification or start raises: switch_profile returns False.
Fail(t) ==
    /\ "fail" \in Faults
    /\ swap[t].phase = "start"
    /\ state' = "starting"
    /\ swapping' = FALSE
    /\ Finish(t, FALSE)
    /\ UNCHANGED <<active, lock_queue, want, exposed, proc, ray_up, watchdog>>

\* Deviation: a model that does not come up is waited for without a timeout.
WaitEndsOnAnswer(t) == proc[swap[t].target] = "up" /\ state' = "ready"

\* The end of _wait_all_ready: the model answers, or the time is up and what is
\* still starting is called ready.
WaitEnds(t) ==
    \/ proc[swap[t].target] = "up" /\ state' = "ready"
    \/ "late" \in Faults /\ state' = IF state = "starting" THEN "ready" ELSE state

\* The profile is claimed.
Claim(t) ==
    /\ swap[t].phase = "wait"
    /\ WaitEnds(t)
    /\ active' = swap[t].target
    /\ swapping' = FALSE
    /\ Finish(t, TRUE)
    /\ UNCHANGED <<lock_queue, want, exposed, proc, ray_up, watchdog>>

SwapStep(t) == Enter(t) \/ Stop(t) \/ Start(t) \/ Fail(t) \/ Claim(t)

-----------------------------------------------------------------------------
(* Requests *)

Holders == {r \in Requests : at[r] # "out"}

\* Admission: a slot is free and the batch is of profile p or empty.
Admit(r, p) ==
    /\ at[r] = "out"
    /\ Cardinality(Holders) < limit
    /\ \A h \in Holders : want[h] = p
    /\ at' = [at EXCEPT ![r] = "granted"]
    /\ want' = [want EXCEPT ![r] = p]
    /\ UNCHANGED <<orchestrator, tracked, waits, exposed, proc, ray_up, watchdog>>

\* The request's code is left and its lease released.
Out(r) ==
    /\ at' = [at EXCEPT ![r] = "out"]
    /\ want' = [want EXCEPT ![r] = NoProfile]
    /\ waits' = [waits EXCEPT ![r] = NoTask]
    /\ exposed' = exposed \ {r}
    /\ UNCHANGED <<orchestrator, tracked, proc, ray_up, watchdog>>

\* Deviation: a swap in progress is not looked at.
NeedsSwapIfNotReady(p) == active # p \/ state # "ready"

NeedsSwap(p) == active # p \/ state # "ready" \/ swapping

\* Recovery: the profile matches, its model is down, nobody is at it.
ForceSwap(p) == active = p /\ state # "ready" /\ ~swapping

\* Deviation: a request for another profile waits for the task it finds.
ReusableAnyTarget(p) == tracked # NoTask

\* _get_or_create_swap_task returns the task it knows.
Reusable(p) == tracked # NoTask /\ swap[tracked].target = p

\* The request goes to the backend, which may have gone away.
Exchange(r) ==
    at' = [at EXCEPT ![r] = IF proc[want[r]] = "up" THEN "inference" ELSE "broken"]

\* No swap needed.
Dispatch(r) ==
    /\ at[r] = "granted"
    /\ ~NeedsSwap(want[r])
    /\ Exchange(r)
    /\ exposed' = IF lock_queue # <<>> THEN exposed \cup {r} ELSE exposed
    /\ UNCHANGED <<orchestrator, tracked, want, waits, proc, ray_up, watchdog>>

Join(r) ==
    /\ at[r] = "granted"
    /\ NeedsSwap(want[r]) /\ Reusable(want[r])
    /\ at' = [at EXCEPT ![r] = "waiting"]
    /\ waits' = [waits EXCEPT ![r] = tracked]
    /\ UNCHANGED <<orchestrator, tracked, want, exposed, proc, ray_up, watchdog>>

Create(r, t) ==
    /\ at[r] = "granted"
    /\ NeedsSwap(want[r]) /\ ~Reusable(want[r])
    /\ swap[t].phase = "idle"
    /\ Call(t, want[r], ForceSwap(want[r]))
    /\ tracked' = t
    /\ at' = [at EXCEPT ![r] = "waiting"]
    /\ waits' = [waits EXCEPT ![r] = t]
    /\ UNCHANGED <<active, state, want, exposed, proc, ray_up, watchdog>>

\* The swap task has ended: dispatch without looking again, or 503.
Resume(r) ==
    \/ /\ at[r] = "true"
       /\ Exchange(r)
       /\ UNCHANGED <<orchestrator, tracked, want, waits, exposed, proc, ray_up, watchdog>>
    \/ at[r] = "false" /\ Out(r)

\* LONG_POLLING_TIMEOUT_S, a disconnect, or long polling switched off: the
\* shielded swap task goes on without the request.
GiveUp(r) == "giveup" \in Faults /\ at[r] = "waiting" /\ Out(r)

\* The exchange ends, with an answer or an error.
Leave(r) == at[r] \in {"inference", "broken"} /\ Out(r)

RequestStep(r) ==
    \/ \E p \in Profiles : Admit(r, p)
    \/ Dispatch(r) \/ Join(r) \/ (\E t \in SwapTasks : Create(r, t))
    \/ Resume(r) \/ GiveUp(r) \/ Leave(r)

-----------------------------------------------------------------------------
(* The administrator *)

\* set_profile; a call that finds the profile active and the lock free is over
\* at once.
SetProfile(a, p, force) ==
    /\ swap[a].phase = "idle"
    /\ ~swapping
    /\ active # p \/ force \/ lock_queue # <<>>
    /\ Call(a, p, force)
    /\ UNCHANGED <<active, state, tracked, request, proc, ray_up, watchdog>>

\* stop_container and remove_container: the container goes at once, its state
\* is written when the backend has answered.
StopContainer(a) ==
    /\ swap[a].phase = "idle"
    /\ Kill(Profiles)
    /\ \E phase \in {"stopping", "removing"} : swap' = [swap EXCEPT ![a].phase = phase]
    /\ UNCHANGED <<active, state, swapping, lock_queue, tracked, want, waits, exposed, ray_up, watchdog>>

ContainerStopped(a) ==
    /\ swap[a].phase \in {"stopping", "removing"}
    /\ state' = IF swap[a].phase = "stopping" THEN "stopped" ELSE "absent"
    /\ swap' = [swap EXCEPT ![a] = NoCall]
    /\ UNCHANGED <<active, swapping, lock_queue, tracked, request, proc, ray_up, watchdog>>

AdminStep(a) ==
    \/ \E p \in Profiles, force \in BOOLEAN : SetProfile(a, p, force)
    \/ StopContainer(a) \/ ContainerStopped(a)

-----------------------------------------------------------------------------
(* The watchdog *)

\* The second half of a tick begins: the active profile's model is to be probed.
ProbeNext == watch' = [watch EXCEPT !.pc = "probe", !.profile = active]

\* The sleep is over, whatever its length; check_ray_requirement reads the
\* profile and, when that needs Ray, asks for the node count.
Tick ==
    /\ watch.pc = "idle"
    /\ active # NoProfile
    /\ IF active \in Ray
         THEN watch' = [watch EXCEPT !.pc = "count", !.profile = active] /\ UNCHANGED ray
         ELSE ray' = [verdict |-> "none", profile |-> active, of |-> active] /\ ProbeNext
    /\ UNCHANGED <<orchestrator, tracked, request, proc, ray_up>>

\* The verdict on the clusters of the profile that was asked about.
RayVerdict == IF ray_up THEN "healthy" ELSE "degraded"

\* It is filed under the profile that is active now.
RefreshRayStatus == ray' = [verdict |-> RayVerdict, profile |-> active, of |-> watch.profile]

\* Deviation: a healthy Ray cluster is taken for a healthy model.
CountedOnly ==
    /\ watch.pc = "count"
    /\ RefreshRayStatus
    /\ state' = IF ~ray_up /\ watch.profile = active /\ state = "ready" THEN "error" ELSE state
    /\ watch' = Asleep
    /\ UNCHANGED <<active, swapping, lock_queue, swap, tracked, request, proc, ray_up>>

\* The count arrives: refresh_ray_status files it, and a model of the active
\* profile that is in the degraded cluster is marked.
Counted ==
    /\ watch.pc = "count"
    /\ RefreshRayStatus
    /\ IF ~ray_up /\ watch.profile = active
         THEN /\ state' = IF state = "ready" THEN "error" ELSE state
              /\ watch' = Asleep
         ELSE ProbeNext /\ UNCHANGED state
    /\ UNCHANGED <<active, swapping, lock_queue, swap, tracked, request, proc, ray_up>>

\* The probe meets the model as it is now ...
Probe ==
    /\ watch.pc = "probe"
    /\ watch' = [watch EXCEPT !.pc = "answer", !.healthy = (proc[watch.profile] = "up")]
    /\ UNCHANGED <<orchestrator, tracked, request, proc, ray_up, ray>>

\* ... and its answer the container state as it is then.
Answered ==
    /\ watch.pc = "answer"
    /\ state' = IF ~watch.healthy /\ state = "ready" THEN "error" ELSE state
    /\ watch' = Asleep
    /\ UNCHANGED <<active, swapping, lock_queue, swap, tracked, request, proc, ray_up, ray>>

WatchStep == Tick \/ Counted \/ Probe \/ Answered

\* What /health reports: ContainerOrchestrator.ray_status.
RayStatus == IF ray.profile = active THEN ray.verdict ELSE "none"

-----------------------------------------------------------------------------
(* Models and nodes *)

Load(p) ==
    /\ proc[p] = "loading"
    /\ proc' = [proc EXCEPT ![p] = "up"]
    /\ UNCHANGED <<orchestrator, tracked, request, ray_up, watchdog>>

Die(p) ==
    /\ "die" \in Faults
    /\ proc[p] # "none"
    /\ Kill({p})
    /\ UNCHANGED <<orchestrator, tracked, want, waits, exposed, ray_up, watchdog>>

RayChanges ==
    /\ "ray" \in Faults
    /\ ray_up' = ~ray_up
    /\ UNCHANGED <<orchestrator, tracked, request, proc, watchdog>>

Next ==
    \/ \E t \in Tasks : SwapStep(t)
    \/ \E r \in Requests : RequestStep(r)
    \/ \E a \in Admins : AdminStep(a)
    \/ WatchStep
    \/ \E p \in Profiles : Load(p) \/ Die(p)
    \/ RayChanges

Spec == Init /\ [][Next]_vars

\* Swap tasks and the watchdog run: probes and remote commands have timeouts,
\* and so has the wait for a model, which therefore need not load.
Fairness ==
    /\ \A t \in Tasks : WF_vars(SwapStep(t))
    /\ WF_vars(WatchStep)

FairSpec == Spec /\ Fairness
-----------------------------------------------------------------------------
(* Properties *)

TypeOK ==
    /\ active \in Profiles \cup {NoProfile}
    /\ state \in {"absent", "starting", "ready", "stopped", "error"}
    /\ swapping \in BOOLEAN
    /\ lock_queue \in Seq(Tasks) /\ Len(lock_queue) <= Cardinality(Tasks)
    /\ swap \in [Tasks -> [phase : Phases, target : Profiles \cup {NoProfile}, force : BOOLEAN]]
    /\ tracked \in SwapTasks \cup {NoTask}
    /\ want \in [Requests -> Profiles \cup {NoProfile}]
    /\ at \in [Requests -> {"out", "granted", "waiting", "true", "false", "inference", "broken"}]
    /\ Cardinality(Holders) <= limit
    /\ waits \in [Requests -> SwapTasks \cup {NoTask}]
    /\ exposed \in SUBSET Requests
    /\ proc \in [Profiles -> {"none", "loading", "up"}]
    /\ ray_up \in BOOLEAN
    /\ watch \in [pc : {"idle", "count", "probe", "answer"},
                   profile : Profiles \cup {NoProfile}, healthy : BOOLEAN]
    /\ ray \in [verdict : {"none", "healthy", "degraded"},
                 profile : Profiles \cup {NoProfile}, of : Profiles \cup {NoProfile}]

\* The tracked task is one that is still to end, and whoever waits for a swap
\* waits for a live one to its own profile, however many requests gave up and
\* were replaced since it was created.
WaitsForOwnSwap ==
    /\ tracked # NoTask => swap[tracked].phase # "idle"
    /\ \A r \in Requests : at[r] = "waiting" =>
         /\ swap[waits[r]].phase # "idle"
         /\ swap[waits[r]].target = want[r]

\* The task inside the lock and those behind it, in order.
Line == [i \in 0..Len(lock_queue) |->
            IF i > 0 THEN {lock_queue[i]} ELSE {t \in Tasks : swap[t].phase \in Body}]

\* "Prevents duplicate swaps": requests never have two unfinished swaps to the
\* same profile in a row, which would stop and load it twice for nothing.
NoRedundantSwap ==
    \A i, j \in 0..Len(lock_queue) :
        /\ i < j
        /\ \A k \in (i + 1)..(j - 1) : Line[k] \cap SwapTasks = {}
        => \A t \in Line[i] \cap SwapTasks, u \in Line[j] \cap SwapTasks :
                swap[t].target # swap[u].target

\* A request's swap that is no recovery ends r's exchange.
CutOff(r) ==
    /\ at[r] = "inference" /\ at'[r] = "broken"
    /\ \E t \in SwapTasks : /\ ~swap[t].force
                            /\ swap[t].phase \in {"stop", "start"}
                            /\ swap'[t].phase # swap[t].phase

\* A request's swap never stops a model under a running inference, whoever gave
\* up before, unless that inference began in the instant between two holders
\* of the swap lock.
UndisturbedStep == \A r \in Requests \ exposed : ~CutOff(r)
InferenceUndisturbed == [][UndisturbedStep]_vars

\* "Normal inference requests for another model wait for the current group to
\* finish" (README), taken without that exception.
GroupStep == \A r \in Requests : ~CutOff(r)
GroupFinishes == [][GroupStep]_vars

\* "Profile matches but container is not READY (crashed, restarting, etc.)":
\* what a request forces to restart is not a model that is up.
RecoveryStep ==
    \A t \in SwapTasks : swap[t].phase = "idle" /\ swap'[t].phase # "idle" /\ swap'[t].force =>
        proc[swap'[t].target] # "up"
ForcedRestartIsRecovery == [][RecoveryStep]_vars

\* "a stale verdict is worse than no verdict": what /health says of Ray was
\* found out about the active profile.
RayVerdictIsOwn == RayStatus # "none" => ray.of = active

\* Whoever waits for a swap is answered without its own timeout: swaps that
\* fail, models that never load and abandoned swaps in front do not block it.
WaitersAnswered == \A r \in Requests : at[r] = "waiting" ~> at[r] # "waiting"

\* A ready container whose model is gone is not believed for ever, although the
\* watchdog's answers arrive late and Ray may be in order.
DeadIsNoticed ==
    (state = "ready" /\ active # NoProfile /\ proc[active] = "none")
        ~> (state # "ready" \/ proc[active] # "none")
=============================================================================
