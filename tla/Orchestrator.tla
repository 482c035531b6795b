----------------------------- MODULE Orchestrator -----------------------------
(***************************************************************************)
(* Profile swaps and startup of the gateway (ContainerOrchestrator in      *)
(* gateway/orchestrator.py, lifespan in gateway/app.py) for the engine the *)
(* catalog uses, spark_cluster: a model is one `vllm serve` process per    *)
(* rank, rank 0 in a container of this host reached through Docker, the    *)
(* others on worker nodes reached over SSH; several models share the same  *)
(* container, so a container's state does not say which model it serves.   *)
(*                                                                         *)
(* A step is what happens between two awaits.  Sending the stop commands   *)
(* of all ranks of a model is one step.  The environment is the set of     *)
(* serve processes and what remote commands do to it; Faults says which    *)
(* ways of failing are considered:                                         *)
(*   "verify"   _verify_spark_cluster_ready raises                         *)
(*   "kill"     a node is unreachable: stopping a rank there has no effect *)
(*              (_stop_spark_serve logs it and goes on)                    *)
(*   "launch"   starting a rank raises, with the process started or not    *)
(*   "lost"     Docker answers the start of rank 0 with an API error, which*)
(*              exec_in_workload returns as a value nobody looks at        *)
(*   "slow"     a health probe of a serving model times out                *)
(*   "die"      a serve process dies                                       *)
(*   "persist"  the state file cannot be written                           *)
(***************************************************************************)
EXTENDS Integers, Sequences, FiniteSets

CONSTANTS
    Callers,       \* tasks that call switch_profile while the app runs
    Lifespan,      \* the startup code, which calls it too
    Profiles,      \* keys of PROFILES
    ProfileOrder,  \* the same in dictionary order
    NoProfile,     \* None
    Default,       \* "deepseek"
    AllModels,     \* ALL_MODELS, in order
    ModelsOf,      \* profile -> its primary and secondary models, in order
    ContainerOf,   \* model -> container_name
    Nodes,         \* model -> cluster_nodes
    Faults,        \* the faults that may happen
    MaxCrashes     \* how often the gateway may crash

Models == {AllModels[i] : i \in 1..Len(AllModels)}
Containers == {ContainerOf[m] : m \in Models}
Tasks == Callers \cup {Lifespan}
Ranks(m) == 0..(Nodes[m] - 1)
Processes == UNION {{m} \X Ranks(m) : m \in Models}
ModelSet(p) == {ModelsOf[p][i] : i \in 1..Len(ModelsOf[p])}
ContainersOf(p) == {ContainerOf[m] : m \in ModelSet(p)}

ASSUME TasksAssumption == Lifespan \notin Callers
ASSUME ProfilesAssumption ==
    /\ Profiles = {ProfileOrder[i] : i \in 1..Len(ProfileOrder)}
    /\ NoProfile \notin Profiles
    /\ Default \in Profiles
ASSUME CatalogAssumption ==
    /\ AllModels \in Seq(Models) /\ AllModels # <<>>
    /\ ModelsOf \in [Profiles -> Seq(Models)]
    /\ \A p \in Profiles : ModelsOf[p] # <<>>
    /\ ContainerOf \in [Models -> Containers]
    /\ Nodes \in [Models -> Nat \ {0}]
ASSUME BoundsAssumption == MaxCrashes \in Nat

VARIABLES
    active_profile,     \* _active_profile
    container_states,   \* _container_states; "absent": no entry
    swap_in_progress,   \* _swap_in_progress
    lock_queue,         \* waiters of _swap_lock, oldest first
    persisted,          \* STATE_FILE
    pc,                 \* where each task is in switch_profile
    target, force,      \* its arguments
    outgoing, rest,     \* models and containers its teardown still has to stop
    todo,               \* models it still has to start or to wait for
    rank,               \* the rank it launches next
    result,             \* what its last call returned
    boot,               \* how far lifespan has come
    probes,             \* models startup still has to probe or to clean up
    healthy,            \* healthy_exec_models
    procs, serving,     \* serve processes; models that answer /health
    stopped,            \* history: models stopped, not launched or serving since
    crashes

memory == <<active_profile, container_states, swap_in_progress>>
task == <<lock_queue, pc, target, force, outgoing, rest, todo, rank, result>>
startup == <<boot, probes, healthy>>
world == <<procs, serving, stopped>>
vars == <<memory, task, startup, world, persisted, crashes>>

Body == {"stop_current", "stop_rest", "verify", "stop_own", "launch", "wait"}
States == {"absent", "starting", "ready", "stopped"}

\* A gateway that has just been started.
Reset ==
    /\ active_profile' = NoProfile
    /\ container_states' = [c \in Containers |-> "absent"]
    /\ swap_in_progress' = FALSE
    /\ lock_queue' = <<>>
    /\ pc' = [t \in Tasks |-> "idle"]
    /\ target' = [t \in Tasks |-> Default]
    /\ force' = [t \in Tasks |-> FALSE]
    /\ todo' = [t \in Tasks |-> <<>>]
    /\ outgoing' = [t \in Tasks |-> {}]
    /\ rest' = [t \in Tasks |-> {}]
    /\ rank' = [t \in Tasks |-> 0]
    /\ result' = [t \in Tasks |-> "none"]
    /\ boot' = "probe"
    /\ probes' = AllModels
    /\ healthy' = {}

Init ==
    /\ active_profile = NoProfile
    /\ container_states = [c \in Containers |-> "absent"]
    /\ swap_in_progress = FALSE
    /\ lock_queue = <<>>
    /\ pc = [t \in Tasks |-> "idle"]
    /\ target = [t \in Tasks |-> Default]
    /\ force = [t \in Tasks |-> FALSE]
    /\ todo = [t \in Tasks |-> <<>>]
    /\ outgoing = [t \in Tasks |-> {}]
    /\ rest = [t \in Tasks |-> {}]
    /\ rank = [t \in Tasks |-> 0]
    /\ result = [t \in Tasks |-> "none"]
    /\ boot = "probe"
    /\ probes = AllModels
    /\ healthy = {}
    /\ persisted = NoProfile
    /\ procs = {}
    /\ serving = {}
    /\ stopped = {}
    /\ crashes = 0

-----------------------------------------------------------------------------
(* The serve processes *)

\* _stop_spark_serve(m): every rank is killed, except where the node cannot be
\* reached.
StopServe(m) ==
    \E missed \in (IF "kill" \in Faults THEN SUBSET Ranks(m) ELSE {{}}) :
        /\ procs' = procs \ ({m} \X (Ranks(m) \ missed))
        /\ serving' = IF missed = Ranks(m) THEN serving ELSE serving \ {m}
        /\ stopped' = IF missed = Ranks(m) THEN stopped ELSE stopped \cup {m}

\* All ranks of a model found each other: it answers /health.
Load(m) ==
    /\ {m} \X Ranks(m) \subseteq procs
    /\ m \notin serving
    /\ serving' = serving \cup {m}
    /\ stopped' = stopped \ {m}
    /\ UNCHANGED <<memory, task, startup, procs, persisted, crashes>>

Die(m) ==
    /\ "die" \in Faults
    /\ \E r \in Ranks(m) :
         /\ <<m, r>> \in procs
         /\ procs' = procs \ {<<m, r>>}
    /\ serving' = serving \ {m}
    /\ UNCHANGED <<memory, task, startup, stopped, persisted, crashes>>

-----------------------------------------------------------------------------
(* switch_profile *)

\* switch_profile is called, here from a task of its own; asyncio.Lock serves
\* its waiters in order.
Call(t, p, f) ==
    /\ pc[t] = "idle"
    /\ pc' = [pc EXCEPT ![t] = "queued"]
    /\ target' = [target EXCEPT ![t] = p]
    /\ force' = [force EXCEPT ![t] = f]
    /\ result' = [result EXCEPT ![t] = "none"]
    /\ lock_queue' = Append(lock_queue, t)
    /\ UNCHANGED <<outgoing, rest, todo, rank>>

\* Deviation: the model is not marked before the first await.
BeginModelUnmarked(t, models, cs) ==
    /\ pc' = [pc EXCEPT ![t] = "verify"]
    /\ todo' = [todo EXCEPT ![t] = models]
    /\ container_states' = cs

\* The loop of switch_profile over the target's models reaches its next model:
\* _ensure_container_running marks it STARTING before its first await.
BeginModel(t, models, cs) ==
    /\ pc' = [pc EXCEPT ![t] = "verify"]
    /\ todo' = [todo EXCEPT ![t] = models]
    /\ container_states' = [cs EXCEPT ![ContainerOf[Head(models)]] = "starting"]

\* _teardown_current has stopped the outgoing models; cs are the states then.
\* Its second loop walks over a copy of the states taken now.
BeginRest(t, cs) ==
    LET left == {c \in Containers \ ContainersOf(target[t]) : cs[c] \in {"ready", "starting"}}
    IN  /\ rest' = [rest EXCEPT ![t] = left]
        /\ IF left = {}
             THEN BeginModel(t, ModelsOf[target[t]], cs)
             ELSE /\ pc' = [pc EXCEPT ![t] = "stop_rest"]
                  /\ container_states' = cs
                  /\ UNCHANGED todo

\* Deviation: models are told apart by their container.
OutgoingByContainer(p) ==
    IF active_profile = NoProfile THEN {}
    ELSE {m \in ModelSet(active_profile) : ContainerOf[m] \notin ContainersOf(p)}

\* The models of the active profile that the target does not share.
Outgoing(p) ==
    IF active_profile = NoProfile THEN {} ELSE ModelSet(active_profile) \ ModelSet(p)

\* switch_profile returns r; its arguments and locals are gone.
Return(t, r) ==
    /\ pc' = [pc EXCEPT ![t] = "idle"]
    /\ result' = [result EXCEPT ![t] = r]
    /\ target' = [target EXCEPT ![t] = Default]
    /\ force' = [force EXCEPT ![t] = FALSE]
    /\ todo' = [todo EXCEPT ![t] = <<>>]
    /\ rank' = [rank EXCEPT ![t] = 0]

\* Deviation: the lock is not held while the models load.
LockFreeWhileLoading == \A u \in Tasks : pc[u] \notin Body \ {"wait"}

LockFree == \A u \in Tasks : pc[u] \notin Body

\* Deviation: no re-check under the lock.
NeverActive(t) == FALSE

\* The re-check under the lock.
AlreadyActive(t) == active_profile = target[t] /\ ~force[t]

\* The task gets the lock: the profile is already active, or the swap begins.
Enter(t) ==
    /\ pc[t] = "queued"
    /\ LockFree
    /\ lock_queue # <<>> /\ Head(lock_queue) = t
    /\ lock_queue' = Tail(lock_queue)
    /\ IF AlreadyActive(t)
         THEN /\ Return(t, "ok")
              /\ UNCHANGED <<swap_in_progress, container_states, outgoing, rest>>
         ELSE /\ swap_in_progress' = TRUE
              /\ outgoing' = [outgoing EXCEPT ![t] = Outgoing(target[t])]
              /\ IF Outgoing(target[t]) = {}
                   THEN BeginRest(t, container_states)
                   ELSE /\ pc' = [pc EXCEPT ![t] = "stop_current"]
                        /\ UNCHANGED <<container_states, rest, todo>>
              /\ UNCHANGED <<target, force, rank, result>>
    /\ UNCHANGED <<active_profile, startup, world, persisted, crashes>>

\* _teardown_current, first loop: stop the outgoing models by identity (in the
\* profile's order, here in any order).
StopCurrent(t) ==
    /\ pc[t] = "stop_current"
    /\ \E m \in outgoing[t] :
         LET cs == [container_states EXCEPT ![ContainerOf[m]] = "stopped"] IN
         /\ StopServe(m)
         /\ outgoing' = [outgoing EXCEPT ![t] = @ \ {m}]
         /\ IF outgoing[t] = {m}
              THEN BeginRest(t, cs)
              ELSE container_states' = cs /\ UNCHANGED <<pc, rest, todo>>
    /\ UNCHANGED <<active_profile, swap_in_progress, lock_queue, target, force, rank, result,
                   startup, persisted, crashes>>

\* m is the first model of the catalog in container c.
FirstIn(m, c) ==
    \E i \in 1..Len(AllModels) :
        /\ AllModels[i] = m
        /\ ContainerOf[m] = c
        /\ \A j \in 1..(i - 1) : ContainerOf[AllModels[j]] # c

\* _teardown_current, second loop: a container that the target does not use.
\* (STOPPING, its state during the await, is only shown in /status.)
StopRest(t) ==
    /\ pc[t] = "stop_rest"
    /\ \E c \in rest[t], m \in Models :
         LET cs == [container_states EXCEPT ![c] = "stopped"] IN
         /\ FirstIn(m, c)
         /\ StopServe(m)
         /\ rest' = [rest EXCEPT ![t] = @ \ {c}]
         /\ IF rest[t] = {c}
              THEN BeginModel(t, ModelsOf[target[t]], cs)
              ELSE container_states' = cs /\ UNCHANGED <<pc, todo>>
    /\ UNCHANGED <<active_profile, swap_in_progress, lock_queue, target, force, outgoing, rank,
                   result, startup, persisted, crashes>>

\* The exception handler and the finally block of switch_profile.
Fail(t) ==
    /\ Return(t, "failed")
    /\ swap_in_progress' = FALSE

\* _verify_spark_cluster_ready returns or raises.
Verify(t) ==
    /\ pc[t] = "verify"
    /\ \/ /\ pc' = [pc EXCEPT ![t] = "stop_own"]
          /\ UNCHANGED <<result, target, force, todo, rank, swap_in_progress>>
       \/ "verify" \in Faults /\ Fail(t)
    /\ UNCHANGED <<active_profile, container_states, lock_queue, outgoing, rest,
                   startup, world, persisted, crashes>>

\* _start_spark_serve first stops what is left of the model itself.
StopOwn(t) ==
    /\ pc[t] = "stop_own"
    /\ StopServe(Head(todo[t]))
    /\ pc' = [pc EXCEPT ![t] = "launch"]
    /\ rank' = [rank EXCEPT ![t] = Nodes[Head(todo[t])] - 1]
    /\ UNCHANGED <<memory, lock_queue, target, force, outgoing, rest, todo, result,
                   startup, persisted, crashes>>

\* Deviation: the loop over the ranks goes one too far.
AfterLaunchOneMore(t) ==
    LET m == Head(todo[t])
        cs == [container_states EXCEPT ![ContainerOf[m]] = "starting"]
    IN  IF rank[t] >= 0
          THEN /\ rank' = [rank EXCEPT ![t] = @ - 1]
               /\ UNCHANGED <<pc, todo, container_states>>
          ELSE /\ UNCHANGED rank
               /\ IF Len(todo[t]) = 1
                    THEN /\ pc' = [pc EXCEPT ![t] = "wait"]
                         /\ todo' = [todo EXCEPT ![t] = ModelsOf[target[t]]]
                         /\ container_states' = cs
                    ELSE BeginModel(t, Tail(todo[t]), cs)

\* What follows the start of a rank: the next lower rank, the next model, or
\* the wait for all of them.
AfterLaunch(t) ==
    LET m == Head(todo[t])
        cs == [container_states EXCEPT ![ContainerOf[m]] = "starting"]
    IN  IF rank[t] > 0
          THEN /\ rank' = [rank EXCEPT ![t] = @ - 1]
               /\ UNCHANGED <<pc, todo, container_states>>
          ELSE /\ UNCHANGED rank
               /\ IF Len(todo[t]) = 1
                    THEN /\ pc' = [pc EXCEPT ![t] = "wait"]
                         /\ todo' = [todo EXCEPT ![t] = ModelsOf[target[t]]]
                         /\ container_states' = cs
                    ELSE BeginModel(t, Tail(todo[t]), cs)

\* _start_spark_serve starts one rank, workers first.
Launch(t) ==
    /\ pc[t] = "launch"
    /\ LET m == Head(todo[t]) IN
       \/ /\ procs' = procs \cup {<<m, rank[t]>>}
          /\ stopped' = IF rank[t] = 0 THEN stopped \ {m} ELSE stopped
          /\ AfterLaunch(t)
          /\ UNCHANGED <<result, target, force, swap_in_progress>>
       \/ /\ "lost" \in Faults /\ rank[t] = 0
          /\ stopped' = stopped \ {m}
          /\ AfterLaunch(t)
          /\ UNCHANGED <<procs, result, target, force, swap_in_progress>>
       \/ /\ "launch" \in Faults
          /\ procs' \in {procs, procs \cup {<<m, rank[t]>>}}
          /\ Fail(t)
          /\ UNCHANGED <<stopped, container_states>>
    /\ UNCHANGED <<active_profile, lock_queue, outgoing, rest, serving,
                   startup, persisted, crashes>>

\* _persist_state: the file is replaced as a whole or left as it was.
Persist(p) ==
    persisted' \in {p} \cup (IF "persist" \in Faults THEN {persisted} ELSE {})

\* Deviation: only adoption persists.
ClaimUnpersisted(t, cs) ==
    /\ container_states' = cs
    /\ active_profile' = target[t]
    /\ UNCHANGED persisted
    /\ swap_in_progress' = FALSE
    /\ Return(t, "ok")

\* The profile is claimed and persisted and switch_profile returns True.
Claim(t, cs) ==
    /\ container_states' = cs
    /\ active_profile' = target[t]
    /\ Persist(target[t])
    /\ swap_in_progress' = FALSE
    /\ Return(t, "ok")

\* _wait_all_ready: the model it waits for answers its probe.
Answer(t) ==
    /\ pc[t] = "wait"
    /\ Head(todo[t]) \in serving
    /\ LET cs == [container_states EXCEPT ![ContainerOf[Head(todo[t])]] = "ready"] IN
       IF Len(todo[t]) = 1
         THEN Claim(t, cs)
         ELSE /\ todo' = [todo EXCEPT ![t] = Tail(todo[t])]
              /\ container_states' = cs
              /\ UNCHANGED <<active_profile, persisted, swap_in_progress,
                              pc, target, force, rank, result>>
    /\ UNCHANGED <<lock_queue, outgoing, rest, startup, world, crashes>>

\* Deviation: the deadline is never reached.
TimeoutNever(t) == FALSE

\* _wait_all_ready runs out of SWAP_TIMEOUT_S: what is still STARTING is
\* promoted to READY and the profile is claimed all the same.
Timeout(t) ==
    /\ pc[t] = "wait"
    /\ Claim(t, [c \in Containers |->
                   IF c \in ContainersOf(target[t]) /\ container_states[c] = "starting"
                     THEN "ready" ELSE container_states[c]])
    /\ UNCHANGED <<lock_queue, outgoing, rest, startup, world, crashes>>

Swap(t) ==
    \/ Enter(t) \/ StopCurrent(t) \/ StopRest(t) \/ Verify(t)
    \/ StopOwn(t) \/ Launch(t) \/ Answer(t) \/ Timeout(t)

-----------------------------------------------------------------------------
(* Startup *)

\* Deviation: models are told apart by their container.
AdoptableByContainer(h) == {p \in Profiles : ContainersOf(p) \subseteq {ContainerOf[m] : m \in h}}

\* The profiles all of whose models are in h, and the first in dictionary order.
Adoptable(h) == {p \in Profiles : ModelSet(p) \subseteq h}
FirstAdoptable(p, h) ==
    \E i \in 1..Len(ProfileOrder) :
        /\ ProfileOrder[i] = p
        /\ p \in Adoptable(h)
        /\ \A j \in 1..(i - 1) : ProfileOrder[j] \notin Adoptable(h)

\* detect_and_adopt_running_profile after its last probe, with the models h
\* healthy: no profile is complete, or the first complete one is adopted and
\* what serves in containers it does not use is to be stopped.
AdoptNone(h) ==
    /\ Adoptable(h) = {}
    /\ boot' = "cleanup"
    /\ probes' = AllModels
    /\ UNCHANGED <<active_profile, container_states, rest, persisted>>

Adopt(p, h) ==
    LET orphans == {ContainerOf[m] : m \in h} \ ContainersOf(p) IN
    /\ FirstAdoptable(p, h)
    /\ active_profile' = p
    /\ container_states' = [c \in Containers |->
           IF c \in ContainersOf(p) THEN "ready" ELSE container_states[c]]
    /\ rest' = [rest EXCEPT ![Lifespan] = orphans]
    /\ probes' = <<>>
    /\ IF orphans = {} THEN Persist(p) /\ boot' = "up"
                       ELSE boot' = "orphans" /\ UNCHANGED persisted

\* One health probe of detect_and_adopt_running_profile.
BootProbe ==
    /\ boot = "probe"
    /\ \E h \in {healthy \cup ({Head(probes)} \cap serving)}
                 \cup (IF "slow" \in Faults THEN {healthy} ELSE {}) :
         /\ healthy' = h
         /\ IF Len(probes) = 1
              THEN AdoptNone(h) \/ \E p \in Profiles : Adopt(p, h)
              ELSE /\ probes' = Tail(probes)
                   /\ UNCHANGED <<boot, active_profile, container_states, rest, persisted>>
    /\ UNCHANGED <<swap_in_progress, lock_queue, pc, target, force, outgoing, todo, rank, result,
                   world, crashes>>

\* The loop over the orphans of the adopted profile.
BootOrphan ==
    /\ boot = "orphans"
    /\ \E c \in rest[Lifespan], m \in Models :
         /\ FirstIn(m, c)
         /\ StopServe(m)
         /\ rest' = [rest EXCEPT ![Lifespan] = @ \ {c}]
         /\ IF rest[Lifespan] = {c} THEN Persist(active_profile) /\ boot' = "up"
                                     ELSE UNCHANGED <<persisted, boot>>
    /\ UNCHANGED <<memory, lock_queue, pc, target, force, outgoing, todo, rank, result,
                   probes, healthy, crashes>>

\* cleanup_orphaned_containers, and after its last model the call that restores
\* the persisted profile or the default one.
BootCleanup ==
    /\ boot = "cleanup"
    /\ StopServe(Head(probes))
    /\ probes' = Tail(probes)
    /\ IF Len(probes) = 1
         THEN /\ Call(Lifespan, IF persisted \in Profiles THEN persisted ELSE Default, FALSE)
              /\ boot' = "restore"
         ELSE UNCHANGED <<task, boot>>
    /\ UNCHANGED <<memory, healthy, persisted, crashes>>

\* Deviation: startup insists on a profile.
BootDoneOnSuccess ==
    /\ boot = "restore"
    /\ pc[Lifespan] = "idle" /\ result[Lifespan] = "ok"
    /\ boot' = "up"
    /\ UNCHANGED <<memory, task, probes, healthy, world, persisted, crashes>>

\* The app starts to serve, whether or not the startup swap succeeded.
BootDone ==
    /\ boot = "restore"
    /\ pc[Lifespan] = "idle"
    /\ boot' = "up"
    /\ UNCHANGED <<memory, task, probes, healthy, world, persisted, crashes>>

Boot == BootProbe \/ BootOrphan \/ BootCleanup \/ BootDone

\* The gateway process dies and is started again; the serve processes live on.
Crash ==
    /\ crashes < MaxCrashes
    /\ crashes' = crashes + 1
    /\ Reset
    /\ UNCHANGED <<world, persisted>>

-----------------------------------------------------------------------------

\* set_profile: an administrator asks for a profile while no swap runs.
AskAdmin(t) ==
    /\ boot = "up"
    /\ ~swap_in_progress
    /\ \E p \in Profiles, f \in BOOLEAN : Call(t, p, f)
    /\ UNCHANGED <<memory, startup, world, persisted, crashes>>

\* _chat_completions wants model m of profile p and cannot dispatch at once: a
\* swap task is created, forced if the profile is active, not ready and no swap
\* runs.
AskRequest(t) ==
    /\ boot = "up"
    /\ \E p \in Profiles : \E m \in ModelSet(p) :
         LET ready == container_states[ContainerOf[m]] = "ready" IN
         /\ active_profile # p \/ ~ready \/ swap_in_progress
         /\ Call(t, p, active_profile = p /\ ~ready /\ ~swap_in_progress)
    /\ UNCHANGED <<memory, startup, world, persisted, crashes>>

Next ==
    \/ \E t \in Tasks : Swap(t)
    \/ \E t \in Callers : AskAdmin(t) \/ AskRequest(t)
    \/ Boot
    \/ Crash
    \/ \E m \in Models : Load(m) \/ Die(m)

Spec == Init /\ [][Next]_vars

\* Remote commands, probes and the swap's timeout come to an end.  Models are
\* not assumed ever to load, nor callers to call.
Fairness == (\A t \in Tasks : WF_vars(Swap(t))) /\ WF_vars(Boot)

FairSpec == Spec /\ Fairness

-----------------------------------------------------------------------------
(* Properties *)

TypeOK ==
    /\ active_profile \in Profiles \cup {NoProfile}
    /\ container_states \in [Containers -> States]
    /\ swap_in_progress \in BOOLEAN
    /\ lock_queue \in Seq(Tasks)
    /\ persisted \in Profiles \cup {NoProfile}
    /\ pc \in [Tasks -> {"idle", "queued"} \cup Body]
    /\ target \in [Tasks -> Profiles]
    /\ force \in [Tasks -> BOOLEAN]
    /\ outgoing \in [Tasks -> SUBSET Models]
    /\ todo \in [Tasks -> Seq(Models)]
    /\ rest \in [Tasks -> SUBSET Containers]
    /\ rank \in [Tasks -> Nat]
    /\ result \in [Tasks -> {"none", "ok", "failed"}]
    /\ boot \in {"probe", "orphans", "cleanup", "restore", "up"}
    /\ probes \in Seq(Models)
    /\ healthy \in SUBSET Models
    /\ procs \in SUBSET Processes
    /\ serving \in SUBSET Models
    /\ stopped \in SUBSET Models
    /\ crashes \in 0..MaxCrashes

\* The mutex: one task at most is inside the swap, and is_swapping, which the
\* request handler and the admin endpoint rely on, is set exactly then.
SwapsExclude ==
    /\ \A t, u \in Tasks : pc[t] \in Body /\ pc[u] \in Body => t = u
    /\ swap_in_progress <=> \E t \in Tasks : pc[t] \in Body

Running == {x[1] : x \in procs}

\* What the handler takes for granted when it dispatches without a swap: no swap
\* runs, the profile is active and the container of the model is READY.  Then
\* the gateway itself has not stopped that model since it last came up.
Dispatchable(p, m) ==
    /\ ~swap_in_progress
    /\ active_profile = p
    /\ container_states[ContainerOf[m]] = "ready"

DispatchableIsUp ==
    \A p \in Profiles : \A m \in ModelSet(p) : Dispatchable(p, m) => m \notin stopped

\* Stopping by identity works: between swaps no serve process of a profile other
\* than the active one runs (as long as every stop and start command arrives).
NoForeignServe ==
    boot = "up" /\ ~swap_in_progress => Running \subseteq
        (IF active_profile = NoProfile THEN {} ELSE ModelSet(active_profile))

\* The state file names the active profile, except while the startup removes
\* what serves beside an adopted one (_persist_state after every claim and at
\* the end of an adoption).
PersistedIsActive ==
    active_profile # NoProfile /\ boot # "orphans" => persisted = active_profile

\* What startup makes of the state file: the profile that becomes active is the
\* one the file names (without one, the default), unless another is adopted
\* because its models answer and those of the named one do not all serve.  The
\* adoption goes by PROFILES, not by the file: after a crash between the load of
\* a profile and its claim the restart adopts the unclaimed one.
ResumeStep ==
    boot # "up" /\ active_profile = NoProfile /\ active_profile' # NoProfile =>
        \/ active_profile' = (IF persisted \in Profiles THEN persisted ELSE Default)
        \/ boot = "probe" /\ (persisted \in Profiles => ~(ModelSet(persisted) \subseteq serving))

ResumesClaimed == [][ResumeStep]_vars

\* The re-check under the lock: a model of the active profile is only stopped for
\* another profile or for a forced restart, never by a task that queued behind
\* the swap that brought it up.
ReloadStep ==
    active_profile # NoProfile =>
        \A m \in ModelSet(active_profile) : m \in stopped' \ stopped =>
            \E t \in Tasks : pc[t] \in Body /\ (force[t] \/ target[t] # active_profile)

NoReload == [][ReloadStep]_vars

\* "or the old serve process survives the swap": when a swap claims its profile,
\* no serve process of another profile is left.
ClaimStep ==
    \A t \in Tasks : pc[t] = "wait" /\ pc'[t] = "idle" => Running' \subseteq ModelSet(target[t])

ClaimsAlone == [][ClaimStep]_vars

\* "Returns True if the switch was successful": when a call returns True, the
\* containers of the profile it asked for are READY.
ReturnStep ==
    \A t \in Tasks : pc[t] # "idle" /\ pc'[t] = "idle" /\ result'[t] = "ok" =>
        \A c \in ContainersOf(target[t]) : container_states'[c] = "ready"

ReturnsTrueWhenUp == [][ReturnStep]_vars

\* "Remove workloads that don't belong to this profile": a model seen healthy
\* at startup does not go on serving beside the adopted profile.
AdoptionStep ==
    boot # "restore" /\ boot # "up" /\ boot' = "up" =>
        healthy' \cap serving' \subseteq ModelSet(active_profile')

AdoptionRemovesOthers == [][AdoptionStep]_vars

\* Every call of switch_profile returns, whatever fails and whoever waits.
CallsReturn == \A t \in Tasks : pc[t] # "idle" ~> pc[t] = "idle"

\* The gateway always comes up again.
ComesUp == boot # "up" ~> boot = "up"
=============================================================================
