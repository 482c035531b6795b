# A TLA+ model of the Blackwell Smart Gateway

The gateway (`gateway/`) puts an OpenAI-compatible endpoint in front of a small cluster of
GPU nodes that can hold one large model at a time.  It queues requests, swaps the running
"profile" (a set of models) when a request needs another one, and proxies to the `vllm serve`
processes.  All of it runs on one asyncio loop, so what is hard about it is what other tasks,
timers, clients and remote nodes do while a coroutine is suspended at an `await`.

This directory holds the specifications of its core, the TLC configurations that check them
on small instances, and TLAPS proofs for all instances.  `PROJECT.json` maps every definition
to its source lines and lists the hazards each property is for.

## The system

| part | state | operations | interacts with |
|---|---|---|---|
| admission queue (`admission.py`) | `active`, `profile`, `_waiting`, leases, futures | `acquire`, `release`, `_promote` | every chat request; decides which profile may run |
| chat handler (`app.py`) | per request: lease, work task, response | `chat_completions`, `until_disconnect`, streaming | admission, swap, proxy |
| profile swap (`orchestrator.py`) | `_active_profile`, `_container_states`, `_swap_in_progress`, `_swap_lock` | `switch_profile`: teardown, verify, start, wait, claim | remote nodes through Docker and SSH |
| startup (`app.py`, `orchestrator.py`) | state file, probed models | adopt a running profile, or clean up and restore | serve processes that outlived the gateway |
| swap tasks and request buffer (`app.py`, `request_buffer.py`) | `_active_swap_task`, buffered requests and their futures | reuse or create a swap task, drain, reject | handler, swap |
| watchdog and Ray status (`app.py`, `orchestrator.py`) | container states, cached verdict | periodic probes | writes container states outside the swap lock |
| admin endpoints (`app.py`) | none | swap, stop and remove past the admission queue | swap, container states |
| workloads (`orchestrator.py`, `backends/`, `vram_monitor.py`) | containers or pods, memory | stop, pause, create, resume; VRAM check | Docker or Kubernetes |
| proxy (`proxy.py`) | HTTP session, served-name cache | request, stream with retries | backends |
| router, prefix cache (`router.py`, `request_buffer.py`) | none; an LRU order | rule matching, lookups | handler |
| thermal guard (`ops/thermal_guard.py`) | clock step, cool since | poll, lower, raise | the GPU |
| flight recorder (`ops/node_forensics.py`, `ops/crash_report.py`) | daily files; least and greatest power | sample, roll over, post-mortem | each other, through the files |
| keep-alive script (`ray-cluster/ensure_vllm_cluster.sh`) | none | check, stop, relaunch | the gateway's containers and its `/health` |

What makes each part correct:

- **admission**: the counter is the number of leases out; one profile at a time; FIFO; no lost
  wakeup; a slot outlives its backend exchange; everybody queued gets away.
- **swap**: swaps exclude each other and the flag others read says so; what is announced as
  ready has not been stopped; no process of another profile is left; every call returns.
- **startup**: a restart comes up, whatever it finds, and goes on with the profile the state file
  names, unless that one does not serve and another does.
- **handler and watchdog**: who waits for a swap waits for its own and is answered; no swap is
  queued twice; no running inference is cut off; a dead model is noticed.
- **workloads**: nothing of another profile computes beside the new one; memory is not promised
  twice; paused weights come back; every swap ends.
- **proxy, buffer, router, prefix cache**: no answer twice, no request forgotten, no stale name (the
  code has them, see `MCProxyNames`), the model of the profile that owns the name, least recently used
  entries go first.
- **node**: heat is answered at once and the clock raised with care; every death is reported and
  nothing else; a broken cluster comes back and a complete one is left alone (it is not always, see
  `MCBlindInspect`).

Hard to test: cancellation racing with promotion, cancelled entries still in the queue, the
handover of a lease to a stream, failures between teardown and claim, stop commands that do not
arrive, a crash of the gateway in the middle of a swap, models that never load, swap tasks that
outlive their requests, probes that answer after a swap, processes that exit while they are paused,
a runtime that does not answer, files cut off by a power failure.

## Modules

| module | what it is |
|---|---|
| `Admission` | admission queue and the life of a request around it |
| `GroupLock` | what the admission queue promises; `Admission` is shown to implement it |
| `Orchestrator` | `switch_profile`, startup, crashes, and the serve processes |
| `Gateway` | handler, swap tasks, swap lock, administrator, watchdog and Ray status together |
| `Workloads` | the orchestrator's branches for containers and pods, with the VRAM check |
| `Proxy` | exchanges with a backend, retries, the served-name cache |
| `RequestBuffer` | requests held back during a swap, and the tasks that drain them |
| `PrefixCache` | the LRU cache of system prefixes |
| `Router` | routing by name and label against arbitrary catalogues |
| `ThermalGuard` | the clock governor |
| `PowerSampler`, `Forensics` | the power thread of the recorder; its files and the post-mortem |
| `KeepAlive` | the keep-alive script beside a swapping gateway |
| `MCAdmission`, `MCOrchestrator`, `MCGateway`, `MCWorkloads`, `MCRequestPath`, `MCNode` | instances for TLC |
| `AdmissionProofs`, `OrchestratorProofs`, `GatewayProofs`, `WorkloadsProofs`, `RequestPathProofs`, `NodeProofs`, `ForensicsProofs` | inductive invariants and theorems |
| `Induction` | induction and loops over the naturals, as facts about sets and functions |

How they compose: `Gateway` uses of admission what `GroupLock` states and of a swap the phases
`Orchestrator` details; `KeepAlive` and `Router` use of a swap only its order.  `Workloads` is the
other half of `Orchestrator`: the same operation for engines the catalog of this commit does not
use but the code supports.  Four MC modules run several instances of their modules in one state
space.  `MCWorkloads` chooses the instance (a host) in the initial state; `MCGateway` chooses which of
two restrictions bounds the steps of `Gateway`, so that one run has the crowd without the administrator
and the administrator without the crowd.
`MCRequestPath` and `MCNode` hold programs that share no state, so the initial state chooses the one
that runs and the others rest: their product would show nothing more.

### Admission

An action is what one task does between two awaits.  A request has a `work` task and a handler;
`task[r]` says where they are.  The future of a queued request is `pending`, `granted` by
`_promote`, or `cancelled` at once by a timer or a disconnect, while the task that owns it only
notices later (`ResumeReturn`, `ResumeCancelled`); `must_cancel` is asyncio's mark on a task that
was cancelled after its future was done.  `_promote` is a loop that pops a prefix of the queue;
the model states where the loop stops (`PromoteStops`), which is easier to reason about, and
`PromoteIsTheLoop` compares it with the loop, written as the code runs it (`PromoteLoop`), in every
reachable state.  `backend` holds the
requests with an open exchange: streams open theirs when the first chunk is asked for and may be
broken off with it open.  Request slots are reused, so arrivals never end.

### Orchestrator

`pc[t]` follows a task through `switch_profile`: `queued` for the lock, `stop_current` and
`stop_rest` (the loops of `_teardown_current`), `verify`, `stop_own`, `launch` (rank by rank,
highest first), `wait`.  `boot` follows `lifespan`.  Callers are the administrator (`AskAdmin`,
refused during a swap) and requests (`AskRequest`, which computes `force` as the handler does).
The environment is the set of processes per model and rank and the models that answer `/health`.
`Faults` names the ways of failing a run considers:

- `verify`: the check of the cluster raises;
- `kill`: a node cannot be reached when a rank is to be stopped (the code logs it and goes on);
- `launch`: starting a rank raises, with the process started or not;
- `lost`: Docker answers the start of rank 0 with an API error, which `exec_in_workload` returns
  as a value that nobody looks at;
- `slow`: a probe of a serving model times out; `die`: a process dies; `persist`: the state file
  cannot be written.

`Crash` resets everything in memory and leaves processes and the state file.  `stopped` is a
history variable: models the gateway stopped that have not been launched or seen serving since.

A restart does not read the state file before it adopts: it takes the first profile of `PROFILES` whose
models answer.  After a crash between the load of a profile and its claim it adopts the one that is not
yet claimed.  So `PersistedIsActive` only says that the file follows what is active, and `ResumesClaimed`
what a restart makes of it: the profile the file names is passed over only if it does not serve.

Abstractions: the scripts sent to the nodes stand for their effect; stopping all ranks of a model
is one step; `_teardown_current`'s first loop takes its models in any order; `STOPPING`, which is
only displayed, is left out.  Only the engine of the catalog, `spark_cluster`, is modelled here.  Two
requests for the same profile may each have a swap task here: sharing them is `Gateway`'s.

### Gateway

A step is what a task does between two awaits.  `at[r]` follows an admitted request through
`_chat_completions`; `swap[t]` follows a swap task (or a call of the administrator) through
`switch_profile`; `lock_queue` is the FIFO of `_swap_lock`.  A free lock is entered at once; after a
release the oldest waiter enters in a step of its own, because asyncio only schedules it.  In that
instant no swap is in progress, and `exposed` remembers the requests that were dispatched in it.
`tracked` is `_active_swap_task`: `Reusable`, `Finish` and `NeedsSwap` are the three decisions of
the handler that matter.  A request that times out or disconnects (`GiveUp`) leaves its shielded
task behind.  The watchdog reads the active profile, awaits a count of Ray nodes, awaits a probe and
then writes, each in a step of its own, so that a claim can fall between any two.

### Workloads

`wl` is the status of each workload in the runtime, `states` what the orchestrator believes, `up`
who has weights in memory.  A swap tears down by stopping or pausing (`get_swap_strategy` and
`supports_pause`), checks the memory, tears down again if it is short (`deep`), starts each workload
by the status it is found in, waits and claims; a restart probes, adopts one profile and removes the
rest.  An administrator's call records its state after the runtime has answered.  A container whose
process exits is `restarting` until the runtime has started it again or given up, because of the restart
policy `unless-stopped`; stopping takes it down for good, and pausing leaves it alone, as the backend's
test for `running` does.  The comment at the top of the module lists what may fail.  Of Kubernetes only
the first call matters, which raises (`MCKubernetes`): no pod ever runs.  One swap runs at a time: the
lock is `Orchestrator`'s subject.

### Proxy, RequestBuffer, PrefixCache, Router

`Proxy` follows an exchange through the query of the served name, the posts and the chunks.  The
backend is down, or answers to the configured name or to the bare one, according to who started it: a
swap, which may fail or time out with the backend up or down, or the keep-alive unit, at any time.
Asking for the name is one step: its timeout of 5 s is shorter than any load.  `RequestBuffer` keeps
the queue, each future and each drain task's batch; no endpoint of this commit fills the buffer, so
the module is the contract of the class and of its two users.  `PrefixCache` compares the
`OrderedDict` with a history of all uses.  `Router` takes names as sequences of parts, so that
containment of strings is containment of sequences, and requests with or without blanks around the
name; `BestMatch` is the two loops of the code (`Scan`, `ScanAll`) and `GoesToOwner` compares their
outcome with a definition that has no loop.

### ThermalGuard, PowerSampler, Forensics, KeepAlive

`ThermalGuard` measures time in polls and temperatures in the four bands the thresholds make; `heat`,
`chill` and `rest` are histories of the readings.  `PowerSampler` makes every access to `lo` and `hi` a
step.  `Forensics` writes line by line: a death may fall between any two lines, and between a line and
its end.  Days only go forward and a write crosses at most one midnight; only a sample, the one frequent
line, is torn.  The post-mortem is its loops: what they hold after each line (`Load`), after each session
of a file (`JoinEach`) and after each file (`Collect`).  `KeepAlive` makes every remote check and command
of the script a step; `docker run --rm` makes a dead container disappear, and the launcher
(outside the repository, modelled by how the script uses it) creates containers only where none runs.
The worker may be out of reach and the docker of a node may not answer: the script knows the first from
a missing container and not the second, and a stop that does not arrive leaves the container.

## Runs

| run | instance | shows |
|---|---|---|
| `admission` | 5 requests, 2 profiles, limit 2, 3 places | safety and the refinement of `GroupLock`, under symmetry of requests and profiles |
| `admission_live` | 3 requests, limit 2, 2 places, fairness | no starvation, slots come back |
| `orchestrator` | the catalog's 3 profiles in one container, 2 callers, 1 crash | exclusion, no foreign process, persistence, no needless reload, what a restart resumes |
| `orchestrator_faults` | 2 containers, a profile of 2 models, 2 callers, 1 crash, `kill`, `launch`, `slow` | what is dispatchable was not stopped |
| `orchestrator_live` | 2 profiles, 2 callers, 1 crash, fairness | calls return, startup ends |
| `gateway` | 3 requests and 3 swap tasks that give up and fail; 2 and 2 with an administrator, Ray and late models | own swap, no redundant swap, no inference cut off |
| `gateway_live` | 2 requests, 2 swap tasks, failing swaps, dying models, fairness | waiters are answered, a dead model is noticed |
| `workloads` | 3 workloads in 3 overlapping profiles on a stopping and a pausing host; 2 on one where everything fails; 1 crash, fairness | others down, memory, paused weights, every swap ends |
| `request_path` | 2 exchanges of 3 attempts and 2 chunks; 3 requests, 2 drains, 2 places; 2 texts, 3 entries; all catalogues of `Nested` | no replay, nobody forgotten, LRU, routing |
| `node` | 6 clock steps; 1 script, 2 nodes, 3 deaths; 3 readings; 3 days, 3 sessions, 2 sets of columns (1 with torn lines) | heat, recovery, windows, deaths, a broken cluster comes back |
| `leftover_rank`, `stale_probe` | 2 profiles | two of the disagreements below |

Bounds.  With five requests, two slots and three places, one running request of one profile and
three waiting ones of the other fill the queue, so the fifth is refused; two profiles alternate and a
cancelled entry can sit at the head, in the middle and at the end.  Two callers and the startup code
give a swap inside, one waiting and one calling again.  One crash is enough for each point of a swap
to be the one at which it happens.  In `gateway` three swap tasks are one inside the lock and two in
line, which is what a redundant swap needs; profiles alternate, so two of them suffice.  In
`workloads` a profile shares a workload with another, two profiles fit into memory and two do not.
Six prefixes more than fill a cache of three.  The catalogues of `Nested` have names that contain one
another within and across profiles.  The ladder of clock steps is the code's; three polls stand for
the recovery time.  Three sessions over three days give a death before, at and after midnight and one
that retention removes.  `MaxCrashes`, `MaxDeaths`, `MaxFailures`, `MaxDay`, `MaxSessions`,
`MaxSamples` and `MaxMessages` are the artificial bounds.

Fairness.  In `Admission`, a scheduled task runs and an inference or a stream ends: the proxy makes
at most `CONNECT_RETRIES` attempts, each under a session timeout of 300 s, and the wait for a swap is
bounded by `LONG_POLLING_TIMEOUT_S`.  Queue timers and disconnects are not assumed to happen.  In
`Orchestrator`, `Gateway` and `Workloads`, remote commands, probes and `SWAP_TIMEOUT_S` come to an end
and the watchdog ticks; no model is assumed ever to load and nobody has to call.  In `ThermalGuard`
the loop polls and systemd restarts the service; in `KeepAlive` the timer fires and a script that runs
goes on.  `Proxy` assumes that attempts go on (`MCProxyLive.cfg`).

Deadlock is checked in every run but `node`, where days, sessions and samples are used up.

### What the violations show

- `leftover_rank`: a start that raises after its first rank leaves that rank running.  The next
  swap looks at the models of the active profile and at containers it does not preserve; the
  stray rank is in neither, and the new profile is claimed beside it.
- `stale_probe`: the watchdog's probe of the outgoing model ends after the claim of the incoming one;
  all models share a container, so the one that has just come up is marked ERROR and the next request
  stops and loads it again.

### Further configurations

These ask a narrower question; run them with `tlc -config <file> <module>`.  `MCProxyLive` (`Proxy`:
every exchange ends) passes.  The others end in a counterexample to a sentence of the repository, quoted at the
property:

| configuration, module | what it shows |
|---|---|
| `MCReturnsTrue`, `MCOrchestrator` | a swap from A to B fails after stopping A, which stays active; a call for A that waited for the lock returns True with nothing running |
| `MCAdoption`, `MCOrchestrator` | a stop that does not reach its node leaves two healthy models; a restart adopts one, and the other, in the same container, is no orphan |
| `MCGroupFinishes`, `Gateway` | an abandoned swap, next in line for the lock, stops the model a request was dispatched to between claim and lock (`app.py:785`) |
| `MCRayVerdict`, `Gateway` | a Ray verdict computed for the old profile is filed under the new one (`orchestrator.py:858`) |
| `MCProxyNames`, `Proxy` | a swap by the administrator keeps the cached name of the process it replaced (`app.py:696`); with `Restarts = {"request"}` one that fails after its start does, and with `{"keepalive"}` a relaunch by the unit, which does not reach the gateway at all |
| `MCProxyPosts`, `Proxy` | a completion longer than the session's timeout is posted again (`proxy.py:115`) |
| `MCCrashLoop`, `MCWorkloads` | a workload of the outgoing profile has exited and is about to be restarted: pausing it does nothing (`docker_backend.py:144`), it is recorded as PAUSED (`orchestrator.py:573`) and computes again beside the next profile |
| `MCDeepCleanup`, `MCWorkloads` | the forced second teardown passes over what the first one paused (`orchestrator.py:557`) |
| `MCAdminOverlap`, `MCWorkloads` | `stop_container` records STOPPED for a workload a swap has recreated meanwhile; no later teardown stops it (`orchestrator.py:680`) |
| `MCKubernetes`, `MCWorkloads` | `create_and_start` of the Kubernetes backend does not take the `entrypoint` it is given: every creation fails (`kubernetes_backend.py:95`) |
| `MCTornLine`, `Forensics` | the next session's first marker is appended to a torn line and the death before it disappears (`node_forensics.py:410`) |
| `MCPidReuse`, `Forensics` | a dead session whose pid another process has counts as alive (`crash_report.py:169`) |
| `MCBlindRecovery`, `ThermalGuard` | readings that fail count towards the cool spell (`thermal_guard.py:102`) |
| `MCLostCap`, `ThermalGuard` | the last cap, when it could not be set, is not tried again (`thermal_guard.py:110`) |
| `MCBlindInspect`, `KeepAlive` | `docker inspect` fails once, which reads as a missing container: the script stops a complete cluster (`ensure_vllm_cluster.sh:64,71`) |
| `MCByHand`, `KeepAlive` | two instances of the script: one stops the cluster the other has completed (`ensure_vllm_cluster.sh:104`) |
| `MCRelaunchInSwap`, `KeepAlive` | a relaunch during a swap brings back the outgoing model (`ensure_vllm_cluster.sh:45`) |
| `MCLabelSwaps`, `MCRequestPath` | a request by label that arrives during a swap swaps back to the outgoing profile (`app.py:492`) |

## Proofs

Every theorem holds for every value of the constants that meets the `ASSUME`s of its module: limits and
bounds are natural numbers (positive where the code divides work by them), requests and workloads are
finitely many, there is at least one profile and each names models of the catalog, `None` is no profile,
models the router knows have names and labels are of own models, the recorder keeps at least one day.
What a theorem needs beyond that stands in its statement and below.

| module | theorem, property | further assumptions |
|---|---|---|
| `AdmissionProofs` | type correctness, `SlotAccounting`, `OneProfileAtATime`, `SlotCoversBackend`, `NoLostWakeup`, `QueueEntries`, `StrictFIFO`, `DrainBeforeSwitch` | none |
| | `PromotionIsTheLoop`: `PromoteIsTheLoop` | none |
| | `AdmissionIsAGroupLock`: `ImplementsGroupLock` | none |
| `OrchestratorProofs` | type correctness, `SwapsExclude`, `DispatchableIsUp`, `NoReload` | none: every catalog, every combination of faults |
| | `StateFileFollows`: `PersistedIsActive` | the state file can be written |
| | `RestartsResume`: `ResumesClaimed` | no `kill`, no `launch`; one model per profile, which no other has |
| | `OnlyTheActiveProfileRuns`: `NoForeignServe` | no `kill`, no `launch`; one model per profile |
| | `SwapsClaimAlone`: `ClaimsAlone` | the same |
| `GatewayProofs` | `WaitsForOwnSwap`, `NoRedundantSwap`, `InferenceUndisturbed` | none |
| `WorkloadsProofs` | type correctness, `PausedKeepsWeights` | none: both backends and strategies, every fault |
| | `NothingElseComputes`: `OthersAreDown` | Docker; no `api`, no `overlap`; no `exit` where teardown pauses |
| | `MemoryIsNeverOvercommitted`: `MemoryHolds` | the same; teardown stops; each profile fits by itself |
| `RequestPathProofs` | `NoReplay`, `NobodyForgotten`, `CacheIsLRU` | none |
| | `RequestsGoWhereTheyBelong`: `RoutesRight` | none: every catalogue, every text |
| `NodeProofs` | `HeatAnswered`, `RaisesWithCare` | caps are set and temperatures told |
| | `WindowExact` | none |
| | `RecorderIsAlwaysRight`: `RecorderIsRight` | none |
| `ForensicsProofs` | `PostMortemIsRight`: the same of `Forensics` by itself | nothing torn, no pid reused; none for `ClosedIsNoDeath` |

The assumptions are not for convenience: each one excludes a counterexample that a configuration keeps
(`leftover_rank` for `launch`, `MCAdoption` for `kill`, `MCCrashLoop` for `exit`, `MCAdminOverlap`,
`MCLostCap`, `MCBlindRecovery`, `MCTornLine`, `MCPidReuse`), or is a fact of the catalog in
`gateway/config.py` (one model per profile).

**Admission.**  The inductive invariant adds to the properties what each place in the code implies
(`Phases`: which requests have a future, which own a lease) and that work closes its exchange before it
ends.  Its parts are predicates of explicit values, because `_promote` runs on values that are no state
of the program: the counter already lowered, the entry already removed.  One lemma says what a promotion
does to a well-formed queue, and each action that ends in `_promote` uses it.

For the refinement a step is mapped to the steps of `GroupLock` it performs: joining, leaving, or a
promotion of several requests at once, which the abstract lock allows in one step.  What has to be shown
is about order: the abstract lock knows only who came before whom among those whose future is pending
(`Bef`), so entries that were cancelled and are still in `_waiting` count for nothing.  Popping a prefix
(`PromoteKeepsOrder`) and removing an entry (`RemoveEntryKeepsOrder`) keep that order and pass nobody
over, which makes every action that ends in `_promote` a step of the lock (`PromotePasses`).

**Orchestrator.**  `DispatchableIsUp` needs an idea: a failed swap leaves the old profile active, so what
protects the handler are the container states.  The invariant says that outside the wait no stopped model
of the active profile is in a READY container (`Honest`), that the model being started is marked and the
target's stopped models are still to be started (`Begun`), hence that in the wait none of the target's
models is stopped (`Awaited`), which is what the claim needs, on answers and on timeout alike.

`NoForeignServe` has an invariant of its own on top of that (`ServeInv`).  Containers say nothing, since
all models share one; what counts is which models have processes.  At most one has (`Alone`).  Up to a
swap's first launch that is the active profile's (`ServeClaimed`), which covers a swap that fails its
check; inside the swap it is one still to be stopped or the target's (`ServeSwap`); at startup a model seen
healthy is the one that runs, and what is not adopted is in the part of the catalog still to be cleaned
up (`ServeBoot`).  The same invariant is the other side of the `leftover_rank` finding: where stop and
start commands arrive, a swap that claims its profile leaves nothing of another running
(`SwapsClaimAlone`).  That a model serves only with all its ranks (`Complete`) links a probe to processes.

What a restart resumes follows from it (`RestartsResume`).  A model seen healthy is the only one that runs,
so if another profile than the one in the state file can be adopted, that one's model does not serve.  What
remains is that nothing changes the file or its reading on the way (`Resumed`, `Restoring`): until a
profile is active again the swap under way is the one startup began, to the profile that was read.

**Gateway.**  The swaps inside and behind the lock are a line.  `Before` orders it, and each action is
shown to leave the line alone, to add a call at its end or to remove the first (`Same`, `Joins`,
`Leaves`).  From there on hardly a proof looks at the queue: the tracked task is the last of the swap
tasks in the line (`TrackedInv`); no two of them in a row have one target (`NoTwice`); who waits waits for
its own swap, and every swap of a request behind that one goes to the same profile (`RequestInv`); a model
that runs is the active one or the one being waited for, and a swap that is no recovery goes to another
profile than the active one (`ProcInv`).

**Workloads.**  `_teardown_current` looks only at what is READY or STARTING on record.  So the invariant
is that whatever runs or will be restarted is on that record (`Marked`), that until it is visited a
foreign workload is in the walk (`Reached`), and that what the administrator stopped stays down until it
is recorded (`Pending`).
Where teardown stops, nothing is paused, so everything loaded belongs to one profile.  That a part of a
profile needs no more memory than the whole (`MemoryOfPart`) rests on what the recursive sum over a set
is: there is a function that sums every part (`SumsExist`), and the order of choosing does not matter
(`MemoryWithout`), both by induction on the number of members (`ByMembers`).

**Request path.**  A stream that is about to post has given nothing, and one that reads has given chunks
of its own attempt, so a retry cannot repeat any (`ExchangeOK`).  The buffer's drain keeps what has not
expired, in order (`Without`, by the rank of what is kept): no entry is lost or doubled because ranks are
a bijection.  The cache is always the end of the history of distinct uses (`LRUInv`).

**Node.**  The governor's step, the cap the GPU has and the count of hot polls move together
(`Governed`).  For the power window the invariant follows the lock and what each side has read under it
(`PowerInv`).

**Loops.**  The library's induction theorems take an operator, which the provers cannot instantiate, so
`Induction` states induction for a set: one that has 0 and with each number below n the next has all up to
n.  A loop is a recursive function, and `Iterates` gives the function there is to choose.  On this rest
the sum of memory above and three loops.  `_promote`: what its loop has popped, granted and counted after
j entries is what `PromoteStops` says of a prefix, so where the loop ends is the only place it can stop.
Routing: after each name and each profile, the best match is the first of the longest related names so
far, or an exact one.  The last is the post-mortem.

**Flight recorder.**  The files are right for their reader if the lines are in order: sessions follow one
another (`InOrder`), a file begins with a session's first line (`Opened`), and after a session that closed
nothing is read before another starts (`Reopened`).  This holds whatever is torn; for whole lines there is
more: a file opens with the session that goes on in it, and a continuation comes after the session's own
start (`FilesOwn`).  What the sampler is about to write (`TodoOK`: a session's first line, a header, a
roll-over, in their order) keeps this up through deaths between any two lines, and pruning may not tear a
session from its start in a way the reader sees.  The reader's invariant is about the set of lines read
so far (`Tells`, `TellsAll`): the sessions collected follow one another, each has a first line, each that was
started is there, and one is marked clean if, and where lines are whole only if, its last line was read.
Each kind of line keeps this, hence each file, hence all of them.

Only model-checked: liveness, which this prover does not reach (`NoStarvation`, `SlotReturned`,
`CallsReturn`, `ComesUp`, `WaitersAnswered`, `DeadIsNoticed`, `EverySwapEnds`, `NodeRecovers`), and the
configurations below the runs.  Every invariant, action property and refinement of a passing run is proved.

## Not modelled

- the `ray_vllm` engine (`orchestrator.py:1084-1191`): no model of the catalog uses it;
- the orderly shutdown, which closes sessions and leaves models alone;
- the texts of configuration, schemas, identity and access log; the harmony stub: data definitions
  and formatting without a state of their own;
- what the sensors of the recorder read, and the layout of its report;
- the NVML calls of the VRAM monitor, of which `Workloads` uses the outcome; the calls of the Docker
  and Kubernetes clients beyond their effect on a workload;
- inference servers, images, recipes and deployment files: outside the program, or declarative.

Not proved though within reach: for the type invariants of the modules that a run only instantiates,
theorems of their own.
