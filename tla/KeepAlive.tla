----------------------------- MODULE KeepAlive -----------------------------
(***************************************************************************)
(* The script that keeps the two-node cluster alive                        *)
(* (ray-cluster/ensure_vllm_cluster.sh), run by a timer and by hand, beside *)
(* containers that die, a worker that cannot be reached and a gateway that *)
(* swaps models inside the same containers.                                *)
(*                                                                         *)
(* Of a swap only what the script can meet is here: the outgoing serve is  *)
(* stopped, the containers are checked, the incoming serve is started, the *)
(* profile is claimed.  Faults says what may happen:                       *)
(*   "die"   a container dies (docker run --rm: it is gone)                *)
(*   "blip"  ssh to the worker fails for a while                           *)
(*   "docker" the docker of a node does not answer for a while: what asks it *)
(*            is told nothing, what it is told to do is not done            *)
(*   "deaf"  the gateway does not answer                                   *)
(***************************************************************************)
EXTENDS Integers

CONSTANTS
    Scripts,       \* the instances of the script that may run at a time
    Models,        \* what the recipes and the profiles of the gateway serve
    Default,       \* RECIPE
    Swaps,         \* the gateway may swap
    MaxDeaths,
    Faults

KeepAliveAssumption ==
    Default \in Models /\ Swaps \in BOOLEAN /\ MaxDeaths \in Nat

Nodes == {"head", "worker"}

VARIABLES
    up,        \* nodes whose container runs
    serves,    \* the models whose serve runs on each node
    reach,     \* the worker can be reached
    answers,   \* nodes whose docker answers
    pc,        \* where each script is
    worker,    \* what worker_state told it
    recipe,    \* RECIPE of each script
    active,    \* the gateway's active profile
    swap,      \* where its swap is
    target,
    deaths

vars == <<up, serves, reach, answers, pc, worker, recipe, active, swap, target, deaths>>
gateway == <<active, swap, target>>
machines == <<reach, answers>>

Init ==
    /\ up = Nodes
    /\ serves = [n \in Nodes |-> {Default}]
    /\ reach = TRUE
    /\ answers = Nodes
    /\ pc = [s \in Scripts |-> "exit"]
    /\ worker = [s \in Scripts |-> "running"]
    /\ recipe = [s \in Scripts |-> Default]
    /\ active = Default
    /\ swap = "idle" /\ target = Default
    /\ deaths = 0

Complete == up = Nodes

\* What a docker command reaches: the worker's through ssh.
Reachable == {n \in answers : n = "head" \/ reach}

GoTo(s, l) == pc' = [pc EXCEPT ![s] = l]

-----------------------------------------------------------------------------
(* The script *)

\* worker_state: `docker inspect ... || true`, so that a docker that does not
\* answer has no container.
WorkerState ==
    CASE ~reach -> "unreachable"
      [] reach /\ "worker" \in up \cap answers -> "running"
      [] OTHER -> "missing"

\* head_running: here too no answer is a container that does not run.
HeadRunning == "head" \in up \cap answers

Run(s) ==
    /\ pc[s] = "exit"
    /\ worker' = [worker EXCEPT ![s] = WorkerState]
    /\ recipe' = [recipe EXCEPT ![s] = Default]
    /\ GoTo(s, IF WorkerState = "unreachable" THEN "exit" ELSE "check")
    /\ UNCHANGED <<up, serves, machines, deaths, gateway>>

\* head_running && worker = running: nothing to do.
Check(s) ==
    /\ pc[s] = "check"
    /\ GoTo(s, IF HeadRunning /\ worker[s] = "running" THEN "exit" ELSE "stopHead")
    /\ UNCHANGED <<up, serves, machines, worker, recipe, deaths, gateway>>

\* A container ends, and with it its serves.
Ends(n) ==
    /\ up' = up \ {n}
    /\ serves' = [serves EXCEPT ![n] = {}]

\* Deviation: only what is missing is launched.
StopsNothing(n) == UNCHANGED <<up, serves>>

\* docker stop ... || true
DockerStop(n) == IF n \in Reachable THEN Ends(n) ELSE UNCHANGED <<up, serves>>

StopHead(s) ==
    /\ pc[s] = "stopHead"
    /\ DockerStop("head")
    /\ GoTo(s, "stopWorker")
    /\ UNCHANGED <<machines, worker, recipe, deaths, gateway>>

StopWorker(s) ==
    /\ pc[s] = "stopWorker"
    /\ DockerStop("worker")
    /\ GoTo(s, "resolve")
    /\ UNCHANGED <<machines, worker, recipe, deaths, gateway>>

\* resolve_active_recipe, with the profile the gateway has active.
Resolve(s) ==
    /\ pc[s] = "resolve"
    /\ \/ recipe' = [recipe EXCEPT ![s] = active]
       \/ "deaf" \in Faults /\ UNCHANGED recipe
    /\ GoTo(s, "launch")
    /\ UNCHANGED <<up, serves, machines, worker, deaths, gateway>>

\* The serve of the recipe is started in every container that can be reached.
Launches(s) ==
    serves' = [n \in Nodes |-> IF n \in up' \cap Reachable THEN serves[n] \cup {recipe[s]}
                               ELSE serves[n]]

\* run-recipe.sh: if it finds some container running none is created, else one on
\* each node it reaches; of a node that it does not reach it may or may not know
\* what runs.  The script then looks at the result for a minute and ends.
Launch(s) ==
    /\ pc[s] = "launch"
    /\ \E found \in {up, up \cap Reachable} :
          up' = IF found # {} THEN up ELSE up \cup Reachable
    /\ Launches(s)
    /\ GoTo(s, "exit")
    /\ UNCHANGED <<machines, worker, recipe, deaths, gateway>>

-----------------------------------------------------------------------------
(* The gateway and the machines *)

\* switch_profile: the outgoing serve is stopped.
SwapStops(m) ==
    /\ Swaps /\ swap = "idle" /\ m # active
    /\ serves' = [n \in Nodes |-> IF n \in Reachable THEN serves[n] \ {active} ELSE serves[n]]
    /\ target' = m /\ swap' = "verify"
    /\ UNCHANGED <<up, machines, pc, worker, recipe, active, deaths>>

\* _verify_spark_cluster_ready, without which the swap fails.
SwapVerifies ==
    /\ swap = "verify"
    /\ swap' = IF Complete /\ Reachable = Nodes THEN "start" ELSE "idle"
    /\ UNCHANGED <<up, serves, machines, pc, worker, recipe, active, target, deaths>>

\* _start_spark_serve, worker first: only a failure there is noticed.
SwapStarts ==
    /\ swap = "start"
    /\ IF "worker" \in up \cap Reachable
         THEN /\ serves' = [n \in Nodes |-> IF n \in up \cap Reachable
                                          THEN serves[n] \cup {target} ELSE serves[n]]
              /\ swap' = "wait"
         ELSE UNCHANGED serves /\ swap' = "idle"
    /\ UNCHANGED <<up, machines, pc, worker, recipe, active, target, deaths>>

\* The claim, by health check or by timeout.
SwapClaims ==
    /\ swap = "wait"
    /\ active' = target /\ swap' = "idle"
    /\ UNCHANGED <<up, serves, machines, pc, worker, recipe, target, deaths>>

ContainerDies(n) ==
    /\ "die" \in Faults /\ deaths < MaxDeaths
    /\ n \in up
    /\ Ends(n)
    /\ deaths' = deaths + 1
    /\ UNCHANGED <<machines, pc, worker, recipe, gateway>>

Blip ==
    /\ "blip" \in Faults
    /\ reach' = ~reach
    /\ UNCHANGED <<up, serves, answers, pc, worker, recipe, deaths, gateway>>

\* The docker of a node hangs, or is well again.
Hangs(n) ==
    /\ "docker" \in Faults
    /\ answers' = IF n \in answers THEN answers \ {n} ELSE answers \cup {n}
    /\ UNCHANGED <<up, serves, reach, pc, worker, recipe, deaths, gateway>>

Script(s) == Run(s) \/ Check(s) \/ StopHead(s) \/ StopWorker(s) \/ Resolve(s) \/ Launch(s)

Next ==
    \/ \E s \in Scripts : Script(s)
    \/ \E m \in Models : SwapStops(m)
    \/ SwapVerifies \/ SwapStarts \/ SwapClaims
    \/ \E n \in Nodes : ContainerDies(n) \/ Hangs(n)
    \/ Blip

Spec == Init /\ [][Next]_vars

\* The timer runs the script again and again, and its commands end.
FairSpec == Spec /\ \A s \in Scripts : WF_vars(Script(s))

-----------------------------------------------------------------------------
(* Properties *)

TypeOK ==
    /\ up \subseteq Nodes
    /\ serves \in [Nodes -> SUBSET Models]
    /\ \A n \in Nodes \ up : serves[n] = {}
    /\ reach \in BOOLEAN /\ answers \subseteq Nodes
    /\ pc \in [Scripts -> {"exit", "check", "stopHead", "stopWorker", "resolve", "launch"}]
    /\ worker \in [Scripts -> {"running", "missing", "unreachable"}]
    /\ recipe \in [Scripts -> Models]
    /\ {active, target} \subseteq Models
    /\ swap \in {"idle", "verify", "start", "wait"}
    /\ deaths \in 0..MaxDeaths

\* "A complete cluster is left strictly alone": the containers that
\* ensure_vllm_cluster.sh stops are not those of a complete cluster, whatever
\* died, came back or did not answer since it looked.  They are, where docker
\* inspect fails for a moment, and where two instances run.
AloneStep ==
    \A s \in Scripts :
        pc[s] \in {"stopHead", "stopWorker"} /\ pc'[s] # pc[s] /\ up' # up => ~Complete
CompleteLeftAlone == [][AloneStep]_vars

\* "A container that dies is removed and never comes back" by itself; with the
\* script running from its timer the cluster is complete again, once the worker
\* can be reached and the docker of both nodes answers for good.
ComesBack == <>[](reach /\ answers = Nodes) => []<>Complete

\* "Relaunching always used to bring back DeepSeek, whatever was actually loaded.
\* [...] Ask the Gateway what it has active instead": a cluster that breaks while
\* a model is being loaded is relaunched with that model.
LoadedStep ==
    \A s \in Scripts : pc[s] = "launch" /\ pc'[s] = "exit" /\ swap = "wait" => recipe[s] = target
RelaunchesLoaded == [][LoadedStep]_vars
=============================================================================
