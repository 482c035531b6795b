-------------------------- MODULE OrchestratorProofs --------------------------
(***************************************************************************)
(* Theorems about Orchestrator for every catalog, every set of callers and *)
(* every choice of faults.                                                 *)
(***************************************************************************)
EXTENDS Orchestrator, TLAPS

SetOf(s) == {s[i] : i \in 1..Len(s)}

\* Before the app serves requests, nobody is inside switch_profile and a
\* profile is active only once it has been adopted.
Startup ==
    /\ boot \in {"probe", "orphans", "cleanup"} => \A t \in Tasks : pc[t] = "idle"
    /\ boot \in {"probe", "cleanup"} => active_profile = NoProfile /\ probes # <<>>
    /\ boot = "probe" => healthy \cap stopped = {}
    /\ boot = "orphans" => /\ active_profile \in Profiles
                           /\ rest[Lifespan] \cap ContainersOf(active_profile) = {}

\* Whoever is past the re-check has a reason to be there.
Purpose ==
    \A t \in Tasks : pc[t] \in Body => force[t] \/ target[t] # active_profile

\* There is a model at hand wherever one is started or waited for, and a rank
\* of it wherever one is launched.
Work ==
    \A t \in Tasks :
        /\ pc[t] \in {"verify", "stop_own", "launch", "wait"} => todo[t] # <<>>
        /\ pc[t] = "launch" => rank[t] \in Ranks(Head(todo[t]))

\* The model being started is marked, and those of the target that are down are
\* still to be started.
Begun ==
    \A t \in Tasks : pc[t] \in {"verify", "stop_own", "launch"} =>
        /\ container_states[ContainerOf[Head(todo[t])]] = "starting"
        /\ ModelSet(target[t]) \cap stopped \subseteq SetOf(todo[t])

\* While waiting, every model of the target has been started.
Awaited ==
    \A t \in Tasks : pc[t] = "wait" => ModelSet(target[t]) \cap stopped = {}

\* Outside the wait, a stopped model of the active profile is never in a READY
\* container.
Honest ==
    active_profile # NoProfile /\ (\A t \in Tasks : pc[t] # "wait") =>
        \A m \in ModelSet(active_profile) :
            m \in stopped => container_states[ContainerOf[m]] # "ready"

\* The inductive invariant.
IInv ==
    /\ TypeOK
    /\ SwapsExclude
    /\ Startup
    /\ Purpose
    /\ Work
    /\ Begun
    /\ Awaited
    /\ Honest
    /\ serving \cap stopped = {}

-----------------------------------------------------------------------------
(* Facts about the catalog and about sequences *)

\* What the assumptions on the catalog say of its parts (PROFILES, ALL_MODELS).
LEMMA Catalog ==
    /\ \A p \in Profiles : /\ ModelsOf[p] \in Seq(Models) /\ ModelsOf[p] # <<>>
                            /\ ModelSet(p) \subseteq Models
                            /\ ContainersOf(p) \subseteq Containers
                            /\ SetOf(ModelsOf[p]) = ModelSet(p)
    /\ \A m \in Models : ContainerOf[m] \in Containers /\ Nodes[m] \in Nat \ {0}
    /\ AllModels \in Seq(Models) /\ AllModels # <<>>
    /\ Default \in Profiles /\ NoProfile \notin Profiles
    /\ Lifespan \in Tasks
<1>1. \A p \in Profiles : ModelsOf[p] \in Seq(Models) /\ ModelsOf[p] # <<>>
  BY CatalogAssumption
<1>2. \A m \in Models : ContainerOf[m] \in Containers /\ Nodes[m] \in Nat \ {0}
  BY CatalogAssumption
<1>3. ASSUME NEW p \in Profiles
      PROVE  /\ ModelSet(p) \subseteq Models
             /\ ContainersOf(p) \subseteq Containers
             /\ SetOf(ModelsOf[p]) = ModelSet(p)
  <2>1. \A i \in 1..Len(ModelsOf[p]) : ModelsOf[p][i] \in Models
    BY <1>1
  <2>2. ModelSet(p) \subseteq Models
    BY <2>1 DEF ModelSet
  <2>3. ContainersOf(p) \subseteq Containers
    BY <2>2, <1>2 DEF ContainersOf
  <2>. QED BY <2>2, <2>3 DEF ModelSet, SetOf
<1>. QED BY <1>1, <1>2, <1>3, CatalogAssumption, ProfilesAssumption DEF Tasks

\* Taking the head off a sequence.
LEMMA HeadAndTail ==
    ASSUME NEW S, NEW s \in Seq(S), s # <<>>
    PROVE  /\ Head(s) \in S
           /\ Tail(s) \in Seq(S)
           /\ SetOf(s) = {Head(s)} \cup SetOf(Tail(s))
           /\ Len(s) \in Nat \ {0}
           /\ Len(s) # 1 => Tail(s) # <<>>
           /\ Len(s) = 1 => SetOf(s) = {Head(s)}
<1>1. Len(s) \in Nat \ {0} /\ Head(s) \in S /\ Tail(s) \in Seq(S) /\ Head(s) = s[1]
  OBVIOUS
<1>2. Len(Tail(s)) = Len(s) - 1 /\ \A i \in 1..Len(Tail(s)) : Tail(s)[i] = s[i + 1]
  OBVIOUS
<1>3. ASSUME NEW x \in SetOf(s) PROVE x = Head(s) \/ x \in SetOf(Tail(s))
  <2>1. PICK i \in 1..Len(s) : x = s[i]
    BY DEF SetOf
  <2>2. CASE i = 1
    BY <2>1, <2>2, <1>1
  <2>3. CASE i # 1
    <3>1. i - 1 \in 1..Len(Tail(s)) /\ Tail(s)[i - 1] = s[i]
      BY <2>3, <1>1, <1>2
    <3>. QED BY <3>1, <2>1 DEF SetOf
  <2>. QED BY <2>2, <2>3
<1>4. ASSUME NEW x \in SetOf(Tail(s)) PROVE x \in SetOf(s)
  <2>1. PICK i \in 1..Len(Tail(s)) : x = Tail(s)[i]
    BY DEF SetOf
  <2>2. i + 1 \in 1..Len(s) /\ x = s[i + 1]
    BY <2>1, <1>1, <1>2
  <2>. QED BY <2>2 DEF SetOf
<1>5. Head(s) \in SetOf(s)
  BY <1>1 DEF SetOf
<1>6. SetOf(s) = {Head(s)} \cup SetOf(Tail(s))
  BY <1>3, <1>4, <1>5
<1>7. Len(s) = 1 => SetOf(Tail(s)) = {}
  BY <1>1, <1>2 DEF SetOf
<1>. QED BY <1>1, <1>2, <1>6, <1>7

-----------------------------------------------------------------------------
(* What stopping a model does *)

\* _stop_spark_serve(m) touches nothing but m and never leaves a stopped model
\* serving.
LEMMA StopServeFacts ==
    ASSUME TypeOK, serving \cap stopped = {}, NEW m \in Models, StopServe(m)
    PROVE  /\ procs' \in SUBSET Processes
           /\ serving' \in SUBSET Models
           /\ stopped' \in SUBSET Models
           /\ stopped' \subseteq stopped \cup {m}
           /\ serving' \cap stopped' = {}
BY DEF StopServe, TypeOK

-----------------------------------------------------------------------------
(* The steps of switch_profile *)

\* A step of one task that moves it to phase x keeps the mutual exclusion.
LEMMA PhaseChange ==
    ASSUME TypeOK, SwapsExclude, NEW t \in Tasks, NEW x,
           pc' = [pc EXCEPT ![t] = x],
           pc[t] \in Body \/ LockFree \/ x \notin Body,
           swap_in_progress' = IF x \in Body THEN TRUE ELSE
                               IF pc[t] \in Body THEN FALSE ELSE swap_in_progress
    PROVE  SwapsExclude'
<1>1. pc \in [Tasks -> {"idle", "queued"} \cup Body] /\ swap_in_progress \in BOOLEAN
  BY DEF TypeOK
<1>2. pc'[t] = x /\ \A u \in Tasks : u # t => pc'[u] = pc[u]
  BY <1>1
<1>3. x \in Body => \A u \in Tasks : u # t => pc[u] \notin Body
  BY <1>1 DEF SwapsExclude, LockFree
<1>4. \A u, v \in Tasks : pc'[u] \in Body /\ pc'[v] \in Body => u = v
  BY <1>2, <1>3 DEF SwapsExclude
<1>5. swap_in_progress' <=> \E u \in Tasks : pc'[u] \in Body
  <2>1. CASE x \in Body
    BY <2>1, <1>2
  <2>2. CASE x \notin Body /\ pc[t] \in Body
    BY <2>2, <1>2 DEF SwapsExclude
  <2>3. CASE x \notin Body /\ pc[t] \notin Body
    BY <2>3, <1>2 DEF SwapsExclude
  <2>. QED BY <2>1, <2>2, <2>3
<1>. QED BY <1>4, <1>5 DEF SwapsExclude

\* A task that is inside or enters is the only one.
LEMMA Sole ==
    ASSUME SwapsExclude, NEW t \in Tasks, pc[t] \in Body \/ LockFree
    PROVE  \A u \in Tasks : u # t => pc[u] \notin Body
BY DEF SwapsExclude, LockFree

\* BeginModel, from states cs of the containers that are not READY where the
\* active profile has a stopped model, establishes what holds while a model is
\* being started.
LEMMA BeginModelKeeps ==
    ASSUME IInv, NEW t \in Tasks, pc[t] \in Body \/ (pc[t] = "queued" /\ LockFree),
           NEW models \in Seq(Models), models # <<>>,
           NEW cs \in [Containers -> States],
           BeginModel(t, models, cs),
           swap_in_progress' = TRUE,
           UNCHANGED <<active_profile, target, force, startup>>,
           force[t] \/ target[t] # active_profile,
           rest' \in [Tasks -> SUBSET Containers],
           ModelSet(target[t]) \cap stopped' \subseteq SetOf(models),
           active_profile # NoProfile =>
               \A m \in ModelSet(active_profile) :
                   m \in stopped' => cs[ContainerOf[m]] # "ready"
    PROVE  /\ todo' \in [Tasks -> Seq(Models)]
           /\ pc' \in [Tasks -> {"idle", "queued"} \cup Body]
           /\ container_states' \in [Containers -> States]
           /\ SwapsExclude' /\ Startup' /\ Purpose' /\ Work' /\ Begun' /\ Awaited' /\ Honest'
<1>. DEFINE c0 == ContainerOf[Head(models)]
<1>1. Head(models) \in Models /\ c0 \in Containers
  BY HeadAndTail, Catalog
<1>2. /\ pc' = [pc EXCEPT ![t] = "verify"]
      /\ todo' = [todo EXCEPT ![t] = models]
      /\ container_states' = [cs EXCEPT ![c0] = "starting"]
  BY DEF BeginModel
<1>3. /\ pc \in [Tasks -> {"idle", "queued"} \cup Body]
      /\ todo \in [Tasks -> Seq(Models)]
      /\ active_profile \in Profiles \cup {NoProfile}
  BY DEF IInv, TypeOK
<1>4. pc'[t] = "verify" /\ \A u \in Tasks : u # t => pc'[u] = pc[u] /\ pc[u] \notin Body
  BY <1>2, <1>3, Sole DEF IInv
<1>5. todo'[t] = models
  BY <1>2, <1>3
<1>6. /\ todo' \in [Tasks -> Seq(Models)]
      /\ pc' \in [Tasks -> {"idle", "queued"} \cup Body]
      /\ container_states' \in [Containers -> States]
  BY <1>1, <1>2, <1>3 DEF Body, States
<1>7. SwapsExclude'
  BY <1>2, PhaseChange DEF IInv, Body
<1>8. Startup'
  <2>1. boot \notin {"probe", "orphans", "cleanup"}
    BY DEF IInv, Startup, Body
  <2>. QED BY <2>1 DEF Startup, startup
<1>9. Purpose'
  BY <1>4 DEF Purpose
<1>10. Work'
  BY <1>4, <1>5 DEF Work, Body
<1>11. Begun'
  <2>1. container_states'[ContainerOf[Head(todo'[t])]] = "starting"
    BY <1>1, <1>2, <1>5
  <2>. QED BY <2>1, <1>4, <1>5 DEF Begun, Body, ModelSet
<1>12. Awaited'
  BY <1>4 DEF Awaited, Body
<1>13. Honest'
  <2>1. \A c \in Containers : container_states'[c] = "ready" => cs[c] = "ready"
    BY <1>1, <1>2
  <2>2. active_profile # NoProfile => \A m \in ModelSet(active_profile) : ContainerOf[m] \in Containers
    BY <1>3, Catalog
  <2>. QED BY <2>1, <2>2 DEF Honest, ModelSet
<1>. QED BY <1>6, <1>7, <1>8, <1>9, <1>10, <1>11, <1>12, <1>13

\* The same for BeginRest, which may have containers to stop first.
LEMMA BeginRestKeeps ==
    ASSUME IInv, NEW t \in Tasks, pc[t] \in Body \/ (pc[t] = "queued" /\ LockFree),
           NEW cs \in [Containers -> States],
           BeginRest(t, cs),
           swap_in_progress' = TRUE,
           UNCHANGED <<active_profile, target, force, startup>>,
           force[t] \/ target[t] # active_profile,
           stopped' \subseteq Models,
           active_profile # NoProfile =>
               \A m \in ModelSet(active_profile) :
                   m \in stopped' => cs[ContainerOf[m]] # "ready"
    PROVE  /\ todo' \in [Tasks -> Seq(Models)]
           /\ pc' \in [Tasks -> {"idle", "queued"} \cup Body]
           /\ rest' \in [Tasks -> SUBSET Containers]
           /\ container_states' \in [Containers -> States]
           /\ SwapsExclude' /\ Startup' /\ Purpose' /\ Work' /\ Begun' /\ Awaited' /\ Honest'
<1>. DEFINE left == {c \in Containers \ ContainersOf(target[t]) : cs[c] \in {"ready", "starting"}}
<1>1. /\ pc \in [Tasks -> {"idle", "queued"} \cup Body]
      /\ todo \in [Tasks -> Seq(Models)]
      /\ rest \in [Tasks -> SUBSET Containers]
      /\ target \in [Tasks -> Profiles]
      /\ active_profile \in Profiles \cup {NoProfile}
  BY DEF IInv, TypeOK
<1>2. rest' = [rest EXCEPT ![t] = left] /\ rest' \in [Tasks -> SUBSET Containers]
  BY <1>1 DEF BeginRest
<1>3. CASE left = {}
  <2>1. BeginModel(t, ModelsOf[target[t]], cs)
    BY <1>3 DEF BeginRest
  <2>2. /\ ModelsOf[target[t]] \in Seq(Models) /\ ModelsOf[target[t]] # <<>>
        /\ ModelSet(target[t]) \cap stopped' \subseteq SetOf(ModelsOf[target[t]])
    BY <1>1, Catalog
  <2>. QED BY ONLY <2>1, <2>2, <1>2, BeginModelKeeps, IInv, t \in Tasks,
             pc[t] \in Body \/ (pc[t] = "queued" /\ LockFree), cs \in [Containers -> States],
             swap_in_progress' = TRUE, UNCHANGED <<active_profile, target, force, startup>>,
             force[t] \/ target[t] # active_profile,
             active_profile # NoProfile =>
               \A m \in ModelSet(active_profile) :
                   m \in stopped' => cs[ContainerOf[m]] # "ready"
<1>4. CASE left # {}
  <2>1. /\ pc' = [pc EXCEPT ![t] = "stop_rest"]
        /\ container_states' = cs
        /\ todo' = todo
    BY <1>4 DEF BeginRest
  <2>2. pc'[t] = "stop_rest" /\ \A u \in Tasks : u # t => pc'[u] = pc[u] /\ pc[u] \notin Body
    BY <2>1, <1>1, Sole DEF IInv
  <2>3. SwapsExclude'
    BY <2>1, PhaseChange DEF IInv, Body
  <2>4. Startup'
    <3>1. boot \notin {"probe", "orphans", "cleanup"}
      BY DEF IInv, Startup, Body
    <3>. QED BY <3>1 DEF Startup, startup
  <2>5. Purpose'
    BY <2>2 DEF Purpose
  <2>6. Work' /\ Begun' /\ Awaited'
    BY <2>2 DEF Work, Begun, Awaited, Body
  <2>7. Honest'
    BY <2>1 DEF Honest, ModelSet
  <2>. QED BY <1>1, <1>2, <2>1, <2>3, <2>4, <2>5, <2>6, <2>7 DEF Body
<1>. QED BY <1>3, <1>4

\* A task gets the lock.
LEMMA EnterKeeps ==
    ASSUME IInv, NEW t \in Tasks, Enter(t)
    PROVE  IInv'
<1>. USE DEF IInv
<1>1. /\ pc[t] = "queued" /\ LockFree
      /\ lock_queue \in Seq(Tasks) /\ lock_queue # <<>> /\ lock_queue' = Tail(lock_queue)
      /\ UNCHANGED <<active_profile, startup, world, persisted, crashes>>
  BY DEF Enter, TypeOK
<1>2. lock_queue' \in Seq(Tasks)
  BY <1>1, HeadAndTail
<1>3. CASE AlreadyActive(t)
  <2>1. Return(t, "ok") /\ UNCHANGED <<swap_in_progress, container_states, outgoing, rest>>
    BY <1>3 DEF Enter
  <2>2. TypeOK'
    BY <1>1, <1>2, <2>1, Catalog DEF TypeOK, Return, startup, world
  <2>3. pc'[t] = "idle" /\ pc' = [pc EXCEPT ![t] = "idle"] /\
        \A u \in Tasks : u # t => /\ pc'[u] = pc[u] /\ target'[u] = target[u]
                                  /\ force'[u] = force[u] /\ todo'[u] = todo[u]
                                  /\ rank'[u] = rank[u]
    BY <2>1 DEF Return, TypeOK
  <2>4. SwapsExclude'
    BY <1>1, <2>1, <2>3, PhaseChange DEF Body
  <2>5. Startup'
    BY <1>1, <2>1, <2>3 DEF Startup, startup, world
  <2>6. Purpose' /\ Work' /\ Begun' /\ Awaited'
    BY <1>1, <2>1, <2>3 DEF Purpose, Work, Begun, Awaited, Body, world
  <2>7. Honest'
    BY <1>1, <2>1, <2>3 DEF Honest, world, ModelSet
  <2>. QED BY <1>1, <2>2, <2>4, <2>5, <2>6, <2>7 DEF world
<1>4. CASE ~AlreadyActive(t)
  <2>1. /\ swap_in_progress' = TRUE
        /\ outgoing' = [outgoing EXCEPT ![t] = Outgoing(target[t])]
        /\ UNCHANGED <<target, force, rank, result>>
    BY <1>4 DEF Enter
  <2>2. force[t] \/ target[t] # active_profile
    BY <1>4 DEF AlreadyActive, TypeOK
  <2>3. Outgoing(target[t]) \in SUBSET Models
    BY Catalog DEF Outgoing, TypeOK
  <2>4. outgoing' \in [Tasks -> SUBSET Models]
    BY <2>1, <2>3 DEF TypeOK
  <2>5. active_profile # NoProfile => \A m \in ModelSet(active_profile) :
                     m \in stopped' => container_states[ContainerOf[m]] # "ready"
    BY <1>1 DEF Honest, LockFree, Body, world
  <2>6. CASE Outgoing(target[t]) = {}
    <3>1. BeginRest(t, container_states)
      BY <1>4, <2>6 DEF Enter
    <3>2. container_states \in [Containers -> States] /\ stopped' \subseteq Models
      BY <1>1 DEF TypeOK, world
    <3>3. /\ todo' \in [Tasks -> Seq(Models)]
          /\ pc' \in [Tasks -> {"idle", "queued"} \cup Body]
          /\ rest' \in [Tasks -> SUBSET Containers]
          /\ container_states' \in [Containers -> States]
          /\ SwapsExclude' /\ Startup' /\ Purpose' /\ Work' /\ Begun' /\ Awaited' /\ Honest'
      BY <1>1, <2>1, <2>2, <2>5, <3>1, <3>2, BeginRestKeeps
    <3>4. TypeOK'
      BY <1>1, <1>2, <2>1, <2>4, <3>3 DEF TypeOK, startup, world
    <3>. QED BY <1>1, <3>3, <3>4 DEF world
  <2>7. CASE Outgoing(target[t]) # {}
    <3>1. pc' = [pc EXCEPT ![t] = "stop_current"] /\ UNCHANGED <<container_states, rest, todo>>
      BY <1>4, <2>7 DEF Enter
    <3>2. TypeOK'
      BY <1>1, <1>2, <2>1, <2>4, <3>1 DEF TypeOK, startup, world, Body
    <3>3. pc'[t] = "stop_current" /\ \A u \in Tasks : u # t => pc'[u] = pc[u]
      BY <3>1 DEF TypeOK
    <3>4. SwapsExclude'
      BY <1>1, <2>1, <3>1, PhaseChange DEF Body
    <3>5. Startup'
      BY <1>1, <3>1, <3>3 DEF Startup, startup, world
    <3>6. Purpose' /\ Work' /\ Begun' /\ Awaited'
      BY <1>1, <2>1, <2>2, <3>1, <3>3 DEF Purpose, Work, Begun, Awaited, LockFree, Body, world
    <3>7. Honest'
      BY <1>1, <2>5, <3>1 DEF Honest, ModelSet
    <3>. QED BY <1>1, <3>2, <3>4, <3>5, <3>6, <3>7 DEF world
  <2>. QED BY <2>6, <2>7
<1>. QED BY <1>3, <1>4

\* An outgoing model is stopped.
LEMMA StopCurrentKeeps ==
    ASSUME IInv, NEW t \in Tasks, StopCurrent(t)
    PROVE  IInv'
<1>. USE DEF IInv
<1>1. PICK m \in outgoing[t] :
        LET cs == [container_states EXCEPT ![ContainerOf[m]] = "stopped"] IN
        /\ StopServe(m)
        /\ outgoing' = [outgoing EXCEPT ![t] = @ \ {m}]
        /\ IF outgoing[t] = {m}
             THEN BeginRest(t, cs)
             ELSE container_states' = cs /\ UNCHANGED <<pc, rest, todo>>
  BY DEF StopCurrent
<1>. DEFINE cs == [container_states EXCEPT ![ContainerOf[m]] = "stopped"]
<1>2. /\ pc[t] = "stop_current"
      /\ UNCHANGED <<active_profile, swap_in_progress, lock_queue, target, force, rank, result,
                     startup, persisted, crashes>>
  BY DEF StopCurrent
<1>3. m \in Models /\ ContainerOf[m] \in Containers /\ cs \in [Containers -> States]
  BY Catalog DEF TypeOK, States
<1>4. /\ procs' \in SUBSET Processes /\ serving' \in SUBSET Models /\ stopped' \in SUBSET Models
      /\ stopped' \subseteq stopped \cup {m} /\ serving' \cap stopped' = {}
  BY <1>1, <1>3, StopServeFacts
<1>5. swap_in_progress = TRUE /\ (force[t] \/ target[t] # active_profile)
  BY <1>2 DEF SwapsExclude, Purpose, Body, TypeOK
<1>6. \A u \in Tasks : u # t => pc[u] \notin Body
  BY <1>2, Sole DEF Body
<1>7. active_profile # NoProfile => \A n \in ModelSet(active_profile) :
        n \in stopped' => cs[ContainerOf[n]] # "ready"
  <2>1. \A u \in Tasks : pc[u] # "wait"
    BY <1>2, <1>6 DEF Body
  <2>2. active_profile # NoProfile => \A n \in ModelSet(active_profile) : ContainerOf[n] \in Containers
    BY Catalog DEF TypeOK
  <2>. QED BY <1>3, <1>4, <2>1, <2>2 DEF Honest, TypeOK
<1>8. outgoing' \in [Tasks -> SUBSET Models]
  BY <1>1 DEF TypeOK
<1>9. CASE outgoing[t] = {m}
  <2>1. BeginRest(t, cs) /\ pc[t] \in Body /\ swap_in_progress' = TRUE /\ stopped' \subseteq Models
    BY <1>1, <1>2, <1>4, <1>5, <1>9 DEF Body
  <2>2. /\ todo' \in [Tasks -> Seq(Models)]
        /\ pc' \in [Tasks -> {"idle", "queued"} \cup Body]
        /\ rest' \in [Tasks -> SUBSET Containers]
        /\ container_states' \in [Containers -> States]
        /\ SwapsExclude' /\ Startup' /\ Purpose' /\ Work' /\ Begun' /\ Awaited' /\ Honest'
    BY <1>2, <1>3, <1>5, <1>7, <2>1, BeginRestKeeps
  <2>3. TypeOK'
    BY <1>2, <1>4, <1>8, <2>2 DEF TypeOK, startup
  <2>. QED BY <1>4, <2>2, <2>3
<1>10. CASE outgoing[t] # {m}
  <2>1. container_states' = cs /\ UNCHANGED <<pc, rest, todo>>
    BY <1>1, <1>10
  <2>2. TypeOK'
    BY <1>2, <1>3, <1>4, <1>8, <2>1 DEF TypeOK, startup
  <2>3. SwapsExclude' /\ Purpose' /\ Work'
    BY <1>2, <2>1 DEF SwapsExclude, Purpose, Work
  <2>4. Startup'
    BY <1>2, <2>1 DEF Startup, startup, Body
  <2>5. Begun' /\ Awaited'
    BY <1>2, <1>6, <2>1 DEF Begun, Awaited, Body
  <2>6. Honest'
    BY <1>2, <1>7, <2>1 DEF Honest, ModelSet
  <2>. QED BY <1>4, <2>2, <2>3, <2>4, <2>5, <2>6
<1>. QED BY <1>9, <1>10

\* The serve process of a container outside the target is stopped.
LEMMA StopRestKeeps ==
    ASSUME IInv, NEW t \in Tasks, StopRest(t)
    PROVE  IInv'
<1>. USE DEF IInv
<1>1. PICK c \in rest[t], m \in Models :
        LET cs == [container_states EXCEPT ![c] = "stopped"] IN
        /\ FirstIn(m, c)
        /\ StopServe(m)
        /\ rest' = [rest EXCEPT ![t] = @ \ {c}]
        /\ IF rest[t] = {c}
             THEN BeginModel(t, ModelsOf[target[t]], cs)
             ELSE container_states' = cs /\ UNCHANGED <<pc, todo>>
  BY DEF StopRest
<1>. DEFINE cs == [container_states EXCEPT ![c] = "stopped"]
<1>2. /\ pc[t] = "stop_rest"
      /\ UNCHANGED <<active_profile, swap_in_progress, lock_queue, target, force, outgoing, rank,
                     result, startup, persisted, crashes>>
  BY DEF StopRest
<1>3. ContainerOf[m] = c /\ c \in Containers /\ cs \in [Containers -> States]
  BY <1>1 DEF FirstIn, TypeOK, States
<1>4. /\ procs' \in SUBSET Processes /\ serving' \in SUBSET Models /\ stopped' \in SUBSET Models
      /\ stopped' \subseteq stopped \cup {m} /\ serving' \cap stopped' = {}
  BY <1>1, StopServeFacts
<1>5. swap_in_progress = TRUE /\ (force[t] \/ target[t] # active_profile)
  BY <1>2 DEF SwapsExclude, Purpose, Body, TypeOK
<1>6. \A u \in Tasks : u # t => pc[u] \notin Body
  BY <1>2, Sole DEF Body
<1>7. active_profile # NoProfile => \A n \in ModelSet(active_profile) :
        n \in stopped' => cs[ContainerOf[n]] # "ready"
  <2>1. \A u \in Tasks : pc[u] # "wait"
    BY <1>2, <1>6 DEF Body
  <2>2. active_profile # NoProfile => \A n \in ModelSet(active_profile) : ContainerOf[n] \in Containers
    BY Catalog DEF TypeOK
  <2>. QED BY <1>3, <1>4, <2>1, <2>2 DEF Honest, TypeOK
<1>8. rest' \in [Tasks -> SUBSET Containers]
  BY <1>1 DEF TypeOK
<1>9. CASE rest[t] = {c}
  <2>1. BeginModel(t, ModelsOf[target[t]], cs) /\ pc[t] \in Body /\ swap_in_progress' = TRUE
    BY <1>1, <1>2, <1>5, <1>9 DEF Body
  <2>2. /\ ModelsOf[target[t]] \in Seq(Models) /\ ModelsOf[target[t]] # <<>>
        /\ ModelSet(target[t]) \cap stopped' \subseteq SetOf(ModelsOf[target[t]])
    BY Catalog DEF TypeOK
  <2>3. /\ todo' \in [Tasks -> Seq(Models)]
        /\ pc' \in [Tasks -> {"idle", "queued"} \cup Body]
        /\ container_states' \in [Containers -> States]
        /\ SwapsExclude' /\ Startup' /\ Purpose' /\ Work' /\ Begun' /\ Awaited' /\ Honest'
    BY <1>2, <1>3, <1>5, <1>7, <1>8, <2>1, <2>2, BeginModelKeeps
  <2>4. TypeOK'
    BY <1>2, <1>4, <1>8, <2>3 DEF TypeOK, startup
  <2>. QED BY <1>4, <2>3, <2>4
<1>10. CASE rest[t] # {c}
  <2>1. container_states' = cs /\ UNCHANGED <<pc, todo>>
    BY <1>1, <1>10
  <2>2. TypeOK'
    BY <1>2, <1>3, <1>4, <1>8, <2>1 DEF TypeOK, startup
  <2>3. SwapsExclude' /\ Purpose' /\ Work'
    BY <1>2, <2>1 DEF SwapsExclude, Purpose, Work
  <2>4. Startup'
    BY <1>2, <2>1 DEF Startup, startup, Body
  <2>5. Begun' /\ Awaited'
    BY <1>2, <1>6, <2>1 DEF Begun, Awaited, Body
  <2>6. Honest'
    BY <1>2, <1>7, <2>1 DEF Honest, ModelSet
  <2>. QED BY <1>4, <2>2, <2>3, <2>4, <2>5, <2>6
<1>. QED BY <1>9, <1>10

\* A swap fails while a model is being started.
LEMMA FailKeeps ==
    ASSUME IInv, NEW t \in Tasks, pc[t] \in {"verify", "launch"}, Fail(t),
           UNCHANGED <<active_profile, container_states, lock_queue, outgoing, rest, startup,
                       serving, stopped, persisted, crashes>>,
           procs' \in SUBSET Processes
    PROVE  IInv'
<1>. USE DEF IInv
<1>1. /\ pc' = [pc EXCEPT ![t] = "idle"]
      /\ pc'[t] = "idle"
      /\ \A u \in Tasks : u # t => /\ pc'[u] = pc[u] /\ pc[u] \notin Body
      /\ swap_in_progress' = FALSE
  BY Sole DEF Fail, Return, TypeOK, Body
<1>2. TypeOK'
  <2>1. /\ pc' \in [Tasks -> {"idle", "queued"} \cup Body]
        /\ result' \in [Tasks -> {"none", "ok", "failed"}]
        /\ target' \in [Tasks -> Profiles]
        /\ force' \in [Tasks -> BOOLEAN]
        /\ todo' \in [Tasks -> Seq(Models)]
        /\ rank' \in [Tasks -> Nat]
    BY Catalog DEF TypeOK, Fail, Return
  <2>. QED BY <1>1, <2>1 DEF TypeOK, startup
<1>3. SwapsExclude'
  BY <1>1, PhaseChange DEF Body
<1>4. Startup'
  BY <1>1 DEF Startup, startup
<1>5. Purpose' /\ Work' /\ Begun' /\ Awaited'
  BY <1>1 DEF Purpose, Work, Begun, Awaited, Body
<1>6. Honest'
  BY <1>1 DEF Honest, ModelSet, Body
<1>. QED BY <1>2, <1>3, <1>4, <1>5, <1>6

\* The cluster is checked.
LEMMA VerifyKeeps ==
    ASSUME IInv, NEW t \in Tasks, Verify(t)
    PROVE  IInv'
<1>. USE DEF IInv
<1>1. /\ pc[t] = "verify"
      /\ UNCHANGED <<active_profile, container_states, lock_queue, outgoing, rest,
                     startup, world, persisted, crashes>>
  BY DEF Verify
<1>2. CASE Fail(t)
  BY <1>1, <1>2, FailKeeps DEF TypeOK, world
<1>3. CASE /\ pc' = [pc EXCEPT ![t] = "stop_own"]
           /\ UNCHANGED <<result, target, force, todo, rank, swap_in_progress>>
  <2>1. pc'[t] = "stop_own" /\ \A u \in Tasks : u # t => pc'[u] = pc[u]
    BY <1>3 DEF TypeOK
  <2>2. TypeOK'
    BY <1>1, <1>3 DEF TypeOK, startup, world, Body
  <2>3. swap_in_progress' = TRUE
    BY <1>1, <1>3 DEF SwapsExclude, TypeOK, Body
  <2>4. SwapsExclude'
    BY <1>1, <1>3, <2>3, PhaseChange DEF Body
  <2>5. Startup'
    BY <1>1, <1>3, <2>1 DEF Startup, startup, world
  <2>6. Purpose' /\ Work' /\ Begun' /\ Awaited'
    BY <1>1, <1>3, <2>1 DEF Purpose, Work, Begun, Awaited, Body, world
  <2>7. Honest'
    BY <1>1, <1>3, <2>1 DEF Honest, ModelSet, world
  <2>. QED BY <1>1, <2>2, <2>4, <2>5, <2>6, <2>7 DEF world
<1>. QED BY <1>2, <1>3 DEF Verify

\* What is left of the model itself is stopped.
LEMMA StopOwnKeeps ==
    ASSUME IInv, NEW t \in Tasks, StopOwn(t)
    PROVE  IInv'
<1>. USE DEF IInv
<1>. DEFINE m == Head(todo[t])
<1>1. /\ pc[t] = "stop_own"
      /\ StopServe(m)
      /\ pc' = [pc EXCEPT ![t] = "launch"]
      /\ rank' = [rank EXCEPT ![t] = Nodes[m] - 1]
      /\ UNCHANGED <<memory, lock_queue, target, force, outgoing, rest, todo, result,
                     startup, persisted, crashes>>
  BY DEF StopOwn
<1>2. todo[t] \in Seq(Models) /\ todo[t] # <<>>
  BY <1>1 DEF Work, TypeOK
<1>3. m \in Models /\ m \in SetOf(todo[t])
  BY <1>2, HeadAndTail
<1>4. Nodes[m] \in Nat \ {0} /\ ContainerOf[m] \in Containers
  BY <1>3, Catalog
<1>5. Nodes[m] - 1 \in Nat
  BY <1>4
<1>6. /\ procs' \in SUBSET Processes /\ serving' \in SUBSET Models /\ stopped' \in SUBSET Models
      /\ stopped' \subseteq stopped \cup {m} /\ serving' \cap stopped' = {}
  BY <1>1, <1>3, StopServeFacts
<1>7. pc'[t] = "launch" /\ \A u \in Tasks : u # t => pc'[u] = pc[u] /\ pc[u] \notin Body
  BY <1>1, Sole DEF TypeOK, Body
<1>8. TypeOK'
  BY <1>1, <1>5, <1>6 DEF TypeOK, startup, memory, Body
<1>9. SwapsExclude'
  <2>1. swap_in_progress' = TRUE
    BY <1>1 DEF SwapsExclude, TypeOK, Body, memory
  <2>. QED BY <1>1, <2>1, PhaseChange DEF Body
<1>10. Startup'
  BY <1>1 DEF Startup, startup, memory, Body
<1>11. Purpose' /\ Work' /\ Awaited'
  <2>1. rank'[t] \in Ranks(Head(todo'[t]))
    BY <1>1, <1>4 DEF Ranks, TypeOK
  <2>. QED BY <1>1, <1>7, <2>1 DEF Purpose, Work, Awaited, Body, memory
<1>12. Begun'
  BY <1>1, <1>3, <1>6, <1>7 DEF Begun, Body, memory
<1>13. Honest'
  BY <1>1, <1>6, <1>7 DEF Honest, Begun, ModelSet, memory, Body
<1>. QED BY <1>6, <1>8, <1>9, <1>10, <1>11, <1>12, <1>13

\* What follows the start of a rank, from sets of processes and of stopped
\* models in which the start has taken effect.
LEMMA AfterLaunchKeeps ==
    ASSUME IInv, NEW t \in Tasks, pc[t] = "launch", AfterLaunch(t),
           UNCHANGED <<active_profile, lock_queue, outgoing, rest, serving, startup, persisted,
                       crashes, result, target, force, swap_in_progress>>,
           procs' \in SUBSET Processes,
           stopped' = IF rank[t] = 0 THEN stopped \ {Head(todo[t])} ELSE stopped
    PROVE  IInv'
<1>. USE DEF IInv
<1>. DEFINE m == Head(todo[t])
            cs == [container_states EXCEPT ![ContainerOf[m]] = "starting"]
<1>1. todo[t] \in Seq(Models) /\ todo[t] # <<>> /\ rank[t] \in Nat
  BY DEF Work, TypeOK
<1>2. /\ m \in Models /\ Tail(todo[t]) \in Seq(Models)
      /\ SetOf(todo[t]) = {m} \cup SetOf(Tail(todo[t]))
      /\ Len(todo[t]) \in Nat \ {0}
      /\ Len(todo[t]) # 1 => Tail(todo[t]) # <<>>
      /\ Len(todo[t]) = 1 => SetOf(todo[t]) = {m}
  BY <1>1, HeadAndTail
<1>3. ContainerOf[m] \in Containers /\ cs \in [Containers -> States]
  BY <1>2, Catalog DEF TypeOK, States
<1>4. swap_in_progress = TRUE /\ (force[t] \/ target[t] # active_profile)
  BY DEF SwapsExclude, Purpose, Body, TypeOK
<1>5. \A u \in Tasks : u # t => pc[u] \notin Body
  BY Sole DEF Body
<1>6. ModelSet(target[t]) \cap stopped \subseteq SetOf(todo[t])
  BY DEF Begun
<1>7. stopped' \in SUBSET Models /\ serving' \cap stopped' = {} /\ stopped' \subseteq stopped
  BY DEF TypeOK
<1>8. active_profile # NoProfile => \A n \in ModelSet(active_profile) :
        n \in stopped' => cs[ContainerOf[n]] # "ready"
  <2>1. \A u \in Tasks : pc[u] # "wait"
    BY <1>5 DEF Body
  <2>2. active_profile # NoProfile => \A n \in ModelSet(active_profile) : ContainerOf[n] \in Containers
    BY Catalog DEF TypeOK
  <2>. QED BY <1>3, <1>7, <2>1, <2>2 DEF Honest, TypeOK
<1>9. CASE rank[t] > 0
  <2>1. rank' = [rank EXCEPT ![t] = @ - 1] /\ UNCHANGED <<pc, todo, container_states>> /\ stopped' = stopped
    BY <1>1, <1>9 DEF AfterLaunch
  <2>2. TypeOK'
    BY <1>1, <1>9, <2>1 DEF TypeOK, startup
  <2>3. SwapsExclude' /\ Purpose' /\ Begun' /\ Awaited'
    BY <2>1 DEF SwapsExclude, Purpose, Begun, Awaited
  <2>5. Work'
    <3>1. rank'[t] = rank[t] - 1 /\ \A u \in Tasks : u # t => rank'[u] = rank[u]
      BY <2>1 DEF TypeOK
    <3>2. Nodes[m] \in Nat /\ rank[t] \in Ranks(m)
      BY <1>2, Catalog DEF Work
    <3>3. rank'[t] \in Ranks(m)
      BY <1>1, <1>9, <3>1, <3>2 DEF Ranks
    <3>. QED BY <2>1, <3>1, <3>3 DEF Work
  <2>4. Startup' /\ Honest'
    BY <2>1 DEF Startup, Honest, startup, ModelSet
  <2>. QED BY <1>7, <2>2, <2>3, <2>4, <2>5
<1>10. CASE rank[t] = 0 /\ Len(todo[t]) # 1
  <2>1. BeginModel(t, Tail(todo[t]), cs) /\ rank' = rank
    BY <1>10 DEF AfterLaunch
  <2>2. /\ Tail(todo[t]) \in Seq(Models) /\ Tail(todo[t]) # <<>>
        /\ ModelSet(target[t]) \cap stopped' \subseteq SetOf(Tail(todo[t]))
    <3>1. stopped' = stopped \ {m}
      BY <1>10
    <3>. QED BY <1>2, <1>6, <1>10, <3>1
  <2>3. /\ todo' \in [Tasks -> Seq(Models)]
        /\ pc' \in [Tasks -> {"idle", "queued"} \cup Body]
        /\ container_states' \in [Containers -> States]
        /\ SwapsExclude' /\ Startup' /\ Purpose' /\ Work' /\ Begun' /\ Awaited' /\ Honest'
    <3>1. pc[t] \in Body /\ swap_in_progress' = TRUE /\ rest' \in [Tasks -> SUBSET Containers]
      BY <1>4 DEF Body, TypeOK
    <3>. QED BY <1>3, <1>4, <1>8, <2>1, <2>2, <3>1, BeginModelKeeps
  <2>4. TypeOK'
    BY <1>7, <2>1, <2>3 DEF TypeOK, startup
  <2>. QED BY <1>7, <2>3, <2>4
<1>11. CASE rank[t] = 0 /\ Len(todo[t]) = 1
  <2>1. /\ pc' = [pc EXCEPT ![t] = "wait"]
        /\ todo' = [todo EXCEPT ![t] = ModelsOf[target[t]]]
        /\ container_states' = cs
        /\ rank' = rank
    BY <1>11 DEF AfterLaunch
  <2>2. ModelsOf[target[t]] \in Seq(Models) /\ ModelsOf[target[t]] # <<>>
    BY Catalog DEF TypeOK
  <2>3. pc'[t] = "wait" /\ todo'[t] = ModelsOf[target[t]] /\ \A u \in Tasks : u # t => pc'[u] = pc[u]
    BY <2>1 DEF TypeOK
  <2>4. TypeOK'
    BY <1>3, <1>7, <2>1, <2>2 DEF TypeOK, startup, Body
  <2>5. SwapsExclude'
    BY <1>4, <2>1, PhaseChange DEF Body
  <2>6. Startup'
    BY <2>1 DEF Startup, startup, Body
  <2>7. Purpose' /\ Work' /\ Begun'
    BY <1>4, <1>5, <2>2, <2>3 DEF Purpose, Work, Begun, Body
  <2>8. Awaited'
    BY <1>2, <1>5, <1>6, <1>11, <2>3 DEF Awaited, Body, ModelSet
  <2>9. Honest'
    BY <2>3 DEF Honest
  <2>. QED BY <1>7, <2>4, <2>5, <2>6, <2>7, <2>8, <2>9
<1>. QED BY <1>1, <1>2, <1>9, <1>10, <1>11

\* A rank is started, or its start is lost, or raises.
LEMMA LaunchKeeps ==
    ASSUME IInv, NEW t \in Tasks, Launch(t)
    PROVE  IInv'
<1>. DEFINE m == Head(todo[t])
<1>1. /\ pc[t] = "launch"
      /\ UNCHANGED <<active_profile, lock_queue, outgoing, rest, serving, startup, persisted, crashes>>
  BY DEF Launch
<1>2. procs \in SUBSET Processes /\ procs \cup {<<m, rank[t]>>} \in SUBSET Processes
  <2>1. m \in Models /\ rank[t] \in Ranks(m)
    BY <1>1, HeadAndTail DEF IInv, TypeOK, Work
  <2>2. <<m, rank[t]>> \in {m} \X Ranks(m)
    BY <2>1
  <2>3. <<m, rank[t]>> \in Processes
    BY <2>1, <2>2 DEF Processes
  <2>. QED BY <2>3 DEF IInv, TypeOK
<1>3. CASE /\ procs' = procs \cup {<<m, rank[t]>>}
           /\ stopped' = IF rank[t] = 0 THEN stopped \ {m} ELSE stopped
           /\ AfterLaunch(t)
           /\ UNCHANGED <<result, target, force, swap_in_progress>>
  <2>1. procs' \in SUBSET Processes
    BY <1>2, <1>3
  <2>. QED BY <1>1, <1>3, <2>1, AfterLaunchKeeps
<1>4. CASE /\ rank[t] = 0
           /\ stopped' = stopped \ {m}
           /\ AfterLaunch(t)
           /\ UNCHANGED <<procs, result, target, force, swap_in_progress>>
  <2>1. /\ procs' \in SUBSET Processes
        /\ stopped' = IF rank[t] = 0 THEN stopped \ {m} ELSE stopped
    BY <1>2, <1>4
  <2>. QED BY <1>1, <1>4, <2>1, AfterLaunchKeeps
<1>5. CASE /\ procs' \in {procs, procs \cup {<<m, rank[t]>>}}
           /\ Fail(t)
           /\ UNCHANGED <<stopped, container_states>>
  <2>1. procs' \in SUBSET Processes
    BY <1>2, <1>5
  <2>. QED BY <1>1, <1>5, <2>1, FailKeeps
<1>. QED BY <1>3, <1>4, <1>5 DEF Launch

\* The profile is claimed.
LEMMA ClaimKeeps ==
    ASSUME IInv, NEW t \in Tasks, pc[t] = "wait", NEW cs \in [Containers -> States], Claim(t, cs),
           UNCHANGED <<lock_queue, outgoing, rest, startup, world, crashes>>
    PROVE  IInv'
<1>. USE DEF IInv
<1>1. /\ pc' = [pc EXCEPT ![t] = "idle"]
      /\ pc'[t] = "idle"
      /\ \A u \in Tasks : u # t => /\ pc'[u] = pc[u] /\ pc[u] \notin Body
      /\ swap_in_progress' = FALSE
      /\ container_states' = cs
      /\ active_profile' = target[t]
      /\ target[t] \in Profiles
  BY Sole DEF Claim, Return, TypeOK, Body
<1>2. TypeOK'
  <2>1. /\ pc' \in [Tasks -> {"idle", "queued"} \cup Body]
        /\ result' \in [Tasks -> {"none", "ok", "failed"}]
        /\ target' \in [Tasks -> Profiles]
        /\ force' \in [Tasks -> BOOLEAN]
        /\ todo' \in [Tasks -> Seq(Models)]
        /\ rank' \in [Tasks -> Nat]
    BY Catalog DEF TypeOK, Claim, Return
  <2>2. persisted' \in Profiles \cup {NoProfile}
    BY <1>1 DEF TypeOK, Claim, Persist
  <2>. QED BY <1>1, <2>1, <2>2 DEF TypeOK, startup, world
<1>3. SwapsExclude'
  BY <1>1, PhaseChange DEF Body
<1>4. Startup'
  <2>1. boot \notin {"probe", "orphans", "cleanup"}
    BY DEF Startup
  <2>. QED BY <2>1 DEF Startup, startup
<1>5. Purpose' /\ Work' /\ Begun' /\ Awaited'
  BY <1>1 DEF Purpose, Work, Begun, Awaited, Body
<1>6. Honest'
  BY <1>1 DEF Honest, Awaited, ModelSet, world
<1>. QED BY <1>2, <1>3, <1>4, <1>5, <1>6 DEF world

\* A model answers its probe.
LEMMA AnswerKeeps ==
    ASSUME IInv, NEW t \in Tasks, Answer(t)
    PROVE  IInv'
<1>. USE DEF IInv
<1>. DEFINE m == Head(todo[t])
            cs == [container_states EXCEPT ![ContainerOf[m]] = "ready"]
<1>1. pc[t] = "wait" /\ UNCHANGED <<lock_queue, outgoing, rest, startup, world, crashes>>
  BY DEF Answer
<1>2. /\ m \in Models /\ Tail(todo[t]) \in Seq(Models)
      /\ Len(todo[t]) # 1 => Tail(todo[t]) # <<>>
  <2>1. todo[t] \in Seq(Models) /\ todo[t] # <<>>
    BY <1>1 DEF Work, TypeOK
  <2>. QED BY <2>1, HeadAndTail
<1>3. ContainerOf[m] \in Containers /\ cs \in [Containers -> States]
  BY <1>2, Catalog DEF TypeOK, States
<1>4. CASE Len(todo[t]) = 1
  <2>1. Claim(t, cs)
    BY <1>4 DEF Answer
  <2>. QED BY <1>1, <1>3, <2>1, ClaimKeeps
<1>5. CASE Len(todo[t]) # 1
  <2>1. /\ todo' = [todo EXCEPT ![t] = Tail(todo[t])]
        /\ container_states' = cs
        /\ UNCHANGED <<active_profile, persisted, swap_in_progress, pc, target, force, rank, result>>
    BY <1>5 DEF Answer
  <2>2. TypeOK'
    BY <1>1, <1>2, <1>3, <2>1 DEF TypeOK, startup, world
  <2>3. todo'[t] # <<>> /\ \A u \in Tasks : u # t => todo'[u] = todo[u] /\ pc[u] \notin Body
    BY <1>1, <1>2, <1>5, <2>1, Sole DEF TypeOK, Body
  <2>4. SwapsExclude' /\ Purpose' /\ Awaited'
    BY <1>1, <2>1 DEF SwapsExclude, Purpose, Awaited, world
  <2>5. Work' /\ Begun'
    BY <1>1, <2>1, <2>3 DEF Work, Begun, Body
  <2>6. Startup'
    BY <1>1, <2>1 DEF Startup, startup, world
  <2>7. Honest'
    BY <1>1, <2>1 DEF Honest
  <2>. QED BY <1>1, <2>2, <2>4, <2>5, <2>6, <2>7 DEF world
<1>. QED BY <1>4, <1>5

\* The wait runs out.
LEMMA TimeoutKeeps ==
    ASSUME IInv, NEW t \in Tasks, Timeout(t)
    PROVE  IInv'
<1>. DEFINE cs == [c \in Containers |->
                     IF c \in ContainersOf(target[t]) /\ container_states[c] = "starting"
                       THEN "ready" ELSE container_states[c]]
<1>1. pc[t] = "wait" /\ Claim(t, cs) /\ UNCHANGED <<lock_queue, outgoing, rest, startup, world, crashes>>
  BY DEF Timeout
<1>2. cs \in [Containers -> States]
  BY DEF IInv, TypeOK, States
<1>. QED BY <1>1, <1>2, ClaimKeeps

-----------------------------------------------------------------------------
(* Callers, startup, crashes and the serve processes *)

\* Somebody calls switch_profile.
LEMMA CallKeeps ==
    ASSUME IInv, NEW t \in Tasks, NEW p \in Profiles, NEW f \in BOOLEAN, Call(t, p, f),
           UNCHANGED <<memory, healthy, persisted, crashes>>,
           probes' \in Seq(Models), boot' \in {"restore", "up"},
           procs' \in SUBSET Processes, serving' \in SUBSET Models, stopped' \in SUBSET Models,
           serving' \cap stopped' = {},
           stopped' = stopped \/ boot = "cleanup"
    PROVE  IInv'
<1>. USE DEF IInv
<1>1. /\ pc[t] = "idle" /\ pc' = [pc EXCEPT ![t] = "queued"]
      /\ target' = [target EXCEPT ![t] = p]
      /\ force' = [force EXCEPT ![t] = f]
      /\ result' = [result EXCEPT ![t] = "none"]
      /\ lock_queue' = Append(lock_queue, t)
      /\ UNCHANGED <<outgoing, rest, todo, rank>>
  BY DEF Call
<1>2. /\ pc'[t] = "queued"
      /\ \A u \in Tasks : u # t => pc'[u] = pc[u] /\ target'[u] = target[u] /\ force'[u] = force[u]
  BY <1>1 DEF TypeOK
<1>3. TypeOK'
  <2>1. lock_queue' \in Seq(Tasks)
    BY <1>1 DEF TypeOK
  <2>2. /\ pc' \in [Tasks -> {"idle", "queued"} \cup Body]
        /\ target' \in [Tasks -> Profiles]
        /\ force' \in [Tasks -> BOOLEAN]
        /\ result' \in [Tasks -> {"none", "ok", "failed"}]
    BY <1>1 DEF TypeOK
  <2>. QED BY <1>1, <2>1, <2>2 DEF TypeOK, memory
<1>4. SwapsExclude'
  BY <1>1, PhaseChange DEF Body, memory
<1>5. Startup'
  BY DEF Startup
<1>6. boot = "cleanup" => \A u \in Tasks : pc[u] = "idle"
  BY DEF Startup
<1>7. Purpose' /\ Work'
  BY <1>1, <1>2 DEF Purpose, Work, Body, memory
<1>8. Begun' /\ Awaited'
  BY <1>1, <1>2, <1>6 DEF Begun, Awaited, Body, memory
<1>9. Honest'
  <2>1. boot = "cleanup" => active_profile = NoProfile
    BY DEF Startup
  <2>2. (\A u \in Tasks : pc'[u] # "wait") => \A u \in Tasks : pc[u] # "wait"
    BY <1>1, <1>2
  <2>3. active_profile' = active_profile /\ container_states' = container_states
    BY DEF memory
  <2>4. CASE stopped' = stopped
    BY <2>2, <2>3, <2>4 DEF Honest, ModelSet
  <2>5. CASE boot = "cleanup"
    BY <2>1, <2>3, <2>5 DEF Honest
  <2>. QED BY <2>4, <2>5
<1>. QED BY <1>3, <1>4, <1>5, <1>7, <1>8, <1>9

\* A request or the administrator asks for a profile.
LEMMA AskKeeps ==
    ASSUME IInv, NEW t \in Callers, AskAdmin(t) \/ AskRequest(t)
    PROVE  IInv'
<1>1. PICK p \in Profiles, f \in BOOLEAN : Call(t, p, f)
  <2>1. CASE AskAdmin(t)
    BY <2>1 DEF AskAdmin
  <2>2. CASE AskRequest(t)
    <3>1. PICK p \in Profiles, m \in Models :
            Call(t, p, active_profile = p /\ ~(container_states[ContainerOf[m]] = "ready") /\ ~swap_in_progress)
      BY <2>2, Catalog DEF AskRequest
    <3>2. (active_profile = p /\ ~(container_states[ContainerOf[m]] = "ready") /\ ~swap_in_progress) \in BOOLEAN
      OBVIOUS
    <3>. QED BY <3>1, <3>2
  <2>. QED BY <2>1, <2>2
<1>2. UNCHANGED <<memory, startup, world, persisted, crashes>> /\ boot = "up" /\ t \in Tasks
  BY DEF AskAdmin, AskRequest, Tasks
<1>. QED BY <1>1, <1>2, CallKeeps DEF IInv, TypeOK, startup, world

\* A health probe at startup, and adoption after the last one.
LEMMA BootProbeKeeps ==
    ASSUME IInv, BootProbe
    PROVE  IInv'
<1>. USE DEF IInv
<1>1. PICK h \in {healthy \cup ({Head(probes)} \cap serving)}
                  \cup (IF "slow" \in Faults THEN {healthy} ELSE {}) :
         /\ healthy' = h
         /\ IF Len(probes) = 1
              THEN AdoptNone(h) \/ \E p \in Profiles : Adopt(p, h)
              ELSE /\ probes' = Tail(probes)
                   /\ UNCHANGED <<boot, active_profile, container_states, rest, persisted>>
  BY DEF BootProbe
<1>2. /\ boot = "probe"
      /\ UNCHANGED <<swap_in_progress, lock_queue, pc, target, force, outgoing, todo, rank, result,
                     world, crashes>>
  BY DEF BootProbe
<1>3. h \in SUBSET Models /\ h \cap stopped = {}
  BY <1>1, <1>2 DEF TypeOK, Startup
<1>4. \A t \in Tasks : pc[t] = "idle"
  BY <1>2 DEF Startup
<1>5. probes \in Seq(Models) /\ probes # <<>> /\ active_profile = NoProfile
  BY <1>2 DEF Startup, TypeOK
<1>6. SwapsExclude' /\ Purpose' /\ Work' /\ Begun' /\ Awaited'
  BY <1>2, <1>4 DEF SwapsExclude, Purpose, Work, Begun, Awaited, Body
<1>7. CASE Len(probes) # 1
  <2>1. /\ probes' = Tail(probes) /\ healthy' = h
        /\ UNCHANGED <<boot, active_profile, container_states, rest, persisted>>
    BY <1>1, <1>7
  <2>2. probes' \in Seq(Models) /\ probes' # <<>>
    BY <1>5, <1>7, <2>1, HeadAndTail
  <2>3. TypeOK'
    BY <1>2, <1>3, <2>1, <2>2 DEF TypeOK, world
  <2>4. Startup'
    BY <1>2, <1>3, <1>4, <1>5, <2>1, <2>2 DEF Startup, world
  <2>5. Honest'
    BY <1>5, <2>1 DEF Honest
  <2>. QED BY <1>2, <1>6, <2>3, <2>4, <2>5 DEF world
<1>8. CASE Len(probes) = 1 /\ AdoptNone(h)
  <2>1. /\ probes' = AllModels /\ healthy' = h /\ boot' = "cleanup"
        /\ UNCHANGED <<active_profile, container_states, rest, persisted>>
    BY <1>1, <1>8 DEF AdoptNone
  <2>2. TypeOK'
    BY <1>2, <1>3, <2>1, Catalog DEF TypeOK, world
  <2>3. Startup'
    BY <1>2, <1>4, <1>5, <2>1, Catalog DEF Startup
  <2>4. Honest'
    BY <1>5, <2>1 DEF Honest
  <2>. QED BY <1>2, <1>6, <2>2, <2>3, <2>4 DEF world
<1>9. ASSUME Len(probes) = 1, NEW p \in Profiles, Adopt(p, h)
      PROVE  IInv'
  <2>. DEFINE orphans == {ContainerOf[m] : m \in h} \ ContainersOf(p)
  <2>1. /\ FirstAdoptable(p, h)
        /\ active_profile' = p
        /\ container_states' = [c \in Containers |->
               IF c \in ContainersOf(p) THEN "ready" ELSE container_states[c]]
        /\ rest' = [rest EXCEPT ![Lifespan] = orphans]
        /\ probes' = <<>>
        /\ boot' \in {"up", "orphans"}
        /\ persisted' \in {p, persisted}
        /\ healthy' = h
    BY <1>1, <1>9 DEF Adopt, Persist
  <2>2. ModelSet(p) \subseteq h
    BY <2>1 DEF FirstAdoptable, Adoptable
  <2>3. orphans \subseteq Containers
    BY <1>3, Catalog
  <2>4. rest' \in [Tasks -> SUBSET Containers] /\ rest'[Lifespan] = orphans
    BY <2>1, <2>3, Catalog DEF TypeOK
  <2>5. container_states' \in [Containers -> States]
    BY <2>1 DEF TypeOK, States
  <2>6. TypeOK'
    BY <1>2, <1>3, <2>1, <2>4, <2>5 DEF TypeOK, world
  <2>7. Startup'
    BY <1>2, <1>4, <2>1, <2>4 DEF Startup, ContainersOf, ModelSet
  <2>8. Honest'
    BY <1>2, <1>3, <2>1, <2>2 DEF Honest, ModelSet, world
  <2>. QED BY <1>2, <1>6, <2>6, <2>7, <2>8 DEF world
<1>. QED BY <1>1, <1>7, <1>8, <1>9

\* An orphan of the adopted profile is stopped.
LEMMA BootOrphanKeeps ==
    ASSUME IInv, BootOrphan
    PROVE  IInv'
<1>. USE DEF IInv
<1>1. PICK c \in rest[Lifespan], m \in Models :
         /\ FirstIn(m, c)
         /\ StopServe(m)
         /\ rest' = [rest EXCEPT ![Lifespan] = @ \ {c}]
         /\ IF rest[Lifespan] = {c} THEN Persist(active_profile) /\ boot' = "up"
                                     ELSE UNCHANGED <<persisted, boot>>
  BY DEF BootOrphan
<1>2. /\ boot = "orphans"
      /\ UNCHANGED <<memory, lock_queue, pc, target, force, outgoing, todo, rank, result,
                     probes, healthy, crashes>>
  BY DEF BootOrphan
<1>3. /\ \A t \in Tasks : pc[t] = "idle"
      /\ active_profile \in Profiles
      /\ rest[Lifespan] \cap ContainersOf(active_profile) = {}
  BY <1>2 DEF Startup
<1>4. /\ procs' \in SUBSET Processes /\ serving' \in SUBSET Models /\ stopped' \in SUBSET Models
      /\ stopped' \subseteq stopped \cup {m} /\ serving' \cap stopped' = {}
  BY <1>1, StopServeFacts
<1>5. m \notin ModelSet(active_profile)
  BY <1>1, <1>3 DEF FirstIn, ContainersOf
<1>6. /\ rest' \in [Tasks -> SUBSET Containers]
      /\ rest'[Lifespan] \subseteq rest[Lifespan]
      /\ boot' \in {"orphans", "up"}
      /\ persisted' \in {active_profile, persisted}
  BY <1>1, <1>2, Catalog DEF TypeOK, Persist
<1>7. TypeOK'
  BY <1>2, <1>4, <1>6 DEF TypeOK, memory
<1>8. SwapsExclude' /\ Purpose' /\ Work' /\ Begun' /\ Awaited'
  BY <1>2, <1>3 DEF SwapsExclude, Purpose, Work, Begun, Awaited, Body, memory
<1>9. Startup'
  BY <1>2, <1>3, <1>6 DEF Startup, memory, ContainersOf, ModelSet
<1>10. Honest'
  BY <1>2, <1>3, <1>4, <1>5 DEF Honest, memory, ModelSet
<1>. QED BY <1>4, <1>7, <1>8, <1>9, <1>10

\* A model is cleaned up at startup; after the last one a profile is restored.
LEMMA BootCleanupKeeps ==
    ASSUME IInv, BootCleanup
    PROVE  IInv'
<1>. USE DEF IInv
<1>1. /\ boot = "cleanup"
      /\ StopServe(Head(probes))
      /\ probes' = Tail(probes)
      /\ UNCHANGED <<memory, healthy, persisted, crashes>>
  BY DEF BootCleanup
<1>2. /\ probes \in Seq(Models) /\ probes # <<>> /\ active_profile = NoProfile
      /\ \A t \in Tasks : pc[t] = "idle"
  BY <1>1 DEF Startup, TypeOK
<1>3. Head(probes) \in Models /\ probes' \in Seq(Models) /\ (Len(probes) # 1 => probes' # <<>>)
  BY <1>1, <1>2, HeadAndTail
<1>4. /\ procs' \in SUBSET Processes /\ serving' \in SUBSET Models /\ stopped' \in SUBSET Models
      /\ serving' \cap stopped' = {}
  BY <1>1, <1>3, StopServeFacts
<1>5. CASE Len(probes) = 1
  <2>1. /\ Call(Lifespan, IF persisted \in Profiles THEN persisted ELSE Default, FALSE)
        /\ boot' = "restore"
    BY <1>5 DEF BootCleanup
  <2>2. (IF persisted \in Profiles THEN persisted ELSE Default) \in Profiles /\ Lifespan \in Tasks
    BY Catalog
  <2>. QED BY <1>1, <1>3, <1>4, <2>1, <2>2, CallKeeps
<1>6. CASE Len(probes) # 1
  <2>1. UNCHANGED <<task, boot>>
    BY <1>6 DEF BootCleanup
  <2>2. TypeOK'
    BY <1>1, <1>3, <1>4, <2>1 DEF TypeOK, memory, task
  <2>3. SwapsExclude' /\ Purpose' /\ Work' /\ Begun' /\ Awaited'
    BY <1>1, <1>2, <2>1 DEF SwapsExclude, Purpose, Work, Begun, Awaited, Body, memory, task
  <2>4. Startup'
    BY <1>1, <1>2, <1>3, <1>6, <2>1 DEF Startup, memory, task
  <2>5. Honest'
    BY <1>1, <1>2 DEF Honest, memory
  <2>. QED BY <1>4, <2>2, <2>3, <2>4, <2>5
<1>. QED BY <1>5, <1>6

\* The app starts to serve.
LEMMA BootDoneKeeps ==
    ASSUME IInv, BootDone
    PROVE  IInv'
<1>. USE DEF IInv
<1>1. boot' = "up" /\ UNCHANGED <<memory, task, probes, healthy, world, persisted, crashes>>
  BY DEF BootDone
<1>2. TypeOK'
  BY <1>1 DEF TypeOK, memory, task, world
<1>3. SwapsExclude' /\ Purpose' /\ Work' /\ Begun' /\ Awaited'
  BY <1>1 DEF SwapsExclude, Purpose, Work, Begun, Awaited, memory, task, world
<1>4. Startup' /\ Honest'
  BY <1>1 DEF Startup, Honest, memory, task, world, ModelSet
<1>. QED BY <1>1, <1>2, <1>3, <1>4 DEF world

\* The gateway crashes and starts again.
LEMMA CrashKeeps ==
    ASSUME IInv, Crash
    PROVE  IInv'
<1>. USE DEF IInv
<1>1. crashes' \in 0..MaxCrashes
  BY BoundsAssumption DEF Crash, TypeOK
<1>2. Reset /\ UNCHANGED <<world, persisted>>
  BY DEF Crash
<1>3. TypeOK'
  <2>1. /\ pc' \in [Tasks -> {"idle", "queued"} \cup Body]
        /\ result' \in [Tasks -> {"none", "ok", "failed"}]
        /\ target' \in [Tasks -> Profiles]
        /\ force' \in [Tasks -> BOOLEAN]
        /\ outgoing' \in [Tasks -> SUBSET Models]
        /\ rest' \in [Tasks -> SUBSET Containers]
        /\ rank' \in [Tasks -> Nat]
        /\ container_states' \in [Containers -> States]
    BY <1>2, Catalog DEF Reset, States
  <2>2. todo' \in [Tasks -> Seq(Models)] /\ lock_queue' \in Seq(Tasks) /\ probes' \in Seq(Models)
    BY <1>2, Catalog DEF Reset
  <2>. QED BY <1>1, <1>2, <2>1, <2>2 DEF TypeOK, Reset, world
<1>4. SwapsExclude' /\ Purpose' /\ Work' /\ Begun' /\ Awaited'
  BY <1>2 DEF SwapsExclude, Purpose, Work, Begun, Awaited, Body, Reset
<1>5. Startup' /\ Honest'
  BY <1>2, Catalog DEF Startup, Honest, Reset
<1>. QED BY <1>2, <1>3, <1>4, <1>5 DEF world

\* A model comes up, or one of its processes dies.
LEMMA WorldKeeps ==
    ASSUME IInv, NEW m \in Models, Load(m) \/ Die(m)
    PROVE  IInv'
<1>. USE DEF IInv
<1>1. /\ UNCHANGED <<memory, task, startup, persisted, crashes>>
      /\ stopped' \subseteq stopped /\ stopped' \in SUBSET Models
      /\ procs' \in SUBSET Processes /\ serving' \in SUBSET Models
      /\ serving' \cap stopped' = {}
  BY DEF Load, Die, TypeOK
<1>2. TypeOK'
  BY <1>1 DEF TypeOK, memory, task, startup
<1>3. SwapsExclude' /\ Purpose' /\ Work' /\ Begun' /\ Awaited'
  BY <1>1 DEF SwapsExclude, Purpose, Work, Begun, Awaited, memory, task
<1>4. Startup'
  BY <1>1 DEF Startup, memory, task, startup
<1>5. Honest'
  BY <1>1 DEF Honest, memory, task, ModelSet
<1>. QED BY <1>1, <1>2, <1>3, <1>4, <1>5

-----------------------------------------------------------------------------
(* The theorems *)

\* A gateway that has just been started satisfies the inductive invariant.
LEMMA InitInvariant == Init => IInv
<1>. SUFFICES ASSUME Init PROVE IInv
  OBVIOUS
<1>1. TypeOK
  <2>1. /\ pc \in [Tasks -> {"idle", "queued"} \cup Body]
        /\ result \in [Tasks -> {"none", "ok", "failed"}]
        /\ target \in [Tasks -> Profiles]
        /\ force \in [Tasks -> BOOLEAN]
        /\ outgoing \in [Tasks -> SUBSET Models]
        /\ rest \in [Tasks -> SUBSET Containers]
        /\ rank \in [Tasks -> Nat]
        /\ container_states \in [Containers -> States]
    BY Catalog DEF Init, States
  <2>2. todo \in [Tasks -> Seq(Models)] /\ lock_queue \in Seq(Tasks) /\ probes \in Seq(Models)
    BY Catalog DEF Init
  <2>3. crashes \in 0..MaxCrashes
    BY BoundsAssumption DEF Init
  <2>. QED BY <2>1, <2>2, <2>3 DEF TypeOK, Init
<1>2. SwapsExclude /\ Purpose /\ Work /\ Begun /\ Awaited
  BY DEF Init, SwapsExclude, Purpose, Work, Begun, Awaited, Body
<1>3. Startup /\ Honest /\ serving \cap stopped = {}
  BY Catalog DEF Init, Startup, Honest
<1>. QED BY <1>1, <1>2, <1>3 DEF IInv

\* Every step preserves it.
LEMMA NextInvariant == IInv /\ [Next]_vars => IInv'
<1>. SUFFICES ASSUME IInv, [Next]_vars PROVE IInv'
  OBVIOUS
<1>1. ASSUME NEW t \in Tasks, Swap(t) PROVE IInv'
  BY <1>1, EnterKeeps, StopCurrentKeeps, StopRestKeeps, VerifyKeeps, StopOwnKeeps, LaunchKeeps,
     AnswerKeeps, TimeoutKeeps DEF Swap
<1>2. ASSUME Boot PROVE IInv'
  BY <1>2, BootProbeKeeps, BootOrphanKeeps, BootCleanupKeeps, BootDoneKeeps DEF Boot
<1>3. CASE UNCHANGED vars
  <2>1. UNCHANGED <<memory, task, startup, world, persisted, crashes>>
    BY <1>3 DEF vars
  <2>2. TypeOK'
    BY <2>1 DEF IInv, TypeOK, memory, task, startup, world
  <2>3. SwapsExclude' /\ Purpose' /\ Work' /\ Begun' /\ Awaited'
    BY <2>1 DEF IInv, SwapsExclude, Purpose, Work, Begun, Awaited, memory, task, world
  <2>4. Startup' /\ Honest'
    BY <2>1 DEF IInv, Startup, Honest, memory, task, startup, world, ModelSet
  <2>. QED BY <2>1, <2>2, <2>3, <2>4 DEF IInv, world
<1>. QED BY <1>1, <1>2, <1>3, AskKeeps, CrashKeeps, WorldKeeps DEF Next

\* The inductive invariant holds for every catalog, set of callers and faults.
THEOREM Invariance == Spec => []IInv
BY InitInvariant, NextInvariant, PTL DEF Spec

\* Type correctness of the orchestrator's state and of its environment.
THEOREM TypeCorrectness == Spec => []TypeOK
<1>1. IInv => TypeOK
  BY DEF IInv
<1>. QED BY <1>1, Invariance, PTL

\* The swap lock and is_swapping: at most one swap at a time, and the flag is set
\* exactly while it runs, on every way out of switch_profile.
THEOREM SwapsNeverOverlap == Spec => []SwapsExclude
<1>1. IInv => SwapsExclude
  BY DEF IInv
<1>. QED BY <1>1, Invariance, PTL

\* What _chat_completions takes for ready has not been stopped by the gateway,
\* whatever failed before.
THEOREM ReadyMeansNotStopped == Spec => []DispatchableIsUp
<1>1. IInv => DispatchableIsUp
  <2>. SUFFICES ASSUME IInv, NEW p \in Profiles, NEW m \in ModelSet(p), Dispatchable(p, m)
                PROVE  m \notin stopped
    BY DEF DispatchableIsUp
  <2>1. \A t \in Tasks : pc[t] # "wait"
    BY DEF IInv, Dispatchable, SwapsExclude, Body
  <2>. QED BY <2>1, Catalog DEF IInv, Honest, Dispatchable
<1>. QED BY <1>1, Invariance, PTL

\* The re-check under the lock: a model of the active profile is only stopped for
\* another profile or for a forced restart.
THEOREM NoNeedlessReload == Spec => NoReload
<1>1. IInv /\ [Next]_vars => [ReloadStep]_vars
  <2>. SUFFICES ASSUME IInv, Next, active_profile # NoProfile,
                       NEW m \in ModelSet(active_profile), m \in stopped', m \notin stopped
                PROVE  \E t \in Tasks : pc[t] \in Body /\ (force[t] \/ target[t] # active_profile)
    BY DEF ReloadStep
  <2>1. ASSUME NEW t \in Tasks, pc[t] \in Body
        PROVE  \E u \in Tasks : pc[u] \in Body /\ (force[u] \/ target[u] # active_profile)
    BY <2>1 DEF IInv, Purpose
  <2>2. ASSUME NEW t \in Tasks, Swap(t) PROVE pc[t] \in Body
    BY <2>2 DEF Swap, Enter, StopCurrent, StopRest, Verify, StopOwn, Launch, Answer, Timeout, Body, world
  <2>3. ~BootOrphan
    <3>. SUFFICES ASSUME BootOrphan PROVE FALSE
      OBVIOUS
    <3>1. PICK c \in rest[Lifespan], n \in Models : FirstIn(n, c) /\ StopServe(n)
      BY DEF BootOrphan
    <3>2. n \notin ModelSet(active_profile)
      BY <3>1 DEF IInv, Startup, BootOrphan, FirstIn, ContainersOf
    <3>. QED BY <3>1, <3>2 DEF StopServe
  <2>4. ~BootCleanup
    BY DEF BootCleanup, IInv, Startup
  <2>5. ~BootProbe /\ ~BootDone /\ ~Crash
    BY DEF BootProbe, BootDone, Crash, world
  <2>6. \A t \in Callers : ~AskAdmin(t) /\ ~AskRequest(t)
    BY DEF AskAdmin, AskRequest, world
  <2>7. \A n \in Models : ~Load(n) /\ ~Die(n)
    BY DEF Load, Die
  <2>. QED BY <2>1, <2>2, <2>3, <2>4, <2>5, <2>6, <2>7 DEF Next, Boot
<1>. QED BY <1>1, Invariance, PTL DEF Spec, NoReload

\* The state file names the active profile, after a claim and once an adoption
\* has removed what served beside it, unless writing the file fails
\* (_persist_state).
THEOREM StateFileFollows ==
    ASSUME "persist" \notin Faults
    PROVE  Spec => []PersistedIsActive
<1>1. Init => PersistedIsActive
  BY DEF Init, PersistedIsActive
<1>2. IInv /\ PersistedIsActive /\ [Next]_vars => PersistedIsActive'
  <2>. SUFFICES ASSUME IInv, PersistedIsActive, [Next]_vars PROVE PersistedIsActive'
    OBVIOUS
  <2>1. \A p : Persist(p) => persisted' = p
    BY DEF Persist
  <2>2. ASSUME UNCHANGED <<active_profile, boot, persisted>> PROVE PersistedIsActive'
    BY <2>2 DEF PersistedIsActive
  <2>3. ASSUME NEW t \in Tasks, Swap(t) PROVE PersistedIsActive'
    <3>1. CASE \E cs : Claim(t, cs)
      BY <2>1, <3>1 DEF Claim, PersistedIsActive
    <3>2. CASE ~\E cs : Claim(t, cs)
      <4>1. UNCHANGED <<active_profile, startup, persisted>>
        BY <2>3, <3>2 DEF Swap, Enter, StopCurrent, StopRest, Verify, StopOwn, Launch, Answer,
                          Timeout, memory
      <4>. QED BY <2>2, <4>1 DEF startup
    <3>. QED BY <3>1, <3>2
  <2>4. ASSUME BootProbe PROVE PersistedIsActive'
    <3>1. active_profile = NoProfile
      BY <2>4 DEF IInv, Startup, BootProbe
    <3>2. CASE \E p, h : Adopt(p, h)
      BY <2>1, <3>2 DEF Adopt, PersistedIsActive
    <3>3. CASE ~\E p, h : Adopt(p, h)
      <4>1. active_profile' = active_profile
        BY <2>4, <3>3 DEF BootProbe, AdoptNone
      <4>. QED BY <3>1, <4>1 DEF PersistedIsActive
    <3>. QED BY <3>2, <3>3
  <2>5. ASSUME BootOrphan PROVE PersistedIsActive'
    <3>1. /\ active_profile' = active_profile /\ boot = "orphans"
          /\ (Persist(active_profile) /\ boot' = "up") \/ boot' = boot
      BY <2>5 DEF BootOrphan, memory
    <3>. QED BY <2>1, <3>1 DEF PersistedIsActive
  <2>6. ASSUME BootCleanup PROVE PersistedIsActive'
    BY <2>6 DEF BootCleanup, PersistedIsActive, IInv, Startup, memory
  <2>7. ASSUME BootDone PROVE PersistedIsActive'
    BY <2>7 DEF BootDone, PersistedIsActive, memory
  <2>8. ASSUME Crash PROVE PersistedIsActive'
    BY <2>8 DEF Crash, Reset, PersistedIsActive
  <2>9. ASSUME NEW t \in Callers, AskAdmin(t) \/ AskRequest(t) PROVE PersistedIsActive'
    BY <2>2, <2>9 DEF AskAdmin, AskRequest, memory, startup
  <2>10. ASSUME NEW m \in Models, Load(m) \/ Die(m) PROVE PersistedIsActive'
    BY <2>2, <2>10 DEF Load, Die, memory, startup
  <2>11. ASSUME UNCHANGED vars PROVE PersistedIsActive'
    BY <2>2, <2>11 DEF vars, memory, startup
  <2>. QED BY <2>3, <2>4, <2>5, <2>6, <2>7, <2>8, <2>9, <2>10, <2>11 DEF Next, Boot
<1>. QED BY <1>1, <1>2, Invariance, PTL DEF Spec

-----------------------------------------------------------------------------
(* Stopping by identity *)

\* Each profile of gateway/config.py has one primary model and no secondary one.
OneModelPerProfile == \A p \in Profiles : Len(ModelsOf[p]) = 1

\* The models of the active profile.
Claimed == IF active_profile = NoProfile THEN {} ELSE ModelSet(active_profile)

\* A model serves with all its ranks.
Complete == \A m \in serving : {m} \X Ranks(m) \subseteq procs

\* The serve processes that run belong to one model.
Alone == \A m, n \in Running : m = n

\* Startup: a model seen healthy is the one that runs, and what runs when no
\* profile is adopted is still to be cleaned up.
ServeBoot ==
    /\ boot = "probe" => \A h \in healthy : Running \subseteq {h}
    /\ boot = "cleanup" => Running \subseteq SetOf(probes)

\* Between swaps, and in a swap up to its first launch, only the active profile
\* runs.
ServeClaimed ==
    boot \in {"orphans", "restore", "up"} /\ (\A t \in Tasks : pc[t] \notin {"launch", "wait"})
        => Running \subseteq Claimed

\* In a swap, what runs is the target's or still to be stopped.
ServeSwap ==
    \A t \in Tasks :
        /\ pc[t] = "stop_current" => Running \subseteq outgoing[t] \cup ModelSet(target[t])
        /\ pc[t] \in Body \ {"stop_current"} => Running \subseteq ModelSet(target[t])
        /\ pc[t] \in {"verify", "stop_own", "launch", "wait"} => todo[t] = ModelsOf[target[t]]

ServeInv ==
    /\ Complete
    /\ Alone
    /\ ServeBoot
    /\ ServeClaimed
    /\ ServeSwap

\* The model of a profile that has one.
LEMMA TheModel ==
    ASSUME OneModelPerProfile, NEW p \in Profiles
    PROVE  /\ Head(ModelsOf[p]) \in Models
           /\ ModelSet(p) = {Head(ModelsOf[p])}
           /\ Len(ModelsOf[p]) = 1
<1>1. ModelsOf[p] \in Seq(Models) /\ ModelsOf[p] # <<>> /\ SetOf(ModelsOf[p]) = ModelSet(p)
  BY Catalog
<1>. QED BY <1>1, HeadAndTail DEF OneModelPerProfile

\* _stop_spark_serve(m), when it reaches every node, leaves no process of m.
LEMMA StopServeEnds ==
    ASSUME TypeOK, "kill" \notin Faults, Complete, NEW m \in Models, StopServe(m)
    PROVE  /\ Running' \subseteq Running \ {m}
           /\ Complete'
<1>1. 0 \in Ranks(m)
  BY Catalog DEF Ranks
<1>2. procs' = procs \ ({m} \X Ranks(m)) /\ serving' = serving \ {m}
  BY <1>1 DEF StopServe
<1>3. \A x \in procs : x[1] = m => x \in {m} \X Ranks(m)
  BY DEF TypeOK, Processes
<1>4. Running' \subseteq Running \ {m}
  BY <1>2, <1>3 DEF Running
<1>5. Complete'
  BY <1>2 DEF Complete, Ranks
<1>. QED BY <1>4, <1>5

\* A model that serves is one that runs.
LEMMA ServingRuns ==
    ASSUME TypeOK, Complete
    PROVE  serving \subseteq Running
<1>. SUFFICES ASSUME NEW m \in serving PROVE m \in Running
  OBVIOUS
<1>1. 0 \in Ranks(m)
  BY Catalog DEF TypeOK, Ranks
<1>2. <<m, 0>> \in procs
  BY <1>1 DEF Complete
<1>. QED BY <1>2 DEF Running

\* Fewer processes, or the same, do no harm by themselves.
LEMMA FewerServes ==
    ASSUME ServeInv, Complete', Running' \subseteq Running,
           UNCHANGED <<active_profile, pc, target, outgoing, todo, boot, probes, healthy>>
    PROVE  ServeInv'
<1>1. Alone' /\ ServeBoot'
  BY DEF ServeInv, Alone, ServeBoot, SetOf
<1>2. ServeClaimed'
  BY DEF ServeInv, ServeClaimed, Claimed, ModelSet
<1>3. ServeSwap'
  BY DEF ServeInv, ServeSwap, ModelSet
<1>. QED BY <1>1, <1>2, <1>3 DEF ServeInv

\* A step of the task inside the swap that moves it to phase x: the others are
\* elsewhere, and startup is over or waits for it.
LEMMA SwapServes ==
    ASSUME IInv, ServeInv, NEW t \in Tasks, pc[t] \in Body \/ (pc[t] = "queued" /\ LockFree),
           NEW x, pc' = [pc EXCEPT ![t] = x],
           UNCHANGED <<active_profile, target, startup>>,
           Complete', Alone',
           x \in Body,
           x = "stop_current" => Running' \subseteq outgoing'[t] \cup ModelSet(target[t]),
           x # "stop_current" => Running' \subseteq ModelSet(target[t]),
           x \in {"verify", "stop_own", "launch", "wait"} => todo'[t] = ModelsOf[target[t]],
           x \notin {"launch", "wait"} => Running' \subseteq Claimed
    PROVE  ServeInv'
<1>1. pc \in [Tasks -> {"idle", "queued"} \cup Body]
  BY DEF IInv, TypeOK
<1>2. pc'[t] = x /\ \A u \in Tasks : u # t => pc'[u] = pc[u] /\ pc[u] \notin Body
  BY <1>1, Sole DEF IInv
<1>3. ServeBoot'
  <2>1. boot \notin {"probe", "orphans", "cleanup"}
    BY DEF IInv, Startup, Body
  <2>. QED BY <2>1 DEF ServeBoot, startup
<1>4. ServeClaimed'
  BY <1>2 DEF ServeClaimed, Claimed, ModelSet
<1>5. ServeSwap'
  <2>. SUFFICES ASSUME NEW u \in Tasks, pc'[u] \in Body
                PROVE  /\ pc'[u] = "stop_current" => Running' \subseteq outgoing'[u] \cup ModelSet(target[u])
                       /\ pc'[u] # "stop_current" => Running' \subseteq ModelSet(target[u])
                       /\ pc'[u] \in {"verify", "stop_own", "launch", "wait"} => todo'[u] = ModelsOf[target[u]]
    BY DEF ServeSwap, ModelSet, Body
  <2>1. u = t
    BY <1>2
  <2>. QED BY <2>1, <1>2
<1>. QED BY <1>3, <1>4, <1>5 DEF ServeInv

\* The task leaves the swap, with the processes as they were.
LEMMA LeaveServes ==
    ASSUME IInv, ServeInv, NEW t \in Tasks, pc[t] \in Body \/ (pc[t] = "queued" /\ LockFree),
           NEW r, Return(t, r), UNCHANGED <<startup, world>>,
           Running \subseteq Claimed'
    PROVE  ServeInv'
<1>1. pc \in [Tasks -> {"idle", "queued"} \cup Body]
  BY DEF IInv, TypeOK
<1>2. pc'[t] = "idle" /\ \A u \in Tasks : u # t => pc'[u] = pc[u] /\ pc[u] \notin Body
  BY <1>1, Sole DEF IInv, Return
<1>3. Running' = Running /\ Complete' /\ Alone'
  BY DEF ServeInv, Complete, Alone, Running, world
<1>4. ServeBoot'
  BY <1>3 DEF ServeInv, ServeBoot, startup, SetOf
<1>5. ServeClaimed'
  BY <1>3 DEF ServeClaimed
<1>6. ServeSwap'
  BY <1>2 DEF ServeSwap, Body
<1>. QED BY <1>3, <1>4, <1>5, <1>6 DEF ServeInv

\* BeginModel at the target's only model, and BeginRest before it.
LEMMA BeginModelServes ==
    ASSUME IInv, ServeInv, NEW t \in Tasks, pc[t] \in Body \/ (pc[t] = "queued" /\ LockFree),
           NEW cs, BeginModel(t, ModelsOf[target[t]], cs),
           UNCHANGED <<active_profile, target, startup>>,
           Complete', Running' \subseteq Running,
           Running' \subseteq ModelSet(target[t]), Running' \subseteq Claimed
    PROVE  ServeInv'
<1>1. pc' = [pc EXCEPT ![t] = "verify"] /\ todo'[t] = ModelsOf[target[t]]
  BY DEF BeginModel, IInv, TypeOK
<1>2. Alone'
  BY DEF ServeInv, Alone
<1>. QED BY <1>1, <1>2, SwapServes DEF Body

LEMMA BeginRestServes ==
    ASSUME IInv, ServeInv, NEW t \in Tasks, pc[t] \in Body \/ (pc[t] = "queued" /\ LockFree),
           NEW cs, BeginRest(t, cs),
           UNCHANGED <<active_profile, target, startup>>,
           Complete', Running' \subseteq Running,
           Running' \subseteq ModelSet(target[t]), Running' \subseteq Claimed
    PROVE  ServeInv'
<1>1. CASE BeginModel(t, ModelsOf[target[t]], cs)
  BY <1>1, BeginModelServes
<1>2. CASE pc' = [pc EXCEPT ![t] = "stop_rest"]
  <2>1. Alone'
    BY DEF ServeInv, Alone
  <2>. QED BY <1>2, <2>1, SwapServes DEF Body
<1>. QED BY <1>1, <1>2 DEF BeginRest

\* The task gets the lock.
LEMMA EnterServes ==
    ASSUME IInv, ServeInv, NEW t \in Tasks, Enter(t)
    PROVE  ServeInv'
<1>1. /\ pc[t] = "queued" /\ LockFree
      /\ UNCHANGED <<active_profile, startup, world>>
  BY DEF Enter
<1>2. Running' = Running /\ Complete' /\ Alone'
  BY <1>1 DEF ServeInv, Complete, Alone, Running, world
<1>3. Running \subseteq Claimed
  <2>1. boot \notin {"probe", "orphans", "cleanup"}
    BY <1>1 DEF IInv, Startup
  <2>2. boot \in {"restore", "up"}
    BY <2>1 DEF IInv, TypeOK
  <2>. QED BY <1>1, <2>2 DEF ServeInv, ServeClaimed, LockFree, Body
<1>4. CASE AlreadyActive(t)
  <2>1. Return(t, "ok")
    BY <1>4 DEF Enter
  <2>2. Claimed' = Claimed
    BY <1>1 DEF Claimed, ModelSet
  <2>. QED BY <1>1, <1>3, <2>1, <2>2, LeaveServes
<1>5. CASE ~AlreadyActive(t)
  <2>1. /\ outgoing' = [outgoing EXCEPT ![t] = Outgoing(target[t])]
        /\ target' = target
    BY <1>5 DEF Enter
  <2>2. outgoing'[t] = Outgoing(target[t])
    BY <2>1 DEF IInv, TypeOK
  <2>3. Running \subseteq Outgoing(target[t]) \cup ModelSet(target[t])
    BY <1>3 DEF Claimed, Outgoing
  <2>4. CASE Outgoing(target[t]) = {}
    <3>1. BeginRest(t, container_states)
      BY <1>5, <2>4 DEF Enter
    <3>. QED BY <1>1, <1>2, <1>3, <2>1, <2>3, <2>4, <3>1, BeginRestServes
  <2>5. CASE Outgoing(target[t]) # {}
    <3>1. pc' = [pc EXCEPT ![t] = "stop_current"]
      BY <1>5, <2>5 DEF Enter
    <3>. QED BY <1>1, <1>2, <1>3, <2>1, <2>2, <2>3, <3>1, SwapServes DEF Body
  <2>. QED BY <2>4, <2>5
<1>. QED BY <1>4, <1>5

\* What runs in a swap that has not launched anything.
LEMMA BeforeLaunch ==
    ASSUME IInv, ServeInv, NEW t \in Tasks,
           pc[t] \in {"stop_current", "stop_rest", "verify", "stop_own"}
    PROVE  Running \subseteq Claimed
<1>1. \A u \in Tasks : pc[u] \notin {"launch", "wait"}
  BY Sole DEF IInv, Body
<1>2. boot \notin {"probe", "orphans", "cleanup"}
  BY DEF IInv, Startup
<1>3. boot \in {"restore", "up"}
  BY <1>2 DEF IInv, TypeOK
<1>. QED BY <1>1, <1>3 DEF ServeInv, ServeClaimed

\* _teardown_current stops an outgoing model.
LEMMA StopCurrentServes ==
    ASSUME "kill" \notin Faults, IInv, ServeInv, NEW t \in Tasks, StopCurrent(t)
    PROVE  ServeInv'
<1>1. /\ pc[t] = "stop_current" /\ pc[t] \in Body
      /\ UNCHANGED <<active_profile, target, startup>>
  BY DEF StopCurrent, Body
<1>2. Running \subseteq Claimed /\ Running \subseteq outgoing[t] \cup ModelSet(target[t])
  BY <1>1, BeforeLaunch DEF ServeInv, ServeSwap
<1>3. PICK m \in outgoing[t] :
        /\ StopServe(m)
        /\ outgoing' = [outgoing EXCEPT ![t] = @ \ {m}]
        /\ LET cs == [container_states EXCEPT ![ContainerOf[m]] = "stopped"] IN
           IF outgoing[t] = {m}
             THEN BeginRest(t, cs)
             ELSE container_states' = cs /\ UNCHANGED <<pc, rest, todo>>
  BY DEF StopCurrent
<1>4. m \in Models /\ outgoing'[t] = outgoing[t] \ {m}
  BY <1>3 DEF IInv, TypeOK
<1>5. Running' \subseteq Running \ {m} /\ Complete'
  BY <1>3, <1>4, StopServeEnds DEF IInv, ServeInv
<1>6. CASE outgoing[t] = {m}
  BY <1>1, <1>2, <1>3, <1>5, <1>6, BeginRestServes
<1>7. CASE outgoing[t] # {m}
  <2>1. pc' = [pc EXCEPT ![t] = "stop_current"]
    BY <1>1, <1>3, <1>7 DEF IInv, TypeOK
  <2>2. Alone'
    BY <1>5 DEF ServeInv, Alone
  <2>. QED BY <1>1, <1>2, <1>4, <1>5, <2>1, <2>2, SwapServes DEF Body
<1>. QED BY <1>6, <1>7

\* _teardown_current stops a container that the target does not use.
LEMMA StopRestServes ==
    ASSUME "kill" \notin Faults, IInv, ServeInv, NEW t \in Tasks, StopRest(t)
    PROVE  ServeInv'
<1>1. /\ pc[t] = "stop_rest" /\ pc[t] \in Body
      /\ UNCHANGED <<active_profile, target, startup>>
  BY DEF StopRest, Body
<1>2. Running \subseteq Claimed /\ Running \subseteq ModelSet(target[t])
  BY <1>1, BeforeLaunch DEF ServeInv, ServeSwap
<1>3. PICK c \in rest[t], m \in Models :
        /\ StopServe(m)
        /\ LET cs == [container_states EXCEPT ![c] = "stopped"] IN
           IF rest[t] = {c}
             THEN BeginModel(t, ModelsOf[target[t]], cs)
             ELSE container_states' = cs /\ UNCHANGED <<pc, todo>>
  BY DEF StopRest
<1>4. Running' \subseteq Running /\ Complete'
  BY <1>3, StopServeEnds DEF IInv, ServeInv
<1>5. CASE rest[t] = {c}
  BY <1>1, <1>2, <1>3, <1>4, <1>5, BeginModelServes
<1>6. CASE rest[t] # {c}
  <2>1. pc' = [pc EXCEPT ![t] = "stop_rest"]
    BY <1>1, <1>3, <1>6 DEF IInv, TypeOK
  <2>2. Alone'
    BY <1>4 DEF ServeInv, Alone
  <2>. QED BY <1>1, <1>2, <1>4, <2>1, <2>2, SwapServes DEF Body
<1>. QED BY <1>5, <1>6

\* The check of the cluster passes, or ends the swap before anything is launched.
LEMMA VerifyServes ==
    ASSUME IInv, ServeInv, NEW t \in Tasks, Verify(t)
    PROVE  ServeInv'
<1>1. /\ pc[t] = "verify" /\ pc[t] \in Body
      /\ UNCHANGED <<active_profile, startup, world>>
  BY DEF Verify, Body
<1>2. Running \subseteq Claimed /\ Running \subseteq ModelSet(target[t]) /\ todo[t] = ModelsOf[target[t]]
  BY <1>1, BeforeLaunch DEF ServeInv, ServeSwap
<1>3. Running' = Running /\ Complete' /\ Alone'
  BY <1>1 DEF ServeInv, Complete, Alone, Running, world
<1>4. CASE pc' = [pc EXCEPT ![t] = "stop_own"] /\ target' = target /\ todo' = todo
  BY <1>1, <1>2, <1>3, <1>4, SwapServes DEF Body
<1>5. CASE Fail(t)
  <2>1. Claimed' = Claimed
    BY <1>1 DEF Claimed, ModelSet
  <2>. QED BY <1>1, <1>2, <1>5, <2>1, LeaveServes DEF Fail
<1>. QED BY <1>4, <1>5 DEF Verify

\* What is left of the target's model is stopped.
LEMMA StopOwnServes ==
    ASSUME "kill" \notin Faults, OneModelPerProfile, IInv, ServeInv, NEW t \in Tasks, StopOwn(t)
    PROVE  ServeInv'
<1>1. /\ pc[t] = "stop_own" /\ pc[t] \in Body
      /\ StopServe(Head(todo[t]))
      /\ pc' = [pc EXCEPT ![t] = "launch"]
      /\ UNCHANGED <<active_profile, target, todo, startup>>
  BY DEF StopOwn, Body, memory
<1>2. Running \subseteq ModelSet(target[t]) /\ todo[t] = ModelsOf[target[t]]
  BY <1>1 DEF ServeInv, ServeSwap
<1>3. Head(todo[t]) \in Models
  BY <1>2, TheModel DEF IInv, TypeOK
<1>4. Running' \subseteq Running /\ Complete'
  BY <1>1, <1>3, StopServeEnds DEF IInv, ServeInv
<1>5. Alone'
  BY <1>4 DEF ServeInv, Alone
<1>. QED BY <1>1, <1>2, <1>4, <1>5, SwapServes DEF Body

\* A rank of the target's model is launched.
LEMMA LaunchServes ==
    ASSUME "launch" \notin Faults, OneModelPerProfile, IInv, ServeInv, NEW t \in Tasks, Launch(t)
    PROVE  ServeInv'
<1>. DEFINE m == Head(todo[t])
<1>1. /\ pc[t] = "launch" /\ pc[t] \in Body
      /\ procs' \in {procs, procs \cup {<<m, rank[t]>>}}
      /\ AfterLaunch(t)
      /\ UNCHANGED <<active_profile, target, serving, startup>>
  BY DEF Launch, Body
<1>2. Running \subseteq ModelSet(target[t]) /\ todo[t] = ModelsOf[target[t]]
  BY <1>1 DEF ServeInv, ServeSwap
<1>3. ModelSet(target[t]) = {m} /\ Len(todo[t]) = 1
  BY <1>2, TheModel DEF IInv, TypeOK
<1>4. Running' \subseteq Running \cup {m}
  BY <1>1 DEF Running
<1>5. Running' \subseteq ModelSet(target[t]) /\ Alone'
  BY <1>2, <1>3, <1>4 DEF Alone
<1>6. Complete'
  BY <1>1 DEF ServeInv, Complete, Ranks
<1>7. CASE rank[t] > 0
  <2>1. pc' = [pc EXCEPT ![t] = "launch"] /\ todo' = todo
    BY <1>1, <1>7 DEF AfterLaunch, IInv, TypeOK
  <2>. QED BY <1>1, <1>2, <1>5, <1>6, <2>1, SwapServes DEF Body
<1>8. CASE ~(rank[t] > 0)
  <2>1. pc' = [pc EXCEPT ![t] = "wait"] /\ todo'[t] = ModelsOf[target[t]]
    BY <1>1, <1>3, <1>8 DEF AfterLaunch, IInv, TypeOK
  <2>. QED BY <1>1, <1>5, <1>6, <2>1, SwapServes DEF Body
<1>. QED BY <1>7, <1>8

\* The wait ends, by an answer or by the timeout, and the profile is claimed.
LEMMA ClaimServes ==
    ASSUME OneModelPerProfile, IInv, ServeInv, NEW t \in Tasks, Answer(t) \/ Timeout(t)
    PROVE  ServeInv'
<1>1. /\ pc[t] = "wait" /\ pc[t] \in Body
      /\ UNCHANGED <<startup, world>>
  BY DEF Answer, Timeout, Body
<1>2. Running \subseteq ModelSet(target[t]) /\ todo[t] = ModelsOf[target[t]]
  BY <1>1 DEF ServeInv, ServeSwap
<1>3. target[t] \in Profiles /\ target[t] # NoProfile /\ Len(todo[t]) = 1
  BY <1>2, TheModel, Catalog DEF IInv, TypeOK
<1>4. \E cs : Claim(t, cs)
  BY <1>3 DEF Answer, Timeout
<1>5. Return(t, "ok") /\ active_profile' = target[t]
  BY <1>4 DEF Claim
<1>6. Claimed' = ModelSet(target[t])
  BY <1>3, <1>5 DEF Claimed, ModelSet
<1>. QED BY <1>1, <1>2, <1>5, <1>6, LeaveServes

\* switch_profile is called.
LEMMA CallServes ==
    ASSUME IInv, ServeInv, NEW t \in Tasks, NEW p, NEW f, Call(t, p, f),
           UNCHANGED <<active_profile, probes, healthy>>,
           Complete', Running' \subseteq Running,
           boot' = boot \/ (boot' = "restore" /\ Running' = {})
    PROVE  ServeInv'
<1>1. /\ pc[t] = "idle" /\ pc' = [pc EXCEPT ![t] = "queued"]
      /\ target' = [target EXCEPT ![t] = p]
      /\ UNCHANGED <<outgoing, todo>>
  BY DEF Call
<1>2. /\ pc'[t] = "queued"
      /\ \A u \in Tasks : u # t => pc'[u] = pc[u] /\ target'[u] = target[u]
  BY <1>1 DEF IInv, TypeOK
<1>3. Alone'
  BY DEF ServeInv, Alone
<1>4. ServeBoot'
  BY DEF ServeInv, ServeBoot, SetOf
<1>5. ServeClaimed'
  <2>1. (\A u \in Tasks : pc'[u] \notin {"launch", "wait"})
          => \A u \in Tasks : pc[u] \notin {"launch", "wait"}
    BY <1>1, <1>2
  <2>2. Claimed' = Claimed
    BY DEF Claimed, ModelSet
  <2>. QED BY <2>1, <2>2 DEF ServeInv, ServeClaimed
<1>6. ServeSwap'
  <2>. SUFFICES ASSUME NEW u \in Tasks, pc'[u] \in Body
                PROVE  /\ pc'[u] = "stop_current" => Running' \subseteq outgoing[u] \cup ModelSet(target[u])
                       /\ pc'[u] # "stop_current" => Running' \subseteq ModelSet(target[u])
                       /\ pc'[u] \in {"verify", "stop_own", "launch", "wait"} => todo[u] = ModelsOf[target[u]]
                       /\ target'[u] = target[u]
    BY <1>1 DEF ServeSwap, ModelSet, Body
  <2>1. u # t
    BY <1>2 DEF Body
  <2>2. pc'[u] = pc[u] /\ target'[u] = target[u]
    BY <1>2, <2>1
  <2>. QED BY <2>2 DEF ServeInv, ServeSwap
<1>. QED BY <1>3, <1>4, <1>5, <1>6 DEF ServeInv

LEMMA AskServes ==
    ASSUME IInv, ServeInv, NEW t \in Callers, AskAdmin(t) \/ AskRequest(t)
    PROVE  ServeInv'
<1>1. (\E p, f : Call(t, p, f)) /\ UNCHANGED <<memory, startup, world>>
  BY DEF AskAdmin, AskRequest
<1>2. t \in Tasks
  BY DEF Tasks
<1>3. Complete' /\ Running' = Running
  BY <1>1 DEF ServeInv, Complete, Running, world
<1>. QED BY <1>1, <1>2, <1>3, CallServes DEF memory, startup

\* A health probe at startup, and the adoption after the last one.
LEMMA BootProbeServes ==
    ASSUME OneModelPerProfile, IInv, ServeInv, BootProbe
    PROVE  ServeInv'
<1>1. boot = "probe" /\ UNCHANGED <<pc, target, outgoing, todo, world>>
  BY DEF BootProbe
<1>2. PICK h :
        /\ h \in {healthy \cup ({Head(probes)} \cap serving), healthy}
        /\ healthy' = h
        /\ IF Len(probes) = 1
             THEN AdoptNone(h) \/ \E p \in Profiles : Adopt(p, h)
             ELSE probes' = Tail(probes) /\ UNCHANGED <<boot, active_profile>>
  BY DEF BootProbe
<1>3. Running' = Running /\ Complete' /\ Alone'
  BY <1>1 DEF ServeInv, Complete, Alone, Running, world
<1>4. \A n \in h : Running \subseteq {n}
  <2>1. \A n \in healthy : Running \subseteq {n}
    BY <1>1 DEF ServeInv, ServeBoot
  <2>2. \A n \in serving : Running \subseteq {n}
    BY ServingRuns DEF IInv, ServeInv, Alone
  <2>. QED BY <1>2, <2>1, <2>2
<1>5. \A u \in Tasks : pc[u] = "idle"
  BY <1>1 DEF IInv, Startup
<1>6. ServeSwap'
  BY <1>1, <1>5 DEF ServeSwap, Body
<1>7. CASE Len(probes) # 1
  BY <1>1, <1>2, <1>3, <1>4, <1>6, <1>7 DEF ServeInv, ServeBoot, ServeClaimed
<1>8. CASE Len(probes) = 1 /\ AdoptNone(h)
  <2>1. boot' = "cleanup" /\ probes' = AllModels
    BY <1>8 DEF AdoptNone
  <2>2. Running \subseteq Models
    BY DEF IInv, TypeOK, Running, Processes
  <2>3. SetOf(AllModels) = Models
    BY DEF SetOf, Models
  <2>. QED BY <1>3, <1>6, <2>1, <2>2, <2>3 DEF ServeInv, ServeBoot, ServeClaimed
<1>9. ASSUME NEW p \in Profiles, Adopt(p, h) PROVE ServeInv'
  <2>1. active_profile' = p /\ boot' \in {"up", "orphans"} /\ ModelSet(p) \subseteq h
    BY <1>9 DEF Adopt, FirstAdoptable, Adoptable
  <2>2. Running \subseteq ModelSet(p)
    BY <1>4, <2>1, TheModel
  <2>3. Claimed' = ModelSet(p)
    BY <2>1, Catalog DEF Claimed, ModelSet
  <2>. QED BY <1>3, <1>6, <2>1, <2>2, <2>3 DEF ServeInv, ServeBoot, ServeClaimed
<1>. QED BY <1>2, <1>7, <1>8, <1>9

\* The rest of startup, and a crash.
LEMMA BootOrphanServes ==
    ASSUME "kill" \notin Faults, IInv, ServeInv, BootOrphan
    PROVE  ServeInv'
<1>1. /\ boot = "orphans" /\ boot' \in {"orphans", "up"}
      /\ UNCHANGED <<active_profile, pc, target, outgoing, todo>>
      /\ \E m \in Models : StopServe(m)
  BY DEF BootOrphan, memory
<1>2. Running' \subseteq Running /\ Complete'
  BY <1>1, StopServeEnds DEF IInv, ServeInv
<1>3. Alone' /\ ServeBoot'
  BY <1>1, <1>2 DEF ServeInv, Alone, ServeBoot
<1>4. ServeClaimed'
  BY <1>1, <1>2 DEF ServeInv, ServeClaimed, Claimed, ModelSet
<1>5. ServeSwap'
  BY <1>1, <1>2 DEF ServeInv, ServeSwap, ModelSet
<1>. QED BY <1>2, <1>3, <1>4, <1>5 DEF ServeInv

LEMMA BootCleanupServes ==
    ASSUME "kill" \notin Faults, IInv, ServeInv, BootCleanup
    PROVE  ServeInv'
<1>1. /\ boot = "cleanup" /\ StopServe(Head(probes)) /\ probes' = Tail(probes)
      /\ UNCHANGED <<active_profile, healthy>>
  BY DEF BootCleanup, memory
<1>2. /\ Head(probes) \in Models
      /\ SetOf(probes) = {Head(probes)} \cup SetOf(Tail(probes))
      /\ Len(probes) = 1 => SetOf(probes) = {Head(probes)}
  BY <1>1, HeadAndTail DEF IInv, TypeOK, Startup
<1>3. Running' \subseteq Running \ {Head(probes)} /\ Complete'
  BY <1>1, <1>2, StopServeEnds DEF IInv, ServeInv
<1>4. Running \subseteq SetOf(probes)
  BY <1>1 DEF ServeInv, ServeBoot
<1>5. Running' \subseteq SetOf(Tail(probes)) /\ (Len(probes) = 1 => Running' = {})
  BY <1>2, <1>3, <1>4
<1>6. /\ \A u \in Tasks : pc[u] = "idle"
      /\ Alone'
  BY <1>1, <1>3 DEF IInv, Startup, ServeInv, Alone
<1>7. CASE Len(probes) = 1
  <2>1. boot' = "restore" /\ \A u \in Tasks : pc'[u] \in {"idle", "queued"}
    BY <1>6, <1>7 DEF BootCleanup, Call, IInv, TypeOK
  <2>. QED BY <1>3, <1>5, <1>6, <1>7, <2>1
           DEF ServeInv, ServeBoot, ServeClaimed, ServeSwap, Body
<1>8. CASE Len(probes) # 1
  <2>1. boot' = "cleanup" /\ pc' = pc
    BY <1>1, <1>8 DEF BootCleanup, task
  <2>2. SetOf(probes)' = SetOf(Tail(probes))
    BY <1>1 DEF SetOf
  <2>. QED BY <1>3, <1>5, <1>6, <2>1, <2>2 DEF ServeInv, ServeBoot, ServeClaimed, ServeSwap, Body
<1>. QED BY <1>7, <1>8

LEMMA BootDoneServes ==
    ASSUME IInv, ServeInv, BootDone
    PROVE  ServeInv'
<1>1. boot = "restore" /\ boot' = "up" /\ UNCHANGED <<memory, task, world>>
  BY DEF BootDone
<1>2. Running' = Running /\ Complete' /\ Alone'
  BY <1>1 DEF ServeInv, Complete, Alone, Running, world
<1>3. ServeBoot'
  BY <1>1 DEF ServeBoot
<1>4. ServeClaimed' /\ ServeSwap'
  BY <1>1, <1>2 DEF ServeInv, ServeClaimed, ServeSwap, Claimed, ModelSet, memory, task
<1>. QED BY <1>2, <1>3, <1>4 DEF ServeInv

LEMMA CrashServes ==
    ASSUME IInv, ServeInv, Crash
    PROVE  ServeInv'
<1>1. boot' = "probe" /\ healthy' = {} /\ pc' = [t \in Tasks |-> "idle"] /\ UNCHANGED world
  BY DEF Crash, Reset
<1>2. Running' = Running /\ Complete' /\ Alone'
  BY <1>1 DEF ServeInv, Complete, Alone, Running, world
<1>. QED BY <1>1, <1>2 DEF ServeInv, ServeBoot, ServeClaimed, ServeSwap, Body

\* A model comes up, or one of its processes dies.
LEMMA WorldServes ==
    ASSUME IInv, ServeInv, NEW m \in Models, Load(m) \/ Die(m)
    PROVE  ServeInv'
<1>1. UNCHANGED <<memory, task, startup>>
  BY DEF Load, Die
<1>2. Running' \subseteq Running
  BY DEF Load, Die, Running
<1>3. CASE Load(m)
  <2>1. Complete'
    BY <1>3 DEF Load, ServeInv, Complete, Ranks
  <2>. QED BY <1>1, <1>2, <2>1, FewerServes DEF memory, task, startup
<1>4. CASE Die(m)
  <2>1. PICK r \in Ranks(m) : procs' = procs \ {<<m, r>>} /\ serving' = serving \ {m}
    BY <1>4 DEF Die
  <2>2. Complete'
    BY <2>1 DEF ServeInv, Complete, Ranks
  <2>. QED BY <1>1, <1>2, <2>2, FewerServes DEF memory, task, startup
<1>. QED BY <1>3, <1>4

\* ServeInv holds from the start and in every step.
LEMMA ServeInvariance ==
    ASSUME "kill" \notin Faults, "launch" \notin Faults, OneModelPerProfile
    PROVE  /\ Init => ServeInv
           /\ IInv /\ ServeInv /\ [Next]_vars => ServeInv'
<1>1. Init => ServeInv
  BY DEF Init, ServeInv, Complete, Alone, ServeBoot, ServeClaimed, ServeSwap, Running, Body
<1>2. IInv /\ ServeInv /\ [Next]_vars => ServeInv'
  <2>. SUFFICES ASSUME IInv, ServeInv, [Next]_vars PROVE ServeInv'
    OBVIOUS
  <2>1. ASSUME NEW t \in Tasks, Swap(t) PROVE ServeInv'
    BY <2>1, EnterServes, StopCurrentServes, StopRestServes, VerifyServes, StopOwnServes,
       LaunchServes, ClaimServes DEF Swap
  <2>2. ASSUME Boot PROVE ServeInv'
    BY <2>2, BootProbeServes, BootOrphanServes, BootCleanupServes, BootDoneServes DEF Boot
  <2>3. CASE UNCHANGED vars
    <3>1. Complete' /\ Running' = Running
      BY <2>3 DEF ServeInv, Complete, Running, vars, world
    <3>. QED BY <2>3, <3>1, FewerServes DEF vars, memory, task, startup
  <2>. QED BY <2>1, <2>2, <2>3, AskServes, CrashServes, WorldServes DEF Next
<1>. QED BY <1>1, <1>2

\* Stopping by identity works although all models share one container and the
\* gateway crashes, swaps fail their check, starts get lost and probes time out:
\* between swaps no serve process of another profile runs.  Stop and start
\* commands are assumed to arrive, and a profile to have one model, as in
\* gateway/config.py.
THEOREM OnlyTheActiveProfileRuns ==
    ASSUME "kill" \notin Faults, "launch" \notin Faults, OneModelPerProfile
    PROVE  Spec => []NoForeignServe
<1>1. (Init => ServeInv) /\ (IInv /\ ServeInv /\ [Next]_vars => ServeInv')
  BY ServeInvariance
<1>2. IInv /\ ServeInv => NoForeignServe
  <2>. SUFFICES ASSUME IInv, ServeInv, boot = "up", ~swap_in_progress
                PROVE  Running \subseteq Claimed
    BY DEF NoForeignServe, Claimed
  <2>. QED BY DEF IInv, ServeInv, ServeClaimed, SwapsExclude, Body
<1>. QED BY <1>1, <1>2, Invariance, PTL DEF Spec

\* Under the same assumptions a swap that claims its profile, on answers or at
\* the end of its wait, has no serve process of another profile beside it
\* (_claim at the end of switch_profile).  What a start that raises leaves
\* behind is the exception that the assumption on "launch" makes.
THEOREM SwapsClaimAlone ==
    ASSUME "kill" \notin Faults, "launch" \notin Faults, OneModelPerProfile
    PROVE  Spec => ClaimsAlone
<1>1. (Init => ServeInv) /\ (IInv /\ ServeInv /\ [Next]_vars => ServeInv')
  BY ServeInvariance
<1>2. IInv /\ ServeInv /\ [Next]_vars => [ClaimStep]_vars
  <2>. SUFFICES ASSUME IInv, ServeInv, Next, NEW t \in Tasks, pc[t] = "wait", pc'[t] = "idle"
                PROVE  Running' \subseteq ModelSet(target[t])
    BY DEF ClaimStep
  <2>1. Running \subseteq ModelSet(target[t])
    BY DEF ServeInv, ServeSwap, Body
  <2>2. pc[t] \in Body /\ \A u \in Tasks : u # t => pc[u] \notin Body
    BY Sole DEF IInv, Body
  <2>3. procs' = procs
    <3>1. ASSUME NEW u \in Tasks, Swap(u) PROVE procs' = procs
      <4>1. pc[u] \in Body
        BY <2>2, <3>1 DEF Swap, Enter, StopCurrent, StopRest, Verify, StopOwn, Launch, Answer,
                          Timeout, Body, LockFree
      <4>2. u = t
        BY <2>2, <4>1
      <4>. QED BY <3>1, <4>2 DEF Swap, Enter, StopCurrent, StopRest, Verify, StopOwn, Launch,
                                Answer, Timeout, world
    <3>2. CASE Crash
      BY <3>2 DEF Crash, world
    <3>3. CASE Boot
      <4>1. boot \notin {"probe", "orphans", "cleanup"}
        BY <2>2 DEF IInv, Startup, Body
      <4>. QED BY <3>3, <4>1 DEF Boot, BootProbe, BootOrphan, BootCleanup, BootDone, world
    <3>4. ASSUME NEW u \in Callers, AskAdmin(u) \/ AskRequest(u) PROVE procs' = procs
      BY <3>4 DEF AskAdmin, AskRequest, world
    <3>5. ASSUME NEW m \in Models PROVE ~(Load(m) \/ Die(m))
      <4>1. Load(m) \/ Die(m) => pc' = pc
        BY DEF Load, Die, task
      <4>. QED BY <4>1
    <3>. QED BY <3>1, <3>2, <3>3, <3>4, <3>5 DEF Next
  <2>. QED BY <2>1, <2>3 DEF Running
<1>. QED BY <1>1, <1>2, Invariance, PTL DEF Spec, ClaimsAlone

-----------------------------------------------------------------------------
(* What a restart makes of the state file *)

\* No model is of two profiles, as in gateway/config.py.
OwnModels == \A p, q \in Profiles : p # q => ModelSet(p) \cap ModelSet(q) = {}

\* The profile a restart without an adoption restores.
Resumed == IF persisted \in Profiles THEN persisted ELSE Default

\* The call of startup is for that profile, and nobody else calls before it ends.
Restoring ==
    boot = "restore" => \A t \in Tasks : pc[t] # "idle" => t = Lifespan /\ target[t] = Resumed

\* A task moves on in switch_profile, or leaves it, having claimed its profile
\* or not.
LEMMA SwapRestores ==
    ASSUME IInv, Restoring, NEW t \in Tasks, Swap(t)
    PROVE  /\ Restoring'
           /\ active_profile' # active_profile => active_profile' = target[t] /\ pc[t] # "idle"
           /\ boot' = boot
<1>. USE DEF IInv, TypeOK
<1>1. boot' = boot /\ pc[t] # "idle"
  BY DEF Swap, Enter, StopCurrent, StopRest, Verify, StopOwn, Launch, Answer, Timeout, startup
<1>2. \A u \in Tasks : u # t => pc'[u] = pc[u]
  <2>1. CASE Enter(t)
    BY <2>1 DEF Enter, Return, BeginRest, BeginModel
  <2>2. CASE StopCurrent(t) \/ StopRest(t)
    BY <2>2 DEF StopCurrent, StopRest, BeginRest, BeginModel
  <2>3. CASE Verify(t) \/ StopOwn(t)
    BY <2>3 DEF Verify, StopOwn, Fail, Return
  <2>4. CASE Launch(t)
    BY <2>4 DEF Launch, AfterLaunch, BeginModel, Fail, Return
  <2>5. CASE Answer(t) \/ Timeout(t)
    BY <2>5 DEF Answer, Timeout, Claim, Return
  <2>. QED BY <2>1, <2>2, <2>3, <2>4, <2>5 DEF Swap
<1>3. (\E r : Return(t, r)) \/ UNCHANGED <<target, persisted>>
  BY DEF Swap, Enter, StopCurrent, StopRest, Verify, StopOwn, Launch, Answer, Timeout, Claim, Fail
<1>4. active_profile' # active_profile => active_profile' = target[t]
  BY DEF Swap, Enter, StopCurrent, StopRest, Verify, StopOwn, Launch, Answer, Timeout, Claim, memory
<1>5. CASE \E r : Return(t, r)
  <2>1. pc'[t] = "idle"
    BY <1>5 DEF Return
  <2>. QED BY <1>1, <1>2, <1>4, <2>1 DEF Restoring
<1>6. CASE UNCHANGED <<target, persisted>>
  BY <1>1, <1>2, <1>4, <1>6 DEF Restoring, Resumed
<1>. QED BY <1>3, <1>5, <1>6

\* Every other step keeps Restoring, and activates a profile only by adopting it.
LEMMA OthersRestore ==
    ASSUME IInv, Restoring, [Next]_vars, \A t \in Tasks : ~Swap(t)
    PROVE  /\ Restoring'
           /\ active_profile' \in {active_profile, NoProfile} \/ BootProbe
<1>1. CASE BootProbe \/ BootOrphan
  BY <1>1 DEF BootProbe, AdoptNone, Adopt, BootOrphan, Restoring, memory
<1>2. CASE BootCleanup
  <2>1. boot = "cleanup" /\ active_profile' = active_profile /\ persisted' = persisted
    BY <1>2 DEF BootCleanup, memory
  <2>2. CASE Len(probes) = 1
    <3>1. Call(Lifespan, Resumed, FALSE)
      BY <1>2, <2>2 DEF BootCleanup, Resumed
    <3>2. \A t \in Tasks : t # Lifespan => pc'[t] = "idle"
      BY <2>1, <3>1 DEF Call, IInv, TypeOK, Startup
    <3>3. target'[Lifespan] = Resumed
      BY <3>1 DEF Call, IInv, TypeOK, Tasks
    <3>. QED BY <2>1, <3>2, <3>3 DEF Restoring, Resumed
  <2>3. CASE Len(probes) # 1
    BY <1>2, <2>1, <2>3 DEF BootCleanup, Restoring
  <2>. QED BY <2>2, <2>3
<1>3. CASE BootDone
  BY <1>3 DEF BootDone, Restoring, memory
<1>4. CASE Crash
  BY <1>4 DEF Crash, Reset, Restoring
<1>5. ASSUME NEW t \in Callers, AskAdmin(t) \/ AskRequest(t)
      PROVE  Restoring' /\ active_profile' = active_profile
  BY <1>5 DEF AskAdmin, AskRequest, Restoring, memory, startup
<1>6. ASSUME NEW m \in Models, Load(m) \/ Die(m)
      PROVE  Restoring' /\ active_profile' = active_profile
  BY <1>6 DEF Load, Die, Restoring, Resumed, memory, task, startup
<1>7. CASE UNCHANGED vars
  BY <1>7 DEF vars, Restoring, Resumed, memory, task, startup
<1>. QED BY <1>1, <1>2, <1>3, <1>4, <1>5, <1>6, <1>7 DEF Next, Boot

\* A restart makes the claimed profile active again, by adopting or by restoring
\* it, and passes over it only where its model does not serve: models share a
\* container and probes time out, but what a probe saw serve is the only one that
\* runs, so another profile cannot be taken for it.  Stop and start commands are
\* assumed to arrive, and a profile to have one model of its own.
THEOREM RestartsResume ==
    ASSUME "kill" \notin Faults, "launch" \notin Faults, OneModelPerProfile, OwnModels
    PROVE  Spec => ResumesClaimed
<1>1. (Init => ServeInv) /\ (IInv /\ ServeInv /\ [Next]_vars => ServeInv')
  BY ServeInvariance
<1>2. Init => Restoring
  BY DEF Init, Restoring
<1>3. IInv /\ Restoring /\ [Next]_vars => Restoring'
  BY SwapRestores, OthersRestore
<1>4. IInv /\ ServeInv /\ Restoring /\ [Next]_vars => [ResumeStep]_vars
  <2>. SUFFICES ASSUME IInv, ServeInv, Restoring, Next, boot # "up",
                       active_profile = NoProfile, active_profile' # NoProfile
                PROVE  \/ active_profile' = Resumed
                       \/ boot = "probe" /\ (persisted \in Profiles => ~(ModelSet(persisted) \subseteq serving))
    BY DEF ResumeStep, Resumed
  <2>1. ASSUME NEW t \in Tasks, Swap(t) PROVE active_profile' = Resumed
    <3>1. active_profile' = target[t] /\ pc[t] # "idle"
      BY <2>1, SwapRestores
    <3>2. boot = "restore"
      BY <3>1 DEF IInv, Startup, TypeOK
    <3>. QED BY <3>1, <3>2 DEF Restoring
  <2>2. ASSUME BootProbe, persisted \in Profiles, active_profile' # persisted
        PROVE  ~(ModelSet(persisted) \subseteq serving)
    <3>0. PICK h :
            /\ h \in {healthy \cup ({Head(probes)} \cap serving), healthy}
            /\ IF Len(probes) = 1
                 THEN AdoptNone(h) \/ \E p \in Profiles : Adopt(p, h)
                 ELSE active_profile' = active_profile
      BY <2>2 DEF BootProbe
    <3>1. PICK p \in Profiles : Adopt(p, h)
      BY <3>0 DEF AdoptNone
    <3>2. active_profile' = p /\ ModelSet(p) \subseteq h
      BY <3>1 DEF Adopt, FirstAdoptable, Adoptable
    <3>3. \A n \in h : Running \subseteq {n}
      <4>1. \A n \in healthy : Running \subseteq {n}
        BY <2>2 DEF BootProbe, ServeInv, ServeBoot
      <4>2. \A n \in serving : Running \subseteq {n}
        BY ServingRuns DEF IInv, ServeInv, Alone
      <4>. QED BY <3>0, <4>1, <4>2
    <3>4. SUFFICES ASSUME ModelSet(persisted) \subseteq serving PROVE FALSE
      OBVIOUS
    <3>5. PICK a \in ModelSet(persisted), b \in ModelSet(p) : TRUE
      BY <2>2, TheModel
    <3>6. a \in Running
      BY <3>4, <3>5, ServingRuns DEF IInv, ServeInv
    <3>7. a = b
      BY <3>2, <3>3, <3>5, <3>6
    <3>. QED BY <2>2, <3>2, <3>5, <3>7 DEF OwnModels
  <2>3. boot = "probe" \/ ~BootProbe
    BY DEF BootProbe
  <2>4. CASE \E t \in Tasks : Swap(t)
    BY <2>1, <2>4
  <2>5. CASE BootProbe
    BY <2>2, <2>3, <2>5 DEF Resumed
  <2>. QED BY <2>4, <2>5, OthersRestore
<1>. QED BY <1>1, <1>2, <1>3, <1>4, Invariance, PTL DEF Spec, ResumesClaimed
=============================================================================
