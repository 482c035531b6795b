--------------------------- MODULE WorkloadsProofs ---------------------------
(***************************************************************************)
(* Theorems about Workloads for every set of workloads, every choice of    *)
(* profiles, both swap strategies and any number of crashes.  OneHostSpec  *)
(* of MCWorkloads is Workloads' own specification with a host that never   *)
(* changes, its constants left open.                                       *)
(***************************************************************************)
EXTENDS MCWorkloads, Induction, FiniteSetTheorems, TLAPS

\* The states of a workload; where no process exits nothing is ever restarted.
Status == {"none", "created", "running", "paused", "exited"}
          \cup (IF "exit" \in Faults THEN {"restarting"} ELSE {})

\* What runs, or is about to run again by itself.
Alive == {n \in Names : wl[n] \in {"running", "restarting"}}
Paused == {n \in Names : wl[n] = "paused"}

\* What the runtime's calls keep of the type invariant.
RuntimeOK == wl \in [Names -> Status] /\ up \in SUBSET Loaded

-----------------------------------------------------------------------------
(* Sequences *)

\* Taking the head off a sequence.
LEMMA HeadAndTail ==
    ASSUME NEW S, NEW s \in Seq(S), s # <<>>
    PROVE  /\ Head(s) \in S /\ Head(s) \in ToSet(s)
           /\ Tail(s) \in Seq(S)
           /\ ToSet(s) = {Head(s)} \cup ToSet(Tail(s))
<1>1. /\ Len(s) \in Nat \ {0} /\ DOMAIN s = 1..Len(s)
      /\ Head(s) \in S /\ Head(s) = s[1] /\ Tail(s) \in Seq(S)
  OBVIOUS
<1>2. /\ Len(Tail(s)) = Len(s) - 1 /\ DOMAIN Tail(s) = 1..Len(Tail(s))
      /\ \A i \in 1..Len(Tail(s)) : Tail(s)[i] = s[i + 1]
  OBVIOUS
<1>3. ASSUME NEW x \in ToSet(s) PROVE x = Head(s) \/ x \in ToSet(Tail(s))
  <2>1. PICK i \in 1..Len(s) : x = s[i]
    BY <1>1 DEF ToSet
  <2>2. CASE i = 1
    BY <2>1, <2>2, <1>1
  <2>3. CASE i # 1
    <3>1. i - 1 \in 1..Len(Tail(s)) /\ Tail(s)[i - 1] = s[i]
      BY <2>3, <1>1, <1>2
    <3>. QED BY <3>1, <2>1, <1>2 DEF ToSet
  <2>. QED BY <2>2, <2>3
<1>4. ASSUME NEW x \in ToSet(Tail(s)) PROVE x \in ToSet(s)
  <2>1. PICK i \in 1..Len(Tail(s)) : x = Tail(s)[i]
    BY <1>2 DEF ToSet
  <2>2. i + 1 \in 1..Len(s) /\ x = s[i + 1]
    BY <2>1, <1>1, <1>2
  <2>. QED BY <2>2, <1>1 DEF ToSet
<1>5. Head(s) \in ToSet(s)
  BY <1>1 DEF ToSet
<1>. QED BY <1>1, <1>3, <1>4, <1>5

\* The walk over a set of workloads visits each of them and no other.
LEMMA Visits ==
    ASSUME NEW S \in SUBSET Names
    PROVE  SetToSeq(S) \in Seq(Names) /\ ToSet(SetToSeq(S)) = S
<1>. DEFINE n == Cardinality(S)
            g == SetToSeq(S)
<1>1. IsFiniteSet(S)
  BY WorkloadsAssumption, FS_Subset
<1>2. n \in Nat /\ ExistsBijection(1..n, S)
  BY <1>1, FS_CardinalityType
<1>3. \E f \in [1..n -> S] : IsInjective(f)
  BY <1>2 DEF ExistsBijection, Bijection, Injection
<1>4. g \in [1..n -> S] /\ IsInjective(g)
  BY <1>3 DEF SetToSeq
<1>5. g \in Injection(1..n, S)
  BY <1>4 DEF Injection
<1>6. IsFiniteSet(1..n) /\ Cardinality(1..n) = n
  <2>1. Cardinality(1..n) = IF 1 > n THEN 0 ELSE n - 1 + 1
    BY <1>2, FS_Interval
  <2>. QED BY <1>2, <2>1, FS_Interval
<1>7. g \in Surjection(1..n, S)
  BY <1>1, <1>5, <1>6, FS_Injection
<1>8. \A x \in S : \E i \in 1..n : g[i] = x
  BY <1>7 DEF Surjection
<1>9. DOMAIN g = 1..n
  BY <1>4
<1>10. ToSet(g) = S
  <2>. HIDE DEF g
  <2>. QED BY <1>4, <1>8, <1>9 DEF ToSet
<1>11. g \in Seq(Names)
  <2>1. g \in [1..n -> Names]
    BY <1>4
  <2>. HIDE DEF g, n
  <2>. QED BY <1>2, <2>1
<1>. QED BY <1>10, <1>11

-----------------------------------------------------------------------------
(* What the calls of the runtime do *)

\* Stopping and removing: nothing comes up by it, and unless the call is refused
\* the workload no longer runs.
LEMMA StopEffect ==
    ASSUME RuntimeOK, NEW n \in Names, StopWorkload(n) \/ RemoveWorkload(n)
    PROVE  /\ RuntimeOK'
           /\ Alive' \subseteq Alive /\ Paused' \subseteq Paused /\ Loaded' \subseteq Loaded
           /\ "api" \notin Faults => n \notin Alive'
<1>1. \/ UNCHANGED <<wl, up>> /\ "api" \in Faults
      \/ \E s \in {"none", "created", "exited"} : wl' = [wl EXCEPT ![n] = s] /\ up' = up \ {n}
  BY DEF StopWorkload, RemoveWorkload, Call
<1>2. CASE UNCHANGED <<wl, up>> /\ "api" \in Faults
  BY <1>2 DEF RuntimeOK, Alive, Paused, Loaded
<1>3. ASSUME NEW s \in {"none", "created", "exited"}, wl' = [wl EXCEPT ![n] = s], up' = up \ {n}
      PROVE  /\ RuntimeOK'
             /\ Alive' \subseteq Alive /\ Paused' \subseteq Paused /\ Loaded' \subseteq Loaded
             /\ n \notin Alive'
  <2>1. wl' \in [Names -> Status] /\ wl'[n] = s /\ \A m \in Names \ {n} : wl'[m] = wl[m]
    BY <1>3 DEF RuntimeOK, Status
  <2>. QED BY <1>3, <2>1 DEF RuntimeOK, Alive, Paused, Loaded
<1>. QED BY <1>1, <1>2, <1>3

LEMMA PauseEffect ==
    ASSUME RuntimeOK, NEW n \in Names, PauseWorkload(n)
    PROVE  /\ RuntimeOK'
           /\ Alive' \subseteq Alive /\ Loaded' \subseteq Loaded
           /\ "api" \notin Faults /\ "exit" \notin Faults => n \notin Alive'
<1>1. CASE UNCHANGED <<wl, up>> /\ "api" \in Faults
  BY <1>1 DEF RuntimeOK, Alive, Loaded
<1>2. CASE /\ wl' = [wl EXCEPT ![n] = IF @ = "running" THEN "paused" ELSE @]
           /\ up' = up
  <2>1. /\ wl' \in [Names -> Status] /\ wl'[n] = (IF wl[n] = "running" THEN "paused" ELSE wl[n])
        /\ \A m \in Names \ {n} : wl'[m] = wl[m]
    BY <1>2 DEF RuntimeOK, Status
  <2>. QED BY <1>2, <2>1 DEF RuntimeOK, Status, Alive, Loaded
<1>. QED BY <1>1, <1>2 DEF PauseWorkload, Call

\* A workload is resumed, or a call to resume it is refused.
LEMMA UnpauseEffect ==
    ASSUME RuntimeOK, NEW n \in Names, UnpauseWorkload(n)
    PROVE  /\ RuntimeOK' /\ up' = up
           /\ Alive' \subseteq Alive \cup {n} /\ Paused' \subseteq Paused
           /\ Loaded' \subseteq Loaded \cup {n}
<1>1. CASE UNCHANGED <<wl, up>>
  BY <1>1 DEF RuntimeOK, Alive, Paused, Loaded
<1>2. CASE wl' = [wl EXCEPT ![n] = "running"] /\ up' = up
  <2>1. /\ wl' \in [Names -> Status] /\ wl'[n] = "running"
        /\ \A m \in Names \ {n} : wl'[m] = wl[m]
    BY <1>2 DEF RuntimeOK, Status
  <2>. QED BY <1>2, <2>1 DEF RuntimeOK, Alive, Paused, Loaded
<1>. QED BY <1>1, <1>2 DEF UnpauseWorkload, Call

\* A workload is created, or its creation raises.
LEMMA CreateEffect ==
    ASSUME RuntimeOK, NEW n \in Names, Created(n) \/ CreateRaises(n)
    PROVE  /\ RuntimeOK'
           /\ Alive' \subseteq Alive \cup {n} /\ Paused' \subseteq Paused
           /\ Loaded' \subseteq Loaded \cup {n}
           /\ \A m \in Names \ {n} : wl'[m] = wl[m]
           /\ CreateRaises(n) => n \notin Alive' /\ Loaded' \subseteq Loaded
<1>1. ASSUME NEW s \in {"running", "none", "created"}, wl' = [wl EXCEPT ![n] = s], up' = up \ {n}
      PROVE  /\ RuntimeOK'
             /\ Alive' \subseteq Alive \cup {n} /\ Paused' \subseteq Paused
             /\ Loaded' \subseteq Loaded \cup {n}
             /\ \A m \in Names \ {n} : wl'[m] = wl[m]
             /\ s # "running" => n \notin Alive' /\ Loaded' \subseteq Loaded
  <2>1. wl' \in [Names -> Status] /\ wl'[n] = s /\ \A m \in Names \ {n} : wl'[m] = wl[m]
    BY <1>1 DEF RuntimeOK, Status
  <2>. QED BY <1>1, <2>1 DEF RuntimeOK, Alive, Paused, Loaded
<1>2. CASE Created(n)
  <2>1. wl' = [wl EXCEPT ![n] = "running"] /\ up' = up \ {n}
    BY <1>2 DEF Created
  <2>2. ~CreateRaises(n)
    BY <2>1 DEF CreateRaises, RuntimeOK
  <2>. QED BY <1>1, <2>1, <2>2
<1>3. CASE CreateRaises(n)
  <2>1. PICK s \in {"none", "created"} : wl' = [wl EXCEPT ![n] = s] /\ up' = up \ {n}
    BY <1>3 DEF CreateRaises
  <2>. QED BY <1>1, <2>1
<1>. QED BY <1>2, <1>3

\* The workloads of S are removed, save those whose removal is refused.
LEMMA RemoveAllEffect ==
    ASSUME RuntimeOK, NEW S \in SUBSET Names, RemoveAll(S)
    PROVE  /\ RuntimeOK'
           /\ Alive' \subseteq Alive /\ Paused' \subseteq Paused /\ Loaded' \subseteq Loaded
           /\ "api" \notin Faults => Alive' \cap S = {}
<1>1. PICK refused \in SUBSET S :
        /\ "api" \notin Faults => refused = {}
        /\ wl' = [n \in Names |-> IF n \in S \ refused THEN "none" ELSE wl[n]]
        /\ up' = up \ (S \ refused)
  BY DEF RemoveAll
<1>2. wl' \in [Names -> Status]
  BY <1>1 DEF RuntimeOK, Status
<1>. QED BY <1>1, <1>2 DEF RuntimeOK, Alive, Paused, Loaded

-----------------------------------------------------------------------------
(* Types *)

\* A paused workload is there only on a host that pauses.
PausedWherePausing == Paused # {} => Pausing

\* A swap under way has a profile to go to.
SwapHasTarget == pc \in {"teardown", "deep", "start", "wait"} => target \in Profiles

TInv == TypeOK /\ RuntimeOK /\ PausedWherePausing /\ SwapHasTarget

\* The type invariant says what the lemmas about the runtime ask for.
LEMMA TypeParts ==
    ASSUME TypeOK, RuntimeOK
    PROVE  /\ RuntimeOK /\ todo \in Seq(Names)
           /\ states \in [Names -> {"absent", "starting", "ready", "stopped", "paused", "error"}]
           /\ todo # <<>> => Head(todo) \in Names /\ Tail(todo) \in Seq(Names)
BY HeadAndTail DEF TypeOK

\* The sequences a swap walks over.
LEMMA Walks ==
    /\ \A p \in Profiles : ProfileOrder[p] \in Seq(Names) /\ Of(p) \subseteq Names
    /\ \A p : SetToSeq(TornDown(p)) \in Seq(Names)
    /\ <<>> \in Seq(Names)
<1>1. ASSUME NEW p \in Profiles PROVE ProfileOrder[p] \in Seq(Names) /\ Of(p) \subseteq Names
  <2>1. ProfileOrder[p] \in Seq(Names)
    BY WorkloadsAssumption
  <2>. QED BY <2>1 DEF Of, ToSet
<1>2. ASSUME NEW p PROVE SetToSeq(TornDown(p)) \in Seq(Names)
  BY Visits DEF TornDown
<1>. QED BY <1>1, <1>2

\* The steps of a swap keep the types, whatever fails.
LEMMA TeardownTypes ==
    ASSUME TInv, Teardown
    PROVE  RuntimeOK' /\ PausedWherePausing' /\ states' \in [Names -> {"absent", "starting", "ready", "stopped", "paused", "error"}]
           /\ todo' \in Seq(Names)
<1>. DEFINE n == Head(todo)
<1>1. n \in Names /\ RuntimeOK /\ todo' \in Seq(Names)
  BY TypeParts DEF TInv, Teardown
<1>2. CASE PauseWorkload(n) /\ states' = [states EXCEPT ![n] = "paused"] /\ Pausing
  <2>1. RuntimeOK'
    BY <1>1, <1>2, PauseEffect
  <2>. QED BY <1>1, <1>2, <2>1, TypeParts DEF TInv, PausedWherePausing, Pausing, PauseUnpause, SupportsPause
<1>3. CASE StopWorkload(n) /\ states' = [states EXCEPT ![n] = "stopped"]
  <2>1. RuntimeOK' /\ Paused' \subseteq Paused
    BY <1>1, <1>3, StopEffect
  <2>. QED BY <1>1, <1>3, <2>1, TypeParts DEF TInv, PausedWherePausing, Pausing, PauseUnpause, SupportsPause
<1>. QED BY <1>2, <1>3 DEF Teardown

LEMMA StartTypes ==
    ASSUME TInv, EnsureRunning \/ StartFails
    PROVE  RuntimeOK' /\ PausedWherePausing' /\ states' \in [Names -> {"absent", "starting", "ready", "stopped", "paused", "error"}]
           /\ todo' \in Seq(Names)
<1>. DEFINE n == Head(todo)
<1>1. n \in Names /\ RuntimeOK /\ todo' \in Seq(Names)
  BY TypeParts, Walks DEF TInv, EnsureRunning, StartFails
<1>2. /\ \/ UnpauseWorkload(n) \/ Created(n) \/ CreateRaises(n) \/ UNCHANGED <<wl, up>>
      /\ \E s \in {"starting", "error"} : states' = [states EXCEPT ![n] = s]
  BY DEF EnsureRunning, StartFails
<1>3. RuntimeOK' /\ Paused' \subseteq Paused
  <2>1. CASE UNCHANGED <<wl, up>>
    BY <1>1, <2>1 DEF RuntimeOK, Paused, Loaded
  <2>. QED BY <1>1, <1>2, <2>1, UnpauseEffect, CreateEffect
<1>. QED BY <1>1, <1>2, <1>3, TypeParts DEF TInv, PausedWherePausing, Pausing, PauseUnpause, SupportsPause

\* Startup: the first profile that is there is adopted, or a swap begins.
LEMMA BootTypes ==
    ASSUME TInv, Boot
    PROVE  RuntimeOK' /\ PausedWherePausing' /\ states' \in [Names -> {"absent", "starting", "ready", "stopped", "paused", "error"}]
           /\ todo' \in Seq(Names)
           /\ active' \in Profiles \cup {NoProfile} /\ target' \in Profiles \cup {NoProfile}
           /\ pc' \in {"idle", "teardown"} /\ (pc' = "teardown" => target' \in Profiles)
<1>1. ASSUME NEW S \in SUBSET Names, RemoveAll(S) PROVE RuntimeOK' /\ PausedWherePausing'
  <2>1. RuntimeOK' /\ Paused' \subseteq Paused
    BY <1>1, RemoveAllEffect, TypeParts DEF TInv
  <2>. QED BY <2>1 DEF TInv, PausedWherePausing, Pausing, PauseUnpause, SupportsPause
<1>2. CASE Cleanup
  <2>1. RuntimeOK' /\ PausedWherePausing'
    BY <1>1, <1>2 DEF Cleanup
  <2>2. /\ UNCHANGED <<active, states>> /\ pc' = "teardown"
        /\ target' \in Profiles /\ todo' \in Seq(Names)
    BY <1>2, Walks DEF Cleanup, Begin
  <2>. QED BY <2>1, <2>2 DEF TInv, TypeOK
<1>3. ASSUME NEW p \in Profiles, Adopt(p)
      PROVE  /\ RuntimeOK' /\ PausedWherePausing' /\ active' = p /\ pc' = "idle"
             /\ states' \in [Names -> {"absent", "starting", "ready", "stopped", "paused", "error"}]
             /\ UNCHANGED <<target, todo>>
  <2>1. RuntimeOK' /\ PausedWherePausing'
    BY <1>1, <1>3 DEF Adopt, Orphans
  <2>. QED BY <1>3, <2>1 DEF Adopt
<1>. QED BY <1>2, <1>3 DEF Boot, TInv, TypeOK

\* Every step keeps the types, and pauses only where pausing is the strategy.
LEMMA TypesKept ==
    ASSUME TInv, [Next]_vars
    PROVE  TInv'
<1>. USE DEF TInv
<1>. DEFINE Recorded == [Names -> {"absent", "starting", "ready", "stopped", "paused", "error"}]
<1>1. /\ RuntimeOK /\ todo \in Seq(Names) /\ states \in Recorded
  BY TypeParts
<1>2. ASSUME RuntimeOK', PausedWherePausing', states' \in Recorded, todo' \in Seq(Names),
             UNCHANGED <<target, crashes>>, active' \in Profiles \cup {NoProfile},
             admin' \in {<<>>} \cup (Names \X {"stopped", "absent"}),
             pc' = pc \/ (target \in Profiles /\ pc' \in {"idle", "deep", "start", "wait"})
      PROVE  TInv'
  BY <1>2 DEF TypeOK, RuntimeOK, Status, SwapHasTarget
<1>3. ASSUME UNCHANGED <<wl, up>> PROVE RuntimeOK' /\ PausedWherePausing'
  BY <1>1, <1>3 DEF RuntimeOK, PausedWherePausing, Paused, Loaded, Pausing, PauseUnpause, SupportsPause
<1>4. ASSUME RuntimeOK', Paused' \subseteq Paused PROVE PausedWherePausing'
  BY <1>4 DEF PausedWherePausing, Pausing, PauseUnpause, SupportsPause
<1>5. ASSUME Teardown, UNCHANGED admin PROVE TInv'
  BY <1>2, <1>5, TeardownTypes DEF Teardown, TypeOK
<1>6. ASSUME EnsureRunning \/ StartFails, UNCHANGED admin PROVE TInv'
  <2>1. UNCHANGED <<active, target, crashes>> /\ pc = "start" /\ pc' \in {"start", "idle"}
    BY <1>6 DEF EnsureRunning, StartFails
  <2>. QED BY <1>2, <1>6, <2>1, StartTypes DEF TypeOK, SwapHasTarget
<1>7. ASSUME CheckVram \/ CheckVramAgain \/ StartDone \/ Ready \/ Claim, UNCHANGED admin PROVE TInv'
  <2>1. /\ UNCHANGED <<target, crashes, wl, up>>
        /\ pc \in {"teardown", "deep", "start", "wait"}
        /\ pc' \in {"deep", "start", "wait", "idle"}
    BY <1>7 DEF CheckVram, CheckVramAgain, StartDone, Ready, Claim
  <2>2. target \in Profiles
    BY <2>1 DEF SwapHasTarget
  <2>3. states' \in Recorded /\ active' \in Profiles \cup {NoProfile}
    BY <1>1, <1>7, <2>2 DEF CheckVram, CheckVramAgain, StartDone, Ready, Claim, TypeOK
  <2>4. todo' \in Seq(Names)
    BY <1>7, <2>2, Walks, TypeParts DEF CheckVram, CheckVramAgain, StartDone, Ready, Claim
  <2>. QED BY <1>2, <1>3, <1>7, <2>1, <2>2, <2>3, <2>4 DEF TypeOK
<1>8. ASSUME Boot PROVE TInv'
  <2>1. UNCHANGED <<admin, crashes>>
    BY <1>8 DEF Boot
  <2>. QED BY <1>8, <2>1, BootTypes DEF TypeOK, RuntimeOK, Status, SwapHasTarget
<1>9. ASSUME NEW p \in Profiles, SwitchProfile(p), UNCHANGED admin PROVE TInv'
  <2>1. /\ target' = p /\ pc' = "teardown" /\ todo' \in Seq(Names)
        /\ UNCHANGED <<active, states, wl, up, crashes, admin>>
    BY <1>9, Walks DEF SwitchProfile, Begin
  <2>2. RuntimeOK' /\ PausedWherePausing'
    BY <1>3, <2>1
  <2>. QED BY <2>1, <2>2 DEF TypeOK, RuntimeOK, Status, SwapHasTarget
<1>10. ASSUME NEW n \in Names, AdminCalls(n) PROVE TInv'
  <2>1. /\ StopWorkload(n) \/ RemoveWorkload(n)
        /\ admin' \in {<<n, "stopped">>, <<n, "absent">>}
        /\ UNCHANGED <<active, states, pc, target, todo, crashes>>
    BY <1>10 DEF AdminCalls
  <2>2. RuntimeOK' /\ PausedWherePausing'
    BY <1>1, <1>4, <2>1, StopEffect
  <2>. QED BY <1>1, <1>2, <2>1, <2>2 DEF TypeOK
<1>11. ASSUME NEW n \in Names, Load(n) PROVE TInv'
  <2>1. up' = up \cup {n} /\ wl[n] = "running" /\ UNCHANGED <<active, states, pc, target, todo, wl, admin, crashes>>
    BY <1>11 DEF Load
  <2>2. RuntimeOK' /\ PausedWherePausing'
    BY <1>1, <1>4, <2>1 DEF RuntimeOK, Loaded, Paused
  <2>. QED BY <1>1, <1>2, <2>1, <2>2 DEF TypeOK
<1>12. ASSUME NEW n \in Names, Exit(n) \/ Restarts(n) PROVE TInv'
  <2>1. /\ up' = up \ {n} /\ UNCHANGED <<active, states, pc, target, todo, admin, crashes>>
        /\ \E s \in Status \ {"none", "created", "paused"} : wl' = [wl EXCEPT ![n] = s]
    BY <1>1, <1>12 DEF Exit, Restarts, RuntimeOK, Loaded, Status
  <2>2. RuntimeOK' /\ PausedWherePausing'
    BY <1>1, <1>4, <2>1 DEF RuntimeOK, Loaded, Paused, Status
  <2>. QED BY <1>1, <1>2, <2>1, <2>2 DEF TypeOK
<1>13. ASSUME AdminRecords PROVE TInv'
  <2>1. admin # <<>> /\ admin \in Names \X {"stopped", "absent"}
    BY <1>13 DEF AdminRecords, TypeOK
  <2>2. admin[1] \in Names /\ admin[2] \in {"stopped", "absent"}
    BY <2>1
  <2>3. /\ states' = [states EXCEPT ![admin[1]] = admin[2]] /\ admin' = <<>>
        /\ UNCHANGED <<active, pc, target, todo, wl, up, crashes>>
    BY <1>13 DEF AdminRecords
  <2>4. states' \in Recorded
    BY <1>1, <2>2, <2>3
  <2>. QED BY <1>1, <1>2, <1>3, <2>3, <2>4 DEF TypeOK
<1>14. ASSUME Crash PROVE TInv'
  <2>1. RuntimeOK' /\ PausedWherePausing'
    BY <1>3, <1>14 DEF Crash
  <2>2. crashes' \in 0..MaxCrashes
    BY <1>14, WorkloadsAssumption DEF Crash, TypeOK
  <2>. QED BY <1>14, <2>1, <2>2, Walks DEF Crash, TypeOK, RuntimeOK, Status, SwapHasTarget
<1>15. CASE UNCHANGED vars
  BY <1>1, <1>2, <1>3, <1>15 DEF vars, TypeOK
<1>. QED BY <1>5, <1>6, <1>7, <1>8, <1>9, <1>10, <1>11, <1>12, <1>13, <1>14, <1>15
         DEF Next, SwapStep

\* A gateway started on a host without workloads.
LEMMA TypesAtFirst == Init => TInv
<1>. SUFFICES ASSUME Init PROVE TInv
  OBVIOUS
<1>1. todo \in Seq(Names) /\ crashes \in 0..MaxCrashes
  BY Walks, WorkloadsAssumption DEF Init
<1>. QED BY <1>1 DEF Init, TInv, RuntimeOK, Status, TypeOK, PausedWherePausing, Paused, SwapHasTarget, Loaded

\* Type correctness of the orchestrator's state and of the runtime's, whatever
\* the calls of the runtime do.
THEOREM TypeCorrectness == Spec => []TypeOK
<1>1. TInv /\ [Next]_vars => TInv'
  BY TypesKept
<1>2. TInv => TypeOK
  BY DEF TInv
<1>. QED BY <1>1, <1>2, TypesAtFirst, PTL DEF Spec

-----------------------------------------------------------------------------
(* What was paused comes back with its weights *)

\* _ensure_container_running resumes what teardown paused and replaces only what
\* is not paused there: on every host, whatever fails, no swap loads the weights
\* of a paused workload again.
THEOREM PausedComesBackLoaded == Spec => PausedKeepsWeights
<1>1. TInv /\ [Next]_vars => TInv'
  BY TypesKept
<1>2. TInv /\ [Next]_vars => [ResumeStep]_vars
  <2>. SUFFICES ASSUME TInv, Next, NEW n \in Names, wl[n] = "paused", n \in up, wl'[n] = "running"
                PROVE  n \in up'
    BY DEF ResumeStep, TInv, TypeOK
  <2>1. RuntimeOK /\ (todo # <<>> => Head(todo) \in Names) /\ Pausing
    BY TypeParts DEF TInv, PausedWherePausing, Paused
  <2>2. ~Teardown
    BY <2>1, StopEffect, PauseEffect DEF Teardown, Alive
  <2>3. ASSUME EnsureRunning PROVE n \in up'
    <3>1. CASE UnpauseWorkload(Head(todo))
      BY <2>1, <2>3, <3>1, UnpauseEffect DEF EnsureRunning
    <3>2. CASE ~Keeps(Head(todo)) /\ Created(Head(todo))
      <4>1. Head(todo) # n
        BY <2>1, <3>2 DEF Keeps
      <4>. QED BY <2>1, <2>3, <3>2, <4>1, CreateEffect DEF EnsureRunning
    <3>. QED BY <2>3, <3>1, <3>2 DEF EnsureRunning
  <2>4. ~StartFails
    <3>1. ASSUME todo # <<>>, CreateRaises(Head(todo)) PROVE FALSE
      BY <2>1, <3>1, CreateEffect DEF Alive
    <3>. QED BY <3>1 DEF StartFails
  <2>5. ~(CheckVram \/ CheckVramAgain \/ StartDone \/ Ready \/ Claim)
    BY DEF CheckVram, CheckVramAgain, StartDone, Ready, Claim
  <2>6. ~Boot
    <3>1. ASSUME NEW S \in SUBSET Names, RemoveAll(S) PROVE FALSE
      BY <2>1, <3>1, RemoveAllEffect DEF Alive
    <3>. QED BY <3>1 DEF Boot, Cleanup, Adopt, Orphans
  <2>7. \A p \in Profiles : ~SwitchProfile(p)
    BY DEF SwitchProfile
  <2>8. \A m \in Names : ~AdminCalls(m) /\ ~Load(m)
    <3>1. ASSUME NEW m \in Names, AdminCalls(m) PROVE FALSE
      BY <2>1, <3>1, StopEffect DEF AdminCalls, Alive
    <3>. QED BY <3>1 DEF Load
  <2>9. \A m \in Names : Exit(m) \/ Restarts(m) => n \in up'
    BY <2>1 DEF Exit, Restarts, RuntimeOK
  <2>10. ~AdminRecords /\ ~Crash
    BY DEF AdminRecords, Crash
  <2>. QED BY <2>2, <2>3, <2>4, <2>5, <2>6, <2>7, <2>8, <2>9, <2>10 DEF Next, SwapStep
<1>. QED BY <1>1, <1>2, TypesAtFirst, PTL DEF Spec, PausedKeepsWeights

-----------------------------------------------------------------------------
(* The others are down *)

\* What runs is on the orchestrator's record as READY or STARTING, which is where
\* _teardown_current looks.
Marked == pc # "boot" => \A n \in Alive : states[n] \in {"ready", "starting"}

\* Until the first teardown has visited it, a workload of another profile may
\* run; after that none does.
Reached ==
    /\ pc = "teardown" => Alive \ Of(target) \subseteq ToSet(todo)
    /\ pc \in {"deep", "start", "wait"} => Alive \subseteq Of(target)
    /\ pc = "start" => ToSet(todo) \subseteq Of(target)

\* What the administrator has stopped stays down until it is recorded.
Pending == admin # <<>> => pc # "boot" /\ admin[1] \notin Alive

DownInv == TInv /\ Marked /\ Reached /\ Pending

\* Begin visits every workload that runs and that the profile does not want.
LEMMA BeginReaches ==
    ASSUME TInv, \A n \in Alive : states[n] \in {"ready", "starting"},
           NEW p \in Profiles, Begin(p), Alive' \subseteq Alive
    PROVE  Reached'
<1>1. target' = p /\ pc' = "teardown" /\ ToSet(todo') = TornDown(p)
  BY Visits DEF Begin, TornDown
<1>2. Alive' \ Of(p) \subseteq TornDown(p)
  BY DEF TornDown, Alive
<1>. QED BY <1>1, <1>2 DEF Reached, Of

\* A step that starts nothing and leaves the record and the swap alone.
LEMMA FewerRun ==
    ASSUME DownInv, Alive' \subseteq Alive, UNCHANGED <<states, pc, target, todo>>
    PROVE  Marked' /\ Reached'
BY DEF DownInv, Marked, Reached, Of

\* One workload of the teardown.
LEMMA TeardownReaches ==
    ASSUME "api" \notin Faults, Pausing => "exit" \notin Faults, DownInv, Teardown
    PROVE  Marked' /\ Reached' /\ Alive' \subseteq Alive
<1>. DEFINE n == Head(todo)
<1>1. /\ n \in Names /\ RuntimeOK /\ todo \in Seq(Names) /\ todo # <<>>
      /\ ToSet(todo) = {n} \cup ToSet(Tail(todo))
      /\ todo' = Tail(todo) /\ UNCHANGED <<pc, target>> /\ pc \in {"teardown", "deep"}
  BY TypeParts, HeadAndTail DEF DownInv, TInv, Teardown
<1>2. Alive' \subseteq Alive \ {n}
  BY <1>1, StopEffect, PauseEffect DEF Teardown
<1>3. \E v : states' = [states EXCEPT ![n] = v]
  BY DEF Teardown
<1>4. \A m \in Names \ {n} : states'[m] = states[m]
  BY <1>3, TypeParts DEF DownInv, TInv
<1>5. Marked'
  BY <1>1, <1>2, <1>4 DEF DownInv, Marked, Alive
<1>6. Reached'
  <2>1. CASE pc = "teardown"
    <3>1. Alive \ Of(target) \subseteq ToSet(todo)
      BY <2>1 DEF DownInv, Reached
    <3>2. Alive' \ Of(target) \subseteq ToSet(todo')
      BY <1>1, <1>2, <3>1
    <3>. QED BY <1>1, <2>1, <3>2 DEF Reached, Of
  <2>2. CASE pc = "deep"
    <3>1. Alive \subseteq Of(target)
      BY <2>2 DEF DownInv, Reached
    <3>. QED BY <1>1, <1>2, <2>2, <3>1 DEF Reached, Of
  <2>. QED BY <1>1, <2>1, <2>2
<1>. QED BY <1>2, <1>5, <1>6

\* A workload of the target is started, or its start ends the swap.
LEMMA StartReaches ==
    ASSUME "api" \notin Faults, DownInv, EnsureRunning \/ StartFails
    PROVE  Marked' /\ Reached' /\ Alive' \subseteq Alive \cup {Head(todo)}
<1>. DEFINE n == Head(todo)
<1>1. /\ n \in Names /\ RuntimeOK /\ todo \in Seq(Names) /\ pc = "start"
      /\ n \in ToSet(todo) /\ ToSet(Tail(todo)) \subseteq ToSet(todo)
      /\ Alive \subseteq Of(target) /\ ToSet(todo) \subseteq Of(target)
  BY TypeParts, HeadAndTail DEF DownInv, TInv, EnsureRunning, StartFails, Reached
<1>2. states \in [Names -> {"absent", "starting", "ready", "stopped", "paused", "error"}]
  BY TypeParts DEF DownInv, TInv
<1>3. CASE EnsureRunning
  <2>1. /\ states' = [states EXCEPT ![n] = "starting"] /\ todo' = Tail(todo)
        /\ UNCHANGED <<pc, target>>
        /\ UnpauseWorkload(n) \/ UNCHANGED <<wl, up>> \/ Created(n)
    BY <1>3 DEF EnsureRunning
  <2>2. UNCHANGED <<wl, up>> => Alive' = Alive
    BY DEF Alive
  <2>3. Alive' \subseteq Alive \cup {n}
    BY <1>1, <2>1, <2>2, UnpauseEffect, CreateEffect
  <2>4. Marked'
    BY <1>1, <1>2, <2>1, <2>3 DEF DownInv, Marked
  <2>5. Reached'
    BY <1>1, <2>1, <2>3 DEF Reached, Of
  <2>. QED BY <2>3, <2>4, <2>5
<1>4. CASE StartFails
  <2>1. CreateRaises(n) /\ states' = [states EXCEPT ![n] = "error"] /\ pc' = "idle"
    BY <1>4 DEF StartFails
  <2>2. Alive' \subseteq Alive \ {n}
    BY <1>1, <2>1, CreateEffect
  <2>3. Marked'
    BY <1>1, <1>2, <2>1, <2>2 DEF DownInv, Marked, Alive
  <2>. QED BY <2>1, <2>2, <2>3 DEF Reached
<1>. QED BY <1>3, <1>4

\* Between the teardown, the start and the wait nothing is stopped or started.
LEMMA PhasesReach ==
    ASSUME DownInv, CheckVram \/ CheckVramAgain \/ StartDone \/ Ready \/ Claim
    PROVE  Marked' /\ Reached' /\ Alive' = Alive
<1>1. UNCHANGED <<target, wl, up>> /\ Alive' = Alive /\ pc # "boot"
  BY DEF CheckVram, CheckVramAgain, StartDone, Ready, Claim, Alive
<1>2. /\ todo \in Seq(Names) /\ (todo # <<>> => Head(todo) \in Names)
      /\ states \in [Names -> {"absent", "starting", "ready", "stopped", "paused", "error"}]
  BY TypeParts DEF DownInv, TInv
<1>3. Marked'
  <2>1. \A m \in Alive : states[m] \in {"ready", "starting"} /\ m \in Names
    BY <1>1 DEF DownInv, Marked, Alive
  <2>2. CASE CheckVram \/ CheckVramAgain \/ StartDone
    BY <1>1, <2>1, <2>2 DEF Marked, CheckVram, CheckVramAgain, StartDone
  <2>3. CASE Ready
    BY <1>1, <1>2, <2>1, <2>3 DEF Marked, Ready
  <2>4. CASE Claim
    BY <1>1, <2>1, <2>4 DEF Marked, Claim
  <2>. QED BY <2>2, <2>3, <2>4
<1>4. Reached'
  <2>1. CASE CheckVram
    <3>1. Alive \subseteq Of(target)
      BY <2>1 DEF CheckVram, DownInv, Reached, ToSet
    <3>. QED BY <1>1, <2>1, <3>1 DEF CheckVram, Reached, Of
  <2>2. CASE CheckVramAgain
    BY <1>1, <2>2 DEF CheckVramAgain, DownInv, Reached, Of
  <2>3. CASE StartDone \/ Ready
    BY <1>1, <2>3 DEF StartDone, Ready, DownInv, Reached, Of
  <2>4. CASE Claim
    BY <2>4 DEF Claim, Reached
  <2>. QED BY <2>1, <2>2, <2>3, <2>4
<1>. QED BY <1>1, <1>3, <1>4

\* Startup adopts a profile and removes the rest, or removes everything.
LEMMA BootReaches ==
    ASSUME "api" \notin Faults, DownInv, Boot
    PROVE  Marked' /\ Reached' /\ Alive' \subseteq Alive
<1>1. RuntimeOK
  BY TypeParts DEF DownInv, TInv
<1>2. CASE Cleanup
  <2>1. Alive' = {}
    BY <1>1, <1>2, RemoveAllEffect DEF Cleanup, Alive
  <2>2. pc' = "teardown"
    BY <1>2 DEF Cleanup, Begin
  <2>. QED BY <2>1, <2>2 DEF Marked, Reached
<1>3. ASSUME NEW p \in Profiles, Adopt(p) PROVE Marked' /\ Reached' /\ Alive' \subseteq Alive
  <2>1. Alive' \subseteq Alive /\ Alive' \cap (Names \ Of(p)) = {}
    BY <1>1, <1>3, RemoveAllEffect DEF Adopt, Orphans
  <2>2. /\ states' = [n \in Names |-> IF n \notin Of(p) THEN "absent"
                                      ELSE IF wl[n] = "running" THEN "ready" ELSE "starting"]
        /\ pc' = "idle"
    BY <1>3 DEF Adopt
  <2>3. Marked'
    BY <2>1, <2>2 DEF Marked, Alive
  <2>. QED BY <2>1, <2>2, <2>3 DEF Reached
<1>. QED BY <1>2, <1>3 DEF Boot

\* Every step keeps the others down, as long as the calls of the runtime do what
\* they are asked and those of the administrator do not overlap a swap's.
LEMMA DownKept ==
    ASSUME "api" \notin Faults, "overlap" \notin Faults, Pausing => "exit" \notin Faults,
           DownInv, [Next]_vars
    PROVE  DownInv'
<1>1. TInv'
  BY TypesKept DEF DownInv
<1>2. RuntimeOK
  BY TypeParts DEF DownInv, TInv
<1>3. ASSUME SwapStep PROVE Marked' /\ Reached' /\ admin' = <<>>
  <2>1. admin = <<>> /\ admin' = admin
    BY <1>3 DEF SwapStep, Boot
  <2>. QED BY <1>3, <2>1, TeardownReaches, StartReaches, PhasesReach, BootReaches DEF SwapStep
<1>4. ASSUME SwapStep PROVE DownInv'
  BY <1>1, <1>3, <1>4 DEF DownInv, Pending
<1>5. ASSUME NEW p \in Profiles, SwitchProfile(p), UNCHANGED admin PROVE DownInv'
  <2>1. /\ pc = "idle" /\ Begin(p) /\ pc' = "teardown"
        /\ UNCHANGED <<states, wl, admin>> /\ Alive' = Alive
    BY <1>5 DEF SwitchProfile, Begin, Alive
  <2>2. Reached'
    BY <2>1, BeginReaches DEF DownInv, Marked
  <2>3. Marked' /\ Pending'
    BY <2>1 DEF DownInv, Marked, Pending
  <2>. QED BY <1>1, <2>2, <2>3 DEF DownInv
<1>6. ASSUME NEW n \in Names, AdminCalls(n) PROVE DownInv'
  <2>1. /\ StopWorkload(n) \/ RemoveWorkload(n)
        /\ pc # "boot" /\ admin'[1] = n /\ UNCHANGED <<states, pc, target, todo>>
    BY <1>6 DEF AdminCalls
  <2>2. Alive' \subseteq Alive /\ n \notin Alive'
    BY <1>2, <2>1, StopEffect
  <2>3. Marked' /\ Reached'
    BY <2>1, <2>2, FewerRun
  <2>. QED BY <1>1, <2>1, <2>2, <2>3 DEF DownInv, Pending
<1>7. ASSUME NEW n \in Names, Load(n) \/ Exit(n) \/ Restarts(n) PROVE DownInv'
  <2>1. UNCHANGED <<states, pc, target, todo, admin>>
    BY <1>7 DEF Load, Exit, Restarts
  <2>2. Alive' \subseteq Alive
    BY <1>2, <1>7 DEF Load, Exit, Restarts, Alive, RuntimeOK
  <2>3. Marked' /\ Reached'
    BY <2>1, <2>2, FewerRun
  <2>. QED BY <1>1, <2>1, <2>2, <2>3 DEF DownInv, Pending
<1>8. ASSUME AdminRecords PROVE DownInv'
  <2>1. /\ admin # <<>> /\ states' = [states EXCEPT ![admin[1]] = admin[2]] /\ admin' = <<>>
        /\ UNCHANGED <<pc, target, todo, wl>> /\ Alive' = Alive
    BY <1>8 DEF AdminRecords, Alive
  <2>2. admin[1] \notin Alive
    BY <2>1 DEF DownInv, Pending
  <2>3. Marked'
    BY <2>1, <2>2, TypeParts DEF DownInv, TInv, Marked, Alive
  <2>4. Reached'
    BY <2>1 DEF DownInv, Reached, Of
  <2>. QED BY <1>1, <2>1, <2>3, <2>4 DEF DownInv, Pending
<1>9. ASSUME Crash PROVE DownInv'
  BY <1>1, <1>9 DEF Crash, DownInv, Marked, Reached, Pending
<1>10. CASE UNCHANGED vars
  <2>1. Alive' = Alive
    BY <1>10 DEF vars, Alive
  <2>. QED BY <1>1, <1>10, <2>1, FewerRun DEF vars, DownInv, Pending
<1>. QED BY <1>4, <1>5, <1>6, <1>7, <1>8, <1>9, <1>10 DEF Next

LEMMA DownAtFirst == Init => DownInv
BY TypesAtFirst DEF Init, DownInv, Marked, Reached, Pending

\* _teardown_current: once a swap starts its workloads nothing of another profile
\* computes beside them on Docker, although swaps fail half way, the wait times
\* out, the GPUs cannot be read and the gateway crashes at any point.  Refused
\* calls, an administrator's calls that overlap a swap's and, where teardown
\* pauses, exits are excepted: pause_workload passes over a workload that is
\* between an exit and its restart (MCCrashLoop.cfg).  Where teardown stops,
\* workloads may exit and be restarted at any time.
THEOREM NothingElseComputes ==
    ASSUME Backend = "docker", "api" \notin Faults, "overlap" \notin Faults,
           Pausing => "exit" \notin Faults
    PROVE  OneHostSpec => []OthersAreDown
<1>1. DownInv /\ [Next]_vars => DownInv'
  BY DownKept
<1>2. DownInv => OthersAreDown
  BY DEF DownInv, Reached, Alive, OthersAreDown, OthersDown
<1>3. [Next /\ UNCHANGED host]_MCvars => [Next]_vars
  BY DEF MCvars
<1>. QED BY <1>1, <1>2, <1>3, DownAtFirst, PTL DEF OneHostSpec

-----------------------------------------------------------------------------
(* Memory *)

\* One step of the fold that Memory is: a member chosen from s, and the rest.
Chosen(s) == CHOOSE x \in s : TRUE
SumStep(g, s) == IF s = {} THEN 0 ELSE Need[Chosen(s)] + g[s \ {Chosen(s)}]

\* g sums the parts of S that have at most n members.
SumsUpTo(g, S, n) ==
    /\ g \in [SUBSET S -> Nat]
    /\ \A s \in SUBSET S : Cardinality(s) <= n => g[s] = SumStep(g, s)

\* What choosing does to a set of workloads: it has a member, and one less after.
LEMMA OneLess ==
    ASSUME NEW s, s \subseteq Names, NEW x \in s
    PROVE  /\ IsFiniteSet(s) /\ IsFiniteSet(s \ {x}) /\ Need[x] \in Nat
           /\ Cardinality(s) \in Nat \ {0} /\ Cardinality(s \ {x}) = Cardinality(s) - 1
<1>1. IsFiniteSet(s)
  BY WorkloadsAssumption, FS_Subset
<1>2. IsFiniteSet(s \ {x}) /\ Cardinality(s \ {x}) = Cardinality(s) - 1
  BY <1>1, FS_RemoveElement
<1>3. Cardinality(s) \in Nat /\ Cardinality(s \ {x}) \in Nat
  BY <1>1, <1>2, FS_CardinalityType
<1>. QED BY <1>1, <1>2, <1>3, WorkloadsAssumption

\* The set of numbers of members for which P holds of every set of workloads.
LEMMA ByMembers ==
    ASSUME NEW T, T \subseteq SUBSET Names, {} \in T,
           \A s \in SUBSET Names :
               (\A r \in SUBSET Names : Cardinality(r) < Cardinality(s) => r \in T) => s \in T
    PROVE  T = SUBSET Names
<1>. SUFFICES ASSUME NEW s \in SUBSET Names PROVE s \in T
  OBVIOUS
<1>. DEFINE N == {n \in Nat : \A r \in SUBSET Names : Cardinality(r) <= n => r \in T}
<1>1. \A r \in SUBSET Names : Cardinality(r) \in Nat /\ (Cardinality(r) <= 0 => r = {})
  <2>. SUFFICES ASSUME NEW r \in SUBSET Names
                PROVE  Cardinality(r) \in Nat /\ (Cardinality(r) <= 0 => r = {})
    OBVIOUS
  <2>1. IsFiniteSet(r)
    BY WorkloadsAssumption, FS_Subset
  <2>2. Cardinality(r) \in Nat
    BY <2>1, FS_CardinalityType
  <2>3. ASSUME NEW x \in r PROVE Cardinality(r) > 0
    <3>1. Cardinality(r) \in Nat \ {0}
      BY OneLess
    <3>. QED BY <3>1
  <2>. QED BY <2>2, <2>3
<1>2. 0 \in N
  BY <1>1
<1>3. \A n \in 0..(Cardinality(s) - 1) : n \in N => n + 1 \in N
  <2>. SUFFICES ASSUME NEW n \in 0..(Cardinality(s) - 1), n \in N,
                       NEW r \in SUBSET Names, Cardinality(r) <= n + 1
                PROVE  r \in T
    BY <1>1
  <2>1. \A q \in SUBSET Names : Cardinality(q) < Cardinality(r) => q \in T
    BY <1>1
  <2>. QED BY <2>1
<1>. HIDE DEF N
<1>4. \A n \in 0..Cardinality(s) : n \in N
  BY <1>1, <1>2, <1>3, Induct
<1>5. Cardinality(s) \in N
  BY <1>1, <1>4
<1>. QED BY <1>1, <1>5 DEF N

\* There is a function that sums all parts of a set of workloads.
LEMMA SumsExist ==
    ASSUME NEW S \in SUBSET Names
    PROVE  \E g \in [SUBSET S -> Nat] : g = [s \in SUBSET S |-> SumStep(g, s)]
<1>. DEFINE N == {n \in Nat : \E g : SumsUpTo(g, S, n)}
<1>0. IsFiniteSet(S) /\ Cardinality(S) \in Nat
  BY WorkloadsAssumption, FS_Subset, FS_CardinalityType
<1>1. \A s \in SUBSET S : s # {} =>
        /\ Chosen(s) \in s /\ Need[Chosen(s)] \in Nat /\ s \ {Chosen(s)} \in SUBSET S
        /\ Cardinality(s) \in Nat \ {0} /\ Cardinality(s \ {Chosen(s)}) = Cardinality(s) - 1
  <2>. SUFFICES ASSUME NEW s \in SUBSET S, s # {}
                PROVE  /\ Chosen(s) \in s /\ Need[Chosen(s)] \in Nat /\ s \ {Chosen(s)} \in SUBSET S
                       /\ Cardinality(s) \in Nat \ {0} /\ Cardinality(s \ {Chosen(s)}) = Cardinality(s) - 1
    OBVIOUS
  <2>1. Chosen(s) \in s
    BY DEF Chosen
  <2>. QED BY <2>1, OneLess
<1>2. Cardinality({}) = 0 /\ \A s \in SUBSET S : Cardinality(s) \in Nat
  <2>1. Cardinality({}) = 0
    BY FS_EmptySet
  <2>2. ASSUME NEW s \in SUBSET S PROVE Cardinality(s) \in Nat
    <3>1. CASE s = {}
      BY <2>1, <3>1
    <3>2. CASE s # {}
      BY <1>1, <3>2
    <3>. QED BY <3>1, <3>2
  <2>. QED BY <2>1, <2>2
<1>3. 0 \in N
  <2>. DEFINE g == [s \in SUBSET S |-> 0]
  <2>1. ASSUME NEW s \in SUBSET S, Cardinality(s) <= 0 PROVE g[s] = SumStep(g, s)
    <3>1. s = {}
      <4>1. s # {} => Cardinality(s) \in Nat \ {0}
        BY <1>1
      <4>. QED BY <2>1, <4>1
    <3>. QED BY <3>1 DEF SumStep
  <2>2. SumsUpTo(g, S, 0)
    BY <2>1 DEF SumsUpTo
  <2>. QED BY <2>2
<1>4. \A n \in 0..(Cardinality(S) - 1) : n \in N => n + 1 \in N
  <2>. SUFFICES ASSUME NEW n \in 0..(Cardinality(S) - 1), NEW g, SumsUpTo(g, S, n)
                PROVE  \E h : SumsUpTo(h, S, n + 1)
    OBVIOUS
  <2>. DEFINE h == [s \in SUBSET S |-> IF Cardinality(s) = n + 1 THEN SumStep(g, s) ELSE g[s]]
  <2>0. g \in [SUBSET S -> Nat]
    BY DEF SumsUpTo
  <2>1. ASSUME NEW s \in SUBSET S, Cardinality(s) = n + 1 PROVE SumStep(g, s) \in Nat
    <3>1. s # {}
      BY <1>2, <2>1
    <3>2. Need[Chosen(s)] \in Nat /\ g[s \ {Chosen(s)}] \in Nat
      BY <1>1, <2>0, <3>1
    <3>. QED BY <3>1, <3>2 DEF SumStep
  <2>2. h \in [SUBSET S -> Nat]
    BY <2>1 DEF SumsUpTo
  <2>3. ASSUME NEW s \in SUBSET S, Cardinality(s) <= n + 1 PROVE h[s] = SumStep(h, s)
    <3>1. h[s] = SumStep(g, s)
      BY <1>2, <2>3 DEF SumsUpTo
    <3>2. SumStep(h, s) = SumStep(g, s)
      <4>1. CASE s = {}
        BY <4>1 DEF SumStep
      <4>2. CASE s # {}
        <5>1. h[s \ {Chosen(s)}] = g[s \ {Chosen(s)}]
          BY <1>1, <2>3, <4>2
        <5>. QED BY <5>1, <4>2 DEF SumStep
      <4>. QED BY <4>1, <4>2
    <3>. QED BY <3>1, <3>2
  <2>. HIDE DEF h
  <2>. QED BY <2>2, <2>3 DEF SumsUpTo
<1>. HIDE DEF N
<1>5. Cardinality(S) \in N
  BY <1>0, <1>3, <1>4, Induct
<1>6. PICK g : SumsUpTo(g, S, Cardinality(S))
  BY <1>5 DEF N
<1>7. \A s \in SUBSET S : g[s] = SumStep(g, s)
  <2>. SUFFICES ASSUME NEW s \in SUBSET S PROVE g[s] = SumStep(g, s)
    OBVIOUS
  <2>1. Cardinality(s) <= Cardinality(S)
    BY <1>0, FS_Subset
  <2>. QED BY <1>6, <2>1 DEF SumsUpTo
<1>. QED BY <1>6, <1>7 DEF SumsUpTo

\* g sums every part of S.
SumsAll(g, S) == g = [s \in SUBSET S |-> SumStep(g, s)]

\* Functions that sum the parts of two sets agree where both do.
LEMMA SumsAgree ==
    ASSUME NEW S \in SUBSET Names, NEW R \in SUBSET Names, NEW g, NEW h,
           SumsAll(g, S), SumsAll(h, R)
    PROVE  \A s \in SUBSET (S \cap R) : g[s] = h[s]
<1>. DEFINE T == {s \in SUBSET Names : s \subseteq S \cap R => g[s] = h[s]}
<1>1. ASSUME NEW s \in SUBSET Names, s \subseteq S \cap R,
             \A r \in SUBSET Names : Cardinality(r) < Cardinality(s) => r \in T
      PROVE  g[s] = h[s]
  <2>1. g[s] = SumStep(g, s) /\ h[s] = SumStep(h, s)
    BY <1>1 DEF SumsAll
  <2>2. CASE s = {}
    BY <2>1, <2>2 DEF SumStep
  <2>3. CASE s # {}
    <3>1. Chosen(s) \in s
      BY <2>3 DEF Chosen
    <3>2. Cardinality(s \ {Chosen(s)}) < Cardinality(s)
      <4>1. Cardinality(s) \in Nat /\ Cardinality(s \ {Chosen(s)}) = Cardinality(s) - 1
        BY <3>1, OneLess
      <4>. QED BY <4>1
    <3>3. g[s \ {Chosen(s)}] = h[s \ {Chosen(s)}]
      BY <1>1, <3>2
    <3>. QED BY <2>1, <2>3, <3>3 DEF SumStep
  <2>. QED BY <2>2, <2>3
<1>2. {} \in T
  <2>1. g[{}] = SumStep(g, {}) /\ h[{}] = SumStep(h, {})
    BY DEF SumsAll
  <2>. QED BY <2>1 DEF SumStep
<1>3. \A s \in SUBSET Names :
        (\A r \in SUBSET Names : Cardinality(r) < Cardinality(s) => r \in T) => s \in T
  BY <1>1
<1>. HIDE DEF T
<1>4. T = SUBSET Names
  <2>1. T \subseteq SUBSET Names
    BY DEF T
  <2>. QED BY <2>1, <1>2, <1>3, ByMembers
<1>. QED BY <1>4 DEF T

\* The memory of a set of workloads is a natural, and what one chosen member
\* needs on top of the rest.
LEMMA MemoryOf ==
    ASSUME NEW S \in SUBSET Names
    PROVE  /\ Memory(S) \in Nat
           /\ S = {} => Memory(S) = 0
           /\ S # {} => Memory(S) = Need[Chosen(S)] + Memory(S \ {Chosen(S)})
<1>. DEFINE Sums(R) == CHOOSE g : g = [s \in SUBSET R |-> SumStep(g, s)]
<1>1. \A R \in SUBSET Names : Memory(R) = Sums(R)[R]
  BY DEF Memory, SumFunctionOnSet, FoldFunctionOnSet, MapThenFoldSet, SumStep, Chosen
<1>2. ASSUME NEW R \in SUBSET Names PROVE SumsAll(Sums(R), R) /\ Sums(R)[R] \in Nat
  <2>1. PICK g \in [SUBSET R -> Nat] : g = [s \in SUBSET R |-> SumStep(g, s)]
    BY SumsExist
  <2>2. SumsAll(g, R) /\ g[R] \in Nat
    BY <2>1 DEF SumsAll
  <2>3. SumsAll(Sums(R), R)
    BY <2>1 DEF SumsAll
  <2>. HIDE DEF Sums
  <2>4. \A s \in SUBSET (R \cap R) : Sums(R)[s] = g[s]
    BY <2>2, <2>3, SumsAgree
  <2>. QED BY <2>2, <2>3, <2>4
<1>. HIDE DEF Sums
<1>3. \A R \in SUBSET Names : Memory(R) \in Nat
  BY <1>1, <1>2
<1>4. Sums(S)[S] = SumStep(Sums(S), S)
  BY <1>2 DEF SumsAll
<1>5. CASE S = {}
  BY <1>1, <1>3, <1>4, <1>5 DEF SumStep
<1>6. CASE S # {}
  <2>. DEFINE R == S \ {Chosen(S)}
  <2>0. R \in SUBSET Names
    OBVIOUS
  <2>. HIDE DEF R
  <2>1. \A s \in SUBSET (S \cap R) : Sums(S)[s] = Sums(R)[s]
    BY <1>2, <2>0, SumsAgree
  <2>2. Sums(S)[R] = Sums(R)[R]
    BY <2>1 DEF R
  <2>3. Memory(S) = Need[Chosen(S)] + Sums(S)[R]
    BY <1>1, <1>4, <1>6 DEF SumStep, R
  <2>. QED BY <1>1, <1>3, <1>6, <2>0, <2>2, <2>3 DEF R
<1>. QED BY <1>3, <1>5, <1>6

\* ... and so of any member.
LEMMA MemoryWithout ==
    ASSUME NEW S \in SUBSET Names, NEW y \in S
    PROVE  Memory(S) = Need[y] + Memory(S \ {y})
<1>. DEFINE T == {s \in SUBSET Names : \A z \in s : Memory(s) = Need[z] + Memory(s \ {z})}
<1>1. ASSUME NEW s \in SUBSET Names, NEW z \in s,
             \A r \in SUBSET Names : Cardinality(r) < Cardinality(s) => r \in T
      PROVE  Memory(s) = Need[z] + Memory(s \ {z})
  <2>. DEFINE x == Chosen(s)
  <2>1. x \in s /\ Memory(s) = Need[x] + Memory(s \ {x})
    BY MemoryOf DEF Chosen
  <2>. HIDE DEF x
  <2>2. CASE x = z
    BY <2>1, <2>2
  <2>3. CASE x # z
    <3>1. s \ {x} \in T /\ s \ {z} \in T
      <4>1. /\ Cardinality(s) \in Nat
            /\ Cardinality(s \ {x}) = Cardinality(s) - 1
            /\ Cardinality(s \ {z}) = Cardinality(s) - 1
        BY <2>1, OneLess
      <4>2. Cardinality(s \ {x}) < Cardinality(s) /\ Cardinality(s \ {z}) < Cardinality(s)
        BY <4>1
      <4>. QED BY <1>1, <4>2
    <3>2. Memory(s \ {x}) = Need[z] + Memory((s \ {x}) \ {z})
      BY <2>3, <3>1
    <3>3. Memory(s \ {z}) = Need[x] + Memory((s \ {z}) \ {x})
      BY <2>1, <2>3, <3>1
    <3>4. (s \ {x}) \ {z} = (s \ {z}) \ {x}
      OBVIOUS
    <3>5. /\ Need[x] \in Nat /\ Need[z] \in Nat
          /\ Memory((s \ {z}) \ {x}) \in Nat
      BY <2>1, OneLess, MemoryOf
    <3>. QED BY <2>1, <3>2, <3>3, <3>4, <3>5
  <2>. QED BY <2>2, <2>3
<1>2. \A s \in SUBSET Names :
        (\A r \in SUBSET Names : Cardinality(r) < Cardinality(s) => r \in T) => s \in T
  BY <1>1
<1>3. {} \in T /\ T \subseteq SUBSET Names
  OBVIOUS
<1>. HIDE DEF T
<1>4. T = SUBSET Names
  BY <1>2, <1>3, ByMembers
<1>. QED BY <1>4 DEF T

\* A part of a set of workloads needs no more than the whole.
LEMMA MemoryOfPart ==
    ASSUME NEW S \in SUBSET Names, NEW R \in SUBSET S
    PROVE  Memory(R) <= Memory(S)
<1>. DEFINE T == {s \in SUBSET Names : \A r \in SUBSET s : Memory(r) <= Memory(s)}
<1>1. ASSUME NEW s \in SUBSET Names, NEW r \in SUBSET s,
             \A q \in SUBSET Names : Cardinality(q) < Cardinality(s) => q \in T
      PROVE  Memory(r) <= Memory(s)
  <2>0. Memory(r) \in Nat
    BY MemoryOf
  <2>1. CASE r = s
    BY <2>0, <2>1
  <2>2. CASE r # s
    <3>1. PICK y \in s : y \notin r
      BY <2>2
    <3>2. s \ {y} \in T /\ Need[y] \in Nat
      BY <1>1, OneLess
    <3>3. Memory(r) <= Memory(s \ {y})
      BY <3>1, <3>2
    <3>4. Memory(s) = Need[y] + Memory(s \ {y}) /\ Memory(s \ {y}) \in Nat
      BY MemoryWithout, MemoryOf
    <3>. QED BY <2>0, <3>2, <3>3, <3>4
  <2>. QED BY <2>1, <2>2
<1>2. \A s \in SUBSET Names :
        (\A q \in SUBSET Names : Cardinality(q) < Cardinality(s) => q \in T) => s \in T
  BY <1>1
<1>3. {} \in T /\ T \subseteq SUBSET Names
  <2>1. Memory({}) \in Nat
    BY MemoryOf
  <2>. QED BY <2>1
<1>. HIDE DEF T
<1>4. T = SUBSET Names
  BY <1>2, <1>3, ByMembers
<1>. QED BY <1>4 DEF T

\* Each profile fits when it is loaded alone.
ProfilesFit == \A p \in Profiles : Memory(Of(p)) <= Vram

\* Only workloads of one profile run or are about to run again.
OneProfileLoaded == \E p \in Profiles : Alive \subseteq Of(p)

\* No step of any actor has workloads of two profiles in memory, where teardown
\* stops.
LEMMA OneProfileKept ==
    ASSUME "api" \notin Faults, ~Pausing, DownInv, OneProfileLoaded, [Next]_vars
    PROVE  OneProfileLoaded'
<1>1. RuntimeOK /\ (todo # <<>> => Head(todo) \in Names)
  BY TypeParts DEF DownInv, TInv
<1>2. ASSUME Alive' \subseteq Alive PROVE OneProfileLoaded'
  BY <1>2 DEF OneProfileLoaded, Of
<1>3. ASSUME UNCHANGED wl PROVE OneProfileLoaded'
  BY <1>2, <1>3 DEF Alive
<1>5. ASSUME Teardown PROVE OneProfileLoaded'
  BY <1>1, <1>2, <1>5, StopEffect, PauseEffect DEF Teardown
<1>6. ASSUME EnsureRunning PROVE OneProfileLoaded'
  <2>1. /\ pc = "start" /\ Alive \subseteq Of(target) /\ Head(todo) \in Of(target)
        /\ target \in Profiles
    BY <1>1, <1>6, HeadAndTail, TypeParts DEF DownInv, TInv, SwapHasTarget, Reached, EnsureRunning
  <2>2. Alive' \subseteq Alive \cup {Head(todo)}
    <3>1. CASE UNCHANGED <<wl, up>>
      BY <3>1 DEF Alive
    <3>. QED BY <1>1, <1>6, <3>1, UnpauseEffect, CreateEffect DEF EnsureRunning
  <2>3. Alive' \subseteq Of(target)
    BY <2>1, <2>2
  <2>. QED BY <2>1, <2>3 DEF OneProfileLoaded, Of
<1>7. ASSUME StartFails PROVE OneProfileLoaded'
  <2>1. CASE UNCHANGED <<wl, up>>
    BY <1>3, <2>1
  <2>2. CASE CreateRaises(Head(todo))
    <3>1. Alive' \subseteq Alive
      BY <1>1, <1>7, <2>2, CreateEffect DEF StartFails
    <3>. QED BY <1>2, <3>1
  <2>. QED BY <1>7, <2>1, <2>2 DEF StartFails
<1>8. ASSUME CheckVram \/ CheckVramAgain \/ StartDone \/ Ready \/ Claim PROVE OneProfileLoaded'
  BY <1>3, <1>8 DEF CheckVram, CheckVramAgain, StartDone, Ready, Claim
<1>9. ASSUME Boot PROVE OneProfileLoaded'
  <2>1. \E S \in SUBSET Names : RemoveAll(S)
    BY <1>9 DEF Boot, Cleanup, Adopt, Orphans
  <2>. QED BY <1>1, <1>2, <2>1, RemoveAllEffect
<1>10. ASSUME NEW n \in Names, AdminCalls(n) PROVE OneProfileLoaded'
  BY <1>1, <1>2, <1>10, StopEffect DEF AdminCalls
<1>11. ASSUME NEW n \in Names, Load(n) \/ Exit(n) \/ Restarts(n) PROVE OneProfileLoaded'
  <2>1. Alive' \subseteq Alive
    BY <1>1, <1>11 DEF Load, Exit, Restarts, Alive, RuntimeOK
  <2>. QED BY <1>2, <2>1
<1>12. ASSUME (\E p \in Profiles : SwitchProfile(p)) \/ AdminRecords \/ Crash \/ UNCHANGED vars
       PROVE  OneProfileLoaded'
  BY <1>3, <1>12 DEF SwitchProfile, AdminRecords, Crash, vars
<1>. QED BY <1>5, <1>6, <1>7, <1>8, <1>9, <1>10, <1>11, <1>12 DEF Next, SwapStep

\* Where teardown stops and every profile fits by itself, the workloads that are
\* loaded fit at every moment: although the VRAM check may read nothing or a
\* simulated report, swaps fail half way and the gateway crashes between two
\* steps and adopts what it finds.
THEOREM MemoryIsNeverOvercommitted ==
    ASSUME "api" \notin Faults, "overlap" \notin Faults, ~Pausing, ProfilesFit
    PROVE  OneHostSpec => []MemoryHolds
<1>1. DownInv /\ [Next]_vars => DownInv'
  BY DownKept
<1>2. DownInv /\ OneProfileLoaded /\ [Next]_vars => OneProfileLoaded'
  BY OneProfileKept
<1>3. Init => OneProfileLoaded
  <2>1. Init => Alive = {}
    BY DEF Init, Alive
  <2>. QED BY <2>1, WorkloadsAssumption DEF OneProfileLoaded
<1>4. DownInv /\ OneProfileLoaded => MemoryHolds
  <2>. SUFFICES ASSUME DownInv, NEW p \in Profiles, Alive \subseteq Of(p)
                PROVE  Memory(Loaded) <= Vram
    BY DEF OneProfileLoaded, MemoryHolds, NoOvercommit
  <2>0. Loaded \subseteq Of(p)
    <3>1. Paused = {}
      BY DEF DownInv, TInv, PausedWherePausing
    <3>. QED BY <3>1 DEF Loaded, Alive, Paused
  <2>1. Of(p) \in SUBSET Names
    BY WorkloadsAssumption DEF Of, ToSet
  <2>2. Memory(Loaded) <= Memory(Of(p)) /\ Memory(Loaded) \in Nat /\ Memory(Of(p)) \in Nat
    BY <2>0, <2>1, MemoryOf, MemoryOfPart
  <2>. QED BY <2>2, WorkloadsAssumption DEF ProfilesFit
<1>5. [Next /\ UNCHANGED host]_MCvars => [Next]_vars
  BY DEF MCvars
<1>. QED BY <1>1, <1>2, <1>3, <1>4, <1>5, DownAtFirst, PTL DEF OneHostSpec
=============================================================================
