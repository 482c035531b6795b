--------------------------- MODULE AdmissionProofs ---------------------------
(***************************************************************************)
(* Proofs about Admission for every number of requests, every limit and    *)
(* every queue length.                                                     *)
(***************************************************************************)
EXTENDS Admission, Induction, FiniteSetTheorems, SequenceTheorems, TLAPS

(* The parts of the invariant as predicates of explicit values, so that they *)
(* can be stated of the arguments of Promote as well as of the variables.    *)

Hold(f, L) == L \cup {r \in Requests : f[r] = "granted"}

Batch(a, p, f, L, v) ==
    /\ a = Cardinality(Hold(f, L))
    /\ a \in 0..limit
    /\ a = 0 <=> p = NoProfile
    /\ \A r \in Hold(f, L) : v[r] = p

Line(w, f) ==
    /\ w \in Seq(Requests)
    /\ Len(w) <= max_waiting
    /\ \A i, j \in 1..Len(w) : w[i] = w[j] => i = j
    /\ \A i \in 1..Len(w) : f[w[i]] \in {"pending", "cancelled"}
    /\ \A r \in Requests : f[r] = "pending" => \E i \in 1..Len(w) : w[i] = r

Served(a, p, w, f, v) ==
    Len(w) > 0 =>
        \/ a = limit
        \/ f[w[1]] = "cancelled"
        \/ a > 0 /\ v[w[1]] # p

\* What each place in the code implies about the request's future and lease.
Phases(f, L, t, v) ==
    \A r \in Requests :
        /\ f[r] # "none" <=> t[r] = "queued"
        /\ r \in L => t[r] \notin {"idle", "queued"}
        /\ t[r] \in {"admitted", "aborting", "handover", "streaming", "closing"} => r \in L
        /\ t[r] # "idle" => v[r] \in Profiles

\* Work closes its exchange before it ends.
Closed(t, b) == \A r \in Requests : t[r] = "finished" => r \notin b

IInv ==
    /\ TypeOK
    /\ Batch(active, profile, future, leases, want)
    /\ Line(waiting, future)
    /\ Served(active, profile, waiting, future, want)
    /\ Phases(future, leases, task, want)
    /\ backend \subseteq leases
    /\ Closed(task, backend)

USE LimitsAssumption, RequestsAssumption, NoProfileAssumption

-----------------------------------------------------------------------------
(* Counting *)

\* Adding one element adds at most one to the size of a finite set.
LEMMA CardinalityAtMostOneMore ==
    ASSUME NEW S, NEW x, IsFiniteSet(S)
    PROVE  /\ IsFiniteSet(S \cup {x})
           /\ Cardinality(S \cup {x}) <= Cardinality(S) + 1
<1>1. Cardinality(S) \in Nat
  BY FS_CardinalityType
<1>2. IsFiniteSet(S \cup {x}) /\ Cardinality(S \cup {x}) \in {Cardinality(S), Cardinality(S) + 1}
  BY FS_AddElement
<1>. QED
  BY <1>1, <1>2

\* Removing a member takes one off the size of a finite set.
LEMMA CardinalityOneLess ==
    ASSUME NEW S, NEW x \in S, IsFiniteSet(S)
    PROVE  IsFiniteSet(S \ {x}) /\ Cardinality(S \ {x}) = Cardinality(S) - 1
BY FS_RemoveElement

\* The sizes of disjoint finite sets add up.
LEMMA CardinalityOfDisjointUnion ==
    ASSUME NEW S, NEW T, IsFiniteSet(S), IsFiniteSet(T), S \cap T = {}
    PROVE  Cardinality(S \cup T) = Cardinality(S) + Cardinality(T)
<1>1. /\ Cardinality(S) \in Nat
      /\ Cardinality(T) \in Nat
  BY FS_CardinalityType
<1>2. Cardinality(S \cup T) = Cardinality(S) + Cardinality(T) - Cardinality(S \cap T)
  BY FS_Union
<1>3. Cardinality(S \cap T) = 0
  BY FS_EmptySet
<1>. QED
  BY <1>1, <1>2, <1>3

-----------------------------------------------------------------------------
(* Promotion *)

\* Popping one entry more grants at most one request more.
LEMMA LiveGrows ==
    ASSUME NEW w \in Seq(Requests), NEW f, NEW k \in 1..Len(w)
    PROVE  /\ IsFiniteSet(Live(k, w, f))
           /\ Cardinality(Live(k, w, f)) \in Nat
           /\ Cardinality(Live(k - 1, w, f)) \in Nat
           /\ Cardinality(Live(k, w, f)) <= Cardinality(Live(k - 1, w, f)) + 1
<1>1. Live(k, w, f) \in SUBSET (Live(k - 1, w, f) \cup {w[k]})
  BY DEF Live
<1>2. Live(k - 1, w, f) \in SUBSET Requests
  BY DEF Live
<1>3. IsFiniteSet(Live(k - 1, w, f))
  BY <1>2, FS_Subset
<1>4. /\ IsFiniteSet(Live(k - 1, w, f) \cup {w[k]})
      /\ Cardinality(Live(k - 1, w, f) \cup {w[k]}) <= Cardinality(Live(k - 1, w, f)) + 1
  BY <1>3, CardinalityAtMostOneMore
<1>5. /\ IsFiniteSet(Live(k, w, f))
      /\ Cardinality(Live(k, w, f)) <= Cardinality(Live(k - 1, w, f) \cup {w[k]})
  BY <1>1, <1>4, FS_Subset
<1>. QED
  BY <1>3, <1>4, <1>5, FS_CardinalityType

\* Popping nothing grants nobody.
LEMMA LiveNone == ASSUME NEW w, NEW f PROVE Live(0, w, f) = {}
BY DEF Live

\* Granting the live part of a prefix keeps the batch within the limit and of
\* one profile.
LEMMA PromoteBatch ==
    ASSUME NEW a, NEW p \in Profiles \cup {NoProfile}, NEW w, NEW L \in SUBSET Requests,
           NEW f \in [Requests -> FutureStates],
           Batch(a, p, f, L, want), Line(w, f),
           \A r \in Requests : f[r] = "pending" => r \notin L /\ want[r] \in Profiles,
           Promote(a, p, w, f)
    PROVE  /\ Batch(active', profile', future', L, want)
           /\ profile' \in Profiles \cup {NoProfile}
           /\ future' \in [Requests -> FutureStates]
<1>1. PICK k \in 0..Len(w) :
          /\ PromoteStops(k, a, p, w, f)
          /\ active' = a + Cardinality(Live(k, w, f))
          /\ profile' \in IF Live(k, w, f) = {} THEN {p} ELSE {want[r] : r \in Live(k, w, f)}
          /\ future' = [r \in Requests |-> IF r \in Live(k, w, f) THEN "granted" ELSE f[r]]
  BY DEF Promote
<1> DEFINE taken == Live(k, w, f)
<1>2. /\ taken \in SUBSET Requests
      /\ \A r \in taken : f[r] = "pending" /\ r \notin Hold(f, L) /\ want[r] \in Profiles
  BY DEF Live, Hold
<1>3. Hold(future', L) = Hold(f, L) \cup taken
  BY <1>1, <1>2 DEF Hold
<1>4. /\ IsFiniteSet(taken) /\ IsFiniteSet(Hold(f, L))
      /\ Cardinality(taken) \in Nat /\ Cardinality(Hold(f, L)) \in Nat
  <2>1. Hold(f, L) \in SUBSET Requests
    BY DEF Hold
  <2>. QED  BY <2>1, <1>2, FS_Subset, FS_CardinalityType
<1>5. Cardinality(Hold(future', L)) = a + Cardinality(taken)
  <2>1. Hold(f, L) \cap taken = {}
    BY <1>2
  <2>2. Cardinality(Hold(f, L) \cup taken) = Cardinality(Hold(f, L)) + Cardinality(taken)
    BY <1>4, <2>1, CardinalityOfDisjointUnion
  <2>. QED  BY <2>2, <1>3 DEF Batch
<1>6. a + Cardinality(taken) \in 0..limit
  <2>1. CASE k = 0
    BY <2>1, <1>4, LiveNone, FS_EmptySet DEF Batch
  <2>2. CASE k > 0
    <3>1. k \in 1..Len(w) /\ w \in Seq(Requests)
      BY <2>2 DEF Line
    <3>2. a + Cardinality(Live(k - 1, w, f)) < limit
      BY <1>1, <2>2 DEF PromoteStops
    <3>3. a \in Nat
      BY DEF Batch
    <3>. QED  BY <3>1, <3>2, <3>3, <1>4, LiveGrows
  <2>. QED  BY <2>1, <2>2
<1>7. /\ (a + Cardinality(taken) = 0) <=> (profile' = NoProfile)
      /\ profile' \in Profiles \cup {NoProfile}
      /\ \A r \in Hold(f, L) \cup taken : want[r] = profile'
  <2>1. CASE taken = {}
    BY <2>1, <1>1, FS_EmptySet DEF Batch
  <2>2. CASE taken # {}
    <3>1. Cardinality(taken) # 0
      BY <2>2, <1>4, FS_EmptySet
    <3>2. PICK s \in taken : profile' = want[s]
      BY <1>1, <2>2
    <3>3. /\ \A r \in taken : want[r] = want[s]
          /\ a > 0 => want[s] = p
      BY <1>1, <3>2 DEF PromoteStops
    <3>4. a = 0 => Hold(f, L) = {}
      BY <1>4, FS_EmptySet DEF Batch
    <3>5. want[s] \in Profiles /\ a \in Nat
      BY <1>2 DEF Batch
    <3>6. \A r \in Hold(f, L) : want[r] = profile'
      BY <3>2, <3>3, <3>4, <3>5 DEF Batch
    <3>. QED  BY <3>1, <3>2, <3>3, <3>5, <3>6, <1>4
  <2>. QED  BY <2>1, <2>2
<1>8. future' \in [Requests -> FutureStates]
  BY <1>1 DEF FutureStates
<1>. QED
  BY <1>1, <1>3, <1>5, <1>6, <1>7, <1>8 DEF Batch

\* What is left of the queue is still a queue, and its oldest entry is not one
\* that a slot could have gone to.
LEMMA PromoteLine ==
    ASSUME NEW a, NEW p, NEW w, NEW L \in SUBSET Requests,
           NEW f \in [Requests -> FutureStates],
           Batch(a, p, f, L, want), Line(w, f),
           Batch(active', profile', future', L, want),
           Promote(a, p, w, f)
    PROVE  /\ Line(waiting', future')
           /\ Served(active', profile', waiting', future', want)
           /\ \A r \in Requests : f[r] # "pending" => future'[r] = f[r]
           /\ \A r \in Requests : f[r] = "pending" => future'[r] \in {"pending", "granted"}
<1>1. PICK k \in 0..Len(w) :
          /\ PromoteStops(k, a, p, w, f)
          /\ active' = a + Cardinality(Live(k, w, f))
          /\ profile' \in IF Live(k, w, f) = {} THEN {p} ELSE {want[r] : r \in Live(k, w, f)}
          /\ waiting' = SubSeq(w, k + 1, Len(w))
          /\ future' = [r \in Requests |-> IF r \in Live(k, w, f) THEN "granted" ELSE f[r]]
  BY DEF Promote
<1> DEFINE taken == Live(k, w, f)
<1>2. w \in Seq(Requests) /\ Len(w) \in Nat /\ \A i \in 1..Len(w) : w[i] \in Requests
  BY LenProperties DEF Line
<1>3. /\ waiting' \in Seq(Requests)
      /\ Len(waiting') = Len(w) - k
      /\ \A i \in 1..(Len(w) - k) : waiting'[i] = w[k + i]
  <2>1. \A i \in (k + 1)..Len(w) : w[i] \in Requests
    BY <1>2
  <2>. QED  BY <1>1, <1>2, <2>1, SubSeqProperties
<1>4. \A i \in 1..(Len(w) - k) : /\ k + i \in 1..Len(w)
                               /\ w[k + i] \notin taken
  <2> SUFFICES ASSUME NEW i \in 1..(Len(w) - k) PROVE k + i \in 1..Len(w) /\ w[k + i] \notin taken
    OBVIOUS
  <2>1. k + i \in 1..Len(w) /\ \A j \in 1..k : j \in 1..Len(w) /\ j # k + i
    BY <1>2
  <2>. QED  BY <2>1 DEF Line, Live
<1>5. Line(waiting', future')
  <2>1. Len(waiting') <= max_waiting
    BY <1>2, <1>3 DEF Line
  <2>2. \A i, j \in 1..Len(waiting') : waiting'[i] = waiting'[j] => i = j
    BY <1>2, <1>3, <1>4 DEF Line
  <2>3. ASSUME NEW i \in 1..Len(waiting')
        PROVE  future'[waiting'[i]] \in {"pending", "cancelled"}
    <3>1. k + i \in 1..Len(w) /\ waiting'[i] = w[k + i] /\ w[k + i] \notin taken
      BY <1>3, <1>4
    <3>2. w[k + i] \in Requests /\ f[w[k + i]] \in {"pending", "cancelled"}
      BY <1>2, <3>1 DEF Line
    <3>. QED  BY <1>1, <3>1, <3>2
  <2>4. ASSUME NEW r \in Requests, future'[r] = "pending"
        PROVE  \E i \in 1..Len(waiting') : waiting'[i] = r
    <3>1. f[r] = "pending" /\ r \notin taken
      BY <1>1, <2>4
    <3>2. PICK j \in 1..Len(w) : w[j] = r
      BY <3>1 DEF Line
    <3>3. j \notin 1..k
      BY <3>1, <3>2 DEF Live
    <3>4. j - k \in 1..Len(waiting') /\ waiting'[j - k] = r
      BY <1>2, <1>3, <3>2, <3>3
    <3>. QED  BY <3>4
  <2>. QED  BY <1>3, <2>1, <2>2, <2>3, <2>4 DEF Line
<1>6. Served(active', profile', waiting', future', want)
  <2> SUFFICES ASSUME Len(waiting') > 0, active' # limit
               PROVE  active' > 0 /\ want[waiting'[1]] # profile'
    BY DEF Served
  <2>1. k < Len(w) /\ waiting'[1] = w[k + 1] /\ k + 1 \in 1..Len(w)
    BY <1>2, <1>3
  <2>2. a + Cardinality(taken) < limit /\ active' \in Nat
    BY <1>1 DEF Batch
  <2>3. \/ a > 0 /\ want[w[k + 1]] # p
        \/ \E r \in taken : want[r] # want[w[k + 1]]
    BY <1>1, <2>1, <2>2 DEF PromoteStops
  <2>4. \A r, s \in taken : want[r] = want[s]
    BY <1>1 DEF PromoteStops
  <2>5. \A r \in taken : a > 0 => want[r] = p
    BY <1>1 DEF PromoteStops
  <2>6. CASE taken = {}
    BY <2>1, <2>3, <2>6, <1>1, FS_EmptySet DEF Batch
  <2>7. CASE taken # {}
    <3>1. PICK s \in taken : profile' = want[s]
      BY <1>1, <2>7
    <3>2. s \in Hold(future', L)
      BY <1>1 DEF Hold, Live
    <3>3. active' > 0
      <4>1. Hold(future', L) \in SUBSET Requests
        BY DEF Hold
      <4>2. IsFiniteSet(Hold(future', L))
        BY <4>1, FS_Subset
      <4>3. Cardinality(Hold(future', L)) # 0
        BY <4>2, <3>2, FS_EmptySet
      <4>. QED  BY <4>3, <2>2 DEF Batch
    <3>. QED  BY <2>1, <2>3, <2>4, <2>5, <3>1, <3>3
  <2>. QED  BY <2>6, <2>7
<1>7. /\ \A r \in Requests : f[r] # "pending" => future'[r] = f[r]
      /\ \A r \in Requests : f[r] = "pending" => future'[r] \in {"pending", "granted"}
  BY <1>1 DEF Live
<1>. QED
  BY <1>5, <1>6, <1>7

\* A step in which one request leaves the queue or gives its slot back and then
\* promotes: values f, L are the futures and leases without that request.
LEMMA LeaveAndPromote ==
    ASSUME IInv,
           NEW a, NEW p \in Profiles \cup {NoProfile}, NEW w,
           NEW f \in [Requests -> FutureStates], NEW L \in SUBSET Requests,
           NEW r \in Requests, NEW x \in {"finished", "idle"},
           f[r] = "none", r \notin L,
           \A s \in Requests \ {r} : f[s] = future[s] /\ (s \in L <=> s \in leases),
           Batch(a, p, f, L, want), Line(w, f), Promote(a, p, w, f),
           leases' = L, task' = [task EXCEPT ![r] = x],
           want' \in [Requests -> Profiles \cup {NoProfile}],
           \A s \in Requests \ {r} : want'[s] = want[s],
           x = "finished" => want'[r] \in Profiles
    PROVE  /\ Batch(active', profile', future', leases', want')
           /\ Line(waiting', future')
           /\ Served(active', profile', waiting', future', want')
           /\ Phases(future', leases', task', want')
           /\ profile' \in Profiles \cup {NoProfile}
           /\ future' \in [Requests -> FutureStates]
           /\ task' \in [Requests -> TaskStates]
<1>1. Phases(future, leases, task, want) /\ task \in [Requests -> TaskStates]
  BY DEF IInv, TypeOK
<1>2. \A s \in Requests : f[s] = "pending" => s \notin L /\ want[s] \in Profiles
  BY <1>1 DEF Phases
<1>3. /\ Batch(active', profile', future', L, want)
      /\ profile' \in Profiles \cup {NoProfile}
      /\ future' \in [Requests -> FutureStates]
  BY <1>2, PromoteBatch
<1>4. /\ Line(waiting', future')
      /\ Served(active', profile', waiting', future', want)
      /\ \A s \in Requests : f[s] # "pending" => future'[s] = f[s]
      /\ \A s \in Requests : f[s] = "pending" => future'[s] \in {"pending", "granted"}
  BY <1>3, PromoteLine
<1>5. r \notin Hold(future', L) /\ Hold(future', L) \in SUBSET Requests
  BY <1>4 DEF Hold
<1>6. Batch(active', profile', future', leases', want')
  BY <1>3, <1>5 DEF Batch
<1>7. Served(active', profile', waiting', future', want')
  <2>1. ASSUME Len(waiting') > 0 PROVE waiting'[1] \in Requests \ {r}
    <3>1. 1 \in 1..Len(waiting') /\ waiting'[1] \in Requests
      BY <1>4, <2>1, LenProperties DEF Line
    <3>2. future'[waiting'[1]] \in {"pending", "cancelled"}
      BY <1>4, <3>1 DEF Line
    <3>. QED  BY <1>4, <3>1, <3>2
  <2>. QED  BY <1>4, <2>1 DEF Served
<1>8. Phases(future', leases', task', want')
  <2> SUFFICES ASSUME NEW s \in Requests
               PROVE  /\ future'[s] # "none" <=> task'[s] = "queued"
                      /\ s \in L => task'[s] \notin {"idle", "queued"}
                      /\ task'[s] \in {"admitted", "aborting", "handover", "streaming", "closing"}
                           => s \in L
                      /\ task'[s] # "idle" => want'[s] \in Profiles
    BY DEF Phases
  <2>1. CASE s = r
    BY <2>1, <1>1, <1>4
  <2>2. CASE s # r
    <3>1. task'[s] = task[s] /\ want'[s] = want[s]
      BY <2>2, <1>1
    <3>2. future'[s] # "none" <=> future[s] # "none"
      BY <2>2, <1>4
    <3>. QED  BY <2>2, <3>1, <3>2, <1>1 DEF Phases
  <2>. QED  BY <2>1, <2>2
<1>9. task' \in [Requests -> TaskStates]
  BY <1>1 DEF TaskStates
<1>. QED
  BY <1>3, <1>4, <1>6, <1>7, <1>8, <1>9

\* Lease.release before its _promote: one holder less.
LEMMA OneHolderLess ==
    ASSUME IInv, NEW r \in Requests,
           NEW f \in [Requests -> FutureStates], NEW L \in SUBSET Requests,
           r \in Hold(future, leases), Hold(f, L) = Hold(future, leases) \ {r}
    PROVE  /\ Batch(active - 1, IF active = 1 THEN NoProfile ELSE profile, f, L, want)
           /\ (IF active = 1 THEN NoProfile ELSE profile) \in Profiles \cup {NoProfile}
<1>1. /\ Batch(active, profile, future, leases, want)
      /\ profile \in Profiles \cup {NoProfile} /\ leases \in SUBSET Requests
  BY DEF IInv, TypeOK
<1>2. Hold(future, leases) \in SUBSET Requests
  BY <1>1 DEF Hold
<1>3. IsFiniteSet(Hold(future, leases)) /\ Cardinality(Hold(future, leases)) \in Nat
  BY <1>2, FS_Subset, FS_CardinalityType
<1>4. Cardinality(Hold(f, L)) = Cardinality(Hold(future, leases)) - 1
  BY <1>3, CardinalityOneLess
<1>5. Cardinality(Hold(future, leases)) # 0
  BY <1>3, FS_EmptySet
<1>6. active - 1 = Cardinality(Hold(f, L)) /\ active - 1 \in 0..limit
  BY <1>1, <1>3, <1>4, <1>5 DEF Batch
<1>7. active = 1 => Hold(f, L) = {}
  <2>1. IsFiniteSet(Hold(f, L))
    BY <1>3, FS_RemoveElement
  <2>. QED  BY <2>1, <1>6, FS_EmptySet
<1>8. CASE active = 1
  BY <1>6, <1>7, <1>8 DEF Batch
<1>9. CASE active # 1
  BY <1>1, <1>6, <1>9 DEF Batch
<1>. QED
  BY <1>8, <1>9

\* self._waiting.remove(entry) leaves a queue without the entry.
LEMMA RemoveEntryLine ==
    ASSUME NEW w, NEW f, NEW g, Line(w, f), NEW i \in 1..Len(w),
           g[w[i]] = "none", \A s \in Requests : s # w[i] => g[s] = f[s]
    PROVE  Line(RemoveEntry(w, i), g)
<1> DEFINE v == RemoveEntry(w, i)
           n == Len(w) - 1
<1>1. w \in Seq(Requests) /\ Len(w) \in Nat /\ \A j \in 1..Len(w) : w[j] \in Requests
  BY LenProperties DEF Line
<1>2. n \in Nat /\ v \in [1..n -> Requests]
  BY <1>1 DEF RemoveEntry
<1>3. v \in Seq(Requests) /\ Len(v) = n
  BY <1>2, SeqDef
<1>4. ASSUME NEW j \in 1..n
      PROVE  /\ v[j] = IF j < i THEN w[j] ELSE w[j + 1]
             /\ j \in 1..Len(w) /\ j + 1 \in 1..Len(w)
  BY <1>1, <1>4 DEF RemoveEntry
<1> HIDE DEF v
<1>5. \A j, k \in 1..Len(v) : v[j] = v[k] => j = k
  <2> SUFFICES ASSUME NEW j \in 1..n, NEW k \in 1..n, v[j] = v[k] PROVE j = k
    BY <1>3
  <2>1. /\ v[j] = IF j < i THEN w[j] ELSE w[j + 1]
        /\ v[k] = IF k < i THEN w[k] ELSE w[k + 1]
        /\ j \in 1..Len(w) /\ j + 1 \in 1..Len(w)
        /\ k \in 1..Len(w) /\ k + 1 \in 1..Len(w)
    BY <1>4
  <2>2. \A x, y \in 1..Len(w) : w[x] = w[y] => x = y
    BY DEF Line
  <2>3. CASE j < i /\ k < i
    BY <2>1, <2>2, <2>3
  <2>4. CASE j < i /\ ~(k < i)
    <3>1. j = k + 1
      BY <2>1, <2>2, <2>4
    <3>. QED  BY <2>4, <3>1
  <2>5. CASE ~(j < i) /\ k < i
    <3>1. j + 1 = k
      BY <2>1, <2>2, <2>5
    <3>. QED  BY <2>5, <3>1
  <2>6. CASE ~(j < i) /\ ~(k < i)
    <3>1. j + 1 = k + 1
      BY <2>1, <2>2, <2>6
    <3>. QED  BY <3>1
  <2>. QED  BY <2>3, <2>4, <2>5, <2>6
<1>6. ASSUME NEW j \in 1..Len(v) PROVE g[v[j]] \in {"pending", "cancelled"}
  <2>1. PICK k \in 1..Len(w) : v[j] = w[k] /\ k # i
    BY <1>1, <1>3, <1>4
  <2>2. w[k] # w[i] /\ w[k] \in Requests
    BY <1>1, <2>1 DEF Line
  <2>. QED  BY <2>1, <2>2 DEF Line
<1>7. ASSUME NEW s \in Requests, g[s] = "pending" PROVE \E j \in 1..Len(v) : v[j] = s
  <2>1. PICK k \in 1..Len(w) : w[k] = s
    BY <1>7 DEF Line
  <2>2. k # i
    BY <1>7, <2>1
  <2>3. CASE k < i
    <3>1. k \in 1..n /\ v[k] = s
      BY <1>1, <1>4, <2>1, <2>3
    <3>. QED  BY <1>3, <3>1
  <2>4. CASE k > i
    <3>1. k - 1 \in 1..n /\ v[k - 1] = w[k]
      BY <1>1, <1>4, <2>4
    <3>. QED  BY <1>3, <2>1, <3>1
  <2>. QED  BY <1>1, <2>2, <2>3, <2>4
<1>8. Len(v) <= max_waiting
  BY <1>1, <1>3 DEF Line
<1>9. Line(v, g)
  BY <1>3, <1>5, <1>6, <1>7, <1>8 DEF Line
<1>. QED
  BY <1>9 DEF v

-----------------------------------------------------------------------------
(* The inductive invariant, one lemma for each group of actions *)

\* Where a request that is not in acquire and holds no slot does not appear.
LEMMA Outsider ==
    ASSUME IInv, NEW r \in Requests, future[r] = "none"
    PROVE  /\ \A i \in 1..Len(waiting) : waiting[i] \in Requests \ {r}
           /\ Len(waiting) \in Nat
           /\ r \notin leases => r \notin Hold(future, leases)
           /\ Hold(future, leases) \in SUBSET Requests
           /\ IsFiniteSet(Hold(future, leases))
           /\ Cardinality(Hold(future, leases)) \in Nat
<1>1. waiting \in Seq(Requests) /\ Line(waiting, future) /\ leases \in SUBSET Requests
  BY DEF IInv, TypeOK
<1>2. Len(waiting) \in Nat /\ \A i \in 1..Len(waiting) : waiting[i] \in Requests
  BY <1>1, LenProperties
<1>3. \A i \in 1..Len(waiting) : waiting[i] # r
  BY <1>1, <1>2 DEF Line
<1>4. Hold(future, leases) \in SUBSET Requests
  BY <1>1 DEF Hold
<1>5. r \notin leases => r \notin Hold(future, leases)
  BY DEF Hold
<1>. QED
  BY <1>2, <1>3, <1>4, <1>5, FS_Subset, FS_CardinalityType

\* acquire takes a free slot at once (admission.py:76-78).
LEMMA AcquireNowKeeps ==
    ASSUME IInv, NEW r \in Requests, NEW p \in Profiles, AcquireNow(r, p)
    PROVE  IInv'
<1> USE DEF IInv
<1>1. future[r] = "none" /\ r \notin leases
  BY DEF AcquireNow, Phases
<1>2. TypeOK'
  BY DEF TypeOK, AcquireNow, CanGrantNow, TaskStates
<1>3. Batch(active, profile, future, leases, want)'
  <2>1. Hold(future', leases') = Hold(future, leases) \cup {r}
    BY DEF AcquireNow, Hold
  <2>2. /\ r \notin Hold(future, leases) /\ IsFiniteSet(Hold(future, leases))
        /\ Cardinality(Hold(future, leases)) \in Nat
        /\ Hold(future, leases) \in SUBSET Requests
    BY <1>1, Outsider
  <2>3. Cardinality(Hold(future', leases')) = active + 1
    BY <2>1, <2>2, FS_AddElement DEF Batch
  <2>4. active' \in 0..limit /\ active' = active + 1 /\ active' # 0
    BY DEF AcquireNow, CanGrantNow, Batch
  <2>5. ASSUME NEW s \in Hold(future, leases) PROVE want'[s] = p
    <3>1. active # 0
      BY <2>2, FS_EmptySet DEF Batch
    <3>2. want[s] = p
      BY <3>1 DEF Batch, AcquireNow, CanGrantNow
    <3>. QED  BY <3>2, <2>2 DEF AcquireNow, TypeOK
  <2>6. want'[r] = p /\ profile' = p
    BY DEF AcquireNow, TypeOK
  <2>. QED  BY <2>1, <2>3, <2>4, <2>5, <2>6 DEF Batch
<1>4. Line(waiting, future)'
  BY DEF AcquireNow, Line
<1>5. Served(active, profile, waiting, future, want)'
  BY DEF AcquireNow, CanGrantNow, Served
<1>6. Phases(future, leases, task, want)'
  BY <1>1 DEF AcquireNow, Phases, TypeOK
<1>7. (backend \subseteq leases)' /\ Closed(task, backend)'
  BY DEF AcquireNow, Closed, TypeOK
<1>. QED  BY <1>2, <1>3, <1>4, <1>5, <1>6, <1>7

\* acquire finds the queue full (admission.py:79-80).
LEMMA AcquireFullKeeps ==
    ASSUME IInv, NEW r \in Requests, NEW p \in Profiles, AcquireFull(r, p)
    PROVE  IInv'
<1> USE DEF IInv
<1>1. future[r] = "none" /\ r \notin leases
  BY DEF AcquireFull, Phases
<1>2. TypeOK'
  BY DEF TypeOK, AcquireFull, TaskStates, queue
<1>3. Batch(active, profile, future, leases, want)'
  BY <1>1, Outsider DEF Batch, AcquireFull, queue, TypeOK
<1>4. Line(waiting, future)'
  BY DEF AcquireFull, Line, queue
<1>5. Served(active, profile, waiting, future, want)'
  BY <1>1, Outsider DEF AcquireFull, Served, queue, TypeOK
<1>6. Phases(future, leases, task, want)'
  BY <1>1 DEF AcquireFull, Phases, TypeOK, queue
<1>7. (backend \subseteq leases)' /\ Closed(task, backend)'
  BY <1>1 DEF AcquireFull, Closed, TypeOK
<1>. QED  BY <1>2, <1>3, <1>4, <1>5, <1>6, <1>7

\* acquire appends its entry and suspends (admission.py:81-85).
LEMMA AcquireWaitKeeps ==
    ASSUME IInv, NEW r \in Requests, NEW p \in Profiles, AcquireWait(r, p)
    PROVE  IInv'
<1> USE DEF IInv
<1>1. future[r] = "none" /\ r \notin leases
  BY DEF AcquireWait, Phases
<1>2. /\ \A i \in 1..Len(waiting) : waiting[i] \in Requests \ {r}
      /\ Len(waiting) \in Nat
      /\ r \notin Hold(future, leases) /\ Hold(future, leases) \in SUBSET Requests
  BY <1>1, Outsider
<1>3. TypeOK'
  BY DEF TypeOK, AcquireWait, TaskStates, FutureStates
<1>4. Batch(active, profile, future, leases, want)'
  <2>1. Hold(future', leases') = Hold(future, leases)
    BY <1>1 DEF Hold, AcquireWait, TypeOK
  <2>2. \A s \in Hold(future, leases) : want'[s] = want[s]
    BY <1>2 DEF AcquireWait, TypeOK
  <2>. QED  BY <2>1, <2>2 DEF Batch, AcquireWait
<1>5. /\ Len(waiting') = Len(waiting) + 1 /\ waiting' \in Seq(Requests)
      /\ waiting'[Len(waiting) + 1] = r
      /\ \A i \in 1..Len(waiting) : waiting'[i] = waiting[i]
  BY DEF AcquireWait, TypeOK
<1>6. future'[r] = "pending" /\ \A s \in Requests \ {r} : future'[s] = future[s]
  BY DEF AcquireWait, TypeOK
<1>7. Line(waiting, future)'
  <2>1. Len(waiting') <= max_waiting
    BY <1>2, <1>5 DEF AcquireWait
  <2>2. \A i, j \in 1..Len(waiting') : waiting'[i] = waiting'[j] => i = j
    BY <1>2, <1>5 DEF Line
  <2>3. \A i \in 1..Len(waiting') : future'[waiting'[i]] \in {"pending", "cancelled"}
    BY <1>2, <1>5, <1>6 DEF Line
  <2>4. ASSUME NEW s \in Requests, future'[s] = "pending"
        PROVE  \E i \in 1..Len(waiting') : waiting'[i] = s
    <3>1. CASE s = r
      BY <3>1, <1>2, <1>5
    <3>2. CASE s # r
      <4>1. PICK i \in 1..Len(waiting) : waiting[i] = s
        BY <3>2, <2>4, <1>6 DEF Line
      <4>. QED  BY <4>1, <1>2, <1>5
    <3>. QED  BY <3>1, <3>2
  <2>. QED  BY <1>5, <2>1, <2>2, <2>3, <2>4 DEF Line
<1>8. Served(active, profile, waiting, future, want)'
  <2>0. active' = active /\ profile' = profile
    BY DEF AcquireWait
  <2>1. CASE Len(waiting) = 0
    <3>1. waiting = <<>>
      BY <2>1 DEF TypeOK
    <3>2. waiting'[1] = r /\ want'[r] = p
      BY <2>1, <1>5 DEF AcquireWait, TypeOK
    <3>3. active >= limit \/ (active # 0 /\ profile # p)
      BY <3>1 DEF AcquireWait, CanGrantNow, TypeOK
    <3>. QED  BY <2>0, <3>2, <3>3 DEF Served, TypeOK
  <2>2. CASE Len(waiting) > 0
    <3>1. /\ waiting'[1] = waiting[1] /\ waiting[1] \in Requests \ {r}
      BY <2>2, <1>2, <1>5
    <3>2. future'[waiting[1]] = future[waiting[1]] /\ want'[waiting[1]] = want[waiting[1]]
      BY <3>1, <1>6 DEF AcquireWait, TypeOK
    <3>. QED  BY <2>0, <2>2, <3>1, <3>2 DEF Served
  <2>. QED  BY <2>1, <2>2, <1>2
<1>9. Phases(future, leases, task, want)'
  BY <1>1 DEF AcquireWait, Phases, TypeOK
<1>10. (backend \subseteq leases)' /\ Closed(task, backend)'
  BY DEF AcquireWait, Closed, TypeOK
<1>. QED  BY <1>3, <1>4, <1>7, <1>8, <1>9, <1>10

\* A timer or a disconnect interrupts acquire (admission.py:85).
LEMMA CancelQueuedKeeps ==
    ASSUME IInv, NEW r \in Requests, CancelQueued(r)
    PROVE  IInv'
<1> USE DEF IInv
<1>1. CASE future[r] = "pending"
  <2> USE <1>1
  <2>0. future' = [future EXCEPT ![r] = "cancelled"] /\ UNCHANGED <<queue, want, task, leases, backend, must_cancel>>
    BY DEF CancelQueued
  <2>1. TypeOK'
    BY <2>0 DEF TypeOK, queue, FutureStates
  <2>2. Hold(future', leases') = Hold(future, leases)
    BY <2>0 DEF Hold, TypeOK
  <2>3. Batch(active, profile, future, leases, want)'
    BY <2>0, <2>2 DEF Batch, queue
  <2>4. /\ future'[r] = "cancelled" /\ \A s \in Requests \ {r} : future'[s] = future[s]
        /\ \A i \in 1..Len(waiting) : waiting[i] \in Requests
        /\ Len(waiting) \in Nat
    BY <2>0, LenProperties DEF TypeOK
  <2>5. Line(waiting, future)'
    <3>1. \A i \in 1..Len(waiting) : future'[waiting[i]] \in {"pending", "cancelled"}
      BY <2>4 DEF Line
    <3>. QED  BY <2>0, <2>4, <3>1 DEF Line, queue
  <2>6. Served(active, profile, waiting, future, want)'
    <3>1. Len(waiting) > 0 => waiting[1] \in Requests
      BY <2>4
    <3>. QED  BY <2>0, <2>4, <3>1 DEF Served, queue
  <2>7. Phases(future, leases, task, want)'
    BY <2>0 DEF Phases, TypeOK
  <2>. QED  BY <2>0, <2>1, <2>3, <2>5, <2>6, <2>7 DEF Closed
<1>2. CASE future[r] # "pending"
  <2>0. /\ must_cancel' = must_cancel \cup {r}
        /\ UNCHANGED <<queue, future, want, task, leases, backend>>
    BY <1>2 DEF CancelQueued
  <2>1. TypeOK'
    BY <2>0 DEF TypeOK, queue
  <2>. QED  BY <2>0, <2>1 DEF queue, Batch, Hold, Line, Served, Phases, Closed
<1>. QED  BY <1>1, <1>2

\* acquire returns the lease it was granted (admission.py:85).
LEMMA ResumeGrantedKeeps ==
    ASSUME IInv, NEW r \in Requests, ResumeGranted(r)
    PROVE  IInv'
<1> USE DEF IInv
<1>0. /\ future' = [future EXCEPT ![r] = "none"] /\ future[r] = "granted" /\ task[r] = "queued"
      /\ task' = [task EXCEPT ![r] = "admitted"]
      /\ leases' = leases \cup {r}
      /\ UNCHANGED <<queue, want, must_cancel, backend>>
  BY DEF ResumeGranted
<1>1. TypeOK'
  BY <1>0 DEF TypeOK, queue, FutureStates, TaskStates
<1>2. Hold(future', leases') = Hold(future, leases)
  BY <1>0 DEF Hold, TypeOK
<1>3. Batch(active, profile, future, leases, want)'
  BY <1>0, <1>2 DEF Batch, queue
<1>4. /\ \A s \in Requests \ {r} : future'[s] = future[s]
      /\ \A i \in 1..Len(waiting) : waiting[i] \in Requests \ {r}
      /\ Len(waiting) \in Nat
  BY <1>0, LenProperties DEF TypeOK, Line
<1>5. Line(waiting, future)'
  <2>1. \A i \in 1..Len(waiting) : future'[waiting[i]] \in {"pending", "cancelled"}
    BY <1>4 DEF Line
  <2>2. \A s \in Requests : future'[s] = "pending" => future[s] = "pending"
    BY <1>0 DEF TypeOK
  <2>. QED  BY <1>0, <2>1, <2>2 DEF Line, queue
<1>6. Served(active, profile, waiting, future, want)'
  <2>1. Len(waiting) > 0 => waiting[1] \in Requests \ {r}
    BY <1>4
  <2>. QED  BY <1>0, <1>4, <2>1 DEF Served, queue
<1>7. Phases(future, leases, task, want)'
  BY <1>0 DEF Phases, TypeOK
<1>8. Closed(task, backend)'
  BY <1>0 DEF Closed, TypeOK
<1>. QED  BY <1>0, <1>1, <1>3, <1>5, <1>6, <1>7, <1>8

\* acquire, interrupted after its grant, gives the slot back (admission.py:88-89).
LEMMA ResumeReturnKeeps ==
    ASSUME IInv, NEW r \in Requests, ResumeReturn(r)
    PROVE  IInv'
<1> USE DEF IInv
<1> DEFINE f == [future EXCEPT ![r] = "none"]
           p == IF active = 1 THEN NoProfile ELSE profile
<1>0. /\ future[r] = "granted" /\ task[r] = "queued"
      /\ Promote(active - 1, p, waiting, f)
      /\ must_cancel' = must_cancel \ {r}
      /\ task' = [task EXCEPT ![r] = "finished"]
      /\ want' = want /\ leases' = leases /\ backend' = backend
  BY DEF ResumeReturn, Release
<1>1. /\ f \in [Requests -> FutureStates] /\ f[r] = "none"
      /\ \A s \in Requests \ {r} : f[s] = future[s]
      /\ leases \in SUBSET Requests /\ r \notin leases
  BY <1>0 DEF TypeOK, FutureStates, Phases
<1>2. r \in Hold(future, leases) /\ Hold(f, leases) = Hold(future, leases) \ {r}
  BY <1>0, <1>1 DEF Hold
<1>3. Batch(active - 1, p, f, leases, want) /\ p \in Profiles \cup {NoProfile}
  BY <1>1, <1>2, OneHolderLess
<1>4. Line(waiting, f)
  <2>1. \A i \in 1..Len(waiting) : waiting[i] \in Requests \ {r}
    BY <1>0, LenProperties DEF TypeOK, Line
  <2>2. \A s \in Requests : f[s] = "pending" => future[s] = "pending"
    BY <1>1
  <2>3. \A i \in 1..Len(waiting) : f[waiting[i]] \in {"pending", "cancelled"}
    BY <1>1, <2>1 DEF Line
  <2>. QED  BY <2>2, <2>3 DEF Line
<1>5. want \in [Requests -> Profiles \cup {NoProfile}] /\ want[r] \in Profiles
  BY <1>0 DEF TypeOK, Phases
<1> HIDE DEF f, p
<1>6. /\ Batch(active', profile', future', leases', want')
      /\ Line(waiting', future')
      /\ Served(active', profile', waiting', future', want')
      /\ Phases(future', leases', task', want')
      /\ profile' \in Profiles \cup {NoProfile}
      /\ future' \in [Requests -> FutureStates]
      /\ task' \in [Requests -> TaskStates]
  BY <1>0, <1>1, <1>3, <1>4, <1>5, LeaveAndPromote
<1>7. TypeOK'
  BY <1>0, <1>6 DEF TypeOK, Batch, Line
<1>8. (backend \subseteq leases)' /\ Closed(task, backend)'
  BY <1>0, <1>1 DEF Closed, TypeOK
<1>. QED  BY <1>6, <1>7, <1>8

\* acquire, interrupted before any grant, leaves the queue and promotes (admission.py:91-94).
LEMMA ResumeCancelledKeeps ==
    ASSUME IInv, NEW r \in Requests, ResumeCancelled(r)
    PROVE  IInv'
<1> USE DEF IInv
<1> DEFINE f == [future EXCEPT ![r] = "none"]
<1>0. /\ future[r] = "cancelled" /\ task[r] = "queued"
      /\ must_cancel' = must_cancel \ {r}
      /\ task' = [task EXCEPT ![r] = "finished"]
      /\ want' = want /\ leases' = leases /\ backend' = backend
  BY DEF ResumeCancelled
<1>1. /\ f \in [Requests -> FutureStates] /\ f[r] = "none"
      /\ \A s \in Requests \ {r} : f[s] = future[s]
      /\ leases \in SUBSET Requests /\ r \notin leases
  BY <1>0 DEF TypeOK, FutureStates, Phases
<1>2. PICK w : Line(w, f) /\ Promote(active, profile, w, f)
  <2>1. CASE /\ \A i \in 1..Len(waiting) : waiting[i] # r
             /\ Promote(active, profile, waiting, f)
    <3>1. \A i \in 1..Len(waiting) : waiting[i] \in Requests \ {r}
      BY <2>1, LenProperties DEF TypeOK
    <3>2. \A i \in 1..Len(waiting) : f[waiting[i]] \in {"pending", "cancelled"}
      BY <1>1, <3>1 DEF Line
    <3>3. \A s \in Requests : f[s] = "pending" => future[s] = "pending"
      BY <1>1
    <3>4. Line(waiting, f)
      BY <3>2, <3>3 DEF Line
    <3>. QED  BY <2>1, <3>4
  <2>2. CASE \E i \in 1..Len(waiting) :
                /\ waiting[i] = r
                /\ Promote(active, profile, RemoveEntry(waiting, i), f)
    <3>1. PICK i \in 1..Len(waiting) :
                /\ waiting[i] = r
                /\ Promote(active, profile, RemoveEntry(waiting, i), f)
      BY <2>2
    <3>2. f[waiting[i]] = "none" /\ \A s \in Requests : s # waiting[i] => f[s] = future[s]
      BY <1>1, <3>1
    <3> HIDE DEF f
    <3>3. Line(RemoveEntry(waiting, i), f)
      BY <3>2, RemoveEntryLine
    <3>. QED  BY <3>1, <3>3
  <2>. QED  BY <2>1, <2>2 DEF ResumeCancelled
<1>3. Hold(f, leases) = Hold(future, leases)
  BY <1>0, <1>1 DEF Hold
<1>4. Batch(active, profile, f, leases, want) /\ profile \in Profiles \cup {NoProfile}
  BY <1>3 DEF Batch, TypeOK
<1>5. want \in [Requests -> Profiles \cup {NoProfile}] /\ want[r] \in Profiles
  BY <1>0 DEF TypeOK, Phases
<1> HIDE DEF f
<1>6. /\ Batch(active', profile', future', leases', want')
      /\ Line(waiting', future')
      /\ Served(active', profile', waiting', future', want')
      /\ Phases(future', leases', task', want')
      /\ profile' \in Profiles \cup {NoProfile}
      /\ future' \in [Requests -> FutureStates]
      /\ task' \in [Requests -> TaskStates]
  BY <1>0, <1>1, <1>2, <1>4, <1>5, LeaveAndPromote
<1>7. TypeOK'
  BY <1>0, <1>6 DEF TypeOK, Batch, Line
<1>8. (backend \subseteq leases)' /\ Closed(task, backend)'
  BY <1>0, <1>1 DEF Closed, TypeOK
<1>. QED  BY <1>6, <1>7, <1>8

\* Both ways a lease is released by its owner: the handler's finally block and
\* the end of the streaming response.
LEMMA ReleaseLeaseKeeps ==
    ASSUME IInv, NEW r \in Requests, r \in leases, Release(future),
           leases' = leases \ {r}, backend' = backend \ {r},
           task' = [task EXCEPT ![r] = "idle"],
           want' = [want EXCEPT ![r] = NoProfile], must_cancel' = must_cancel
    PROVE  IInv'
<1> USE DEF IInv
<1> DEFINE p == IF active = 1 THEN NoProfile ELSE profile
           L == leases \ {r}
<1>0. Promote(active - 1, p, waiting, future)
  BY DEF Release
<1>1. /\ future \in [Requests -> FutureStates] /\ future[r] = "none"
      /\ L \in SUBSET Requests /\ r \notin L
      /\ \A s \in Requests \ {r} : s \in L <=> s \in leases
  BY DEF TypeOK, Phases
<1>2. r \in Hold(future, leases) /\ Hold(future, L) = Hold(future, leases) \ {r}
  BY <1>1 DEF Hold
<1>3. Batch(active - 1, p, future, L, want) /\ p \in Profiles \cup {NoProfile}
  BY <1>1, <1>2, OneHolderLess
<1>4. /\ want' \in [Requests -> Profiles \cup {NoProfile}]
      /\ \A s \in Requests \ {r} : want'[s] = want[s]
  BY DEF TypeOK
<1>5. leases' = L
  OBVIOUS
<1> HIDE DEF L, p
<1>6. /\ Batch(active', profile', future', leases', want')
      /\ Line(waiting', future')
      /\ Served(active', profile', waiting', future', want')
      /\ Phases(future', leases', task', want')
      /\ profile' \in Profiles \cup {NoProfile}
      /\ future' \in [Requests -> FutureStates]
      /\ task' \in [Requests -> TaskStates]
  BY <1>0, <1>1, <1>3, <1>4, <1>5, LeaveAndPromote
<1>7. TypeOK'
  BY <1>4, <1>6 DEF TypeOK, Batch, Line
<1>8. (backend \subseteq leases)' /\ Closed(task, backend)'
  BY DEF Closed, TypeOK
<1>. QED  BY <1>6, <1>7, <1>8

\* The handler's finally block releases the lease (app.py:522-524).
LEMMA HandlerEndsKeeps ==
    ASSUME IInv, NEW r \in Requests, HandlerEnds(r)
    PROVE  IInv'
<1>1. CASE r \in leases
  <2>1. backend' = backend \ {r}
    BY DEF HandlerEnds, IInv, Closed
  <2>. QED  BY <1>1, <2>1, ReleaseLeaseKeeps DEF HandlerEnds
<1>2. CASE r \notin leases
  <2> USE DEF IInv
  <2>0. /\ task[r] = "finished" /\ UNCHANGED <<queue, future, must_cancel, backend>>
        /\ leases' = leases /\ task' = [task EXCEPT ![r] = "idle"]
        /\ want' = [want EXCEPT ![r] = NoProfile]
    BY <1>2 DEF HandlerEnds
  <2>1. future[r] = "none"
    BY <2>0 DEF Phases
  <2>2. /\ \A i \in 1..Len(waiting) : waiting[i] \in Requests \ {r}
        /\ Len(waiting) \in Nat
        /\ r \notin Hold(future, leases) /\ Hold(future, leases) \in SUBSET Requests
    BY <1>2, <2>1, Outsider
  <2>3. \A s \in Requests \ {r} : want'[s] = want[s]
    BY <2>0 DEF TypeOK
  <2>4. TypeOK'
    BY <2>0 DEF TypeOK, queue, TaskStates
  <2>5. Batch(active, profile, future, leases, want)'
    BY <2>0, <2>2, <2>3 DEF Batch, queue
  <2>6. Line(waiting, future)'
    BY <2>0 DEF Line, queue
  <2>7. Served(active, profile, waiting, future, want)'
    <3>1. Len(waiting) > 0 => waiting[1] \in Requests \ {r}
      BY <2>2
    <3>. QED  BY <2>0, <2>3, <3>1 DEF Served, queue
  <2>8. Phases(future, leases, task, want)'
    BY <1>2, <2>0, <2>1, <2>3 DEF Phases, TypeOK
  <2>9. (backend \subseteq leases)' /\ Closed(task, backend)'
    BY <2>0 DEF Closed, TypeOK
  <2>. QED  BY <2>4, <2>5, <2>6, <2>7, <2>8, <2>9
<1>. QED  BY <1>1, <1>2

\* A stream's body iterator is closed and its lease released (admission.py:125-135).
LEMMA StreamClosesKeeps ==
    ASSUME IInv, NEW r \in Requests, StreamCloses(r)
    PROVE  IInv'
<1>1. r \in leases
  BY DEF IInv, StreamCloses, Phases
<1>. QED  BY <1>1, ReleaseLeaseKeeps DEF StreamCloses

\* The steps of an admitted request that touch neither queue nor lease.
LEMMA QuietStepKeeps ==
    ASSUME IInv, NEW r \in Requests,
           \/ Dispatch(r) \/ WorkEnds(r) \/ ReturnStream(r) \/ Unwind(r)
           \/ Transfer(r) \/ OpenStream(r) \/ StreamStops(r)
           \/ /\ task[r] = "admitted"
              /\ task' = [task EXCEPT ![r] = "aborting"]
              /\ UNCHANGED <<queue, want, future, must_cancel, leases, backend>>
    PROVE  IInv'
<1> USE DEF IInv
<1>0. PICK x \in {"admitted", "aborting", "finished", "handover", "streaming", "closing"} :
          /\ task[r] \in {"admitted", "aborting", "handover", "streaming"}
          /\ task' = [task EXCEPT ![r] = x]
          /\ backend' \in {backend, backend \cup {r}, backend \ {r}}
          /\ x = "finished" => r \notin backend'
          /\ UNCHANGED <<queue, want, future, must_cancel, leases>>
  <2>1. CASE Dispatch(r)
    BY <2>1 DEF Dispatch, TypeOK
  <2>2. CASE WorkEnds(r)
    BY <2>2 DEF WorkEnds
  <2>3. CASE ReturnStream(r)
    BY <2>3 DEF ReturnStream
  <2>4. CASE Unwind(r)
    BY <2>4 DEF Unwind
  <2>5. CASE Transfer(r)
    BY <2>5 DEF Transfer
  <2>6. CASE OpenStream(r)
    BY <2>6 DEF OpenStream, TypeOK
  <2>7. CASE StreamStops(r)
    BY <2>7 DEF StreamStops
  <2>. QED  BY <2>1, <2>2, <2>3, <2>4, <2>5, <2>6, <2>7
<1>1. r \in leases
  BY <1>0 DEF Phases
<1>2. TypeOK'
  BY <1>0 DEF TypeOK, queue, TaskStates
<1>3. /\ Batch(active, profile, future, leases, want)' /\ Line(waiting, future)'
      /\ Served(active, profile, waiting, future, want)'
  BY <1>0 DEF Batch, Hold, Line, Served, queue
<1>4. Phases(future, leases, task, want)'
  BY <1>0, <1>1 DEF Phases, TypeOK
<1>5. (backend \subseteq leases)' /\ Closed(task, backend)'
  BY <1>0, <1>1 DEF Closed, TypeOK
<1>. QED  BY <1>2, <1>3, <1>4, <1>5

-----------------------------------------------------------------------------
(* Theorems *)

\* The inductive invariant: slots, profile, queue and backend exchanges agree
\* in every state the admission queue and its handlers can reach.
THEOREM Invariance == Spec => []IInv
<1>1. Init => IInv
  <2> SUFFICES ASSUME Init PROVE IInv
    OBVIOUS
  <2> USE DEF Init
  <2>1. TypeOK
    BY DEF TypeOK, FutureStates, TaskStates
  <2>2. Hold(future, leases) = {}
    BY DEF Hold
  <2>3. Batch(active, profile, future, leases, want)
    <3>1. Cardinality(Hold(future, leases)) = 0
      BY <2>2, FS_EmptySet
    <3>2. active = 0 /\ profile = NoProfile
      OBVIOUS
    <3>. QED  BY <2>2, <3>1, <3>2 DEF Batch
  <2>4. Line(waiting, future)
    BY DEF Line
  <2>5. Served(active, profile, waiting, future, want)
    BY DEF Served
  <2>6. Phases(future, leases, task, want) /\ Closed(task, backend)
    BY DEF Phases, Closed
  <2>. QED  BY <2>1, <2>3, <2>4, <2>5, <2>6 DEF IInv
<1>2. IInv /\ [Next]_vars => IInv'
  <2> SUFFICES ASSUME IInv, [Next]_vars PROVE IInv'
    OBVIOUS
  <2>1. CASE UNCHANGED vars
    BY <2>1 DEF vars, queue, IInv, TypeOK, Batch, Hold, Line, Served, Phases, Closed
  <2>2. ASSUME NEW r \in Requests, Progress(r) PROVE IInv'
    <3>1. CASE ResumeGranted(r)
      BY <3>1, ResumeGrantedKeeps
    <3>2. CASE ResumeReturn(r)
      BY <3>2, ResumeReturnKeeps
    <3>3. CASE ResumeCancelled(r)
      BY <3>3, ResumeCancelledKeeps
    <3>4. CASE HandlerEnds(r)
      BY <3>4, HandlerEndsKeeps
    <3>5. CASE StreamCloses(r)
      BY <3>5, StreamClosesKeeps
    <3>6. CASE WorkEnds(r) \/ Unwind(r) \/ Transfer(r) \/ StreamStops(r)
      BY <3>6, QuietStepKeeps
    <3>. QED  BY <2>2, <3>1, <3>2, <3>3, <3>4, <3>5, <3>6 DEF Progress
  <2>3. ASSUME NEW r \in Requests, Environment(r) PROVE IInv'
    <3>1. ASSUME NEW p \in Profiles, AcquireNow(r, p) PROVE IInv'
      BY <3>1, AcquireNowKeeps
    <3>2. ASSUME NEW p \in Profiles, AcquireFull(r, p) PROVE IInv'
      BY <3>2, AcquireFullKeeps
    <3>3. ASSUME NEW p \in Profiles, AcquireWait(r, p) PROVE IInv'
      BY <3>3, AcquireWaitKeeps
    <3>4. CASE QueueTimeout(r)
      BY <3>4, CancelQueuedKeeps DEF QueueTimeout
    <3>5. CASE Disconnect(r)
      BY <3>5, CancelQueuedKeeps, QuietStepKeeps DEF Disconnect
    <3>6. CASE Dispatch(r) \/ ReturnStream(r) \/ OpenStream(r)
      BY <3>6, QuietStepKeeps
    <3>. QED  BY <2>3, <3>1, <3>2, <3>3, <3>4, <3>5, <3>6 DEF Environment
  <2>. QED  BY <2>1, <2>2, <2>3 DEF Next
<1>. QED  BY <1>1, <1>2, PTL DEF Spec

\* The holders of a slot in the terms of the inductive invariant.
LEMMA HoldersAreHold == Holders = Hold(future, leases)
BY DEF Holders, Hold

\* The queue's variables keep their types, active within 0..limit included.
THEOREM TypeCorrectness == Spec => []TypeOK
<1>1. IInv => TypeOK
  BY DEF IInv
<1>. QED  BY <1>1, Invariance, PTL

\* No path through acquire, the handler or a stream leaks a slot or returns one
\* twice, for any number of requests and any limit.
THEOREM SlotsNeverLeak == Spec => []SlotAccounting
<1>1. IInv => SlotAccounting
  BY HoldersAreHold DEF IInv, Batch, SlotAccounting
<1>. QED  BY <1>1, Invariance, PTL

\* Two profiles never hold slots at the same time.
THEOREM BatchesAreOfOneProfile == Spec => []OneProfileAtATime
<1>1. IInv => OneProfileAtATime
  BY HoldersAreHold DEF IInv, Batch, OneProfileAtATime
<1>. QED  BY <1>1, Invariance, PTL

\* A slot outlives the backend exchange it was granted for.
THEOREM SlotOutlivesExchange == Spec => []SlotCoversBackend
<1>1. IInv => SlotCoversBackend
  BY DEF IInv, SlotCoversBackend
<1>. QED  BY <1>1, Invariance, PTL

\* Nobody is left waiting for a slot that _promote should have given out.
THEOREM WakeupsAreNotLost == Spec => []NoLostWakeup
<1>1. IInv => NoLostWakeup
  <2> SUFFICES ASSUME IInv, waiting # <<>>
               PROVE  \/ active = limit
                      \/ future[Head(waiting)] = "cancelled"
                      \/ active > 0 /\ want[Head(waiting)] # profile
    BY DEF NoLostWakeup
  <2>1. waiting \in Seq(Requests)
    BY DEF IInv, TypeOK
  <2>2. Len(waiting) > 0 /\ Head(waiting) = waiting[1]
    BY <2>1
  <2>. QED  BY <2>2 DEF IInv, Served
<1>. QED  BY <1>1, Invariance, PTL

\* The queue holds distinct suspended requests, at most max_waiting of them.
THEOREM QueueIsWellFormed == Spec => []QueueEntries
<1>1. IInv => QueueEntries
  BY DEF IInv, Line, QueueEntries, Entries
<1>. QED  BY <1>1, Invariance, PTL

-----------------------------------------------------------------------------
(* Action properties *)

\* A request that holds a slot before and after a step wants the same profile.
LEMMA HoldersKeepTheirProfile ==
    ASSUME IInv, [Next]_vars, NEW s \in Requests,
           s \in Hold(future, leases), s \in Hold(future', leases')
    PROVE  want'[s] = want[s]
<1> USE DEF IInv
<1>1. task[s] # "idle"
  BY DEF Hold, Phases
<1>2. CASE UNCHANGED vars
  BY <1>2 DEF vars
<1>3. ASSUME NEW r \in Requests, NEW p \in Profiles,
             AcquireNow(r, p) \/ AcquireFull(r, p) \/ AcquireWait(r, p)
      PROVE  want'[s] = want[s]
  BY <1>1, <1>3 DEF AcquireNow, AcquireFull, AcquireWait, TypeOK
<1>4. ASSUME NEW r \in Requests, HandlerEnds(r) \/ StreamCloses(r)
      PROVE  want'[s] = want[s]
  <2>1. IInv' /\ task' = [task EXCEPT ![r] = "idle"] /\ want' = [want EXCEPT ![r] = NoProfile]
    BY <1>4, HandlerEndsKeeps, StreamClosesKeeps DEF HandlerEnds, StreamCloses
  <2>2. task'[s] # "idle"
    BY <2>1 DEF Hold, Phases
  <2>. QED  BY <2>1, <2>2 DEF TypeOK
<1>5. ASSUME NEW r \in Requests,
             \/ ResumeGranted(r) \/ ResumeReturn(r) \/ ResumeCancelled(r)
             \/ WorkEnds(r) \/ Unwind(r) \/ Transfer(r) \/ StreamStops(r)
             \/ QueueTimeout(r) \/ Disconnect(r)
             \/ Dispatch(r) \/ ReturnStream(r) \/ OpenStream(r)
      PROVE  want'[s] = want[s]
  BY <1>5 DEF ResumeGranted, ResumeReturn, ResumeCancelled, WorkEnds, Unwind, Transfer,
              StreamStops, QueueTimeout, Disconnect, CancelQueued, Dispatch, ReturnStream,
              OpenStream
<1>. QED  BY <1>2, <1>3, <1>4, <1>5 DEF Next, Progress, Environment

\* The queue's profile changes only when the whole old batch has left.
THEOREM BatchDrainsBeforeSwitch == Spec => DrainBeforeSwitch
<1>1. IInv /\ IInv' /\ [Next]_vars => [BatchStep]_vars
  <2> SUFFICES ASSUME IInv, IInv', [Next]_vars, NEW s, s \in Holders, s \in Holders'
               PROVE  profile' = profile
    BY DEF BatchStep
  <2>1. s \in Requests /\ s \in Hold(future, leases) /\ s \in Hold(future', leases')
    BY DEF Holders, Hold, IInv, TypeOK
  <2>2. want'[s] = want[s]
    BY <2>1, HoldersKeepTheirProfile
  <2>3. want[s] = profile /\ want'[s] = profile'
    BY <2>1 DEF IInv, Batch
  <2>. QED  BY <2>2, <2>3
<1>. QED  BY <1>1, Invariance, PTL DEF Spec, DrainBeforeSwitch

\* _promote serves its queue from the front: once w[j] has a slot, w[i] for an
\* i < j is not waiting any more.
LEMMA PromoteInOrder ==
    ASSUME NEW a, NEW p, NEW w, NEW f \in [Requests -> FutureStates], Line(w, f),
           Promote(a, p, w, f),
           NEW i \in 1..Len(w), NEW j \in 1..Len(w), i < j,
           f[w[j]] # "granted", future'[w[j]] = "granted"
    PROVE  future'[w[i]] # "pending"
<1>1. PICK k \in 0..Len(w) :
          future' = [r \in Requests |-> IF r \in Live(k, w, f) THEN "granted" ELSE f[r]]
  BY DEF Promote
<1>2. w \in Seq(Requests) /\ Len(w) \in Nat /\ \A n \in 1..Len(w) : w[n] \in Requests
  BY LenProperties DEF Line
<1>3. w[j] \in Live(k, w, f)
  BY <1>1, <1>2
<1>4. j <= k
  BY <1>2, <1>3 DEF Live, Line
<1>5. i \in 1..k
  BY <1>2, <1>4
<1>6. f[w[i]] = "pending" => w[i] \in Live(k, w, f)
  BY <1>2, <1>5 DEF Live
<1>. QED  BY <1>1, <1>2, <1>6

\* The same for the queue as it was before the entry of r, whose acquire was
\* interrupted, was taken out.
LEMMA PromoteInOrderWithout ==
    ASSUME NEW a, NEW p, NEW w, NEW f, NEW g \in [Requests -> FutureStates], Line(w, f),
           NEW m \in 1..Len(w), g[w[m]] = "none",
           \A s \in Requests : s # w[m] => g[s] = f[s],
           Promote(a, p, RemoveEntry(w, m), g),
           NEW i \in 1..Len(w), NEW j \in 1..Len(w), i < j,
           g[w[j]] # "granted", future'[w[j]] = "granted"
    PROVE  future'[w[i]] # "pending"
<1> DEFINE v == RemoveEntry(w, m)
<1>1. w \in Seq(Requests) /\ Len(w) \in Nat /\ \A n \in 1..Len(w) : w[n] \in Requests
  BY LenProperties DEF Line
<1>2. Line(v, g)
  BY RemoveEntryLine
<1>3. Len(v) = Len(w) - 1
  <2>1. Len(w) - 1 \in Nat /\ v \in [1..(Len(w) - 1) -> Requests]
    BY <1>1 DEF RemoveEntry
  <2>. QED  BY <2>1, <1>2, LenProperties DEF Line
<1>4. \A n \in 1..(Len(w) - 1) : v[n] = IF n < m THEN w[n] ELSE w[n + 1]
  BY DEF RemoveEntry
<1> HIDE DEF v
<1>5. \A s \in Requests : g[s] = "none" => future'[s] = "none"
  <2>1. PICK k \in 0..Len(v) :
            future' = [r \in Requests |-> IF r \in Live(k, v, g) THEN "granted" ELSE g[r]]
    BY DEF Promote, v
  <2>. QED  BY <2>1 DEF Live
<1>6. j # m
  BY <1>1, <1>5
<1>7. CASE i = m
  BY <1>1, <1>5, <1>7
<1>8. CASE i # m
  <2>1. PICK x \in 1..Len(v) : v[x] = w[i] /\ (x = i \/ x = i - 1) /\ (x = i <=> i < m)
    <3>1. CASE i < m
      BY <1>1, <1>3, <1>4, <3>1
    <3>2. CASE i > m
      <4>1. i - 1 \in 1..Len(v) /\ v[i - 1] = w[i]
        BY <1>1, <1>3, <1>4, <3>2
      <4>. QED  BY <4>1, <3>2
    <3>. QED  BY <1>1, <1>8, <3>1, <3>2
  <2>2. PICK y \in 1..Len(v) : v[y] = w[j] /\ (y = j \/ y = j - 1) /\ (y = j <=> j < m)
    <3>1. CASE j < m
      BY <1>1, <1>3, <1>4, <3>1
    <3>2. CASE j > m
      <4>1. j - 1 \in 1..Len(v) /\ v[j - 1] = w[j]
        BY <1>1, <1>3, <1>4, <3>2
      <4>. QED  BY <4>1, <3>2
    <3>. QED  BY <1>1, <1>6, <3>1, <3>2
  <2>3. x < y
    BY <2>1, <2>2, <1>1, <1>6, <1>8
  <2>4. future'[v[x]] # "pending"
    BY <1>2, <2>1, <2>2, <2>3, PromoteInOrder DEF v
  <2>. QED  BY <2>1, <2>4
<1>. QED  BY <1>7, <1>8

\* A request overtakes nobody who is still waiting, whatever is interrupted.
THEOREM AdmissionIsFIFO == Spec => StrictFIFO
<1>1. IInv /\ [Next]_vars => [FIFOStep]_vars
  <2> SUFFICES ASSUME IInv, [Next]_vars, NEW s \in Requests, s \in Holders', s \notin Holders,
                      NEW r \in Requests, Ahead(r, s)
               PROVE  future'[r] # "pending"
    BY DEF FIFOStep
  <2> USE DEF IInv
  <2>1. PICK i \in 1..Len(waiting) :
            waiting[i] = r /\ \A j \in 1..Len(waiting) : waiting[j] = s => i < j
    BY DEF Ahead
  <2>2. /\ future \in [Requests -> FutureStates] /\ leases \in SUBSET Requests
        /\ Line(waiting, future) /\ future[s] # "granted" /\ s \notin leases
        /\ s \in leases' \/ future'[s] = "granted"
    BY DEF TypeOK, Holders
  <2>3. ASSUME NEW f \in [Requests -> FutureStates], NEW a, NEW p, NEW w,
               \A t \in Requests : f[t] \in {future[t], "none"},
               future[s] = "pending" => f[s] = "pending",
               Promote(a, p, w, f), s \notin leases'
        PROVE  /\ future'[s] = "granted" /\ f[s] # "granted"
               /\ \E j \in 1..Len(waiting) : waiting[j] = s
    <3>1. future'[s] = "granted" /\ f[s] # "granted"
      BY <2>2, <2>3
    <3>2. f[s] = "pending"
      <4>1. PICK k \in 0..Len(w) :
                future' = [t \in Requests |-> IF t \in Live(k, w, f) THEN "granted" ELSE f[t]]
        BY <2>3 DEF Promote
      <4>. QED  BY <3>1, <4>1 DEF Live
    <3>3. future[s] = "pending"
      BY <2>3, <3>2
    <3>. QED  BY <2>2, <3>1, <3>3 DEF Line
  <2>4. CASE UNCHANGED vars
    BY <2>2, <2>4 DEF vars
  <2>5. ASSUME NEW q \in Requests, NEW p \in Profiles, AcquireNow(q, p) PROVE FALSE
    BY <2>1, <2>5 DEF AcquireNow, CanGrantNow
  <2>6. ASSUME NEW q \in Requests, NEW p \in Profiles, AcquireFull(q, p) \/ AcquireWait(q, p)
        PROVE  FALSE
    BY <2>2, <2>6 DEF AcquireFull, AcquireWait
  <2>7. ASSUME NEW q \in Requests,
               \/ WorkEnds(q) \/ Unwind(q) \/ Transfer(q) \/ StreamStops(q)
               \/ QueueTimeout(q) \/ Disconnect(q)
               \/ Dispatch(q) \/ ReturnStream(q) \/ OpenStream(q) \/ ResumeGranted(q)
        PROVE  FALSE
    BY <2>2, <2>7 DEF WorkEnds, Unwind, Transfer, StreamStops, QueueTimeout, Disconnect,
                      CancelQueued, Dispatch, ReturnStream, OpenStream, ResumeGranted
  <2>8. ASSUME NEW q \in Requests, HandlerEnds(q) \/ StreamCloses(q)
        PROVE  future'[r] # "pending"
    <3>1. s \notin leases'
      BY <2>2, <2>8 DEF HandlerEnds, StreamCloses
    <3>2. PICK a, p : Promote(a, p, waiting, future)
      BY <2>2, <2>8, <3>1 DEF HandlerEnds, StreamCloses, Release
    <3>3. PICK j \in 1..Len(waiting) : waiting[j] = s
      BY <2>2, <2>3, <3>1, <3>2
    <3>4. future'[s] = "granted" /\ i < j
      BY <2>1, <2>2, <3>1, <3>3
    <3>. QED  BY <2>1, <2>2, <3>2, <3>3, <3>4, PromoteInOrder
  <2>9. ASSUME NEW q \in Requests, ResumeReturn(q)
        PROVE  future'[r] # "pending"
    <3> DEFINE f == [future EXCEPT ![q] = "none"]
    <3>0. future[q] = "granted" /\ leases' = leases
      BY <2>9 DEF ResumeReturn
    <3>1. /\ f \in [Requests -> FutureStates] /\ \A t \in Requests : f[t] \in {future[t], "none"}
          /\ f[q] = "none" /\ \A t \in Requests \ {q} : f[t] = future[t]
      BY <2>2 DEF FutureStates
    <3>2. PICK a, p : Promote(a, p, waiting, f)
      BY <2>9 DEF ResumeReturn, Release
    <3> HIDE DEF f
    <3>3. future[s] = "pending" => f[s] = "pending"
      BY <3>0, <3>1
    <3>4. future'[s] = "granted" /\ f[s] # "granted" /\ \E j \in 1..Len(waiting) : waiting[j] = s
      BY <2>2, <2>3, <3>0, <3>1, <3>2, <3>3
    <3>5. PICK j \in 1..Len(waiting) : waiting[j] = s
      BY <3>4
    <3>6. i < j
      BY <2>1, <3>5
    <3>7. Line(waiting, f)
      <4>1. \A n \in 1..Len(waiting) : waiting[n] \in Requests \ {q}
        BY <2>2, <3>0, LenProperties DEF Line
      <4>2. \A n \in 1..Len(waiting) : f[waiting[n]] \in {"pending", "cancelled"}
        BY <2>2, <3>1, <4>1 DEF Line
      <4>3. \A t \in Requests : f[t] = "pending" => future[t] = "pending"
        BY <3>1
      <4>. QED  BY <2>2, <4>2, <4>3 DEF Line
    <3>. QED  BY <2>1, <3>1, <3>2, <3>4, <3>5, <3>6, <3>7, PromoteInOrder
  <2>10. ASSUME NEW q \in Requests, ResumeCancelled(q)
         PROVE  future'[r] # "pending"
    <3> DEFINE f == [future EXCEPT ![q] = "none"]
    <3>0. future[q] = "cancelled" /\ leases' = leases
      BY <2>10 DEF ResumeCancelled
    <3>1. /\ f \in [Requests -> FutureStates] /\ \A t \in Requests : f[t] \in {future[t], "none"}
          /\ f[q] = "none" /\ \A t \in Requests \ {q} : f[t] = future[t]
      BY <2>2 DEF FutureStates
    <3>2. \/ /\ \A n \in 1..Len(waiting) : waiting[n] # q
             /\ Promote(active, profile, waiting, f)
          \/ \E n \in 1..Len(waiting) :
                /\ waiting[n] = q
                /\ Promote(active, profile, RemoveEntry(waiting, n), f)
      BY <2>10 DEF ResumeCancelled
    <3> HIDE DEF f
    <3>3. future[s] = "pending" => f[s] = "pending"
      BY <3>0, <3>1
    <3>4. future'[s] = "granted" /\ f[s] # "granted" /\ \E j \in 1..Len(waiting) : waiting[j] = s
      BY <2>2, <2>3, <3>0, <3>1, <3>2, <3>3
    <3>5. PICK j \in 1..Len(waiting) : waiting[j] = s
      BY <3>4
    <3>6. i < j
      BY <2>1, <3>5
    <3>7. CASE /\ \A n \in 1..Len(waiting) : waiting[n] # q
               /\ Promote(active, profile, waiting, f)
      <4>1. \A n \in 1..Len(waiting) : waiting[n] \in Requests \ {q}
        BY <2>2, <3>7, LenProperties DEF Line
      <4>2. \A n \in 1..Len(waiting) : f[waiting[n]] \in {"pending", "cancelled"}
        BY <2>2, <3>1, <4>1 DEF Line
      <4>3. \A t \in Requests : f[t] = "pending" => future[t] = "pending"
        BY <3>1
      <4>4. Line(waiting, f)
        BY <2>2, <4>2, <4>3 DEF Line
      <4>. QED  BY <2>1, <3>1, <3>4, <3>5, <3>6, <3>7, <4>4, PromoteInOrder
    <3>8. CASE \E n \in 1..Len(waiting) :
                  /\ waiting[n] = q
                  /\ Promote(active, profile, RemoveEntry(waiting, n), f)
      <4>1. PICK n \in 1..Len(waiting) :
                  /\ waiting[n] = q
                  /\ Promote(active, profile, RemoveEntry(waiting, n), f)
        BY <3>8
      <4>2. f[waiting[n]] = "none" /\ \A t \in Requests : t # waiting[n] => f[t] = future[t]
        BY <3>1, <4>1
      <4>. QED  BY <2>1, <2>2, <3>1, <3>4, <3>5, <3>6, <4>1, <4>2, PromoteInOrderWithout
    <3>. QED  BY <3>2, <3>7, <3>8
  <2>. QED
    BY <2>4, <2>5, <2>6, <2>7, <2>8, <2>9, <2>10 DEF Next, Progress, Environment
<1>. QED  BY <1>1, Invariance, PTL DEF Spec, StrictFIFO

-----------------------------------------------------------------------------
(* The admission queue implements GroupLock *)

\* The arrival order and the kinds of the group lock, as the queue gives them.
Bef == {b \in Pending \X Pending : b[1] # b[2] /\ Ahead(b[1], b[2])}
Kin == [r \in Requests |-> IF r \in Holders \cup Pending THEN want[r] ELSE NoProfile]

InLine(w, s, t) == \E i, j \in 1..Len(w) : i < j /\ w[i] = s /\ w[j] = t

LEMMA AheadIsInLine ==
    ASSUME NEW w, NEW f, Line(w, f), NEW s, NEW t \in Requests, f[t] = "pending"
    PROVE  InLine(w, s, t) <=>
              /\ s # t
              /\ \E i \in 1..Len(w) : w[i] = s /\ \A j \in 1..Len(w) : w[j] = t => i < j
<1>1. PICK m \in 1..Len(w) : w[m] = t
  BY DEF Line
<1>2. ASSUME NEW i \in 1..Len(w), NEW j \in 1..Len(w), i < j, w[i] = s, w[j] = t
      PROVE  s # t /\ \A k \in 1..Len(w) : w[k] = t => i < k
  BY <1>2 DEF Line
<1> QED BY <1>1, <1>2 DEF InLine

\* Before and after a step, the order of two clients is that of their entries.
LEMMA BefIs ==
    ASSUME Line(waiting, future)
    PROVE  /\ Bef \subseteq Pending \X Pending
           /\ \A s, t \in Pending : <<s, t>> \in Bef <=> InLine(waiting, s, t)
  BY AheadIsInLine DEF Bef, Ahead, Pending

LEMMA BefWillBe ==
    ASSUME Line(waiting', future')
    PROVE  /\ Bef' \subseteq Pending' \X Pending'
           /\ \A s, t \in Pending' : <<s, t>> \in Bef' <=> InLine(waiting', s, t)
  BY AheadIsInLine DEF Bef, Ahead, Pending

\* The group lock counts as this module does.
LEMMA LockCounts == \A S : Lock!Cardinality(S) = Cardinality(S)
  BY DEF Lock!Cardinality, Cardinality

\* The steps of the group lock in these terms.
LEMMA LockStutters ==
    ASSUME Holders' = Holders, Pending' = Pending, Bef' = Bef, Kin' = Kin
    PROVE  UNCHANGED Lock!vars
  BY DEF Lock!vars, Bef, Kin

LEMMA LockEnters ==
    ASSUME NEW r \in Requests, NEW p \in Profiles,
           r \notin Holders, Pending = {}, Cardinality(Holders) < limit,
           \A d \in Holders : Kin[d] = p,
           Holders' = Holders \cup {r}, Kin' = [Kin EXCEPT ![r] = p],
           Pending' = Pending, Bef' = Bef
    PROVE  Lock!Next
<1>1. Lock!Enter(r, p)
  BY LockCounts DEF Lock!Enter, Lock!Outside, Bef, Kin
<1> QED BY <1>1 DEF Lock!Next

LEMMA LockArrives ==
    ASSUME NEW r \in Requests, NEW p \in Profiles,
           r \notin Holders, r \notin Pending,
           Pending' = Pending \cup {r}, Bef' = Bef \cup (Pending \X {r}),
           Kin' = [Kin EXCEPT ![r] = p], Holders' = Holders
    PROVE  Lock!Next
<1>1. Lock!Arrive(r, p)
  BY DEF Lock!Arrive, Lock!Outside, Bef, Kin
<1> QED BY <1>1 DEF Lock!Next

LEMMA LockGivesUp ==
    ASSUME NEW r \in Pending,
           Pending' = Pending \ {r}, Bef' = {b \in Bef : r \notin {b[1], b[2]}},
           Kin' = [Kin EXCEPT ![r] = NoProfile], Holders' = Holders
    PROVE  Lock!Next
<1>1. Lock!GiveUp(r)
  BY DEF Lock!GiveUp, Bef, Kin
<1>2. r \in Requests
  BY DEF Pending
<1> QED BY <1>1, <1>2 DEF Lock!Next

LEMMA LockPasses ==
    ASSUME NEW gone \in SUBSET Holders, NEW next \in SUBSET Pending, Cardinality(gone) <= 1,
           \A b \in Bef : b[2] \in next => b[1] \in next,
           Holders' = (Holders \ gone) \cup next, Cardinality(Holders') <= limit,
           \A c, d \in Holders' : Kin[c] = Kin[d],
           Pending' = Pending \ next,
           Bef' = {b \in Bef : b[1] \notin next /\ b[2] \notin next},
           Kin' = [c \in Requests |-> IF c \in gone THEN NoProfile ELSE Kin[c]]
    PROVE  Lock!Next
<1>1. Lock!Pass(gone, next)
  BY LockCounts DEF Lock!Pass, Bef, Kin
<1> QED BY <1>1 DEF Lock!Next

\* _promote takes the first pending entries and leaves the order of the others.
LEMMA PromoteKeepsOrder ==
    ASSUME NEW a, NEW p, NEW w, NEW f \in [Requests -> FutureStates], Line(w, f),
           Promote(a, p, w, f)
    PROVE  \E next \in SUBSET {r \in Requests : f[r] = "pending"} :
              /\ future' = [r \in Requests |-> IF r \in next THEN "granted" ELSE f[r]]
              /\ \A s, t \in Requests : f[s] = "pending" /\ InLine(w, s, t) /\ t \in next => s \in next
              /\ \A s, t \in Requests :
                    f[s] = "pending" /\ f[t] = "pending" /\ s \notin next /\ t \notin next =>
                        (InLine(waiting', s, t) <=> InLine(w, s, t))
<1>1. PICK k \in 0..Len(w) :
          /\ waiting' = SubSeq(w, k + 1, Len(w))
          /\ future' = [r \in Requests |-> IF r \in Live(k, w, f) THEN "granted" ELSE f[r]]
  BY DEF Promote
<1> DEFINE next == Live(k, w, f)
           n == Len(w)
<1>2. w \in Seq(Requests) /\ n \in Nat /\ \A i \in 1..n : w[i] \in Requests
  BY LenProperties DEF Line
<1>3. /\ Len(waiting') = n - k
      /\ \A i \in 1..(n - k) : waiting'[i] = w[k + i]
  <2>1. \A i \in (k + 1)..n : w[i] \in Requests
    BY <1>2
  <2>. QED  BY <1>1, <1>2, <2>1, SubSeqProperties
<1>4. next \in SUBSET {r \in Requests : f[r] = "pending"}
  BY DEF Live
<1>5. \A r \in Requests : f[r] = "pending" => (r \in next <=> \E i \in 1..k : w[i] = r)
  BY DEF Live
<1>6. \A i, j \in 1..n : w[i] = w[j] => i = j
  BY DEF Line
<1> HIDE DEF next, n
<1>7. ASSUME NEW s \in Requests, NEW t \in Requests, f[s] = "pending", InLine(w, s, t), t \in next
      PROVE  s \in next
  <2>1. PICK i, j \in 1..n : i < j /\ w[i] = s /\ w[j] = t
    BY <1>7 DEF InLine, n
  <2>2. PICK m \in 1..k : w[m] = t
    BY <1>4, <1>5, <1>7
  <2>3. m = j
    BY <1>1, <1>2, <1>6, <2>1, <2>2 DEF n
  <2>4. i \in 1..k
    BY <2>1, <2>2, <2>3
  <2> QED BY <1>5, <1>7, <2>1, <2>4
<1>8. ASSUME NEW s \in Requests, NEW t \in Requests, f[s] = "pending", f[t] = "pending",
             s \notin next, t \notin next
      PROVE  InLine(waiting', s, t) <=> InLine(w, s, t)
  <2>1. ASSUME NEW i \in 1..(n - k), NEW j \in 1..(n - k), i < j, waiting'[i] = s, waiting'[j] = t
        PROVE  InLine(w, s, t)
    <3>1. k + i \in 1..n /\ k + j \in 1..n /\ k + i < k + j
      BY <1>2, <2>1
    <3>2. w[k + i] = s /\ w[k + j] = t
      BY <1>3, <2>1
    <3> QED BY <3>1, <3>2 DEF InLine, n
  <2>2. ASSUME NEW i \in 1..n, NEW j \in 1..n, i < j, w[i] = s, w[j] = t
        PROVE  InLine(waiting', s, t)
    <3>1. i \notin 1..k /\ j \notin 1..k
      BY <1>5, <1>8, <2>2
    <3>2. i - k \in 1..(n - k) /\ j - k \in 1..(n - k) /\ i - k < j - k
      BY <1>2, <2>2, <3>1
    <3>3. waiting'[i - k] = s /\ waiting'[j - k] = t
      BY <1>2, <1>3, <2>2, <3>2
    <3> QED BY <1>3, <3>2, <3>3 DEF InLine
  <2> QED BY <1>3, <2>1, <2>2 DEF InLine, n
<1> QED BY <1>1, <1>4, <1>7, <1>8 DEF next

\* Taking an entry out leaves the order of the others.
LEMMA RemoveEntryKeepsOrder ==
    ASSUME NEW w, NEW f, Line(w, f), NEW m \in 1..Len(w),
           NEW s, NEW t, s # w[m], t # w[m]
    PROVE  InLine(RemoveEntry(w, m), s, t) <=> InLine(w, s, t)
<1> DEFINE v == RemoveEntry(w, m)
           n == Len(w)
<1>1. n \in Nat /\ n >= 1
  BY LenProperties DEF Line
<1>2. Len(v) = n - 1
  <2>1. n - 1 \in Nat /\ v \in [1..(n - 1) -> Requests]
    BY <1>1, LenProperties DEF RemoveEntry, Line
  <2>2. v \in Seq(Requests)
    BY <2>1
  <2>. QED  BY <2>1, <2>2, LenProperties
<1>3. \A i \in 1..(n - 1) : v[i] = IF i < m THEN w[i] ELSE w[i + 1]
  BY DEF RemoveEntry
<1> DEFINE up(i) == IF i < m THEN i ELSE i + 1
           down(i) == IF i < m THEN i ELSE i - 1
<1>4. \A i \in 1..(n - 1) : up(i) \in 1..n /\ w[up(i)] = v[i]
  BY <1>1, <1>3
<1>5. \A i, j \in 1..(n - 1) : i < j => up(i) < up(j)
  BY <1>1
<1>6. \A i \in 1..n : i # m => down(i) \in 1..(n - 1) /\ v[down(i)] = w[i]
  <2> SUFFICES ASSUME NEW i \in 1..n, i # m
               PROVE  down(i) \in 1..(n - 1) /\ v[down(i)] = w[i]
    OBVIOUS
  <2>1. CASE i < m
    BY <1>1, <1>3, <2>1
  <2>2. CASE i > m
    BY <1>1, <1>3, <2>2
  <2> QED BY <1>1, <2>1, <2>2
<1>7. \A i, j \in 1..n : i # m /\ j # m /\ i < j => down(i) < down(j)
  BY <1>1
<1> HIDE DEF v, n, up, down
<1>8. ASSUME NEW i \in 1..(n - 1), NEW j \in 1..(n - 1), i < j, v[i] = s, v[j] = t
      PROVE  InLine(w, s, t)
  BY <1>4, <1>5, <1>8 DEF InLine, n
<1>9. ASSUME NEW i \in 1..n, NEW j \in 1..n, i < j, w[i] = s, w[j] = t
      PROVE  InLine(v, s, t)
  <2>1. i # m /\ j # m
    BY <1>9
  <2> QED BY <1>2, <1>6, <1>7, <1>9, <2>1 DEF InLine
<1> QED BY <1>2, <1>8, <1>9 DEF InLine, v, n

\* A request that does not wait leaves, with its slot if it has one, and the
\* first of the queue come in.
LEMMA PromotePasses ==
    ASSUME IInv, IInv', NEW r \in Requests, future[r] # "pending",
           NEW a, NEW p, NEW w, NEW f \in [Requests -> FutureStates], Line(w, f), Promote(a, p, w, f),
           f[r] = "none", \A s \in Requests \ {r} : f[s] = future[s],
           leases' = leases \ {r}, \A s \in Requests \ {r} : want'[s] = want[s],
           \A s, t \in Requests \ {r} : InLine(w, s, t) <=> InLine(waiting, s, t)
    PROVE  Lock!Next
<1>1. PICK next \in SUBSET {s \in Requests : f[s] = "pending"} :
              /\ future' = [s \in Requests |-> IF s \in next THEN "granted" ELSE f[s]]
              /\ \A s, t \in Requests : f[s] = "pending" /\ InLine(w, s, t) /\ t \in next => s \in next
              /\ \A s, t \in Requests :
                    f[s] = "pending" /\ f[t] = "pending" /\ s \notin next /\ t \notin next =>
                        (InLine(waiting', s, t) <=> InLine(w, s, t))
  BY PromoteKeepsOrder
<1>2. /\ leases \in SUBSET Requests /\ Line(waiting, future) /\ Line(waiting', future')
      /\ Batch(active', profile', future', leases', want')
      /\ Phases(future, leases, task, want)
  BY DEF IInv, TypeOK
<1> DEFINE gone == {r} \cap Holders
<1>3. /\ Pending = {s \in Requests : f[s] = "pending"} /\ r \notin Pending
      /\ Pending \subseteq Requests /\ next \subseteq Pending
  BY <1>1 DEF Pending
<1>4. Pending' = Pending \ next
  BY <1>1, <1>3 DEF Pending
<1>5. Holders' = (Holders \ gone) \cup next /\ Holders \subseteq Requests
  BY <1>1, <1>2 DEF Holders
<1>6. r \notin Holders' /\ r \notin Pending'
  BY <1>3, <1>4, <1>5
<1>7. \A s \in Requests \ {r} : s \in Holders' \cup Pending' <=> s \in Holders \cup Pending
  BY <1>3, <1>4, <1>5
<1>8. Cardinality(gone) <= 1
  <2>1. gone = {} \/ gone = {r}
    OBVIOUS
  <2> QED BY <2>1, FS_EmptySet, FS_Singleton
<1>9. Cardinality(Holders') <= limit
  <2>1. Holders' = Hold(future', leases')
    BY DEF Holders, Hold
  <2> QED BY <1>2, <2>1 DEF Batch
<1>10. \A c, d \in Holders' : Kin[c] = Kin[d]
  <2>1. \A c \in Holders' : c \in Requests \ {r} /\ c \in Holders \cup Pending
    BY <1>3, <1>5, <1>6
  <2>2. \A c \in Holders' : want'[c] = profile'
    BY <1>2 DEF Batch, Holders, Hold
  <2>3. \A c \in Holders' : Kin[c] = profile'
    BY <2>1, <2>2 DEF Kin
  <2> QED BY <2>3
<1>11. Kin' = [c \in Requests |-> IF c \in gone THEN NoProfile ELSE Kin[c]]
  <2>1. ASSUME NEW c \in Requests
        PROVE  (IF c \in Holders' \cup Pending' THEN want'[c] ELSE NoProfile)
                  = IF c \in gone THEN NoProfile ELSE Kin[c]
    <3>1. CASE c = r
      BY <1>3, <1>6, <3>1 DEF Kin
    <3>2. CASE c # r
      BY <1>7, <3>2 DEF Kin
    <3> QED BY <3>1, <3>2
  <2> QED BY <2>1 DEF Kin
<1>12. /\ Bef \subseteq Pending \X Pending
       /\ \A s, t \in Pending : <<s, t>> \in Bef <=> InLine(waiting, s, t)
       /\ Bef' \subseteq Pending' \X Pending'
       /\ \A s, t \in Pending' : <<s, t>> \in Bef' <=> InLine(waiting', s, t)
  BY <1>2, BefIs, BefWillBe
<1>13. ASSUME NEW s \in Pending, NEW t \in Pending
       PROVE  <<s, t>> \in Bef <=> InLine(w, s, t)
  <2>1. s \in Requests \ {r} /\ t \in Requests \ {r}
    BY <1>3
  <2>2. InLine(w, s, t) <=> InLine(waiting, s, t)
    BY <2>1
  <2> QED BY <1>12, <2>2
<1>14. \A b \in Bef : b[2] \in next => b[1] \in next
  <2> SUFFICES ASSUME NEW s \in Pending, NEW t \in Pending, <<s, t>> \in Bef, t \in next
               PROVE  s \in next
    BY <1>12
  <2> QED BY <1>1, <1>3, <1>13
<1>15. ASSUME NEW s \in Pending, NEW t \in Pending
       PROVE  <<s, t>> \in Bef' <=> <<s, t>> \in Bef /\ s \notin next /\ t \notin next
  <2>1. CASE s \notin next /\ t \notin next
    <3>1. s \in Pending' /\ t \in Pending' /\ f[s] = "pending" /\ f[t] = "pending"
      BY <1>3, <1>4, <2>1
    <3>2. InLine(waiting', s, t) <=> InLine(w, s, t)
      BY <1>1, <1>3, <2>1, <3>1
    <3> QED BY <1>12, <1>13, <2>1, <3>1, <3>2
  <2>2. CASE s \in next \/ t \in next
    BY <1>4, <1>12, <2>2
  <2> QED BY <2>1, <2>2
<1>16. Bef' = {b \in Bef : b[1] \notin next /\ b[2] \notin next}
  <2> DEFINE X == {b \in Bef : b[1] \notin next /\ b[2] \notin next}
  <2>1. Bef' \subseteq Pending \X Pending /\ X \subseteq Pending \X Pending
    BY <1>4, <1>12
  <2>2. ASSUME NEW s \in Pending, NEW t \in Pending
        PROVE  <<s, t>> \in Bef' <=> <<s, t>> \in X
    <3>1. <<s, t>> \in X <=> <<s, t>> \in Bef /\ s \notin next /\ t \notin next
      OBVIOUS
    <3> QED BY <1>15, <3>1
  <2>3. Bef' = X
    BY <2>1, <2>2
  <2> QED BY <2>3
<1> HIDE DEF gone
<1>17. gone \in SUBSET Holders /\ next \in SUBSET Pending
  BY <1>3 DEF gone
<1> QED BY <1>4, <1>5, <1>8, <1>9, <1>10, <1>11, <1>14, <1>16, <1>17, LockPasses

\* What the group lock does not see.
LEMMA UnseenStutters ==
    ASSUME Holders' = Holders, Pending' = Pending, waiting' = waiting,
           \A s \in Requests : s \in Holders \cup Pending => want'[s] = want[s]
    PROVE  UNCHANGED Lock!vars
<1>1. Bef' = Bef
  BY DEF Bef, Ahead
<1>2. Kin' = Kin
  BY DEF Kin
<1> QED BY <1>1, <1>2, LockStutters

LEMMA AcquireNowEnters ==
    ASSUME IInv, IInv', NEW r \in Requests, NEW p \in Profiles, AcquireNow(r, p)
    PROVE  Lock!Next
<1>0. /\ task[r] = "idle" /\ waiting = <<>> /\ active < limit /\ (active = 0 \/ profile = p)
      /\ want' = [want EXCEPT ![r] = p] /\ leases' = leases \cup {r} /\ UNCHANGED <<waiting, future>>
  BY DEF AcquireNow, CanGrantNow
<1>1. future[r] = "none" /\ r \notin leases /\ Holders = Hold(future, leases)
  BY <1>0, HoldersAreHold DEF IInv, Phases
<1>2. /\ r \notin Holders /\ Holders \subseteq Requests
      /\ Cardinality(Holders) = active /\ IsFiniteSet(Holders)
  BY <1>1, Outsider DEF IInv, Batch
<1>3. Pending = {} /\ Pending' = {}
  BY <1>0 DEF IInv, Line, Pending
<1>4. Holders' = Holders \cup {r}
  BY <1>0 DEF Holders
<1>5. \A d \in Holders : want[d] = p
  <2>1. active = 0 => Holders = {}
    BY <1>2, FS_EmptySet
  <2>2. \A d \in Holders : want[d] = profile
    BY <1>1 DEF IInv, Batch
  <2> QED BY <1>0, <2>1, <2>2
<1>6. \A d \in Holders : Kin[d] = p
  BY <1>2, <1>5 DEF Kin
<1>7. Kin' = [Kin EXCEPT ![r] = p]
  BY <1>0, <1>2, <1>3, <1>4 DEF Kin, IInv, TypeOK
<1>8. Bef' = Bef
  BY <1>3 DEF Bef
<1> QED BY <1>0, <1>2, <1>3, <1>4, <1>6, <1>7, <1>8, LockEnters

LEMMA AcquireWaitArrives ==
    ASSUME IInv, IInv', NEW r \in Requests, NEW p \in Profiles, AcquireWait(r, p)
    PROVE  Lock!Next
<1>0. /\ task[r] = "idle" /\ waiting' = Append(waiting, r) /\ want' = [want EXCEPT ![r] = p]
      /\ future' = [future EXCEPT ![r] = "pending"] /\ leases' = leases
      /\ future \in [Requests -> FutureStates] /\ want \in [Requests -> Profiles \cup {NoProfile}]
  BY DEF AcquireWait, IInv, TypeOK
<1>1. future[r] = "none" /\ r \notin leases
  BY <1>0 DEF IInv, Phases
<1>2. /\ r \notin Holders /\ r \notin Pending /\ Holders' = Holders /\ Pending' = Pending \cup {r}
      /\ Pending \subseteq Requests
  BY <1>0, <1>1 DEF Holders, Pending
<1>3. Kin' = [Kin EXCEPT ![r] = p]
  BY <1>0, <1>2 DEF Kin
<1> DEFINE n == Len(waiting)
<1>4. /\ n \in Nat /\ Len(waiting') = n + 1 /\ waiting'[n + 1] = r
      /\ \A i \in 1..n : waiting'[i] = waiting[i] /\ waiting[i] # r
  BY <1>0, <1>1, Outsider DEF IInv, TypeOK
<1>5. Line(waiting, future) /\ Line(waiting', future')
  BY DEF IInv
<1> HIDE DEF n
<1>6. ASSUME NEW s \in Pending, NEW t \in Pending
      PROVE  InLine(waiting', s, t) <=> InLine(waiting, s, t)
  <2>0. s # r /\ t # r
    BY <1>2
  <2>1. ASSUME NEW i \in 1..(n + 1), NEW j \in 1..(n + 1), i < j, waiting'[i] = s, waiting'[j] = t
        PROVE  i \in 1..n /\ j \in 1..n /\ waiting[i] = s /\ waiting[j] = t
    BY <1>4, <2>0, <2>1
  <2>2. ASSUME NEW i \in 1..n, NEW j \in 1..n, i < j, waiting[i] = s, waiting[j] = t
        PROVE  i \in 1..(n + 1) /\ j \in 1..(n + 1) /\ waiting'[i] = s /\ waiting'[j] = t
    BY <1>4, <2>2
  <2> QED BY <1>4, <2>1, <2>2 DEF InLine, n
<1>7. ASSUME NEW s \in Pending
      PROVE  InLine(waiting', s, r)
  <2>1. PICK i \in 1..n : waiting[i] = s
    BY <1>5 DEF Line, Pending, n
  <2>2. i \in 1..Len(waiting') /\ n + 1 \in 1..Len(waiting') /\ i < n + 1
    BY <1>4
  <2> QED BY <1>4, <2>1, <2>2 DEF InLine
<1>8. ASSUME NEW t
      PROVE  ~InLine(waiting', r, t)
  <2> SUFFICES ASSUME NEW i \in 1..(n + 1), NEW j \in 1..(n + 1), i < j, waiting'[i] = r
               PROVE  FALSE
    BY <1>4 DEF InLine
  <2>1. i \in 1..n
    BY <1>4
  <2> QED BY <1>4, <2>1
<1>9. Bef' = Bef \cup (Pending \X {r})
  <2> DEFINE X == Bef \cup (Pending \X {r})
  <2>1. /\ Bef \subseteq Pending \X Pending
        /\ \A s, t \in Pending : <<s, t>> \in Bef <=> InLine(waiting, s, t)
        /\ Bef' \subseteq Pending' \X Pending'
        /\ \A s, t \in Pending' : <<s, t>> \in Bef' <=> InLine(waiting', s, t)
    BY <1>5, BefIs, BefWillBe
  <2>2. X \subseteq Pending' \X Pending'
    BY <1>2, <2>1
  <2>3. ASSUME NEW s \in Pending', NEW t \in Pending'
        PROVE  <<s, t>> \in Bef' <=> <<s, t>> \in X
    <3>0. <<s, t>> \in X <=> <<s, t>> \in Bef \/ (s \in Pending /\ t = r)
      OBVIOUS
    <3>1. CASE s = r
      BY <1>2, <1>8, <2>1, <3>0, <3>1
    <3>2. CASE s # r /\ t = r
      BY <1>2, <1>7, <2>1, <3>0, <3>2
    <3>3. CASE s # r /\ t # r
      <4>1. s \in Pending /\ t \in Pending
        BY <1>2, <3>3
      <4>2. InLine(waiting', s, t) <=> InLine(waiting, s, t)
        BY <1>6, <4>1
      <4> QED BY <2>1, <3>0, <3>3, <4>1, <4>2
    <3> QED BY <3>1, <3>2, <3>3
  <2>4. Bef' = X
    BY <2>1, <2>2, <2>3
  <2> QED BY <2>4
<1> QED BY <1>2, <1>3, <1>9, LockArrives

LEMMA CancelGivesUp ==
    ASSUME IInv, IInv', NEW r \in Requests, CancelQueued(r)
    PROVE  Lock!Next \/ UNCHANGED Lock!vars
<1>0. /\ future \in [Requests -> FutureStates] /\ want' = want /\ leases' = leases /\ waiting' = waiting
  BY DEF CancelQueued, queue, IInv, TypeOK
<1>1. CASE future[r] # "pending"
  <2>1. future' = future
    BY <1>1 DEF CancelQueued
  <2> QED BY <1>0, <2>1, UnseenStutters DEF Holders, Pending
<1>2. CASE future[r] = "pending"
  <2>1. future' = [future EXCEPT ![r] = "cancelled"]
    BY <1>2 DEF CancelQueued
  <2>2. Holders' = Holders /\ Pending' = Pending \ {r} /\ r \in Pending
    BY <1>0, <1>2, <2>1 DEF Holders, Pending
  <2>3. r \notin Holders
    BY <1>2 DEF Holders, IInv, Phases
  <2>4. Kin' = [Kin EXCEPT ![r] = NoProfile]
    BY <1>0, <2>2, <2>3 DEF Kin
  <2>5. Bef' = {b \in Bef : r \notin {b[1], b[2]}}
    <3> DEFINE X == {b \in Bef : r \notin {b[1], b[2]}}
    <3>1. Bef \subseteq Pending \X Pending /\ Bef' \subseteq Pending \X Pending
      BY <2>2 DEF Bef
    <3>2. ASSUME NEW s \in Pending, NEW t \in Pending
          PROVE  <<s, t>> \in Bef' <=> <<s, t>> \in X
      <4>1. <<s, t>> \in X <=> <<s, t>> \in Bef /\ s # r /\ t # r
        OBVIOUS
      <4>2. <<s, t>> \in Bef <=> s # t /\ Ahead(s, t)
        BY DEF Bef
      <4>3. <<s, t>> \in Bef' <=> s \in Pending' /\ t \in Pending' /\ s # t /\ Ahead(s, t)'
        BY DEF Bef
      <4>4. Ahead(s, t)' <=> Ahead(s, t)
        BY <1>0 DEF Ahead
      <4> QED BY <2>2, <4>1, <4>2, <4>3, <4>4
    <3>3. Bef' = X
      BY <3>1, <3>2
    <3> QED BY <3>3
  <2> QED BY <2>2, <2>4, <2>5, LockGivesUp
<1> QED BY <1>1, <1>2

\* Release by the owner of a lease.
LEMMA ReleasePasses ==
    ASSUME IInv, IInv', NEW r \in Requests, r \in leases, Release(future),
           leases' = leases \ {r}, want' = [want EXCEPT ![r] = NoProfile]
    PROVE  Lock!Next
<1>1. /\ future \in [Requests -> FutureStates] /\ future[r] = "none" /\ Line(waiting, future)
      /\ \A s \in Requests \ {r} : want'[s] = want[s]
  BY DEF IInv, TypeOK, Phases
<1>2. PICK a, p : Promote(a, p, waiting, future)
  BY DEF Release
<1> QED BY <1>1, <1>2, PromotePasses

LEMMA ReturnPasses ==
    ASSUME IInv, IInv', NEW r \in Requests, ResumeReturn(r)
    PROVE  Lock!Next
<1> DEFINE f == [future EXCEPT ![r] = "none"]
<1>0. future[r] = "granted" /\ leases' = leases /\ want' = want /\ r \notin leases
  BY DEF ResumeReturn, IInv, Phases
<1>1. /\ f \in [Requests -> FutureStates] /\ f[r] = "none"
      /\ \A s \in Requests \ {r} : f[s] = future[s]
  BY DEF IInv, TypeOK, FutureStates
<1>2. PICK a, p : Promote(a, p, waiting, f)
  BY DEF ResumeReturn, Release
<1> HIDE DEF f
<1>3. Line(waiting, f)
  <2>0. Line(waiting, future)
    BY DEF IInv
  <2>1. \A i \in 1..Len(waiting) : waiting[i] \in Requests \ {r}
    BY <1>0, <2>0, LenProperties DEF Line
  <2>2. \A s \in Requests : f[s] = "pending" => future[s] = "pending"
    BY <1>1
  <2>3. \A i \in 1..Len(waiting) : f[waiting[i]] \in {"pending", "cancelled"}
    BY <1>1, <2>0, <2>1 DEF Line
  <2>. QED  BY <2>0, <2>2, <2>3 DEF Line
<1> QED BY <1>0, <1>1, <1>2, <1>3, PromotePasses

LEMMA CancelledPasses ==
    ASSUME IInv, IInv', NEW r \in Requests, ResumeCancelled(r)
    PROVE  Lock!Next
<1> DEFINE f == [future EXCEPT ![r] = "none"]
<1>0. /\ future[r] = "cancelled" /\ leases' = leases /\ want' = want /\ r \notin leases
      /\ Line(waiting, future)
  BY DEF ResumeCancelled, IInv, Phases
<1>1. /\ f \in [Requests -> FutureStates] /\ f[r] = "none"
      /\ \A s \in Requests \ {r} : f[s] = future[s]
  BY DEF IInv, TypeOK, FutureStates
<1>2. \/ /\ \A i \in 1..Len(waiting) : waiting[i] # r
         /\ Promote(active, profile, waiting, f)
      \/ \E i \in 1..Len(waiting) :
            /\ waiting[i] = r
            /\ Promote(active, profile, RemoveEntry(waiting, i), f)
  BY DEF ResumeCancelled
<1> HIDE DEF f
<1>3. CASE /\ \A i \in 1..Len(waiting) : waiting[i] # r
           /\ Promote(active, profile, waiting, f)
  <2>1. \A i \in 1..Len(waiting) : waiting[i] \in Requests \ {r}
    BY <1>0, <1>3, LenProperties DEF Line
  <2>2. \A s \in Requests : f[s] = "pending" => future[s] = "pending"
    BY <1>1
  <2>3. \A i \in 1..Len(waiting) : f[waiting[i]] \in {"pending", "cancelled"}
    BY <1>0, <1>1, <2>1 DEF Line
  <2>4. Line(waiting, f)
    BY <1>0, <2>2, <2>3 DEF Line
  <2> QED BY <1>0, <1>1, <1>3, <2>4, PromotePasses
<1>4. CASE \E i \in 1..Len(waiting) :
              waiting[i] = r /\ Promote(active, profile, RemoveEntry(waiting, i), f)
  <2>1. PICK i \in 1..Len(waiting) :
              waiting[i] = r /\ Promote(active, profile, RemoveEntry(waiting, i), f)
    BY <1>4
  <2>2. f[waiting[i]] = "none" /\ \A s \in Requests : s # waiting[i] => f[s] = future[s]
    BY <1>1, <2>1
  <2>3. Line(RemoveEntry(waiting, i), f)
    BY <1>0, <2>2, RemoveEntryLine
  <2>4. ASSUME NEW s \in Requests \ {r}, NEW t \in Requests \ {r}
        PROVE  InLine(RemoveEntry(waiting, i), s, t) <=> InLine(waiting, s, t)
    BY <1>0, <2>1, RemoveEntryKeepsOrder
  <2> DEFINE w == RemoveEntry(waiting, i)
  <2>5. Line(w, f) /\ Promote(active, profile, w, f)
    BY <2>1, <2>3
  <2>6. \A s, t \in Requests \ {r} : InLine(w, s, t) <=> InLine(waiting, s, t)
    BY <2>4
  <2> HIDE DEF w
  <2> QED BY <1>0, <1>1, <2>5, <2>6, PromotePasses
<1> QED BY <1>2, <1>3, <1>4

\* The admission queue, with every interruption of its clients, is a lock that
\* groups of one profile hold together and that is given in order of arrival.
THEOREM AdmissionIsAGroupLock == Spec => ImplementsGroupLock
<1>1. Init => Lock!Init
  <2> SUFFICES ASSUME Init PROVE Lock!Init
    OBVIOUS
  <2>1. Holders = {} /\ Pending = {}
    BY DEF Init, Holders, Pending
  <2>2. Bef = {} /\ Kin = [r \in Requests |-> NoProfile]
    BY <2>1 DEF Bef, Kin
  <2> QED BY <2>1, <2>2 DEF Lock!Init, Bef, Kin
<1>2. IInv /\ IInv' /\ [Next]_vars => [Lock!Next]_Lock!vars
  <2> SUFFICES ASSUME IInv, IInv', [Next]_vars
               PROVE  Lock!Next \/ UNCHANGED Lock!vars
    OBVIOUS
  <2>0. /\ future \in [Requests -> FutureStates] /\ leases \in SUBSET Requests
        /\ want \in [Requests -> Profiles \cup {NoProfile}] /\ Phases(future, leases, task, want)
    BY DEF IInv, TypeOK
  <2>1. ASSUME UNCHANGED <<waiting, want, future, leases>>
        PROVE  UNCHANGED Lock!vars
    BY <2>1, UnseenStutters DEF Holders, Pending
  <2>2. CASE UNCHANGED vars
    BY <2>1, <2>2 DEF vars, queue
  <2>3. ASSUME NEW r \in Requests, NEW p \in Profiles,
               AcquireNow(r, p) \/ AcquireFull(r, p) \/ AcquireWait(r, p)
        PROVE  Lock!Next \/ UNCHANGED Lock!vars
    <3>1. CASE AcquireFull(r, p)
      <4>1. /\ waiting' = waiting /\ future' = future /\ leases' = leases
            /\ future[r] = "none" /\ r \notin leases
            /\ \A s \in Requests \ {r} : want'[s] = want[s]
        BY <2>0, <3>1 DEF AcquireFull, Phases, queue
      <4>2. Holders' = Holders /\ Pending' = Pending /\ r \notin Holders \cup Pending
        BY <4>1 DEF Holders, Pending
      <4> QED BY <4>1, <4>2, UnseenStutters
    <3> QED BY <2>3, <3>1, AcquireNowEnters, AcquireWaitArrives
  <2>4. ASSUME NEW r \in Requests, QueueTimeout(r) \/ Disconnect(r)
        PROVE  Lock!Next \/ UNCHANGED Lock!vars
    BY <2>1, <2>4, CancelGivesUp DEF QueueTimeout, Disconnect, queue
  <2>5. ASSUME NEW r \in Requests,
               \/ WorkEnds(r) \/ Unwind(r) \/ Transfer(r) \/ StreamStops(r)
               \/ Dispatch(r) \/ ReturnStream(r) \/ OpenStream(r)
        PROVE  UNCHANGED Lock!vars
    BY <2>1, <2>5 DEF WorkEnds, Unwind, Transfer, StreamStops, Dispatch, ReturnStream, OpenStream, queue
  <2>6. ASSUME NEW r \in Requests, ResumeGranted(r)
        PROVE  UNCHANGED Lock!vars
    <3>1. /\ future[r] = "granted" /\ future' = [future EXCEPT ![r] = "none"]
          /\ leases' = leases \cup {r} /\ want' = want /\ waiting' = waiting
      BY <2>6 DEF ResumeGranted, queue
    <3>2. Holders' = Holders /\ Pending' = Pending
      BY <2>0, <3>1 DEF Holders, Pending
    <3> QED BY <3>1, <3>2, UnseenStutters
  <2>7. ASSUME NEW r \in Requests, HandlerEnds(r)
        PROVE  Lock!Next \/ UNCHANGED Lock!vars
    <3>1. CASE r \in leases
      BY <2>7, <3>1, ReleasePasses DEF HandlerEnds
    <3>2. CASE r \notin leases
      <4>1. /\ waiting' = waiting /\ future' = future /\ leases' = leases
            /\ future[r] = "none"
            /\ \A s \in Requests \ {r} : want'[s] = want[s]
        BY <2>0, <2>7, <3>2 DEF HandlerEnds, Phases, queue
      <4>2. Holders' = Holders /\ Pending' = Pending /\ r \notin Holders \cup Pending
        BY <3>2, <4>1 DEF Holders, Pending
      <4> QED BY <4>1, <4>2, UnseenStutters
    <3> QED BY <3>1, <3>2
  <2>8. ASSUME NEW r \in Requests, StreamCloses(r)
        PROVE  Lock!Next
    <3>1. r \in leases
      BY <2>0, <2>8 DEF StreamCloses, Phases
    <3> QED BY <2>8, <3>1, ReleasePasses DEF StreamCloses
  <2> QED BY <2>2, <2>3, <2>4, <2>5, <2>6, <2>7, <2>8, ReturnPasses, CancelledPasses
          DEF Next, Progress, Environment
<1>. QED  BY <1>1, <1>2, Invariance, PTL DEF Spec, ImplementsGroupLock, Lock!Spec
-----------------------------------------------------------------------------
(* The loop of _promote.  LoopStep is its body, and Turned what it has come  *)
(* to after j entries: it has popped a prefix, granted what was live in it,  *)
(* and where it has left before entry j it had a reason to.                  *)

LoopStep(j, l, w, f) ==
    IF l.popped < j - 1 \/ l.active >= limit THEN l
    ELSE IF f[w[j]] # "pending" THEN [l EXCEPT !.popped = j]
    ELSE IF l.active > 0 /\ l.profile # want[w[j]] THEN l
    ELSE [popped |-> j, active |-> l.active + 1, profile |-> want[w[j]],
          granted |-> l.granted \cup {w[j]}]

LoopStates ==
    [popped : Nat, active : Nat, profile : Profiles \cup {NoProfile}, granted : SUBSET Requests]

LoopBase(a, p) == [popped |-> 0, active |-> a, profile |-> p, granted |-> {}]

LEMMA LoopStepType ==
    ASSUME want \in [Requests -> Profiles \cup {NoProfile}], NEW w \in Seq(Requests), NEW f,
           NEW j \in 1..Len(w), NEW l \in LoopStates
    PROVE  LoopStep(j, l, w, f) \in LoopStates
<1>1. w[j] \in Requests /\ j \in Nat
  OBVIOUS
<1>2. [l EXCEPT !.popped = j] \in LoopStates
  BY <1>1 DEF LoopStates
<1>3. [popped |-> j, active |-> l.active + 1, profile |-> want[w[j]],
       granted |-> l.granted \cup {w[j]}] \in LoopStates
  BY <1>1 DEF LoopStates
<1> QED BY <1>2, <1>3 DEF LoopStep

\* The function PromoteLoop defines is the run of that body.
LEMMA LoopRuns ==
    ASSUME want \in [Requests -> Profiles \cup {NoProfile}],
           NEW a \in Nat, NEW p \in Profiles \cup {NoProfile}, NEW w \in Seq(Requests), NEW f
    PROVE  /\ PromoteLoop(a, p, w, f)[0] = LoopBase(a, p)
           /\ \A j \in 1..Len(w) :
                PromoteLoop(a, p, w, f)[j] = LoopStep(j, PromoteLoop(a, p, w, f)[j - 1], w, f)
<1> DEFINE n == Len(w)
           S == LoopStates
           base == LoopBase(a, p)
           step == [j \in 1..n |-> [l \in S |-> LoopStep(j, l, w, f)]]
<1>1. n \in Nat /\ base \in S
  BY DEF LoopStates, LoopBase
<1>2. step \in [1..n -> [S -> S]]
  <2>1. \A j \in 1..n : \A l \in S : LoopStep(j, l, w, f) \in S
    BY LoopStepType
  <2> QED BY <2>1
<1>3. PICK g : IsRun(g, n, S, base, step)
  <2> HIDE DEF n, S, base, step
  <2> QED BY <1>1, <1>2, Iterates
<1>4. ASSUME NEW j \in 1..n
      PROVE  g[j] = LoopStep(j, g[j - 1], w, f)
  <2>1. j - 1 \in 0..n
    BY <1>1
  <2>2. g[j - 1] \in S /\ g[j] = step[j][g[j - 1]]
    BY <1>3, <2>1 DEF IsRun
  <2> QED BY <2>2
<1>5. g = [j \in 0..n |-> IF j = 0 THEN LoopBase(a, p) ELSE LoopStep(j, g[j - 1], w, f)]
  BY <1>3, <1>4 DEF IsRun
<1>6. PromoteLoop(a, p, w, f) =
        CHOOSE h : h = [j \in 0..n |-> IF j = 0 THEN LoopBase(a, p) ELSE LoopStep(j, h[j - 1], w, f)]
  BY DEF PromoteLoop, LoopStep, LoopBase
<1>7. PromoteLoop(a, p, w, f) =
        [j \in 0..n |-> IF j = 0 THEN LoopBase(a, p)
                        ELSE LoopStep(j, PromoteLoop(a, p, w, f)[j - 1], w, f)]
  <2> HIDE DEF n
  <2> QED BY <1>5, <1>6
<1> QED BY <1>1, <1>7

Turned(j, l, a, p, w, f) ==
    /\ l \in LoopStates
    /\ l.popped \in 0..j
    /\ l.granted = Live(l.popped, w, f)
    /\ l.active = a + Cardinality(l.granted)
    /\ l.popped > 0 => a + Cardinality(Live(l.popped - 1, w, f)) < limit
    /\ \A r \in l.granted : want[r] = l.profile
    /\ l.granted = {} \/ a > 0 => l.profile = p
    /\ l.popped < j =>
         \/ l.active >= limit
         \/ /\ f[w[l.popped + 1]] = "pending"
            /\ l.active > 0 /\ l.profile # want[w[l.popped + 1]]

\* An entry that is not live adds nobody, one that is adds its request.
LEMMA LiveNext ==
    ASSUME NEW w \in Seq(Requests), NEW f, NEW k \in 1..Len(w),
           \A i, j \in 1..Len(w) : w[i] = w[j] => i = j
    PROVE  /\ IsFiniteSet(Live(k - 1, w, f)) /\ Cardinality(Live(k - 1, w, f)) \in Nat
           /\ f[w[k]] # "pending" => Live(k, w, f) = Live(k - 1, w, f)
           /\ f[w[k]] = "pending" =>
                /\ Live(k, w, f) = Live(k - 1, w, f) \cup {w[k]}
                /\ Cardinality(Live(k, w, f)) = Cardinality(Live(k - 1, w, f)) + 1
<1>1. IsFiniteSet(Live(k - 1, w, f)) /\ Live(k - 1, w, f) \in SUBSET Requests
  <2>1. Live(k - 1, w, f) \in SUBSET Requests
    BY DEF Live
  <2> QED BY <2>1, FS_Subset
<1>2. Cardinality(Live(k - 1, w, f)) \in Nat
  BY <1>1, FS_CardinalityType
<1>3. \A i \in 1..k : i \in 1..(k - 1) \/ i = k
  OBVIOUS
<1>4. ASSUME f[w[k]] # "pending" PROVE Live(k, w, f) = Live(k - 1, w, f)
  BY <1>3, <1>4 DEF Live
<1>5. ASSUME f[w[k]] = "pending"
      PROVE  /\ Live(k, w, f) = Live(k - 1, w, f) \cup {w[k]}
             /\ Cardinality(Live(k, w, f)) = Cardinality(Live(k - 1, w, f)) + 1
  <2>1. Live(k, w, f) = Live(k - 1, w, f) \cup {w[k]}
    BY <1>3, <1>5 DEF Live
  <2>2. w[k] \notin Live(k - 1, w, f)
    BY DEF Live
  <2> QED BY <1>1, <2>1, <2>2, FS_AddElement
<1> QED BY <1>1, <1>2, <1>4, <1>5

\* One more turn of the loop.
LEMMA TurnedStep ==
    ASSUME want \in [Requests -> Profiles \cup {NoProfile}],
           NEW a \in Nat, NEW p \in Profiles \cup {NoProfile}, NEW w \in Seq(Requests), NEW f,
           \A i, k \in 1..Len(w) : w[i] = w[k] => i = k,
           NEW j \in 1..Len(w), NEW l, Turned(j - 1, l, a, p, w, f)
    PROVE  Turned(j, LoopStep(j, l, w, f), a, p, w, f)
<1> DEFINE m == LoopStep(j, l, w, f)
<1>1. m \in LoopStates /\ l \in LoopStates /\ l.popped \in Nat /\ l.active \in Nat /\ l.granted \in SUBSET Requests
  BY LoopStepType DEF Turned, LoopStates
<1>2. CASE l.popped < j - 1 \/ l.active >= limit
  BY <1>1, <1>2 DEF LoopStep, Turned
<1>3. ASSUME l.popped = j - 1, l.active < limit
      PROVE  Turned(j, m, a, p, w, f)
  <2>1. /\ l.granted = Live(j - 1, w, f) /\ l.active = a + Cardinality(l.granted)
        /\ a + Cardinality(Live(j - 1, w, f)) < limit
    BY <1>3 DEF Turned
  <2>2. /\ IsFiniteSet(l.granted) /\ Cardinality(l.granted) \in Nat
        /\ f[w[j]] # "pending" => Live(j, w, f) = l.granted
        /\ f[w[j]] = "pending" =>
                /\ Live(j, w, f) = l.granted \cup {w[j]}
                /\ Cardinality(Live(j, w, f)) = Cardinality(l.granted) + 1
    BY <2>1, LiveNext
  <2>3. CASE f[w[j]] # "pending"
    <3>1. /\ m.popped = j /\ m.active = l.active /\ m.profile = l.profile /\ m.granted = l.granted
      BY <1>1, <1>3, <2>3 DEF LoopStep, LoopStates
    <3> QED BY <1>1, <1>3, <2>1, <2>2, <2>3, <3>1 DEF Turned
  <2>4. CASE f[w[j]] = "pending" /\ l.active > 0 /\ l.profile # want[w[j]]
    <3>1. m = l
      BY <1>3, <2>4 DEF LoopStep
    <3> QED BY <1>1, <1>3, <2>4, <3>1 DEF Turned
  <2>5. CASE f[w[j]] = "pending" /\ ~(l.active > 0 /\ l.profile # want[w[j]])
    <3>1. /\ m.popped = j /\ m.active = l.active + 1 /\ m.profile = want[w[j]]
          /\ m.granted = l.granted \cup {w[j]}
      BY <1>1, <1>3, <2>5 DEF LoopStep, LoopStates
    <3>2. l.active = 0 => a = 0 /\ l.granted = {}
      BY <2>1, <2>2, FS_EmptySet
    <3>3. \A r \in m.granted : want[r] = m.profile
      BY <2>5, <3>1, <3>2, <1>1 DEF Turned
    <3>4. a > 0 => m.profile = p
      BY <2>1, <2>2, <2>5, <3>1, <3>2 DEF Turned
    <3>5. m.granted = Live(m.popped, w, f) /\ m.active = a + Cardinality(m.granted)
      <4> HIDE DEF m
      <4>1. m.granted = Live(j, w, f) /\ m.popped = j
        BY <2>2, <2>5, <3>1
      <4>2. Cardinality(m.granted) = Cardinality(l.granted) + 1
        BY <2>2, <2>5, <4>1
      <4>3. m.granted = Live(m.popped, w, f)
        BY <4>1
      <4>4. m.active = l.active + 1 /\ l.active = a + Cardinality(l.granted)
        BY <2>1, <3>1
      <4>5. Cardinality(l.granted) \in Nat
        BY <2>2
      <4>6. ASSUME NEW c \in Nat, NEW d, NEW x, NEW y, x = a + c, y = x + 1, d = c + 1
            PROVE  y = a + d
        BY <4>6
      <4>7. m.active = a + Cardinality(m.granted)
        BY <4>2, <4>4, <4>5, <4>6
      <4> QED BY <4>3, <4>7
    <3>6. m.granted # {} /\ m.popped \in 0..j /\ ~(m.popped < j)
      BY <3>1
    <3>7. m.popped > 0 => a + Cardinality(Live(m.popped - 1, w, f)) < limit
      BY <2>1, <3>1
    <3> HIDE DEF m
    <3> QED BY <1>1, <3>3, <3>4, <3>5, <3>6, <3>7 DEF Turned
  <2> QED BY <2>3, <2>4, <2>5
<1>4. l.popped \in 0..(j - 1)
  BY DEF Turned
<1> QED BY <1>1, <1>2, <1>3, <1>4

\* Where the loop ends is where PromoteStops says.
LEMMA LoopStops ==
    ASSUME want \in [Requests -> Profiles \cup {NoProfile}],
           NEW a \in Nat, NEW p \in Profiles \cup {NoProfile}, NEW w \in Seq(Requests), NEW f,
           NEW l, Turned(Len(w), l, a, p, w, f)
    PROVE  PromoteStops(l.popped, a, p, w, f)
<1>1. /\ l.popped \in 0..Len(w) /\ l.granted = Live(l.popped, w, f)
      /\ l.active \in Nat /\ l.granted \in SUBSET Requests
  BY DEF Turned, LoopStates
<1>2. IsFiniteSet(l.granted)
  BY <1>1, FS_Subset
<1>3. Cardinality(l.granted) \in Nat /\ (l.granted = {} => Cardinality(l.granted) = 0)
  BY <1>2, FS_CardinalityType, FS_EmptySet
<1>4. /\ l.popped > 0 => a + Cardinality(Live(l.popped - 1, w, f)) < limit
      /\ \A r \in l.granted : a > 0 => want[r] = p
      /\ \A r, s \in l.granted : want[r] = want[s]
  BY DEF Turned
<1>5. ASSUME l.popped < Len(w), a + Cardinality(l.granted) < limit
      PROVE  /\ f[w[l.popped + 1]] = "pending"
             /\ \/ a > 0 /\ want[w[l.popped + 1]] # p
                \/ \E r \in l.granted : want[r] # want[w[l.popped + 1]]
  <2>1. /\ f[w[l.popped + 1]] = "pending"
        /\ l.active > 0 /\ l.profile # want[w[l.popped + 1]]
    BY <1>1, <1>3, <1>5 DEF Turned
  <2>2. CASE a > 0
    BY <2>1, <2>2 DEF Turned
  <2>3. CASE a = 0
    <3>1. PICK r \in l.granted : TRUE
      BY <1>3, <2>1, <2>3 DEF Turned
    <3> QED BY <2>1, <3>1 DEF Turned
  <2> QED BY <2>1, <2>2, <2>3
<1> QED BY <1>1, <1>4, <1>5 DEF PromoteStops

\* It says so of no other place.
LEMMA StopsOnce ==
    ASSUME NEW a \in Nat, NEW p, NEW w \in Seq(Requests), NEW f,
           NEW k \in 0..Len(w), NEW m \in 0..Len(w), k < m,
           PromoteStops(k, a, p, w, f), PromoteStops(m, a, p, w, f)
    PROVE  FALSE
<1>1. Live(k, w, f) \in SUBSET Live(m - 1, w, f) /\ Live(m - 1, w, f) \in SUBSET Requests
  BY DEF Live
<1>2. IsFiniteSet(Live(m - 1, w, f))
  BY <1>1, FS_Subset
<1>3. /\ Cardinality(Live(k, w, f)) <= Cardinality(Live(m - 1, w, f))
      /\ IsFiniteSet(Live(k, w, f))
  BY <1>1, <1>2, FS_Subset
<1>4. Cardinality(Live(k, w, f)) \in Nat /\ Cardinality(Live(m - 1, w, f)) \in Nat
  BY <1>2, <1>3, FS_CardinalityType
<1>5. a + Cardinality(Live(k, w, f)) < limit
  BY <1>3, <1>4 DEF PromoteStops
<1>6. /\ f[w[k + 1]] = "pending"
      /\ \/ a > 0 /\ want[w[k + 1]] # p
         \/ \E r \in Live(k, w, f) : want[r] # want[w[k + 1]]
  BY <1>5 DEF PromoteStops
<1>7. w[k + 1] \in Live(m, w, f) /\ Live(k, w, f) \in SUBSET Live(m, w, f)
  BY <1>6 DEF Live
<1> QED BY <1>6, <1>7 DEF PromoteStops

\* For every queue, limit and number of leases released: the closed form the
\* model of _promote is written in and the while loop of the code come to one
\* and the same end, in every state the queue can reach.
THEOREM PromotionIsTheLoop == Spec => []PromoteIsTheLoop
<1>1. IInv => PromoteIsTheLoop
  <2> SUFFICES ASSUME IInv, NEW a \in 0..active
               PROVE  LET p == IF a = 0 THEN NoProfile ELSE profile
                          end == PromoteLoop(a, p, waiting, future)[Len(waiting)]
                      IN  /\ {k \in 0..Len(waiting) : PromoteStops(k, a, p, waiting, future)} = {end.popped}
                          /\ end.granted = Live(end.popped, waiting, future)
                          /\ end.active = a + Cardinality(end.granted)
                          /\ {end.profile} = IF end.granted = {} THEN {p} ELSE {want[r] : r \in end.granted}
    BY DEF PromoteIsTheLoop
  <2> DEFINE p == IF a = 0 THEN NoProfile ELSE profile
             n == Len(waiting)
             L == PromoteLoop(a, p, waiting, future)
             Good == {j \in 0..n : Turned(j, L[j], a, p, waiting, future)}
  <2>1. /\ active \in 0..limit /\ a \in Nat /\ p \in Profiles \cup {NoProfile}
        /\ want \in [Requests -> Profiles \cup {NoProfile}]
        /\ waiting \in Seq(Requests) /\ n \in Nat
        /\ \A i, k \in 1..Len(waiting) : waiting[i] = waiting[k] => i = k
    BY DEF IInv, TypeOK, Line, Batch
  <2>2. /\ L[0] = LoopBase(a, p)
        /\ \A j \in 1..n : L[j] = LoopStep(j, L[j - 1], waiting, future)
    BY <2>1, LoopRuns
  <2> HIDE DEF p, L
  <2>3. 0 \in Good
    <3>1. Live(0, waiting, future) = {}
      BY LiveNone
    <3>2. Cardinality({}) = 0
      BY FS_EmptySet
    <3>3. Turned(0, LoopBase(a, p), a, p, waiting, future)
      BY <2>1, <3>1, <3>2 DEF Turned, LoopBase, LoopStates
    <3> QED BY <2>1, <2>2, <3>3
  <2>4. ASSUME NEW i \in 0..(n - 1), i \in Good PROVE i + 1 \in Good
    <3>1. i + 1 \in 1..n /\ i + 1 \in 0..n /\ (i + 1) - 1 = i
      BY <2>1
    <3>2. Turned((i + 1) - 1, L[i], a, p, waiting, future)
      BY <2>4, <3>1
    <3>3. L[i + 1] = LoopStep(i + 1, L[i], waiting, future)
      BY <2>2, <3>1
    <3>4. Turned(i + 1, LoopStep(i + 1, L[i], waiting, future), a, p, waiting, future)
      BY <2>1, <3>1, <3>2, TurnedStep
    <3> QED BY <3>1, <3>3, <3>4
  <2>5. \A i \in 0..n : i \in Good
    <3> HIDE DEF Good, n
    <3> QED BY <2>1, <2>3, <2>4, Induct
  <2> DEFINE end == L[n]
  <2>6. Turned(n, end, a, p, waiting, future)
    BY <2>1, <2>5
  <2>7. PromoteStops(end.popped, a, p, waiting, future) /\ end.popped \in 0..n
    BY <2>1, <2>6, LoopStops DEF Turned
  <2>8. \A k \in 0..n : PromoteStops(k, a, p, waiting, future) => k = end.popped
    <3> SUFFICES ASSUME NEW k \in 0..n, PromoteStops(k, a, p, waiting, future), k # end.popped
                 PROVE  FALSE
      OBVIOUS
    <3>1. k < end.popped \/ end.popped < k
      BY <2>7
    <3> QED BY <2>1, <2>7, <3>1, StopsOnce
  <2>9. {end.profile} = IF end.granted = {} THEN {p} ELSE {want[r] : r \in end.granted}
    BY <2>6 DEF Turned
  <2>10. /\ {k \in 0..n : PromoteStops(k, a, p, waiting, future)} = {end.popped}
         /\ end.granted = Live(end.popped, waiting, future)
         /\ end.active = a + Cardinality(end.granted)
    BY <2>6, <2>7, <2>8 DEF Turned
  <2> QED BY <2>9, <2>10 DEF p, L
<1> QED BY <1>1, Invariance, PTL
=============================================================================
