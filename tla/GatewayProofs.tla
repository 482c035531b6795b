--------------------------- MODULE GatewayProofs ---------------------------
(***************************************************************************)
(* Theorems about the running gateway, for every number of requests,       *)
(* profiles, swap tasks and administrators.                                *)
(*                                                                         *)
(* The argument is about the line of swaps: the one in the lock and those  *)
(* queued behind it.  A step leaves the line as it is, lets a new call     *)
(* join at its end, or lets the first one leave; everything that is said   *)
(* of tracked, of the waiting requests and of running inferences follows   *)
(* from that.                                                              *)
(***************************************************************************)
EXTENDS Gateway, SequenceTheorems, TLAPS

-----------------------------------------------------------------------------
(* The line *)

Live(t) == swap[t].phase \in {"stop", "start", "wait", "queued"}

Queued(t) == \E i \in 1..Len(lock_queue) : lock_queue[i] = t

Ahead(t, u) == \E i, j \in 1..Len(lock_queue) : i < j /\ lock_queue[i] = t /\ lock_queue[j] = u

Before(t, u) == (swap[t].phase \in Body /\ swap[u].phase = "queued") \/ Ahead(t, u)

LineInv ==
    /\ swap \in [Tasks -> [phase : Phases, target : Profiles \cup {NoProfile}, force : BOOLEAN]]
    /\ lock_queue \in Seq(Tasks)
    /\ \A i, j \in 1..Len(lock_queue) : lock_queue[i] = lock_queue[j] => i = j
    /\ \A t \in Tasks :
          (swap[t].phase = "queued") <=> \E i \in 1..Len(lock_queue) : lock_queue[i] = t
    /\ \A t, u \in Tasks : swap[t].phase \in Body /\ swap[u].phase \in Body => t = u
    /\ swapping \in BOOLEAN
    /\ swapping <=> LockHeld
    /\ \A t \in Tasks : Live(t) => swap[t].target \in Profiles
    /\ \A t \in SwapTasks : swap[t].phase \in {"idle", "stop", "start", "wait", "queued"}

\* The line is as it was.
Same ==
    /\ \A t \in Tasks : Live(t)' <=> Live(t)
    /\ \A t \in Tasks : Live(t) => swap'[t].target = swap[t].target
    /\ \A t, u \in Tasks : Before(t, u)' <=> Before(t, u)

\* t has come, at its end.
Joins(t, p) ==
    /\ ~Live(t) /\ swap'[t].target = p
    /\ \A u \in Tasks : Live(u)' <=> Live(u) \/ u = t
    /\ \A u \in Tasks \ {t} : swap'[u].target = swap[u].target
    /\ \A u, v \in Tasks : Before(u, v)' <=> Before(u, v) \/ (v = t /\ Live(u))

\* t has gone, from its beginning.
Leaves(t) ==
    /\ Live(t)
    /\ \A u \in Tasks : ~Before(u, t)
    /\ \A u \in Tasks : Live(u)' <=> Live(u) /\ u # t
    /\ \A u \in Tasks \ {t} : swap'[u].target = swap[u].target
    /\ \A u, v \in Tasks : Before(u, v)' <=> Before(u, v) /\ u # t /\ v # t

\* Those in the line are before or behind each other.
LEMMA LineIsOrder ==
    ASSUME LineInv
    PROVE  /\ \A t, u \in Tasks : Before(t, u) => Live(t) /\ Live(u) /\ t # u
           /\ \A t, u \in Tasks : Live(t) /\ Live(u) /\ t # u => Before(t, u) \/ Before(u, t)
           /\ \A t, u \in Tasks : ~(Before(t, u) /\ Before(u, t))
<1> USE DEF LineInv, Body
<1>1. ASSUME NEW t \in Tasks, NEW u \in Tasks, Before(t, u)
      PROVE  Live(t) /\ Live(u) /\ t # u
  BY <1>1 DEF Live, Before, Ahead
<1>2. ASSUME NEW t \in Tasks, NEW u \in Tasks, Live(t), Live(u), t # u
      PROVE  Before(t, u) \/ Before(u, t)
  <2>1. CASE swap[t].phase = "queued" /\ swap[u].phase = "queued"
    <3>1. PICK i \in 1..Len(lock_queue) : lock_queue[i] = t
      BY <2>1
    <3>2. PICK j \in 1..Len(lock_queue) : lock_queue[j] = u
      BY <2>1
    <3>3. i < j \/ j < i
      BY <1>2, <3>1, <3>2
    <3> QED BY <3>1, <3>2, <3>3 DEF Before, Ahead
  <2>2. CASE swap[t].phase # "queued" \/ swap[u].phase # "queued"
    BY <1>2, <2>2 DEF Live, Before, Ahead
  <2> QED BY <2>1, <2>2
<1>3. ASSUME NEW t \in Tasks, NEW u \in Tasks, Before(t, u), Before(u, t)
      PROVE  FALSE
  <2>1. swap[t].phase = "queued" /\ swap[u].phase = "queued"
    BY <1>3 DEF Before, Ahead
  <2>2. PICK i, j \in 1..Len(lock_queue) : i < j /\ lock_queue[i] = t /\ lock_queue[j] = u
    BY <1>3, <2>1 DEF Before, Ahead
  <2>3. PICK k, l \in 1..Len(lock_queue) : k < l /\ lock_queue[k] = u /\ lock_queue[l] = t
    BY <1>3, <2>1 DEF Before, Ahead
  <2>4. i = l /\ j = k
    BY <2>2, <2>3
  <2> QED BY <2>2, <2>3, <2>4
<1> QED BY <1>1, <1>2, <1>3

LEMMA StillLine ==
    ASSUME LineInv, UNCHANGED <<swap, lock_queue, swapping>>
    PROVE  LineInv' /\ Same
  BY DEF LineInv, Same, Live, Before, Ahead, LockHeld

\* A call of the administrator that is no swap.
LEMMA AdminLine ==
    ASSUME LineInv, NEW a \in Admins, NEW c \in [phase : Phases, target : Profiles \cup {NoProfile}, force : BOOLEAN],
           swap[a].phase \in {"idle", "stopping", "removing"},
           c.phase \in {"idle", "stopping", "removing"},
           swap' = [swap EXCEPT ![a] = c], UNCHANGED <<lock_queue, swapping>>
    PROVE  LineInv' /\ Same
<1>1. a \in Tasks /\ a \notin SwapTasks
  BY SetsAssumption DEF Tasks
<1>2. \A t \in Tasks : swap'[t] = IF t = a THEN c ELSE swap[t]
  BY DEF LineInv
<1>3. Same
  BY <1>1, <1>2 DEF Same, Live, Before, Ahead, Body
<1>4. LockHeld' <=> LockHeld
  BY <1>1, <1>2 DEF LockHeld, Body
<1> QED BY <1>1, <1>2, <1>3, <1>4 DEF LineInv, Live, Body, Tasks

\* The swap in the lock goes on.
LEMMA PhaseLine ==
    ASSUME LineInv, NEW t \in Tasks, NEW c \in {"start", "wait"}, swap[t].phase \in Body,
           swap' = [swap EXCEPT ![t].phase = c], UNCHANGED <<lock_queue, swapping>>
    PROVE  LineInv' /\ Same
<1>1. \A u \in Tasks : /\ swap'[u].phase = IF u = t THEN c ELSE swap[u].phase
                       /\ swap'[u].target = swap[u].target
  BY DEF LineInv
<1>2. Same
  BY <1>1 DEF Same, Live, Before, Ahead, Body
<1>3. LockHeld' <=> LockHeld
  BY <1>1 DEF LockHeld, Body
<1>4. swap' \in [Tasks -> [phase : Phases, target : Profiles \cup {NoProfile}, force : BOOLEAN]]
  BY DEF LineInv, Phases
<1> QED BY <1>1, <1>2, <1>3, <1>4 DEF LineInv, Live, Body, Tasks

\* It ends.
LEMMA EndLine ==
    ASSUME LineInv, NEW t \in Tasks, swap[t].phase \in Body,
           swap' = [swap EXCEPT ![t] = NoCall], swapping' = FALSE, lock_queue' = lock_queue
    PROVE  LineInv' /\ Leaves(t)
<1>1. \A u \in Tasks : swap'[u] = IF u = t THEN NoCall ELSE swap[u]
  BY DEF LineInv
<1>2. Leaves(t)
  BY <1>1 DEF LineInv, Leaves, Live, Before, Ahead, Body, NoCall
<1>3. ~LockHeld'
  BY <1>1 DEF LineInv, LockHeld, Body, NoCall
<1>4. NoCall \in [phase : Phases, target : Profiles \cup {NoProfile}, force : BOOLEAN]
  BY DEF NoCall, Phases
<1>5. swap' \in [Tasks -> [phase : Phases, target : Profiles \cup {NoProfile}, force : BOOLEAN]]
  BY <1>4 DEF LineInv
<1>6. swapping' \in BOOLEAN
  OBVIOUS
<1> QED BY <1>1, <1>3, <1>5, <1>6, <1>2 DEF LineInv, Live, Body, NoCall, Tasks

\* switch_profile is called.
LEMMA CallLine ==
    ASSUME LineInv, NEW t \in Tasks, NEW p \in Profiles, NEW force \in BOOLEAN,
           swap[t].phase = "idle", Call(t, p, force)
    PROVE  LineInv' /\ Joins(t, p)
<1>1. CASE ~LockHeld /\ lock_queue = <<>>
  <2> DEFINE c == [phase |-> "stop", target |-> p, force |-> force]
  <2>1. swap' = [swap EXCEPT ![t] = c] /\ lock_queue' = <<>> /\ swapping' = TRUE
    BY <1>1 DEF Call
  <2>2. c \in [phase : Phases, target : Profiles \cup {NoProfile}, force : BOOLEAN]
    BY DEF Phases
  <2>3. \A u \in Tasks : swap'[u] = IF u = t THEN c ELSE swap[u]
    BY <2>1 DEF LineInv
  <2>4. \A u \in Tasks : ~Live(u)
    BY <1>1 DEF LineInv, LockHeld, Live, Body
  <2>5. Joins(t, p)
    BY <1>1, <2>1, <2>3, <2>4 DEF LineInv, Joins, Live, Before, Ahead, Body
  <2>6. LockHeld'
    BY <2>3 DEF LockHeld, Body
  <2>7. swap' \in [Tasks -> [phase : Phases, target : Profiles \cup {NoProfile}, force : BOOLEAN]]
    BY <2>1, <2>2 DEF LineInv
  <2> QED BY <1>1, <2>1, <2>3, <2>4, <2>5, <2>6, <2>7 DEF LineInv, Live, Body, Tasks
<1>2. CASE ~(~LockHeld /\ lock_queue = <<>>)
  <2> DEFINE c == [phase |-> "queued", target |-> p, force |-> force]
             n == Len(lock_queue)
  <2>1. swap' = [swap EXCEPT ![t] = c] /\ lock_queue' = Append(lock_queue, t) /\ swapping' = swapping
    BY <1>2 DEF Call
  <2>2. c \in [phase : Phases, target : Profiles \cup {NoProfile}, force : BOOLEAN]
    BY DEF Phases
  <2>3. \A u \in Tasks : swap'[u] = IF u = t THEN c ELSE swap[u]
    BY <2>1 DEF LineInv
  <2>4. /\ n \in Nat /\ lock_queue' \in Seq(Tasks) /\ Len(lock_queue') = n + 1
        /\ lock_queue'[n + 1] = t /\ \A i \in 1..n : lock_queue'[i] = lock_queue[i]
    BY <2>1 DEF LineInv
  <2>5. \A i \in 1..n : lock_queue[i] # t
    BY DEF LineInv
  <2>6. ASSUME NEW u \in Tasks, NEW v \in Tasks
        PROVE  Before(u, v)' <=> Before(u, v) \/ (v = t /\ Live(u))
    <3>1. ASSUME NEW i \in 1..n, NEW j \in 1..n, i < j, lock_queue[i] = u, lock_queue[j] = v
          PROVE  Before(u, v)'
      <4>1. i \in 1..Len(lock_queue') /\ j \in 1..Len(lock_queue')
        BY <2>4
      <4> QED BY <2>4, <3>1, <4>1 DEF Before, Ahead
    <3>2. ASSUME NEW i \in 1..n, lock_queue[i] = u, v = t
          PROVE  Before(u, v)'
      <4>1. i \in 1..Len(lock_queue') /\ n + 1 \in 1..Len(lock_queue') /\ i < n + 1
        BY <2>4
      <4> QED BY <2>4, <3>2, <4>1 DEF Before, Ahead
    <3>3. ASSUME NEW i \in 1..(n + 1), NEW j \in 1..(n + 1), i < j,
                 lock_queue'[i] = u, lock_queue'[j] = v
          PROVE  Before(u, v) \/ (v = t /\ Live(u))
      <4>1. i \in 1..n /\ lock_queue[i] = u
        BY <2>4, <3>3
      <4>2. CASE j = n + 1
        BY <2>4, <3>3, <4>1, <4>2 DEF LineInv, Live
      <4>3. CASE j # n + 1
        <5>1. j \in 1..n /\ lock_queue[j] = v
          BY <2>4, <3>3, <4>3
        <5> QED BY <3>3, <4>1, <5>1 DEF Before, Ahead
      <4> QED BY <4>2, <4>3
    <3>4. ASSUME swap[u].phase \in Body, v = t \/ swap[v].phase = "queued"
          PROVE  Before(u, v)'
      BY <2>3, <3>4 DEF Before, Ahead, Body
    <3>5. ASSUME swap'[u].phase \in Body, swap'[v].phase = "queued"
          PROVE  Before(u, v) \/ (v = t /\ Live(u))
      BY <2>3, <3>5 DEF Before, Ahead, Body, Live
    <3>6. Before(u, v) => Before(u, v)'
      BY <3>1, <3>4 DEF Before, Ahead
    <3>7. v = t /\ Live(u) => Before(u, v)'
      BY <3>2, <3>4 DEF LineInv, Live, Body
    <3>8. Before(u, v)' => Before(u, v) \/ (v = t /\ Live(u))
      BY <2>4, <3>3, <3>5 DEF Before, Ahead
    <3> QED BY <3>6, <3>7, <3>8
  <2>7. Joins(t, p)
    BY <2>3, <2>6 DEF Joins, Live
  <2>8. LockHeld' <=> LockHeld
    BY <2>3 DEF LockHeld, Body
  <2>9. swap' \in [Tasks -> [phase : Phases, target : Profiles \cup {NoProfile}, force : BOOLEAN]]
    BY <2>1, <2>2 DEF LineInv
  <2>10. \A i, j \in 1..Len(lock_queue') : lock_queue'[i] = lock_queue'[j] => i = j
    BY <2>4, <2>5 DEF LineInv
  <2>11. \A u \in Tasks :
          (swap'[u].phase = "queued") <=> \E i \in 1..Len(lock_queue') : lock_queue'[i] = u
    <3> TAKE u \in Tasks
    <3>1. CASE u = t
      BY <2>3, <2>4, <3>1
    <3>2. CASE u # t
      <4>1. (swap'[u].phase = "queued") <=> \E i \in 1..n : lock_queue[i] = u
        BY <2>3, <3>2 DEF LineInv
      <4>2. (\E i \in 1..n : lock_queue[i] = u) => \E i \in 1..Len(lock_queue') : lock_queue'[i] = u
        BY <2>4
      <4>3. (\E i \in 1..Len(lock_queue') : lock_queue'[i] = u) => \E i \in 1..n : lock_queue[i] = u
        BY <2>4, <3>2
      <4> QED BY <4>1, <4>2, <4>3
    <3> QED BY <3>1, <3>2
  <2> QED BY <2>1, <2>3, <2>4, <2>7, <2>8, <2>9, <2>10, <2>11 DEF LineInv, Live, Body, Tasks
<1> QED BY <1>1, <1>2

\* What taking the oldest waiter off the queue does to the order.
LEMMA ShiftLine ==
    ASSUME LineInv, lock_queue # <<>>, NEW t, t = Head(lock_queue),
           lock_queue' = Tail(lock_queue)
    PROVE  /\ t \in Tasks /\ swap[t].phase = "queued" /\ lock_queue' \in Seq(Tasks)
           /\ \A i, j \in 1..Len(lock_queue') : lock_queue'[i] = lock_queue'[j] => i = j
           /\ \A u \in Tasks : Queued(u)' <=> (u # t /\ Queued(u))
           /\ \A u, v \in Tasks : Ahead(u, v)' <=> (u # t /\ Ahead(u, v))
           /\ \A v \in Tasks : Ahead(t, v) <=> (v # t /\ Queued(v))
<1> DEFINE n == Len(lock_queue)
<1>1. /\ n \in Nat /\ n >= 1 /\ t = lock_queue[1] /\ lock_queue' \in Seq(Tasks)
      /\ Len(lock_queue') = n - 1
      /\ \A i \in 1..(n - 1) : lock_queue'[i] = lock_queue[i + 1]
  BY HeadTailProperties DEF LineInv
<1>2. \A i, j \in 1..n : lock_queue[i] = lock_queue[j] => i = j
  BY DEF LineInv
<1>3. t \in Tasks /\ swap[t].phase = "queued"
  BY <1>1 DEF LineInv
<1> HIDE DEF n
<1>4. \A i \in 1..(n - 1) : i + 1 \in 1..n /\ lock_queue[i + 1] # t
  BY <1>1, <1>2
<1>5. \A i \in 1..n : lock_queue[i] # t => i - 1 \in 1..(n - 1) /\ lock_queue'[i - 1] = lock_queue[i]
  BY <1>1
<1>6. ASSUME NEW i \in 1..(n - 1), NEW j \in 1..(n - 1), lock_queue'[i] = lock_queue'[j]
      PROVE  i = j
  <2>1. lock_queue[i + 1] = lock_queue[j + 1] /\ i + 1 \in 1..n /\ j + 1 \in 1..n
    BY <1>1, <1>4, <1>6
  <2> QED BY <1>1, <1>2, <2>1
<1>7. ASSUME NEW u \in Tasks
      PROVE  (\E i \in 1..(n - 1) : lock_queue'[i] = u) <=>
             (u # t /\ \E i \in 1..n : lock_queue[i] = u)
  <2>1. ASSUME NEW i \in 1..(n - 1), lock_queue'[i] = u
        PROVE  u # t /\ \E k \in 1..n : lock_queue[k] = u
    BY <1>1, <1>4, <2>1
  <2>2. ASSUME NEW i \in 1..n, lock_queue[i] = u, u # t
        PROVE  \E k \in 1..(n - 1) : lock_queue'[k] = u
    BY <1>5, <2>2
  <2> QED BY <2>1, <2>2
<1>8. ASSUME NEW u \in Tasks, NEW v \in Tasks
      PROVE  (\E i, j \in 1..(n - 1) : i < j /\ lock_queue'[i] = u /\ lock_queue'[j] = v) <=>
             (u # t /\ \E i, j \in 1..n : i < j /\ lock_queue[i] = u /\ lock_queue[j] = v)
  <2>1. ASSUME NEW i \in 1..(n - 1), NEW j \in 1..(n - 1), i < j,
               lock_queue'[i] = u, lock_queue'[j] = v
        PROVE  u # t /\ \E k, l \in 1..n : k < l /\ lock_queue[k] = u /\ lock_queue[l] = v
    <3>1. i + 1 \in 1..n /\ j + 1 \in 1..n /\ i + 1 < j + 1
      BY <1>1, <2>1
    <3>2. lock_queue[i + 1] = u /\ lock_queue[j + 1] = v /\ u # t
      BY <1>1, <1>4, <2>1
    <3> QED BY <3>1, <3>2
  <2>2. ASSUME NEW i \in 1..n, NEW j \in 1..n, i < j, lock_queue[i] = u, lock_queue[j] = v, u # t
        PROVE  \E k, l \in 1..(n - 1) : k < l /\ lock_queue'[k] = u /\ lock_queue'[l] = v
    <3>1. v # t
      BY <1>1, <1>2, <2>2
    <3>2. i - 1 \in 1..(n - 1) /\ j - 1 \in 1..(n - 1) /\ i - 1 < j - 1
      BY <1>1, <1>5, <2>2, <3>1
    <3>3. lock_queue'[i - 1] = u /\ lock_queue'[j - 1] = v
      BY <1>5, <2>2, <3>1
    <3> QED BY <3>2, <3>3
  <2> QED BY <2>1, <2>2
<1>9. ASSUME NEW v \in Tasks
      PROVE  (\E i, j \in 1..n : i < j /\ lock_queue[i] = t /\ lock_queue[j] = v) <=>
             (v # t /\ \E j \in 1..n : lock_queue[j] = v)
  <2>1. ASSUME NEW i \in 1..n, NEW j \in 1..n, i < j, lock_queue[i] = t, lock_queue[j] = t
        PROVE  FALSE
    BY <1>2, <2>1
  <2>2. ASSUME NEW j \in 1..n, lock_queue[j] = v, v # t
        PROVE  1 \in 1..n /\ 1 < j /\ lock_queue[1] = t
    BY <1>1, <2>2
  <2> QED BY <2>1, <2>2
<1> QED BY <1>1, <1>3, <1>6, <1>7, <1>8, <1>9 DEF n, Queued, Ahead

\* The oldest waiter gets the lock and goes on, or finds nothing to do.
LEMMA EnterLine ==
    ASSUME LineInv, NEW t \in Tasks, Enter(t)
    PROVE  /\ LineInv'
           /\ \/ /\ active = swap[t].target /\ ~swap[t].force /\ Finish(t, TRUE)
                 /\ Leaves(t)
              \/ /\ active # swap[t].target \/ swap[t].force
                 /\ swap' = [swap EXCEPT ![t].phase = "stop"] /\ UNCHANGED <<tracked, at, waits>>
                 /\ Same
<1>1. /\ ~LockHeld /\ lock_queue # <<>> /\ t = Head(lock_queue) /\ lock_queue' = Tail(lock_queue)
      /\ \A u \in Tasks : swap[u].phase \notin Body
  BY DEF Enter, LockHeld
<1>2. /\ swap[t].phase = "queued" /\ lock_queue' \in Seq(Tasks)
      /\ \A i, j \in 1..Len(lock_queue') : lock_queue'[i] = lock_queue'[j] => i = j
      /\ \A u \in Tasks : Queued(u)' <=> (u # t /\ swap[u].phase = "queued")
      /\ \A u, v \in Tasks : Ahead(u, v)' <=> (u # t /\ Before(u, v))
      /\ \A v \in Tasks : Before(t, v) <=> (v # t /\ swap[v].phase = "queued")
  <2>1. \A u \in Tasks : (swap[u].phase = "queued") <=> Queued(u)
    BY DEF LineInv, Queued
  <2>2. \A u, v \in Tasks : Before(u, v) <=> Ahead(u, v)
    BY <1>1 DEF Before
  <2>3. /\ swap[t].phase = "queued" /\ lock_queue' \in Seq(Tasks)
        /\ \A i, j \in 1..Len(lock_queue') : lock_queue'[i] = lock_queue'[j] => i = j
        /\ \A u \in Tasks : Queued(u)' <=> (u # t /\ Queued(u))
        /\ \A u, v \in Tasks : Ahead(u, v)' <=> (u # t /\ Ahead(u, v))
        /\ \A v \in Tasks : Ahead(t, v) <=> (v # t /\ Queued(v))
    BY <1>1, ShiftLine
  <2>4. \A u \in Tasks : Queued(u)' <=> (u # t /\ swap[u].phase = "queued")
    BY <2>1, <2>3
  <2>5. \A u, v \in Tasks : Ahead(u, v)' <=> (u # t /\ Before(u, v))
    BY <2>2, <2>3
  <2>6. \A v \in Tasks : Before(t, v) <=> (v # t /\ swap[v].phase = "queued")
    BY <2>1, <2>2, <2>3
  <2> QED BY <2>3, <2>4, <2>5, <2>6
<1>3. \A u \in Tasks : ~Before(u, t)
  <2> SUFFICES ASSUME NEW u \in Tasks, Before(u, t) PROVE FALSE
    OBVIOUS
  <2>1. u # t
    BY LineIsOrder
  <2>2. Live(u) /\ swap[u].phase = "queued"
    BY <1>1, LineIsOrder DEF Live, Body
  <2>3. Before(t, u)
    BY <1>2, <2>1, <2>2
  <2> QED BY <2>3, LineIsOrder
<1>4. CASE active = swap[t].target /\ ~swap[t].force
  <2>1. swap' = [swap EXCEPT ![t] = NoCall] /\ Finish(t, TRUE) /\ swapping' = swapping
    BY <1>4 DEF Enter, Finish
  <2>2. \A u \in Tasks : swap'[u] = IF u = t THEN NoCall ELSE swap[u]
    BY <2>1 DEF LineInv
  <2>3. NoCall \in [phase : Phases, target : Profiles \cup {NoProfile}, force : BOOLEAN]
    BY DEF NoCall, Phases
  <2>4. swap' \in [Tasks -> [phase : Phases, target : Profiles \cup {NoProfile}, force : BOOLEAN]]
    BY <2>1, <2>3 DEF LineInv
  <2>5. \A u \in Tasks : swap'[u].phase \notin Body
    BY <1>1, <2>2 DEF NoCall, Body
  <2>6. \A u, v \in Tasks : Before(u, v)' <=> Before(u, v) /\ u # t /\ v # t
    BY <1>2, <1>3, <2>5 DEF Before
  <2>7. Leaves(t)
    BY <1>2, <1>3, <2>2, <2>6 DEF Leaves, Live, NoCall
  <2>8. \A u \in Tasks :
          (swap'[u].phase = "queued") <=> \E i \in 1..Len(lock_queue') : lock_queue'[i] = u
    BY <1>2, <2>2 DEF NoCall, Queued
  <2>9. ~LockHeld'
    BY <2>5 DEF LockHeld
  <2>10. LineInv'
    BY <1>1, <1>2, <2>1, <2>2, <2>4, <2>5, <2>8, <2>9 DEF LineInv, Live, NoCall, Tasks
  <2> QED BY <1>4, <2>1, <2>7, <2>10
<1>5. CASE active # swap[t].target \/ swap[t].force
  <2>1. /\ swap' = [swap EXCEPT ![t].phase = "stop"] /\ swapping' = TRUE
        /\ UNCHANGED <<tracked, at, waits>>
    BY <1>5 DEF Enter
  <2>2. \A u \in Tasks : /\ swap'[u].phase = IF u = t THEN "stop" ELSE swap[u].phase
                         /\ swap'[u].target = swap[u].target
    BY <2>1 DEF LineInv
  <2>3. swap' \in [Tasks -> [phase : Phases, target : Profiles \cup {NoProfile}, force : BOOLEAN]]
    BY <2>1 DEF LineInv, Phases
  <2>4. \A u, v \in Tasks : Before(u, v)' <=> Before(u, v)
    <3> TAKE u, v \in Tasks
    <3>1. swap'[u].phase \in Body <=> u = t
      BY <1>1, <2>2 DEF Body
    <3>2. (swap'[v].phase = "queued") <=> (v # t /\ swap[v].phase = "queued")
      BY <2>2
    <3>3. Before(u, v)' <=> \/ u = t /\ v # t /\ swap[v].phase = "queued"
                            \/ u # t /\ Before(u, v)
      BY <1>2, <3>1, <3>2 DEF Before
    <3> QED BY <1>2, <3>3
  <2>5. Same
    BY <1>2, <2>2, <2>4 DEF Same, Live
  <2>6. \A u \in Tasks :
          (swap'[u].phase = "queued") <=> \E i \in 1..Len(lock_queue') : lock_queue'[i] = u
    BY <1>2, <2>2 DEF Queued
  <2>7. LockHeld'
    BY <2>2 DEF LockHeld, Body
  <2>8. swapping' \in BOOLEAN /\ (swapping' <=> LockHeld')
    BY <2>1, <2>7
  <2>9. LineInv'
    BY <1>1, <1>2, <2>2, <2>3, <2>5, <2>6, <2>8 DEF LineInv, Live, Same, Body, Tasks
  <2> QED BY <1>5, <2>1, <2>5, <2>9
<1>6. swap[t].force \in BOOLEAN
  BY DEF LineInv
<1> QED BY <1>4, <1>5, <1>6

-----------------------------------------------------------------------------
(* The tracked task and the order of the swaps requests ask for *)

\* The tracked task is the last of the swap tasks in the line.
TrackedInv ==
    /\ tracked \in SwapTasks \cup {NoTask}
    /\ tracked # NoTask => Live(tracked)
    /\ \A u \in SwapTasks : Live(u) /\ u # tracked => tracked # NoTask /\ Before(u, tracked)

\* No two of them in a row have the same target.
NoTwice ==
    \A t, u \in SwapTasks :
        Before(t, u) /\ (\A v \in SwapTasks : ~(Before(t, v) /\ Before(v, u))) =>
            swap[t].target # swap[u].target

\* In what is about swap tasks, the administrator's calls do not count.
LEMMA TasksFacts == SwapTasks \subseteq Tasks /\ Admins \subseteq Tasks /\ NoTask \notin Tasks
  BY SetsAssumption DEF Tasks

LEMMA TrackedSame ==
    ASSUME LineInv, TrackedInv, NoTwice, Same, tracked' = tracked
    PROVE  TrackedInv' /\ NoTwice'
<1>1. TrackedInv'
  BY TasksFacts DEF TrackedInv, Same
<1>2. NoTwice'
  <2> SUFFICES ASSUME NEW t \in SwapTasks, NEW u \in SwapTasks, Before(t, u)',
                      \A v \in SwapTasks : ~(Before(t, v)' /\ Before(v, u)')
               PROVE  swap'[t].target # swap'[u].target
    BY DEF NoTwice
  <2>1. Before(t, u) /\ \A v \in SwapTasks : ~(Before(t, v) /\ Before(v, u))
    BY TasksFacts DEF Same
  <2>2. Live(t) /\ Live(u)
    BY <2>1, TasksFacts, LineIsOrder
  <2> QED BY <2>1, <2>2, TasksFacts DEF NoTwice, Same
<1> QED BY <1>1, <1>2

\* A call of the administrator.
LEMMA TrackedAdmin ==
    ASSUME LineInv, TrackedInv, NoTwice, NEW a \in Admins, NEW p, Joins(a, p), tracked' = tracked
    PROVE  TrackedInv' /\ NoTwice'
<1>1. a \notin SwapTasks
  BY SetsAssumption
<1>2. \A t, u \in SwapTasks : Before(t, u)' <=> Before(t, u)
  BY <1>1, TasksFacts DEF Joins
<1>3. \A t \in SwapTasks : swap'[t].target = swap[t].target /\ (Live(t)' <=> Live(t))
  BY <1>1, TasksFacts DEF Joins
<1>4. TrackedInv'
  BY <1>2, <1>3, TasksFacts DEF TrackedInv
<1>5. NoTwice'
  BY <1>2, <1>3 DEF NoTwice
<1> QED BY <1>4, <1>5

\* A new swap task, for a profile the tracked one is not for.
LEMMA TrackedCreate ==
    ASSUME LineInv, TrackedInv, NoTwice, NEW t \in SwapTasks, NEW p, Joins(t, p), tracked' = t,
           tracked # NoTask => swap[tracked].target # p
    PROVE  TrackedInv' /\ NoTwice'
<1>1. TrackedInv'
  BY TasksFacts DEF TrackedInv, Joins
<1>2. ASSUME NEW v \in SwapTasks, NEW u \in SwapTasks, Before(v, u)',
             \A w \in SwapTasks : ~(Before(v, w)' /\ Before(w, u)')
      PROVE  swap'[v].target # swap'[u].target
  <2>0. v # t
    BY <1>2, TasksFacts, LineIsOrder DEF Joins
  <2>1. CASE u = t
    <3>1. Live(v)
      BY <1>2, <2>1, TasksFacts, LineIsOrder DEF Joins
    <3>2. v = tracked
      <4> SUFFICES ASSUME v # tracked PROVE FALSE
        OBVIOUS
      <4>1. PICK w \in SwapTasks : Before(v, w) /\ Live(w)
        BY <3>1 DEF TrackedInv
      <4>2. Before(v, w)' /\ Before(w, u)'
        BY <2>1, <4>1, TasksFacts DEF Joins
      <4> QED BY <1>2, <4>1, <4>2
    <3>3. tracked # NoTask /\ swap'[v].target = swap[tracked].target
      BY <2>0, <3>2, TasksFacts DEF Joins
    <3> QED BY <2>1, <3>3 DEF Joins
  <2>2. CASE u # t
    <3>1. Before(v, u) /\ \A w \in SwapTasks : ~(Before(v, w) /\ Before(w, u))
      BY <1>2, <2>2, TasksFacts DEF Joins
    <3> QED BY <2>0, <2>2, <3>1, TasksFacts DEF NoTwice, Joins
  <2> QED BY <2>1, <2>2
<1>3. NoTwice'
  BY <1>2 DEF NoTwice
<1> QED BY <1>1, <1>3

\* The first of the line has gone.
LEMMA TrackedLeaves ==
    ASSUME LineInv, TrackedInv, NoTwice, NEW t \in Tasks, Leaves(t),
           tracked' = IF tracked = t THEN NoTask ELSE tracked
    PROVE  TrackedInv' /\ NoTwice'
<1>1. \A u \in Tasks : Live(u) /\ u # t => Before(t, u)
  BY LineIsOrder DEF Leaves
<1>2. TrackedInv'
  <2>1. CASE tracked = t
    <3>1. \A u \in SwapTasks : ~(Live(u) /\ u # t)
      BY <2>1, TasksFacts DEF TrackedInv, Leaves
    <3> QED BY <2>1, <3>1, TasksFacts DEF TrackedInv, Leaves
  <2>2. CASE tracked # t
    BY <2>2, TasksFacts DEF TrackedInv, Leaves
  <2> QED BY <2>1, <2>2
<1>3. ASSUME NEW v \in SwapTasks, NEW u \in SwapTasks, Before(v, u)',
             \A w \in SwapTasks : ~(Before(v, w)' /\ Before(w, u)')
      PROVE  swap'[v].target # swap'[u].target
  <2>1. Before(v, u) /\ v # t /\ u # t
    BY <1>3, TasksFacts DEF Leaves
  <2>2. \A w \in SwapTasks : ~(Before(v, w) /\ Before(w, u))
    BY <1>3, <2>1, TasksFacts DEF Leaves
  <2> QED BY <2>1, <2>2, TasksFacts DEF NoTwice, Leaves
<1>4. NoTwice'
  BY <1>3 DEF NoTwice
<1> QED BY <1>2, <1>4

-----------------------------------------------------------------------------
(* The requests *)

Places == {"out", "granted", "waiting", "true", "false", "inference", "broken"}

\* One profile at a time has requests inside.
GroupInv ==
    /\ want \in [Requests -> Profiles \cup {NoProfile}]
    /\ at \in [Requests -> Places]
    /\ waits \in [Requests -> SwapTasks \cup {NoTask}]
    /\ exposed \in SUBSET Requests
    /\ \A r \in Requests : at[r] # "out" => want[r] \in Profiles
    /\ \A r, s \in Requests : at[r] # "out" /\ at[s] # "out" => want[r] = want[s]

\* Who waits, waits for its own swap, and so are all swaps of requests behind
\* that one; once it has ended all of them are, until the request is out.
WaitOK(r) ==
    /\ at[r] = "waiting" =>
          /\ waits[r] \in SwapTasks /\ Live(waits[r])
          /\ swap[waits[r]].target = want[r]
          /\ \A u \in SwapTasks : Before(waits[r], u) => swap[u].target = want[r]
    /\ at[r] # "waiting" => waits[r] = NoTask
    /\ at[r] = "true" \/ (at[r] = "inference" /\ r \notin exposed) =>
          \A u \in SwapTasks : Live(u) => swap[u].target = want[r]

RequestInv == GroupInv /\ \A r \in Requests : WaitOK(r)

\* The line is as it was, and so are the requests but for broken exchanges.
LEMMA RequestSame ==
    ASSUME LineInv, RequestInv, Same, UNCHANGED <<want, waits, exposed>>,
           at' \in [Requests -> Places],
           \A r \in Requests : at'[r] = at[r] \/ (at[r] = "inference" /\ at'[r] = "broken")
    PROVE  RequestInv'
<1>1. GroupInv'
  BY DEF RequestInv, GroupInv
<1>2. ASSUME NEW r \in Requests
      PROVE  WaitOK(r)'
  <2>1. WaitOK(r)
    BY DEF RequestInv
  <2>2. at'[r] = at[r] \/ (at[r] = "inference" /\ at'[r] = "broken")
    OBVIOUS
  <2>3. \A u \in SwapTasks : Live(u)' => swap'[u].target = swap[u].target /\ Live(u)
    BY TasksFacts DEF Same
  <2>4. \A t, u \in SwapTasks : Before(t, u)' => Before(t, u) /\ swap'[u].target = swap[u].target
    BY TasksFacts, LineIsOrder DEF Same
  <2>5. \A t \in SwapTasks : Live(t) => Live(t)' /\ swap'[t].target = swap[t].target
    BY TasksFacts DEF Same
  <2> QED BY <2>1, <2>2, <2>3, <2>4, <2>5 DEF WaitOK
<1> QED BY <1>1, <1>2 DEF RequestInv

\* One request has gone on, and its new place suits the line.
LEMMA RequestMoves ==
    ASSUME LineInv, RequestInv, Same, NEW r \in Requests,
           UNCHANGED <<want, waits>>, at' = [at EXCEPT ![r] = at'[r]], at'[r] \in Places,
           at[r] # "out", at[r] # "waiting", at'[r] # "out", at'[r] # "waiting",
           exposed' \in SUBSET Requests, exposed \subseteq exposed',
           at'[r] = "true" \/ (at'[r] = "inference" /\ r \notin exposed') =>
               \A u \in SwapTasks : Live(u) => swap[u].target = want[r]
    PROVE  RequestInv'
<1>0. \A s \in Requests : s # r => at'[s] = at[s]
  BY DEF RequestInv, GroupInv
<1>1. GroupInv'
  BY <1>0 DEF RequestInv, GroupInv
<1>2. ASSUME NEW s \in Requests
      PROVE  WaitOK(s)'
  <2>1. WaitOK(s)
    BY DEF RequestInv
  <2>3. \A u \in SwapTasks : Live(u)' => swap'[u].target = swap[u].target /\ Live(u)
    BY TasksFacts DEF Same
  <2>4. \A t, u \in SwapTasks : Before(t, u)' => Before(t, u) /\ swap'[u].target = swap[u].target
    BY TasksFacts, LineIsOrder DEF Same
  <2>5. \A t \in SwapTasks : Live(t) => Live(t)' /\ swap'[t].target = swap[t].target
    BY TasksFacts DEF Same
  <2>6. CASE s # r
    BY <1>0, <2>1, <2>3, <2>4, <2>5, <2>6 DEF WaitOK
  <2>7. CASE s = r
    BY <2>1, <2>3, <2>7 DEF WaitOK
  <2> QED BY <2>6, <2>7
<1> QED BY <1>1, <1>2 DEF RequestInv

\* A request is out.
LEMMA RequestOut ==
    ASSUME LineInv, RequestInv, Same, NEW r \in Requests, Out(r)
    PROVE  RequestInv'
<1>0. /\ at'[r] = "out" /\ waits'[r] = NoTask
      /\ \A s \in Requests : s # r => /\ at'[s] = at[s] /\ want'[s] = want[s] /\ waits'[s] = waits[s]
                                      /\ (s \in exposed' <=> s \in exposed)
  BY DEF Out, RequestInv, GroupInv
<1>1. GroupInv'
  BY <1>0 DEF Out, RequestInv, GroupInv, Places
<1>2. ASSUME NEW s \in Requests
      PROVE  WaitOK(s)'
  <2>1. WaitOK(s)
    BY DEF RequestInv
  <2>3. \A u \in SwapTasks : Live(u)' => swap'[u].target = swap[u].target /\ Live(u)
    BY TasksFacts DEF Same
  <2>4. \A t, u \in SwapTasks : Before(t, u)' => Before(t, u) /\ swap'[u].target = swap[u].target
    BY TasksFacts, LineIsOrder DEF Same
  <2>5. \A t \in SwapTasks : Live(t) => Live(t)' /\ swap'[t].target = swap[t].target
    BY TasksFacts DEF Same
  <2>6. CASE s # r
    BY <1>0, <2>1, <2>3, <2>4, <2>5, <2>6 DEF WaitOK
  <2>7. CASE s = r
    BY <1>0, <2>7 DEF WaitOK
  <2> QED BY <2>6, <2>7
<1> QED BY <1>1, <1>2 DEF RequestInv

\* The administrator's calls are nobody's swap.
LEMMA RequestAdmin ==
    ASSUME LineInv, RequestInv, NEW a \in Admins, NEW p, Joins(a, p), UNCHANGED request
    PROVE  RequestInv'
<1>1. a \notin SwapTasks
  BY SetsAssumption
<1>2. \A t, u \in SwapTasks : Before(t, u)' <=> Before(t, u)
  BY <1>1, TasksFacts DEF Joins
<1>3. \A t \in SwapTasks : swap'[t].target = swap[t].target /\ (Live(t)' <=> Live(t))
  BY <1>1, TasksFacts DEF Joins
<1>4. at' = at /\ want' = want /\ waits' = waits /\ exposed' = exposed
  BY DEF request
<1> QED BY <1>2, <1>3, <1>4 DEF RequestInv, GroupInv, WaitOK

\* A request waits for the task it has just created.
LEMMA RequestCreates ==
    ASSUME LineInv, RequestInv, NEW r \in Requests, NEW t \in SwapTasks, Joins(t, want[r]),
           LineInv',
           at[r] = "granted", at' = [at EXCEPT ![r] = "waiting"],
           waits' = [waits EXCEPT ![r] = t], UNCHANGED <<want, exposed>>
    PROVE  RequestInv'
<1>0. /\ at'[r] = "waiting" /\ waits'[r] = t
      /\ \A s \in Requests : s # r => at'[s] = at[s] /\ waits'[s] = waits[s]
  BY DEF RequestInv, GroupInv
<1>1. GroupInv'
  BY <1>0 DEF RequestInv, GroupInv, Places
<1>2. \A u \in SwapTasks \ {t} : swap'[u].target = swap[u].target /\ (Live(u)' <=> Live(u))
  BY TasksFacts DEF Joins
<1>3. Live(t)' /\ swap'[t].target = want[r] /\ ~Live(t)
  BY TasksFacts DEF Joins
<1>4. \A u, v \in SwapTasks : Before(u, v)' <=> Before(u, v) \/ (v = t /\ Live(u))
  BY TasksFacts DEF Joins
<1>5. \A u \in SwapTasks : ~Before(t, u)'
  BY <1>3, <1>4, TasksFacts, LineIsOrder
<1>6. ASSUME NEW s \in Requests, s # r
      PROVE  WaitOK(s)'
  <2>1. WaitOK(s) /\ (at[s] # "out" => want[s] = want[r])
    BY DEF RequestInv, GroupInv
  <2>2. \A u \in SwapTasks : Before(waits[s], u) => u # t
    BY <1>3, <2>1, TasksFacts, LineIsOrder DEF WaitOK, LineInv, Before, Ahead, Live
  <2>3. at[s] = "waiting" => waits[s] \in SwapTasks /\ waits[s] # t
    BY <1>3, <2>1 DEF WaitOK
  <2> QED BY <1>0, <1>2, <1>3, <1>4, <1>6, <2>1, <2>2, <2>3 DEF WaitOK
<1>7. WaitOK(r)'
  BY <1>0, <1>3, <1>5 DEF WaitOK
<1> QED BY <1>1, <1>6, <1>7 DEF RequestInv

\* A swap has ended and its waiters wake up.
LEMMA RequestLeaves ==
    ASSUME LineInv, RequestInv, NEW t \in Tasks, NEW success, Leaves(t), Finish(t, success),
           UNCHANGED <<want, exposed>>
    PROVE  RequestInv'
<1>0. /\ \A r \in Requests : at'[r] = IF waits[r] # t THEN at[r] ELSE IF success THEN "true" ELSE "false"
      /\ \A r \in Requests : waits'[r] = IF waits[r] = t THEN NoTask ELSE waits[r]
      /\ at' \in [Requests -> Places] /\ waits' \in [Requests -> SwapTasks \cup {NoTask}]
  BY DEF Finish, RequestInv, GroupInv, Places
<1>1. \A r \in Requests : waits[r] = t => at[r] = "waiting"
  BY TasksFacts DEF RequestInv, WaitOK
<1>2. GroupInv'
  BY <1>0, <1>1 DEF RequestInv, GroupInv
<1>3. \A u \in Tasks : Live(u) /\ u # t => Before(t, u)
  BY LineIsOrder DEF Leaves
<1>4. ASSUME NEW r \in Requests
      PROVE  WaitOK(r)'
  <2>1. WaitOK(r)
    BY DEF RequestInv
  <2>2. \A u \in SwapTasks : Live(u)' => Live(u) /\ u # t /\ swap'[u].target = swap[u].target
    BY TasksFacts DEF Leaves
  <2>3. \A u, v \in SwapTasks : Before(u, v)' => Before(u, v) /\ swap'[v].target = swap[v].target
    BY TasksFacts DEF Leaves
  <2>4. CASE waits[r] = t
    <3>1. at'[r] \in {"true", "false"} /\ waits'[r] = NoTask
      BY <1>0, <2>4
    <3>2. t \in SwapTasks /\ \A u \in SwapTasks : Before(t, u) => swap[u].target = want[r]
      BY <1>1, <2>1, <2>4 DEF WaitOK
    <3>3. \A u \in SwapTasks : Live(u)' => swap'[u].target = want[r]
      BY <1>3, <2>2, <3>2, TasksFacts
    <3> QED BY <3>1, <3>3 DEF WaitOK
  <2>5. CASE waits[r] # t
    <3>1. at'[r] = at[r] /\ waits'[r] = waits[r]
      BY <1>0, <2>5
    <3>2. \A u \in SwapTasks \ {t} : Live(u) => Live(u)' /\ swap'[u].target = swap[u].target
      BY TasksFacts DEF Leaves
    <3>3. waits[r] \in SwapTasks /\ Live(waits[r]) =>
             Live(waits[r])' /\ swap'[waits[r]].target = swap[waits[r]].target
      BY <2>5, <3>1, <3>2
    <3> QED BY <2>1, <2>2, <2>3, <3>1, <3>3 DEF WaitOK
  <2> QED BY <2>4, <2>5
<1> QED BY <1>2, <1>4 DEF RequestInv

\* A request has its slot.
LEMMA RequestAdmitted ==
    ASSUME LineInv, RequestInv, Same, NEW r \in Requests, NEW p \in Profiles, Admit(r, p)
    PROVE  RequestInv'
<1>0. /\ at[r] = "out" /\ at'[r] = "granted" /\ want'[r] = p /\ UNCHANGED <<waits, exposed>>
      /\ \A s \in Requests : s # r => at'[s] = at[s] /\ want'[s] = want[s]
      /\ \A s \in Requests : at[s] # "out" => want[s] = p
  BY DEF Admit, Holders, RequestInv, GroupInv
<1>1. GroupInv'
  BY <1>0 DEF Admit, RequestInv, GroupInv, Places
<1>2. ASSUME NEW s \in Requests
      PROVE  WaitOK(s)'
  <2>1. WaitOK(s)
    BY DEF RequestInv
  <2>3. \A u \in SwapTasks : Live(u)' => swap'[u].target = swap[u].target /\ Live(u)
    BY TasksFacts DEF Same
  <2>4. \A t, u \in SwapTasks : Before(t, u)' => Before(t, u) /\ swap'[u].target = swap[u].target
    BY TasksFacts, LineIsOrder DEF Same
  <2>5. \A t \in SwapTasks : Live(t) => Live(t)' /\ swap'[t].target = swap[t].target
    BY TasksFacts DEF Same
  <2>6. CASE s # r
    BY <1>0, <2>1, <2>3, <2>4, <2>5, <2>6 DEF WaitOK
  <2>7. CASE s = r
    BY <1>0, <2>1, <2>7 DEF WaitOK
  <2> QED BY <2>6, <2>7
<1> QED BY <1>1, <1>2 DEF RequestInv

\* A request waits for the tracked task, behind which is no other.
LEMMA RequestJoins ==
    ASSUME LineInv, TrackedInv, RequestInv, Same, NEW r \in Requests, Join(r)
    PROVE  RequestInv'
<1>0. /\ at[r] = "granted" /\ at'[r] = "waiting" /\ waits'[r] = tracked
      /\ UNCHANGED <<want, exposed, swap, lock_queue>>
      /\ \A s \in Requests : s # r => at'[s] = at[s] /\ waits'[s] = waits[s]
  BY DEF Join, RequestInv, GroupInv, orchestrator
<1>1. tracked \in SwapTasks /\ Live(tracked) /\ swap[tracked].target = want[r]
  BY DEF Join, Reusable, TrackedInv
<1>2. GroupInv'
  BY <1>0, <1>1 DEF Join, RequestInv, GroupInv, Places
<1>3. \A u \in SwapTasks : ~Before(tracked, u)
  BY <1>1, TasksFacts, LineIsOrder DEF TrackedInv
<1>4. \A t, u \in Tasks : (Before(t, u)' <=> Before(t, u)) /\ (Live(t)' <=> Live(t))
  BY DEF Same
<1>5. WaitOK(r)'
  <2>1. PICK t \in SwapTasks : t = tracked
    BY <1>1
  <2>2. Live(t)' /\ \A u \in SwapTasks : ~Before(t, u)'
    BY <1>1, <1>3, <1>4, <2>1, TasksFacts
  <2> QED BY <1>0, <1>1, <2>1, <2>2 DEF WaitOK
<1>6. ASSUME NEW s \in Requests, s # r
      PROVE  WaitOK(s)'
  <2>1. WaitOK(s)
    BY DEF RequestInv
  <2>2. \A t, u \in SwapTasks : (Before(t, u)' => Before(t, u)) /\ (Live(t)' <=> Live(t))
    BY <1>4, TasksFacts
  <2> QED BY <1>0, <1>6, <2>1, <2>2 DEF WaitOK
<1> QED BY <1>2, <1>5, <1>6 DEF RequestInv

-----------------------------------------------------------------------------
(* The models *)

\* A model that runs is the active one or the one being waited for; the task in
\* the lock has stopped the outgoing one; a swap that is no recovery goes to
\* another profile; a running exchange has its model up.
ProcInv ==
    /\ active \in Profiles \cup {NoProfile}
    /\ proc \in [Profiles -> {"none", "loading", "up"}]
    /\ \A p \in Profiles : proc[p] # "none" =>
          p = active \/ \E t \in Tasks : swap[t].phase = "wait" /\ swap[t].target = p
    /\ \A t \in Tasks :
          swap[t].phase \in {"start", "wait"} /\ active # swap[t].target /\ active # NoProfile =>
             proc[active] = "none"
    /\ \A t \in Tasks :
          swap[t].phase \in {"stop", "start"} /\ ~swap[t].force => active # swap[t].target
    /\ \A r \in Requests : at[r] = "inference" => proc[want[r]] = "up"

Inv == LineInv /\ TrackedInv /\ NoTwice /\ RequestInv /\ ProcInv

\* What is left of Inv without the models.
Lines == LineInv /\ TrackedInv /\ NoTwice /\ RequestInv

LEMMA InitInv == Init => Inv
<1> SUFFICES ASSUME Init PROVE Inv
  OBVIOUS
<1>1. /\ \A t \in Tasks : swap[t] = NoCall
      /\ lock_queue = <<>> /\ Len(lock_queue) = 0 /\ swapping = FALSE
      /\ lock_queue \in Seq(Tasks)
  BY DEF Init
<1>2. NoCall \in [phase : Phases, target : Profiles \cup {NoProfile}, force : BOOLEAN]
  BY DEF NoCall, Phases
<1>3. swap \in [Tasks -> [phase : Phases, target : Profiles \cup {NoProfile}, force : BOOLEAN]]
  BY <1>2 DEF Init
<1>4. LineInv
  <2>1. \A t \in Tasks : swap[t].phase = "idle"
    BY <1>1 DEF NoCall
  <2>2. ~\E i \in 1..Len(lock_queue) : TRUE
    BY <1>1
  <2>3. ~LockHeld /\ \A t \in Tasks : ~Live(t)
    BY <2>1 DEF LockHeld, Live, Body
  <2> QED BY <1>1, <1>3, <2>1, <2>2, <2>3, TasksFacts DEF LineInv, Body
<1>5. TrackedInv /\ NoTwice
  BY <1>1, <1>4, TasksFacts, LineIsOrder DEF Init, TrackedInv, NoTwice, Live, NoCall
<1>6. RequestInv
  BY DEF Init, RequestInv, GroupInv, WaitOK, Places
<1>7. ProcInv
  BY <1>1 DEF Init, ProcInv, NoCall
<1> QED BY <1>4, <1>5, <1>6, <1>7 DEF Inv

\* A step of a swap.
LEMMA SwapLines ==
    ASSUME Lines, NEW t \in Tasks, SwapStep(t)
    PROVE  Lines'
<1> USE DEF Lines
<1>1. CASE Enter(t)
  <2>1. want' = want /\ exposed' = exposed
    BY <1>1 DEF Enter
  <2>2. LineInv'
    BY <1>1, EnterLine
  <2>3. CASE Leaves(t) /\ Finish(t, TRUE)
    <3>1. RequestInv'
      BY <2>1, <2>3, RequestLeaves
    <3>2. TrackedInv' /\ NoTwice'
      BY <2>3, TrackedLeaves DEF Finish
    <3> QED BY <2>2, <3>1, <3>2
  <2>4. CASE Same /\ UNCHANGED <<tracked, at, waits>>
    BY <2>1, <2>2, <2>4, TrackedSame, RequestSame DEF RequestInv, GroupInv
  <2> QED BY <1>1, <2>3, <2>4, EnterLine
<1>2. CASE Stop(t)
  <2>1. LineInv' /\ Same
    BY <1>2, PhaseLine DEF Stop, Body
  <2>2. /\ at' \in [Requests -> Places]
        /\ \A r \in Requests : at'[r] = at[r] \/ (at[r] = "inference" /\ at'[r] = "broken")
    BY <1>2 DEF Stop, Kill, RequestInv, GroupInv, Places
  <2> QED BY <1>2, <2>1, <2>2, TrackedSame, RequestSame DEF Stop
<1>3. CASE Start(t)
  <2>1. LineInv' /\ Same
    BY <1>3, PhaseLine DEF Start, Body
  <2>2. /\ at' \in [Requests -> Places]
        /\ \A r \in Requests : at'[r] = at[r] \/ (at[r] = "inference" /\ at'[r] = "broken")
    BY <1>3 DEF Start, RequestInv, GroupInv, Places
  <2> QED BY <1>3, <2>1, <2>2, TrackedSame, RequestSame DEF Start
<1>4. CASE Fail(t)
  <2>1. Finish(t, FALSE) /\ UNCHANGED <<want, exposed>>
    BY <1>4 DEF Fail
  <2>2. LineInv' /\ Leaves(t)
    BY <1>4, EndLine DEF Fail, Finish, Body
  <2>3. RequestInv'
    BY <2>1, <2>2, RequestLeaves
  <2> QED BY <2>1, <2>2, <2>3, TrackedLeaves DEF Finish
<1>5. CASE Claim(t)
  <2>1. Finish(t, TRUE) /\ UNCHANGED <<want, exposed>>
    BY <1>5 DEF Claim
  <2>2. LineInv' /\ Leaves(t)
    BY <1>5, EndLine DEF Claim, Finish, Body
  <2>3. RequestInv'
    BY <2>1, <2>2, RequestLeaves
  <2> QED BY <2>1, <2>2, <2>3, TrackedLeaves DEF Finish
<1> QED BY <1>1, <1>2, <1>3, <1>4, <1>5 DEF SwapStep

\* A step of a request.
LEMMA RequestLines ==
    ASSUME Lines, NEW r \in Requests, RequestStep(r)
    PROVE  Lines'
<1> USE DEF Lines
<1>0. ASSUME UNCHANGED <<orchestrator, tracked>>
      PROVE  LineInv' /\ Same /\ TrackedInv' /\ NoTwice'
  BY <1>0, StillLine, TrackedSame DEF orchestrator
<1>1. ASSUME NEW p \in Profiles, Admit(r, p)
      PROVE  Lines'
  BY <1>0, <1>1, RequestAdmitted DEF Admit
<1>2. CASE Dispatch(r)
  <2>1. LineInv' /\ Same /\ TrackedInv' /\ NoTwice'
    BY <1>0, <1>2 DEF Dispatch
  <2>2. /\ at[r] = "granted" /\ UNCHANGED <<want, waits>> /\ ~swapping
        /\ at'[r] \in {"inference", "broken"} /\ at' = [at EXCEPT ![r] = at'[r]]
        /\ exposed' \in SUBSET Requests /\ exposed \subseteq exposed'
        /\ r \notin exposed' => lock_queue = <<>>
    BY <1>2 DEF Dispatch, Exchange, NeedsSwap, RequestInv, GroupInv
  <2>3. ASSUME lock_queue = <<>>, NEW u \in Tasks
        PROVE  ~Live(u)
    BY <2>2, <2>3 DEF LineInv, Live, LockHeld, Body
  <2>4. RequestInv'
    BY <2>1, <2>2, <2>3, TasksFacts, RequestMoves DEF Places
  <2> QED BY <2>1, <2>4
<1>3. CASE Join(r)
  BY <1>0, <1>3, RequestJoins DEF Join
<1>4. ASSUME NEW t \in SwapTasks, Create(r, t)
      PROVE  Lines'
  <2>1. want[r] \in Profiles /\ ForceSwap(want[r]) \in BOOLEAN /\ swap[t].phase = "idle"
    BY <1>4 DEF Create, ForceSwap, RequestInv, GroupInv
  <2>2. LineInv' /\ Joins(t, want[r])
    BY <1>4, <2>1, TasksFacts, CallLine DEF Create
  <2>3. RequestInv'
    BY <1>4, <2>2, RequestCreates DEF Create
  <2>4. TrackedInv' /\ NoTwice'
    BY <1>4, <2>2, TrackedCreate DEF Create, Reusable
  <2> QED BY <2>2, <2>3, <2>4
<1>5. CASE Resume(r)
  <2>1. LineInv' /\ Same /\ TrackedInv' /\ NoTwice'
    BY <1>0, <1>5 DEF Resume, Out
  <2>2. CASE at[r] = "true" /\ Exchange(r) /\ UNCHANGED <<want, waits, exposed>>
    <3>1. at'[r] \in {"inference", "broken"} /\ at' = [at EXCEPT ![r] = at'[r]]
      BY <2>2 DEF Exchange, RequestInv, GroupInv
    <3>2. \A u \in SwapTasks : Live(u) => swap[u].target = want[r]
      BY <2>2 DEF RequestInv, WaitOK
    <3>3. exposed' \in SUBSET Requests /\ exposed \subseteq exposed'
      BY <2>2 DEF RequestInv, GroupInv
    <3>4. RequestInv'
      BY <2>1, <2>2, <3>1, <3>2, <3>3, RequestMoves DEF Places
    <3> QED BY <2>1, <3>4
  <2>3. CASE Out(r)
    BY <2>1, <2>3, RequestOut
  <2> QED BY <1>5, <2>2, <2>3 DEF Resume
<1>6. CASE GiveUp(r) \/ Leave(r)
  BY <1>0, <1>6, RequestOut DEF GiveUp, Leave, Out
<1> QED BY <1>1, <1>2, <1>3, <1>4, <1>5, <1>6 DEF RequestStep

\* A step of the administrator.
LEMMA AdminLines ==
    ASSUME Lines, NEW a \in Admins, AdminStep(a)
    PROVE  Lines'
<1> USE DEF Lines
<1>0. a \in Tasks
  BY TasksFacts
<1>1. ASSUME NEW p \in Profiles, NEW force \in BOOLEAN, SetProfile(a, p, force)
      PROVE  Lines'
  <2>1. LineInv' /\ Joins(a, p)
    BY <1>0, <1>1, CallLine DEF SetProfile
  <2>2. RequestInv'
    BY <1>1, <2>1, RequestAdmin DEF SetProfile
  <2> QED BY <1>1, <2>1, <2>2, TrackedAdmin DEF SetProfile
<1>2. CASE StopContainer(a)
  <2>1. PICK phase \in {"stopping", "removing"} : swap' = [swap EXCEPT ![a].phase = phase]
    BY <1>2 DEF StopContainer
  <2> DEFINE c == [swap[a] EXCEPT !.phase = phase]
  <2>2. /\ c \in [phase : Phases, target : Profiles \cup {NoProfile}, force : BOOLEAN]
        /\ c.phase = phase /\ swap' = [swap EXCEPT ![a] = c]
    BY <1>0, <2>1 DEF LineInv, Phases
  <2> HIDE DEF c
  <2>3. LineInv' /\ Same
    BY <1>2, <2>1, <2>2, AdminLine DEF StopContainer
  <2>4. /\ at' \in [Requests -> Places]
        /\ \A r \in Requests : at'[r] = at[r] \/ (at[r] = "inference" /\ at'[r] = "broken")
    BY <1>2 DEF StopContainer, Kill, RequestInv, GroupInv, Places
  <2> QED BY <1>2, <2>3, <2>4, TrackedSame, RequestSame DEF StopContainer
<1>3. CASE ContainerStopped(a)
  <2>1. NoCall \in [phase : Phases, target : Profiles \cup {NoProfile}, force : BOOLEAN]
    BY DEF NoCall, Phases
  <2>2. LineInv' /\ Same
    BY <1>3, <2>1, AdminLine DEF ContainerStopped, NoCall
  <2>3. UNCHANGED <<tracked, want, at, waits, exposed>>
    BY <1>3 DEF ContainerStopped, request
  <2> QED BY <2>2, <2>3, TrackedSame, RequestSame DEF RequestInv, GroupInv
<1> QED BY <1>1, <1>2, <1>3 DEF AdminStep

\* Whatever happens outside the line.
LEMMA QuietLines ==
    ASSUME Lines, UNCHANGED <<swap, lock_queue, swapping, tracked, want, waits, exposed>>,
           at' \in [Requests -> Places],
           \A r \in Requests : at'[r] = at[r] \/ (at[r] = "inference" /\ at'[r] = "broken")
    PROVE  Lines'
  BY StillLine, TrackedSame, RequestSame DEF Lines

LEMMA NextLines ==
    ASSUME Lines, [Next]_vars
    PROVE  Lines'
<1>0. at \in [Requests -> Places]
  BY DEF Lines, RequestInv, GroupInv
<1>1. ASSUME NEW t \in Tasks, SwapStep(t)
      PROVE  Lines'
  BY <1>1, SwapLines
<1>2. ASSUME NEW r \in Requests, RequestStep(r)
      PROVE  Lines'
  BY <1>2, RequestLines
<1>3. ASSUME NEW a \in Admins, AdminStep(a)
      PROVE  Lines'
  BY <1>3, AdminLines
<1>4. CASE WatchStep
  <2>1. UNCHANGED <<swap, lock_queue, swapping, tracked, request>>
    BY <1>4 DEF WatchStep, Tick, Counted, Probe, Answered, orchestrator
  <2> QED BY <1>0, <2>1, QuietLines DEF request
<1>5. ASSUME NEW p \in Profiles, Load(p)
      PROVE  Lines'
  BY <1>0, <1>5, QuietLines DEF Load, request, orchestrator
<1>6. ASSUME NEW p \in Profiles, Die(p)
      PROVE  Lines'
  <2>1. /\ at' \in [Requests -> Places]
        /\ \A r \in Requests : at'[r] = at[r] \/ (at[r] = "inference" /\ at'[r] = "broken")
    BY <1>0, <1>6 DEF Die, Kill, Places
  <2> QED BY <1>6, <2>1, QuietLines DEF Die, orchestrator
<1>7. CASE RayChanges
  BY <1>0, <1>7, QuietLines DEF RayChanges, request, orchestrator
<1>8. CASE UNCHANGED vars
  BY <1>0, <1>8, QuietLines DEF vars, request, orchestrator
<1> QED BY <1>1, <1>2, <1>3, <1>4, <1>5, <1>6, <1>7, <1>8 DEF Next

\* A step of a swap.
LEMMA SwapProc ==
    ASSUME LineInv, LineInv', RequestInv, ProcInv, NEW t \in Tasks, SwapStep(t)
    PROVE  ProcInv'
<1> USE DEF LineInv
<1>0. \A u \in Tasks : swap[t].phase \in Body /\ swap[u].phase \in Body => u = t
  OBVIOUS
<1>1. CASE Enter(t)
  <2>1. /\ UNCHANGED <<active, proc, want>> /\ \A u \in Tasks : swap[u].phase \notin Body
        /\ \A u \in Tasks \ {t} : swap'[u] = swap[u]
    BY <1>1 DEF Enter, LockHeld, Finish
  <2>2. \/ swap'[t] = NoCall
        \/ /\ swap'[t].phase = "stop" /\ swap'[t].force = swap[t].force
           /\ swap'[t].target = swap[t].target /\ (active # swap[t].target \/ swap[t].force)
    BY <1>1 DEF Enter, Finish
  <2>3. \A r \in Requests : at'[r] = "inference" => at[r] = "inference"
    BY <1>1 DEF Enter, Finish, RequestInv, GroupInv
  <2>4. \A u \in Tasks : u # t => swap'[u].phase \notin Body
    BY <2>1
  <2>5. swap'[t].phase \notin {"start", "wait"}
    BY <2>2 DEF NoCall
  <2>6. swap'[t].phase = "stop" /\ ~swap'[t].force => active # swap'[t].target
    BY <2>2 DEF NoCall
  <2> QED BY <2>1, <2>3, <2>4, <2>5, <2>6 DEF ProcInv, Body
<1>2. CASE Stop(t)
  <2>1. /\ swap[t].phase = "stop" /\ swap'[t].phase = "start" /\ swap'[t].target = swap[t].target
        /\ swap'[t].force = swap[t].force /\ active' = active /\ want' = want
        /\ \A u \in Tasks \ {t} : swap'[u] = swap[u]
    BY <1>2 DEF Stop
  <2>2. /\ proc' \in [Profiles -> {"none", "loading", "up"}]
        /\ \A p \in Profiles : proc'[p] = IF p = active /\ p # swap[t].target THEN "none" ELSE proc[p]
    BY <1>2, SetsAssumption DEF Stop, Kill, ProcInv
  <2>3. \A r \in Requests : at'[r] = "inference" =>
           at[r] = "inference" /\ ~(want[r] = active /\ want[r] # swap[t].target) /\ want[r] \in Profiles
    BY <1>2, SetsAssumption DEF Stop, Kill, RequestInv, GroupInv
  <2>4. \A u \in Tasks : u # t => swap'[u].phase \notin Body
    BY <1>0, <2>1 DEF Body
  <2>5. \A p \in Profiles : proc[p] # "none" => p = active
    BY <1>0, <2>1 DEF ProcInv, Body
  <2>6. \A r \in Requests : at'[r] = "inference" => proc'[want'[r]] = "up"
    BY <2>1, <2>2, <2>3 DEF ProcInv
  <2>7. active # swap[t].target /\ active # NoProfile => proc'[active] = "none"
    BY <2>2 DEF ProcInv
  <2> QED BY <2>1, <2>2, <2>4, <2>5, <2>6, <2>7 DEF ProcInv, Body
<1>3. CASE Start(t)
  <2>1. /\ swap[t].phase = "start" /\ swap'[t].phase = "wait" /\ swap'[t].target = swap[t].target
        /\ active' = active /\ want' = want /\ swap[t].target \in Profiles
        /\ \A u \in Tasks \ {t} : swap'[u] = swap[u]
    BY <1>3 DEF Start, Live
  <2>2. /\ proc' \in [Profiles -> {"none", "loading", "up"}]
        /\ \A p \in Profiles : proc'[p] = IF p = swap[t].target THEN "loading" ELSE proc[p]
    BY <1>3, <2>1 DEF Start, ProcInv
  <2>3. \A r \in Requests : at'[r] = "inference" =>
           at[r] = "inference" /\ want[r] # swap[t].target /\ want[r] \in Profiles
    BY <1>3 DEF Start, RequestInv, GroupInv
  <2>4. \A u \in Tasks : u # t => swap'[u].phase \notin Body
    BY <1>0, <2>1 DEF Body
  <2>5. \A p \in Profiles : proc[p] # "none" => p = active
    BY <1>0, <2>1 DEF ProcInv, Body
  <2>6. \A r \in Requests : at'[r] = "inference" => proc'[want'[r]] = "up"
    BY <2>1, <2>2, <2>3 DEF ProcInv
  <2>7. active # swap[t].target /\ active # NoProfile => proc'[active] = "none"
    BY <2>1, <2>2 DEF ProcInv
  <2> QED BY <2>1, <2>2, <2>4, <2>5, <2>6, <2>7 DEF ProcInv, Body
<1>4. CASE Fail(t)
  <2>1. /\ swap[t].phase = "start" /\ swap'[t] = NoCall /\ UNCHANGED <<active, want, proc>>
        /\ \A u \in Tasks \ {t} : swap'[u] = swap[u]
    BY <1>4 DEF Fail, Finish
  <2>3. \A r \in Requests : at'[r] = "inference" => at[r] = "inference"
    BY <1>4 DEF Fail, Finish, RequestInv, GroupInv
  <2>4. \A u \in Tasks : swap'[u].phase \notin Body
    BY <1>0, <2>1 DEF Body, NoCall
  <2>5. \A p \in Profiles : proc[p] # "none" => p = active
    BY <1>0, <2>1 DEF ProcInv, Body
  <2> QED BY <2>1, <2>3, <2>4, <2>5 DEF ProcInv, Body
<1>5. CASE Claim(t)
  <2>1. /\ swap[t].phase = "wait" /\ swap'[t] = NoCall /\ UNCHANGED <<want, proc>>
        /\ active' = swap[t].target /\ swap[t].target \in Profiles
        /\ \A u \in Tasks \ {t} : swap'[u] = swap[u]
    BY <1>5 DEF Claim, Finish, Live
  <2>3. \A r \in Requests : at'[r] = "inference" => at[r] = "inference"
    BY <1>5 DEF Claim, Finish, RequestInv, GroupInv
  <2>4. \A u \in Tasks : swap'[u].phase \notin Body
    BY <1>0, <2>1 DEF Body, NoCall
  <2>5. \A p \in Profiles : proc[p] # "none" => p = swap[t].target
    BY <1>0, <2>1, SetsAssumption DEF ProcInv, Body
  <2> QED BY <2>1, <2>3, <2>4, <2>5 DEF ProcInv, Body
<1> QED BY <1>1, <1>2, <1>3, <1>4, <1>5 DEF SwapStep

\* A call: what enters at once is a recovery or for another profile.
LEMMA CallProc ==
    ASSUME LineInv, RequestInv, ProcInv, NEW t \in Tasks, NEW p \in Profiles, NEW force \in BOOLEAN,
           swap[t].phase = "idle", Call(t, p, force),
           ~force /\ ~LockHeld /\ lock_queue = <<>> => active # p,
           UNCHANGED <<active, proc, want>>,
           \A r \in Requests : at'[r] = "inference" => at[r] = "inference"
    PROVE  ProcInv'
<1>1. /\ swap'[t].phase \in {"stop", "queued"} /\ swap'[t].target = p /\ swap'[t].force = force
      /\ \A u \in Tasks \ {t} : swap'[u] = swap[u]
      /\ swap'[t].phase = "stop" => ~LockHeld /\ lock_queue = <<>>
  BY DEF Call, LineInv
<1>2. \A u \in Tasks : swap'[u].phase \in {"start", "wait"} => u # t /\ swap'[u] = swap[u]
  BY <1>1
<1>3. \A u \in Tasks : swap[u].phase = "wait" => swap'[u] = swap[u]
  BY <1>1
<1>4. \A u \in Tasks : swap'[u].phase \in {"stop", "start"} /\ ~swap'[u].force => active # swap'[u].target
  BY <1>1 DEF ProcInv
<1> QED BY <1>2, <1>3, <1>4 DEF ProcInv

\* A request's steps other than the creation of a task.
LEMMA RequestProc ==
    ASSUME LineInv, RequestInv, ProcInv, NEW r \in Requests, RequestStep(r)
    PROVE  ProcInv'
<1>0. ASSUME UNCHANGED <<active, proc, swap>>,
             \A s \in Requests : at'[s] = "inference" => proc[want'[s]] = "up"
      PROVE  ProcInv'
  BY <1>0 DEF ProcInv
<1>1. ASSUME NEW p \in Profiles, Admit(r, p)
      PROVE  ProcInv'
  <2>1. \A s \in Requests : at'[s] = "inference" => at[s] = "inference" /\ want'[s] = want[s]
    BY <1>1 DEF Admit, RequestInv, GroupInv
  <2> QED BY <1>0, <1>1, <2>1 DEF Admit, orchestrator, ProcInv
<1>2. CASE Exchange(r) /\ UNCHANGED <<orchestrator, want, proc>>
  <2>1. \A s \in Requests : at'[s] = "inference" => at[s] = "inference" \/ proc[want[s]] = "up"
    BY <1>2 DEF Exchange, RequestInv, GroupInv
  <2> QED BY <1>0, <1>2, <2>1 DEF orchestrator, ProcInv
<1>3. CASE Join(r)
  <2>1. \A s \in Requests : at'[s] = "inference" => at[s] = "inference"
    BY <1>3 DEF Join, RequestInv, GroupInv
  <2> QED BY <1>0, <1>3, <2>1 DEF Join, orchestrator, ProcInv
<1>4. ASSUME NEW t \in SwapTasks, Create(r, t)
      PROVE  ProcInv'
  <2>1. want[r] \in Profiles /\ ForceSwap(want[r]) \in BOOLEAN /\ swap[t].phase = "idle"
    BY <1>4 DEF Create, ForceSwap, RequestInv, GroupInv
  <2>2. \A s \in Requests : at'[s] = "inference" => at[s] = "inference"
    BY <1>4 DEF Create, RequestInv, GroupInv
  <2>3. ~ForceSwap(want[r]) /\ ~LockHeld => active # want[r]
    BY <1>4 DEF Create, NeedsSwap, ForceSwap, LineInv
  <2> QED BY <1>4, <2>1, <2>2, <2>3, TasksFacts, CallProc DEF Create
<1>5. CASE Out(r)
  <2>1. \A s \in Requests : at'[s] = "inference" => at[s] = "inference" /\ want'[s] = want[s]
    BY <1>5 DEF Out, RequestInv, GroupInv
  <2> QED BY <1>0, <1>5, <2>1 DEF Out, orchestrator, ProcInv
<1> QED BY <1>1, <1>2, <1>3, <1>4, <1>5 DEF RequestStep, Dispatch, Resume, GiveUp, Leave

\* A step of the administrator.
LEMMA AdminProc ==
    ASSUME LineInv, RequestInv, ProcInv, NEW a \in Admins, AdminStep(a)
    PROVE  ProcInv'
<1>0. a \in Tasks
  BY TasksFacts
<1>1. ASSUME NEW p \in Profiles, NEW force \in BOOLEAN, SetProfile(a, p, force)
      PROVE  ProcInv'
  BY <1>0, <1>1, CallProc DEF SetProfile, request
<1>2. CASE StopContainer(a)
  <2>1. /\ UNCHANGED <<active, want>> /\ swap[a].phase = "idle"
        /\ swap'[a].phase \in {"stopping", "removing"}
        /\ \A u \in Tasks \ {a} : swap'[u] = swap[u]
    BY <1>0, <1>2 DEF StopContainer, LineInv
  <2>2. proc' \in [Profiles -> {"none", "loading", "up"}] /\ \A p \in Profiles : proc'[p] = "none"
    BY <1>2 DEF StopContainer, Kill
  <2>3. \A r \in Requests : at'[r] # "inference"
    BY <1>2 DEF StopContainer, Kill, RequestInv, GroupInv
  <2>4. \A u \in Tasks : swap'[u].phase \in Body => swap'[u] = swap[u]
    BY <2>1 DEF Body
  <2> QED BY <2>1, <2>2, <2>3, <2>4 DEF ProcInv, Body
<1>3. CASE ContainerStopped(a)
  <2>1. /\ UNCHANGED <<active, want, proc, at>> /\ swap[a].phase \in {"stopping", "removing"}
        /\ swap'[a].phase = "idle"
        /\ \A u \in Tasks \ {a} : swap'[u] = swap[u]
    BY <1>0, <1>3 DEF ContainerStopped, LineInv, request, NoCall
  <2>2. \A u \in Tasks : swap'[u].phase \in Body \/ swap[u].phase \in Body => swap'[u] = swap[u]
    BY <2>1 DEF Body
  <2> QED BY <2>1, <2>2 DEF ProcInv, Body
<1> QED BY <1>1, <1>2, <1>3 DEF AdminStep

LEMMA NextInv ==
    ASSUME Inv, [Next]_vars
    PROVE  Inv'
<1>0. Lines /\ Lines'
  BY NextLines DEF Inv, Lines
<1>1. ASSUME NEW t \in Tasks, SwapStep(t)
      PROVE  ProcInv'
  BY <1>0, <1>1, SwapProc DEF Inv, Lines
<1>2. ASSUME NEW r \in Requests, RequestStep(r)
      PROVE  ProcInv'
  BY <1>2, RequestProc DEF Inv
<1>3. ASSUME NEW a \in Admins, AdminStep(a)
      PROVE  ProcInv'
  BY <1>3, AdminProc DEF Inv
<1>4. ASSUME UNCHANGED <<active, swap, proc, at, want>>
      PROVE  ProcInv'
  <2>1. active' = active /\ swap' = swap /\ proc' = proc /\ at' = at /\ want' = want
    BY <1>4
  <2> QED BY <2>1 DEF Inv, ProcInv
<1>5. ASSUME NEW p \in Profiles, Load(p)
      PROVE  ProcInv'
  <2>1. /\ UNCHANGED <<active, swap, at, want>> /\ proc[p] = "loading"
        /\ proc' \in [Profiles -> {"none", "loading", "up"}]
        /\ \A q \in Profiles : proc'[q] = IF q = p THEN "up" ELSE proc[q]
    BY <1>5 DEF Load, orchestrator, request, Inv, ProcInv
  <2>2. \A r \in Requests : at[r] = "inference" => want[r] \in Profiles
    BY DEF Inv, RequestInv, GroupInv
  <2> QED BY <2>1, <2>2 DEF Inv, ProcInv
<1>6. ASSUME NEW p \in Profiles, Die(p)
      PROVE  ProcInv'
  <2>1. /\ UNCHANGED <<active, swap, want>>
        /\ proc' \in [Profiles -> {"none", "loading", "up"}]
        /\ \A q \in Profiles : proc'[q] = IF q = p THEN "none" ELSE proc[q]
        /\ \A r \in Requests : at'[r] = "inference" => at[r] = "inference" /\ want[r] # p /\ want[r] \in Profiles
    BY <1>6 DEF Die, Kill, orchestrator, Inv, ProcInv, RequestInv, GroupInv
  <2> QED BY <2>1 DEF Inv, ProcInv
<1>7. ASSUME WatchStep \/ RayChanges \/ UNCHANGED vars
      PROVE  ProcInv'
  BY <1>4, <1>7 DEF WatchStep, Tick, Counted, Probe, Answered, RayChanges, vars, orchestrator, request
<1>8. ProcInv'
  BY <1>1, <1>2, <1>3, <1>5, <1>6, <1>7 DEF Next
<1> QED BY <1>0, <1>8 DEF Inv, Lines

LEMMA InvHolds == Spec => []Inv
  BY InitInv, NextInv, PTL DEF Spec

-----------------------------------------------------------------------------
(* Theorems *)

\* The tracked task is unfinished, and every waiting request waits for an
\* unfinished swap to its own profile.
THEOREM RequestsWaitForTheirSwap == Spec => []WaitsForOwnSwap
<1>1. Inv => WaitsForOwnSwap
  <2> SUFFICES ASSUME Inv PROVE WaitsForOwnSwap
    OBVIOUS
  <2>1. tracked # NoTask => swap[tracked].phase # "idle"
    BY DEF Inv, TrackedInv, Live
  <2>2. ASSUME NEW r \in Requests, at[r] = "waiting"
        PROVE  swap[waits[r]].phase # "idle" /\ swap[waits[r]].target = want[r]
    BY <2>2 DEF Inv, RequestInv, WaitOK, Live
  <2> QED BY <2>1, <2>2 DEF WaitsForOwnSwap
<1> QED BY <1>1, InvHolds, PTL

\* Requests never have two unfinished swaps to one profile in a row.
THEOREM NoSwapIsRedundant == Spec => []NoRedundantSwap
<1>1. Inv => NoRedundantSwap
  <2> SUFFICES ASSUME Inv, NEW i \in 0..Len(lock_queue), NEW j \in 0..Len(lock_queue), i < j,
                      \A k \in (i + 1)..(j - 1) : Line[k] \cap SwapTasks = {},
                      NEW t \in Line[i] \cap SwapTasks, NEW u \in Line[j] \cap SwapTasks
               PROVE  swap[t].target # swap[u].target
    BY DEF NoRedundantSwap
  <2>0. LineInv /\ NoTwice /\ Len(lock_queue) \in Nat /\ t \in Tasks /\ u \in Tasks
    BY TasksFacts DEF Inv, LineInv
  <2>1. \A k \in 1..Len(lock_queue) : Line[k] = {lock_queue[k]}
    BY DEF Line
  <2>2. Line[0] = {v \in Tasks : swap[v].phase \in Body}
    BY <2>0 DEF Line
  <2>3. j \in 1..Len(lock_queue) /\ u = lock_queue[j] /\ swap[u].phase = "queued"
    BY <2>0, <2>1 DEF LineInv
  <2>4. \/ i = 0 /\ swap[t].phase \in Body
        \/ i \in 1..Len(lock_queue) /\ t = lock_queue[i]
    BY <2>0, <2>1, <2>2
  <2>5. Before(t, u)
    BY <2>3, <2>4 DEF Before, Ahead
  <2>6. ASSUME NEW v \in SwapTasks, Before(t, v), Before(v, u)
        PROVE  FALSE
    <3>1. PICK k \in 1..Len(lock_queue) : lock_queue[k] = v /\ i < k
      <4>1. CASE i = 0
        <5>1. swap[v].phase = "queued"
          BY <2>0, <2>6, TasksFacts DEF Before, Ahead, LineInv
        <5> QED BY <2>0, <4>1, <5>1, TasksFacts DEF LineInv
      <4>2. CASE i # 0
        <5>1. i \in 1..Len(lock_queue) /\ t = lock_queue[i] /\ swap[t].phase = "queued"
          BY <2>0, <2>1, <4>2 DEF LineInv
        <5>2. PICK m, k \in 1..Len(lock_queue) : m < k /\ lock_queue[m] = t /\ lock_queue[k] = v
          BY <2>6, <5>1 DEF Before, Ahead, Body
        <5>3. m = i
          BY <2>0, <5>1, <5>2 DEF LineInv
        <5> QED BY <5>2, <5>3
      <4> QED BY <4>1, <4>2
    <3>2. k < j
      <4>1. swap[v].phase = "queued"
        BY <2>0, <3>1, TasksFacts DEF LineInv
      <4>2. PICK m, l \in 1..Len(lock_queue) : m < l /\ lock_queue[m] = v /\ lock_queue[l] = u
        BY <2>6, <4>1 DEF Before, Ahead, Body
      <4>3. m = k /\ l = j
        BY <2>0, <2>3, <3>1, <4>2 DEF LineInv
      <4> QED BY <4>2, <4>3
    <3>3. k \in (i + 1)..(j - 1)
      BY <3>1, <3>2
    <3>4. v \in Line[k]
      BY <2>1, <3>1
    <3> QED BY <3>3, <3>4
  <2> QED BY <2>0, <2>5, <2>6 DEF NoTwice
<1> QED BY <1>1, InvHolds, PTL

\* No swap of a request stops a model under a running exchange, unless that
\* began between two holders of the lock or the swap is a recovery.
THEOREM SwapsLeaveExchangesAlone == Spec => InferenceUndisturbed
<1>1. ASSUME Inv, [Next]_vars
      PROVE  UndisturbedStep \/ UNCHANGED vars
  <2> SUFFICES ASSUME NEW r \in Requests \ exposed, CutOff(r), Next
               PROVE  FALSE
    BY <1>1 DEF UndisturbedStep
  <2> USE <1>1
  <2>0. /\ LineInv /\ RequestInv /\ ProcInv /\ at \in [Requests -> Places] /\ want[r] \in Profiles
        /\ at[r] = "inference" /\ at'[r] = "broken" /\ proc[want[r]] = "up" /\ waits[r] = NoTask
    BY DEF Inv, CutOff, RequestInv, GroupInv, WaitOK, ProcInv
  <2>1. PICK t \in SwapTasks : ~swap[t].force /\ swap[t].phase \in {"stop", "start"}
                               /\ swap'[t].phase # swap[t].phase
    BY DEF CutOff
  <2>2. swap[t].target = want[r] /\ active # swap[t].target /\ t \in Tasks
    BY <2>0, <2>1, TasksFacts DEF RequestInv, WaitOK, Live, ProcInv
  <2>3. want[r] = active \/ \E u \in Tasks : swap[u].phase = "wait"
    BY <2>0 DEF ProcInv
  <2> QED BY <2>0, <2>1, <2>2, <2>3 DEF LineInv, Body
<1>2. Inv /\ [Next]_vars => [UndisturbedStep]_vars
  BY <1>1
<1> QED BY <1>2, InvHolds, PTL DEF Spec, InferenceUndisturbed
=============================================================================
