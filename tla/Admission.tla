------------------------------ MODULE Admission ------------------------------
(***************************************************************************)
(* FIFO admission of inference requests (gateway/admission.py) together    *)
(* with the request handler that uses it (chat_completions in              *)
(* gateway/app.py).                                                        *)
(*                                                                         *)
(* Everything runs on one asyncio loop, so an action is what one task does *)
(* between two awaits.  A request has two tasks that matter here: `work`   *)
(* (admitted() under until_disconnect), which queues for a slot and does   *)
(* the inference, and the handler, which waits for work or for the client  *)
(* to go away and gives the slot back.  A timer and the client interrupt   *)
(* work at any await: interrupting a task that is suspended on a pending   *)
(* future cancels that future at once, although the task itself only runs  *)
(* later; interrupting one whose future already has its result only leaves *)
(* a mark (must_cancel) that turns into an exception when the task runs.   *)
(***************************************************************************)
EXTENDS Integers, Sequences, FiniteSets

CONSTANTS
    Requests,     \* request slots; a slot is reused when its handler returns
    Profiles,     \* the profiles a request may ask for
    NoProfile,    \* None
    limit,        \* MAX_CONCURRENT_INFERENCES
    max_waiting   \* MAX_QUEUED_INFERENCES

ASSUME LimitsAssumption == limit \in Nat \ {0} /\ max_waiting \in Nat
ASSUME RequestsAssumption == IsFiniteSet(Requests)
ASSUME NoProfileAssumption == NoProfile \notin Profiles

VARIABLES
    active,       \* AdmissionQueue.active
    profile,      \* AdmissionQueue.profile
    waiting,      \* AdmissionQueue._waiting: the requests, oldest first
    want,         \* the profile each request was routed to
    future,       \* the future of a queued request
    must_cancel,  \* tasks marked for cancellation after their future was done
    task,         \* where each request is
    leases,       \* requests whose code owns an unreleased Lease
    backend       \* requests with an open HTTP exchange with the backend

queue == <<active, profile, waiting>>
vars == <<queue, want, future, must_cancel, task, leases, backend>>

(* "queued"    suspended in wait_for(future) inside acquire                *)
(* "admitted"  has its slot, inside _chat_completions                      *)
(* "aborting"  cancelled there, exception not delivered yet                *)
(* "finished"  work ended, the handler has not run its finally block yet   *)
(* "handover"  work returned a streaming response, not yet given the lease *)
(* "streaming" the response body is being sent                             *)
(* "closing"   sending stopped, the body iterator is being closed          *)
TaskStates == {"idle", "queued", "admitted", "aborting", "finished",
               "handover", "streaming", "closing"}
FutureStates == {"none", "pending", "granted", "cancelled"}

Init ==
    /\ active = 0
    /\ profile = NoProfile
    /\ waiting = <<>>
    /\ want = [r \in Requests |-> NoProfile]
    /\ future = [r \in Requests |-> "none"]
    /\ must_cancel = {}
    /\ task = [r \in Requests |-> "idle"]
    /\ leases = {}
    /\ backend = {}

-----------------------------------------------------------------------------
(* Promotion *)

\* The requests whose entry is among the first k of w and still wants a slot.
Live(k, w, f) == {r \in Requests : f[r] = "pending" /\ \E i \in 1..k : w[i] = r}

\* Deviation: a done future at the head stops the loop instead of being popped.
PromoteStopsAtDone(k, a, p, w, f) ==
    LET taken == Live(k, w, f) IN
    /\ k > 0 => a + Cardinality(Live(k - 1, w, f)) < limit
    /\ \A i \in 1..k : f[w[i]] = "pending"
    /\ \A r \in taken : a > 0 => want[r] = p
    /\ \A r, s \in taken : want[r] = want[s]
    /\ k < Len(w) /\ a + Cardinality(taken) < limit /\ f[w[k + 1]] = "pending" =>
             \/ a > 0 /\ want[w[k + 1]] # p
             \/ \E r \in taken : want[r] # want[w[k + 1]]

\* Deviation: the loop does not compare the batch's profile with the entry's.
PromoteStopsAnyProfile(k, a, p, w, f) ==
    LET taken == Live(k, w, f) IN
    /\ k > 0 => a + Cardinality(Live(k - 1, w, f)) < limit
    /\ \A r, s \in taken : want[r] = want[s]
    /\ k < Len(w) /\ a + Cardinality(taken) < limit =>
         /\ f[w[k + 1]] = "pending"
         /\ \E r \in taken : want[r] # want[w[k + 1]]

\* The while loop of _promote leaves after popping exactly k entries of w.
PromoteStops(k, a, p, w, f) ==
    LET taken == Live(k, w, f) IN
    /\ k > 0 => a + Cardinality(Live(k - 1, w, f)) < limit
    /\ \A r \in taken : a > 0 => want[r] = p
    /\ \A r, s \in taken : want[r] = want[s]
    /\ k < Len(w) /\ a + Cardinality(taken) < limit =>
         /\ f[w[k + 1]] = "pending"
         /\ \/ a > 0 /\ want[w[k + 1]] # p
            \/ \E r \in taken : want[r] # want[w[k + 1]]

\* _promote run from active = a, profile = p, _waiting = w and futures f.
Promote(a, p, w, f) ==
    \E k \in 0..Len(w) :
        LET taken == Live(k, w, f) IN
        /\ PromoteStops(k, a, p, w, f)
        /\ active' = a + Cardinality(taken)
        /\ profile' \in IF taken = {} THEN {p} ELSE {want[r] : r \in taken}
        /\ waiting' = SubSeq(w, k + 1, Len(w))
        /\ future' = [r \in Requests |-> IF r \in taken THEN "granted" ELSE f[r]]

\* The loop as the code runs it, one entry of w after the other: the reference
\* for Promote.  An entry it breaks off at stays, and so do those behind it.
PromoteLoop(a, p, w, f) ==
    LET loop[j \in 0..Len(w)] ==
          IF j = 0 THEN [popped |-> 0, active |-> a, profile |-> p, granted |-> {}]
          ELSE LET l == loop[j - 1]
                   r == w[j]
               IN  IF l.popped < j - 1 \/ l.active >= limit THEN l
                   ELSE IF f[r] # "pending" THEN [l EXCEPT !.popped = j]
                   ELSE IF l.active > 0 /\ l.profile # want[r] THEN l
                   ELSE [popped |-> j, active |-> l.active + 1, profile |-> want[r],
                         granted |-> l.granted \cup {r}]
    IN  loop

\* Lease.release of a lease not yet released.
Release(f) ==
    Promote(active - 1, IF active = 1 THEN NoProfile ELSE profile, waiting, f)

-----------------------------------------------------------------------------
(* acquire *)

\* Deviation: a free slot is taken past the requests already waiting.
CanGrantPastQueue(p) ==
    /\ active < limit
    /\ active = 0 \/ profile = p

\* Deviation: the active batch's profile is not looked at.
CanGrantAnyProfile(p) == waiting = <<>> /\ active < limit

\* Deviation: one slot too many.
CanGrantOneMore(p) ==
    /\ waiting = <<>>
    /\ active <= limit
    /\ active = 0 \/ profile = p

\* The fast path of acquire.
CanGrantNow(p) ==
    /\ waiting = <<>>
    /\ active < limit
    /\ active = 0 \/ profile = p

\* acquire returns at once.
AcquireNow(r, p) ==
    /\ task[r] = "idle"
    /\ CanGrantNow(p)
    /\ active' = active + 1
    /\ profile' = p
    /\ want' = [want EXCEPT ![r] = p]
    /\ task' = [task EXCEPT ![r] = "admitted"]
    /\ leases' = leases \cup {r}
    /\ UNCHANGED <<waiting, future, must_cancel, backend>>

\* acquire raises QueueFull; admitted() turns it into a 503.
AcquireFull(r, p) ==
    /\ task[r] = "idle"
    /\ ~CanGrantNow(p)
    /\ Len(waiting) >= max_waiting
    /\ want' = [want EXCEPT ![r] = p]
    /\ task' = [task EXCEPT ![r] = "finished"]
    /\ UNCHANGED <<queue, future, must_cancel, leases, backend>>

\* acquire appends its entry and suspends.
AcquireWait(r, p) ==
    /\ task[r] = "idle"
    /\ ~CanGrantNow(p)
    /\ Len(waiting) < max_waiting
    /\ waiting' = Append(waiting, r)
    /\ want' = [want EXCEPT ![r] = p]
    /\ future' = [future EXCEPT ![r] = "pending"]
    /\ task' = [task EXCEPT ![r] = "queued"]
    /\ UNCHANGED <<active, profile, must_cancel, leases, backend>>

\* Task.cancel on work suspended in acquire.
CancelQueued(r) ==
    /\ task[r] = "queued"
    /\ IF future[r] = "pending"
         THEN /\ future' = [future EXCEPT ![r] = "cancelled"]
              /\ UNCHANGED must_cancel
         ELSE /\ must_cancel' = must_cancel \cup {r}
              /\ UNCHANGED future
    /\ UNCHANGED <<queue, want, task, leases, backend>>

\* The timer of wait_for expires.
QueueTimeout(r) == CancelQueued(r)

\* acquire returns the lease it was granted.
ResumeGranted(r) ==
    /\ task[r] = "queued"
    /\ future[r] = "granted"
    /\ r \notin must_cancel
    /\ future' = [future EXCEPT ![r] = "none"]
    /\ task' = [task EXCEPT ![r] = "admitted"]
    /\ leases' = leases \cup {r}
    /\ UNCHANGED <<queue, want, must_cancel, backend>>

\* Deviation: the interrupted acquire forgets that it was granted a slot.
ResumeForgets(r) ==
    /\ task[r] = "queued"
    /\ future[r] = "granted"
    /\ r \in must_cancel
    /\ future' = [future EXCEPT ![r] = "none"]
    /\ must_cancel' = must_cancel \ {r}
    /\ task' = [task EXCEPT ![r] = "finished"]
    /\ UNCHANGED <<queue, want, leases, backend>>

\* acquire is interrupted after its grant: the slot goes back.  The second
\* _promote of this path finds nothing left to do.
ResumeReturn(r) ==
    /\ task[r] = "queued"
    /\ future[r] = "granted"
    /\ r \in must_cancel
    /\ Release([future EXCEPT ![r] = "none"])
    /\ must_cancel' = must_cancel \ {r}
    /\ task' = [task EXCEPT ![r] = "finished"]
    /\ UNCHANGED <<want, leases, backend>>

\* w without its i-th entry.
RemoveEntry(w, i) ==
    [j \in 1..(Len(w) - 1) |-> IF j < i THEN w[j] ELSE w[j + 1]]

\* Deviation: the interrupted acquire leaves the queue without promoting.
ResumeWithoutPromote(r) ==
    /\ task[r] = "queued"
    /\ future[r] = "cancelled"
    /\ \/ /\ \A i \in 1..Len(waiting) : waiting[i] # r
          /\ UNCHANGED waiting
       \/ \E i \in 1..Len(waiting) :
            waiting[i] = r /\ waiting' = RemoveEntry(waiting, i)
    /\ future' = [future EXCEPT ![r] = "none"]
    /\ must_cancel' = must_cancel \ {r}
    /\ task' = [task EXCEPT ![r] = "finished"]
    /\ UNCHANGED <<active, profile, want, leases, backend>>

\* Deviation: the interrupted acquire leaves its entry in the queue.
ResumeKeepsEntry(r) ==
    /\ task[r] = "queued"
    /\ future[r] = "cancelled"
    /\ Promote(active, profile, waiting, [future EXCEPT ![r] = "none"])
    /\ must_cancel' = must_cancel \ {r}
    /\ task' = [task EXCEPT ![r] = "finished"]
    /\ UNCHANGED <<want, leases, backend>>

\* acquire is interrupted before any grant: the entry leaves the queue, unless
\* a _promote popped it first, and the ones behind it get their chance.
ResumeCancelled(r) ==
    /\ task[r] = "queued"
    /\ future[r] = "cancelled"
    /\ LET f == [future EXCEPT ![r] = "none"] IN
       \/ /\ \A i \in 1..Len(waiting) : waiting[i] # r
          /\ Promote(active, profile, waiting, f)
       \/ \E i \in 1..Len(waiting) :
            /\ waiting[i] = r
            /\ Promote(active, profile, RemoveEntry(waiting, i), f)
    /\ must_cancel' = must_cancel \ {r}
    /\ task' = [task EXCEPT ![r] = "finished"]
    /\ UNCHANGED <<want, leases, backend>>

-----------------------------------------------------------------------------
(* The request after its admission *)

\* The backend exchange of a request that does not stream begins.
Dispatch(r) ==
    /\ task[r] = "admitted"
    /\ r \notin backend
    /\ backend' = backend \cup {r}
    /\ UNCHANGED <<queue, want, future, must_cancel, task, leases>>

\* _chat_completions returns a plain response or raises: swap failed or timed
\* out, backend error or backend answer.
WorkEnds(r) ==
    /\ task[r] = "admitted"
    /\ task' = [task EXCEPT ![r] = "finished"]
    /\ backend' = backend \ {r}
    /\ UNCHANGED <<queue, want, future, must_cancel, leases>>

\* _chat_completions returns an AdmittedStreamingResponse.  The proxy's
\* generator has not run yet: no exchange is open.
ReturnStream(r) ==
    /\ task[r] = "admitted"
    /\ r \notin backend
    /\ task' = [task EXCEPT ![r] = "handover"]
    /\ UNCHANGED <<queue, want, future, must_cancel, leases, backend>>

\* until_disconnect sees the client go and cancels work.  When work is already
\* done its result wins and nothing is cancelled.
Disconnect(r) ==
    \/ CancelQueued(r)
    \/ /\ task[r] = "admitted"
       /\ task' = [task EXCEPT ![r] = "aborting"]
       /\ UNCHANGED <<queue, want, future, must_cancel, leases, backend>>

\* The cancellation reaches work inside _chat_completions and closes whatever
\* exchange it had open on the way out.
Unwind(r) ==
    /\ task[r] = "aborting"
    /\ task' = [task EXCEPT ![r] = "finished"]
    /\ backend' = backend \ {r}
    /\ UNCHANGED <<queue, want, future, must_cancel, leases>>

\* Deviation: the handler's finally block does not release the lease.
HandlerEndsHolding(r) ==
    /\ task[r] = "finished"
    /\ task' = [task EXCEPT ![r] = "idle"]
    /\ want' = [want EXCEPT ![r] = NoProfile]
    /\ UNCHANGED <<queue, future, must_cancel, leases, backend>>

\* The handler is left without handing the lease on: its finally releases it.
HandlerEnds(r) ==
    /\ task[r] = "finished"
    /\ IF r \in leases THEN Release(future) ELSE UNCHANGED <<queue, future>>
    /\ leases' = leases \ {r}
    /\ task' = [task EXCEPT ![r] = "idle"]
    /\ want' = [want EXCEPT ![r] = NoProfile]
    /\ UNCHANGED <<must_cancel, backend>>

\* The handler gives the lease to the streaming response and returns it.
Transfer(r) ==
    /\ task[r] = "handover"
    /\ task' = [task EXCEPT ![r] = "streaming"]
    /\ UNCHANGED <<queue, want, future, must_cancel, leases, backend>>

\* The first chunk is asked for: the generator posts to the backend.
OpenStream(r) ==
    /\ task[r] = "streaming"
    /\ r \notin backend
    /\ backend' = backend \cup {r}
    /\ UNCHANGED <<queue, want, future, must_cancel, task, leases>>

\* StreamingResponse.__call__ is left: the body ended and closed its exchange,
\* or sending broke off with the exchange still open.
StreamStops(r) ==
    /\ task[r] = "streaming"
    /\ task' = [task EXCEPT ![r] = "closing"]
    /\ backend' \in {backend, backend \ {r}}
    /\ UNCHANGED <<queue, want, future, must_cancel, leases>>

\* Deviation: the lease is released without closing the body iterator.
StreamReleasesUnclosed(r) ==
    /\ task[r] = "closing"
    /\ Release(future)
    /\ leases' = leases \ {r}
    /\ task' = [task EXCEPT ![r] = "idle"]
    /\ want' = [want EXCEPT ![r] = NoProfile]
    /\ UNCHANGED <<must_cancel, backend>>

\* The body iterator has been closed, and with it the exchange; release.
StreamCloses(r) ==
    /\ task[r] = "closing"
    /\ backend' = backend \ {r}
    /\ Release(future)
    /\ leases' = leases \ {r}
    /\ task' = [task EXCEPT ![r] = "idle"]
    /\ want' = [want EXCEPT ![r] = NoProfile]
    /\ UNCHANGED must_cancel

-----------------------------------------------------------------------------

\* What the event loop and the backend's own timeouts always get to.
Progress(r) ==
    \/ ResumeGranted(r) \/ ResumeReturn(r) \/ ResumeCancelled(r)
    \/ WorkEnds(r) \/ Unwind(r) \/ HandlerEnds(r)
    \/ Transfer(r) \/ StreamStops(r) \/ StreamCloses(r)

\* What clients, timers and the choice of a reply mode may do.
Environment(r) ==
    \/ \E p \in Profiles : AcquireNow(r, p) \/ AcquireFull(r, p) \/ AcquireWait(r, p)
    \/ QueueTimeout(r) \/ Disconnect(r)
    \/ Dispatch(r) \/ ReturnStream(r) \/ OpenStream(r)

Next == \E r \in Requests : Progress(r) \/ Environment(r)

Spec == Init /\ [][Next]_vars

\* A scheduled task runs; an inference, a swap wait and a stream end by their
\* timeouts (proxy total=300, LONG_POLLING_TIMEOUT_S).  Timers of the queue and
\* disconnections are not assumed to happen.
Fairness == \A r \in Requests : WF_vars(Progress(r))

FairSpec == Spec /\ Fairness

-----------------------------------------------------------------------------
(* Properties *)

\* A slot is taken from its grant on, before the waiting task runs again.
Holders == leases \cup {r \in Requests : future[r] = "granted"}

Entries == {waiting[i] : i \in 1..Len(waiting)}

TypeOK ==
    /\ active \in 0..limit
    /\ profile \in Profiles \cup {NoProfile}
    /\ waiting \in Seq(Requests)
    /\ want \in [Requests -> Profiles \cup {NoProfile}]
    /\ future \in [Requests -> FutureStates]
    /\ must_cancel \in SUBSET Requests
    /\ task \in [Requests -> TaskStates]
    /\ leases \in SUBSET Requests
    /\ backend \in SUBSET Requests

\* The counter is exactly the number of unreleased leases: no interruption,
\* error or stream leaks a slot or gives one back twice, and no more than
\* limit are out.
SlotAccounting == active = Cardinality(Holders) /\ active <= limit

\* "Different profiles drain the current batch before being admitted": whoever
\* holds a slot wants the queue's profile, which is None only when nobody does.
OneProfileAtATime ==
    /\ active = 0 <=> profile = NoProfile
    /\ \A r \in Holders : want[r] = profile

\* A slot is given back only after its backend exchange was closed, so the
\* backend never sees more than limit exchanges or two profiles at once.
SlotCoversBackend == backend \subseteq leases

\* No lost wakeup: when somebody waits, all slots are taken, or the oldest
\* entry needs another profile to drain, or the oldest entry is a cancelled
\* one whose task is still to run (and to promote).
NoLostWakeup ==
    waiting # <<>> =>
        \/ active = limit
        \/ future[Head(waiting)] = "cancelled"
        \/ active > 0 /\ want[Head(waiting)] # profile

\* Queue entries are distinct suspended requests, cancelled ones included, and
\* their number respects max_waiting; a request still to be granted is there.
QueueEntries ==
    /\ Len(waiting) <= max_waiting
    /\ \A i, j \in 1..Len(waiting) : waiting[i] = waiting[j] => i = j
    /\ \A r \in Entries : future[r] \in {"pending", "cancelled"}
    /\ \A r \in Requests : future[r] = "pending" => r \in Entries

\* Whatever number of leases were just released, what Promote says of _promote
\* has exactly one outcome, and it is the one the loop comes to.
PromoteIsTheLoop ==
    \A a \in 0..active :
        LET p == IF a = 0 THEN NoProfile ELSE profile
            end == PromoteLoop(a, p, waiting, future)[Len(waiting)]
        IN  /\ {k \in 0..Len(waiting) : PromoteStops(k, a, p, waiting, future)} = {end.popped}
            /\ end.granted = Live(end.popped, waiting, future)
            /\ end.active = a + Cardinality(end.granted)
            /\ {end.profile} = IF end.granted = {} THEN {p} ELSE {want[r] : r \in end.granted}

\* "Strict FIFO": a slot never goes to a request while one that queued before
\* it is still waiting for its own.
Ahead(r, s) ==
    \E i \in 1..Len(waiting) :
        waiting[i] = r /\ \A j \in 1..Len(waiting) : waiting[j] = s => i < j

FIFOStep ==
    \A s \in Requests : s \in Holders' \ Holders =>
        \A r \in Requests : Ahead(r, s) => future'[r] # "pending"

StrictFIFO == [][FIFOStep]_vars

\* The batch changes profile only when everybody of the old batch has left.
BatchStep ==
    profile' # profile => Holders \cap Holders' = {}

DrainBeforeSwitch == [][BatchStep]_vars

\* A queued request is not starved by other profiles, by new arrivals or by
\* cancelled neighbours, and does not depend on its timer to get away.
NoStarvation ==
    \A r \in Requests : task[r] = "queued" ~> task[r] # "queued"

\* A slot is always given back.
SlotReturned ==
    \A r \in Requests : r \in leases ~> r \notin leases

\* Who still waits for a grant: cancelled entries do not.
Pending == {r \in Requests : future[r] = "pending"}

\* The queue without its futures, cancelled entries and tasks is a group lock.
Lock == INSTANCE GroupLock WITH
    Clients <- Requests, Kinds <- Profiles, NoKind <- NoProfile, capacity <- limit,
    holders <- Holders,
    waiters <- Pending,
    before <- {b \in Pending \X Pending : b[1] # b[2] /\ Ahead(b[1], b[2])},
    kind <- [r \in Requests |->
               IF r \in Holders \cup Pending THEN want[r] ELSE NoProfile]

\* The admission queue with everything that can interrupt its clients implements
\* the group lock: no timeout, disconnect, error or stream makes a grant that
\* the plain lock would not make.
ImplementsGroupLock == Lock!Spec
=============================================================================
