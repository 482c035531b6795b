---------------------------- MODULE RequestBuffer ----------------------------
(***************************************************************************)
(* Requests held back during a swap (RequestBuffer in                      *)
(* gateway/request_buffer.py, _handle_during_swap and                      *)
(* _drain_buffered_requests in gateway/app.py).  Every successful swap     *)
(* starts a task that drains the buffer and answers what it took one by    *)
(* one; nothing keeps two of these tasks from running at the same time.    *)
(*                                                                         *)
(* In the repository's present state no endpoint calls                     *)
(* _handle_during_swap: requests wait for the swap task instead.  The      *)
(* module is the contract of the class and of its two users.               *)
(***************************************************************************)
EXTENDS Integers, Sequences, FiniteSets, SequencesExt

CONSTANTS Requests, Drains, MAX_QUEUE_SIZE

BufferAssumption == MAX_QUEUE_SIZE \in Nat \ {0}

VARIABLES
    queue,      \* _queue, oldest first
    future,     \* the future of each request
    expired,    \* requests whose timeout has passed
    batch,      \* what each drain task still has to answer, oldest first
    busy        \* drain tasks that have dispatched the head of their batch

vars == <<queue, future, expired, batch, busy>>

Init ==
    /\ queue = <<>>
    /\ future = [r \in Requests |-> "none"]
    /\ expired = {}
    /\ batch = [d \in Drains |-> <<>>]
    /\ busy = {}

Held(r) == Contains(queue, r) \/ \E d \in Drains : Contains(batch[d], r)

\* enqueue, or BufferOverflowError as the future's outcome.
Enqueue(r) ==
    /\ future[r] = "none" /\ ~Held(r)
    /\ IF Len(queue) < MAX_QUEUE_SIZE
         THEN /\ queue' = Append(queue, r)
              /\ future' = [future EXCEPT ![r] = "pending"]
         ELSE future' = [future EXCEPT ![r] = "failed"] /\ UNCHANGED queue
    /\ UNCHANGED <<expired, batch, busy>>

\* The request's LONG_POLLING_TIMEOUT_S pass; its handler may still be waiting.
Expire(r) ==
    /\ future[r] = "pending" /\ r \notin expired
    /\ expired' = expired \cup {r}
    /\ UNCHANGED <<queue, future, batch, busy>>

\* The handler's own wait times out or its client goes: the future is cancelled,
\* the entry stays where it is.
GiveUp(r) ==
    /\ future[r] = "pending"
    /\ future' = [future EXCEPT ![r] = "failed"]
    /\ UNCHANGED <<queue, expired, batch, busy>>

\* The handler has seen the outcome.
Collect(r) ==
    /\ future[r] \in {"answered", "failed"}
    /\ future' = [future EXCEPT ![r] = "none"]
    /\ expired' = expired \ {r}
    /\ UNCHANGED <<queue, batch, busy>>

\* The requests in R get an exception, if they still wait.
Failed(R) == [r \in Requests |-> IF r \in R /\ future[r] = "pending" THEN "failed" ELSE future[r]]

\* What s holds outside R, in its order.
Without(s, R) ==
    LET kept == {i \in DOMAIN s : s[i] \notin R}
        At(n) == CHOOSE i \in kept : Cardinality({j \in kept : j <= i}) = n
    IN [n \in 1..Cardinality(kept) |-> s[At(n)]]

\* Deviation: expired requests are dropped and their futures left as they are.
DrainAllSilent(d) ==
    /\ batch[d] = <<>>
    /\ queue # <<>>
    /\ batch' = [batch EXCEPT ![d] = Without(queue, expired)]
    /\ queue' = <<>>
    /\ UNCHANGED <<future, expired, busy>>

\* A swap succeeded: drain_all takes everything, expired requests are told.
DrainAll(d) ==
    /\ batch[d] = <<>>
    /\ queue # <<>>
    /\ batch' = [batch EXCEPT ![d] = Without(queue, expired)]
    /\ future' = Failed(expired \cap ToSet(queue))
    /\ queue' = <<>>
    /\ UNCHANGED <<expired, busy>>

\* A swap failed.
RejectAll ==
    /\ queue # <<>>
    /\ future' = Failed(ToSet(queue))
    /\ queue' = <<>>
    /\ UNCHANGED <<expired, batch, busy>>

\* The next request of a drain goes to its backend, wanted or not.
Dispatch(d) ==
    /\ batch[d] # <<>> /\ d \notin busy
    /\ busy' = busy \cup {d}
    /\ UNCHANGED <<queue, future, expired, batch>>

\* resolve with the backend's result, or set_exception; then the next one.
Answer(d) ==
    /\ d \in busy
    /\ busy' = busy \ {d}
    /\ \E outcome \in {"answered", "failed"} :
         future' = [r \in Requests |->
              IF r = Head(batch[d]) /\ future[r] = "pending" THEN outcome ELSE future[r]]
    /\ batch' = [batch EXCEPT ![d] = Tail(@)]
    /\ UNCHANGED <<queue, expired>>

Next ==
    \/ \E r \in Requests : Enqueue(r) \/ Expire(r) \/ GiveUp(r) \/ Collect(r)
    \/ \E d \in Drains : DrainAll(d) \/ Dispatch(d) \/ Answer(d)
    \/ RejectAll

Spec == Init /\ [][Next]_vars

-----------------------------------------------------------------------------
(* Properties *)

TypeOK ==
    /\ queue \in Seq(Requests) /\ Len(queue) <= MAX_QUEUE_SIZE
    /\ future \in [Requests -> {"none", "pending", "answered", "failed"}]
    /\ expired \in SUBSET Requests
    /\ batch \in [Drains -> Seq(Requests)]
    /\ busy \in SUBSET Drains

\* Whoever still waits is in the buffer or in exactly one drain, once: no
\* expiry, failed swap, error of a neighbour or second drain loses a request or
\* has it answered twice.
NobodyForgotten ==
    \A r \in Requests : future[r] = "pending" =>
        /\ Held(r)
        /\ \A d \in Drains : ~(Contains(queue, r) /\ Contains(batch[d], r))
        /\ \A d, e \in Drains : Contains(batch[d], r) /\ Contains(batch[e], r) => d = e
        /\ IsInjective(queue) /\ \A d \in Drains : IsInjective(batch[d])
=============================================================================
