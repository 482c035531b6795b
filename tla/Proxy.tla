------------------------------- MODULE Proxy -------------------------------
(***************************************************************************)
(* The inference proxy (gateway/proxy.py): each exchange learns the id the *)
(* backend answers to, posts until the backend takes the request, and      *)
(* passes the answer on, whole or chunk by chunk.                          *)
(*                                                                         *)
(* One model is enough: its entry of _served_names is the only one its     *)
(* exchanges touch.  The backend registers the configured name ("alias")   *)
(* when the gateway starts it and the bare repository id ("bare") when the *)
(* cluster launcher does.  Restarts says who may restart it under the      *)
(* exchanges: "request" (a swap task, which calls forget_served_names when *)
(* it succeeds), "admin" (set_profile, which does not) and "keepalive"     *)
(* (the unit beside the gateway, which stops and relaunches the cluster by *)
(* itself).  Asking for the id is one step: its timeout of 5 s is shorter  *)
(* than any load.                                                          *)
(***************************************************************************)
EXTENDS Integers, Sequences, FiniteSets

CONSTANTS
    Exchanges,        \* exchanges at the same time; a slot is reused
    CONNECT_RETRIES,
    Chunks,           \* the number of chunks of an answer
    Restarts

ASSUME ProxyAssumption ==
    /\ CONNECT_RETRIES \in Nat \ {0} /\ Chunks \in Nat \ {0}
    /\ Restarts \subseteq {"request", "admin", "keepalive"}

VARIABLES
    served_name,   \* _served_names[model.name], or "none"
    backend,       \* "down", or the id it registers
    restart,       \* whose swap of the gateway is under way, or "none"
    x              \* the exchanges

vars == <<served_name, backend, restart, x>>

(* pc: "name" asks for the id, "post" is about to post, "reading" has been *)
(* taken by the backend, "done" is over with `outcome`.  `given` is what   *)
(* the client has got: the attempt and number of each chunk.  `taken` is   *)
(* history: how many attempts the backend took.                            *)
NoExchange == [pc |-> "idle", stream |-> FALSE, name |-> "alias", attempt |-> 0,
               given |-> <<>>, outcome |-> "none", taken |-> 0]

Init ==
    /\ served_name = "none"
    /\ backend \in {"down", "alias", "bare"}
    /\ restart = "none"
    /\ x = [e \in Exchanges |-> NoExchange]

\* e is over: the client has an answer, or an error event or body.
Over(e, outcome) == x' = [x EXCEPT ![e].pc = "done", ![e].outcome = outcome]

\* The loop goes on to its next attempt, or ends.
Retry(e) ==
    IF x[e].attempt < CONNECT_RETRIES
      THEN x' = [x EXCEPT ![e].pc = "post", ![e].attempt = @ + 1]
      ELSE Over(e, "error")

\* chat_completion: a cached id is used as it is.
Begin(e, stream) ==
    /\ x[e].pc = "idle"
    /\ x' = [x EXCEPT ![e] = [NoExchange EXCEPT
                !.pc = IF served_name = "none" THEN "name" ELSE "post",
                !.stream = stream,
                !.name = IF served_name = "none" THEN "alias" ELSE served_name,
                !.attempt = 1]]
    /\ UNCHANGED <<served_name, backend, restart>>

\* _served_model_name: only an id the backend gave is kept; without one the
\* configured name is used this once.
ServedModelName(e) ==
    /\ x[e].pc = "name"
    /\ \/ /\ backend # "down"
          /\ served_name' = backend
          /\ x' = [x EXCEPT ![e].pc = "post", ![e].name = backend]
       \/ /\ x' = [x EXCEPT ![e].pc = "post", ![e].name = "alias"]
          /\ UNCHANGED served_name
    /\ UNCHANGED <<backend, restart>>

\* The backend cannot be reached: it is down or the network fails.
Unreachable(e) ==
    /\ x[e].pc = "post"
    /\ Retry(e)
    /\ UNCHANGED <<served_name, backend, restart>>

\* It answers with a status other than 200: it does not know the name, or has
\* reasons of its own.  This is not retried.
Refused(e) ==
    /\ x[e].pc = "post"
    /\ backend # "down"
    /\ Over(e, "error")
    /\ UNCHANGED <<served_name, backend, restart>>

Taken(e) ==
    /\ x[e].pc = "post"
    /\ backend = x[e].name
    /\ x' = [x EXCEPT ![e].pc = "reading", ![e].taken = @ + 1]
    /\ UNCHANGED <<served_name, backend, restart>>

\* How many chunks of this attempt have been read.
Read(e) == Cardinality({i \in DOMAIN x[e].given : x[e].given[i].attempt = x[e].attempt})

\* A chunk of a stream is passed on.
Chunk(e) ==
    /\ x[e].pc = "reading" /\ x[e].stream
    /\ Read(e) < Chunks
    /\ x' = [x EXCEPT ![e].given = Append(@, [attempt |-> x[e].attempt, chunk |-> Read(e) + 1])]
    /\ UNCHANGED <<served_name, backend, restart>>

\* The answer is complete; without streaming it is handed over as a whole.
Complete(e) ==
    /\ x[e].pc = "reading"
    /\ x[e].stream => Read(e) = Chunks
    /\ Over(e, "answer")
    /\ UNCHANGED <<served_name, backend, restart>>

\* Deviation: a broken stream is retried whatever the client already has.
BreakReplays(e) ==
    /\ x[e].pc = "reading"
    /\ Retry(e)
    /\ UNCHANGED <<served_name, backend, restart>>

\* The exchange breaks after it was taken: the process dies, the connection is
\* lost, or its 300 s are over.  After the first chunk the client is told.
Break(e) ==
    /\ x[e].pc = "reading"
    /\ IF x[e].given # <<>> THEN Over(e, "error") ELSE Retry(e)
    /\ UNCHANGED <<served_name, backend, restart>>

\* The caller has the outcome, or went away while the exchange was running.
Close(e) ==
    /\ x[e].pc # "idle"
    /\ x' = [x EXCEPT ![e] = NoExchange]
    /\ UNCHANGED <<served_name, backend, restart>>

-----------------------------------------------------------------------------
(* The backend *)

Swappers == Restarts \ {"keepalive"}

\* A swap stops the serve process.
Restart(who) ==
    /\ restart = "none"
    /\ restart' = who
    /\ backend' = "down"
    /\ UNCHANGED <<served_name, x>>

\* The process the gateway started answers, during the swap or later.
ComesUp ==
    /\ backend = "down"
    /\ backend' = "alias"
    /\ UNCHANGED <<served_name, restart, x>>

\* The swap is over: the backend answers, the wait for it has timed out, or the
\* swap has failed.  A swap task that was successful calls forget_served_names.
SwapEnds ==
    /\ restart # "none"
    /\ restart' = "none"
    /\ \/ restart = "request" /\ served_name' = "none"
       \/ UNCHANGED served_name
    /\ UNCHANGED <<backend, x>>

\* ensure_vllm_cluster.sh takes a cluster for incomplete and stops it, whatever
\* the gateway does ...
KeepAliveStops ==
    /\ "keepalive" \in Restarts
    /\ backend # "down"
    /\ backend' = "down"
    /\ UNCHANGED <<served_name, restart, x>>

\* ... and the recipe it launches, which does not pass a name, answers.
LauncherComesUp ==
    /\ "keepalive" \in Restarts
    /\ backend = "down"
    /\ backend' = "bare"
    /\ UNCHANGED <<served_name, restart, x>>

-----------------------------------------------------------------------------

Attempt(e) ==
    \/ ServedModelName(e) \/ Unreachable(e) \/ Refused(e) \/ Taken(e)
    \/ Chunk(e) \/ Complete(e) \/ Break(e)

Next ==
    \/ \E e \in Exchanges : Attempt(e) \/ Close(e) \/ \E s \in BOOLEAN : Begin(e, s)
    \/ \E who \in Swappers : Restart(who)
    \/ ComesUp \/ SwapEnds \/ KeepAliveStops \/ LauncherComesUp

Spec == Init /\ [][Next]_vars

\* Every attempt comes to an end: connecting has 10 s, an exchange 300 s.
Fairness == \A e \in Exchanges : WF_vars(Attempt(e))

FairSpec == Spec /\ Fairness

-----------------------------------------------------------------------------
(* Properties *)

TypeOK ==
    /\ served_name \in {"none", "alias", "bare"}
    /\ backend \in {"down", "alias", "bare"}
    /\ restart \in Swappers \cup {"none"}
    /\ x \in [Exchanges ->
               [pc : {"idle", "name", "post", "reading", "done"}, stream : BOOLEAN,
                name : {"alias", "bare"}, attempt : 0..CONNECT_RETRIES,
                given : Seq([attempt : 1..CONNECT_RETRIES, chunk : 1..Chunks]),
                outcome : {"none", "answer", "error"}, taken : 0..CONNECT_RETRIES]]

\* "re-POSTing after that would replay the completion from the start": what a
\* client has been given is the beginning of one answer, chunk after chunk, and
\* the whole of it unless it was told of an error, however often the backend
\* failed before.
NoReplay ==
    \A e \in Exchanges :
        LET given == x[e].given IN
        /\ \A i \in 1..Len(given) : given[i] = [attempt |-> given[1].attempt, chunk |-> i]
        /\ x[e].stream /\ x[e].outcome = "answer" => Len(given) = Chunks

\* "Call after a swap: the restarted process may register a different id": when
\* no swap is under way, a cached id is one the running backend answers to.  It
\* is not, after an administrator's swap, a swap that failed once the backend was
\* started, or a relaunch by the keep-alive unit.
CacheIsTrue ==
    restart = "none" /\ backend # "down" /\ served_name # "none" => served_name = backend

\* "Retries on transient connection errors (model still loading)": no request
\* that the backend has taken is posted again.
PostedOnce == \A e \in Exchanges : x[e].taken <= 1

\* Every exchange comes to an outcome, whatever the backend does and whoever
\* restarts it, if the client stays.
ExchangeEnds ==
    \A e \in Exchanges : x[e].pc \in {"name", "post", "reading"} ~> x[e].pc \in {"idle", "done"}
=============================================================================
