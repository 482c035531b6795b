----------------------------- MODULE GroupLock -----------------------------
(***************************************************************************)
(* What the admission queue promises, without its futures, tasks, leases   *)
(* and cancelled entries: a lock that up to `capacity` clients of one kind *)
(* hold together and that is given in order of arrival.  A step lets at    *)
(* most one holder go and may let any number of waiting clients in, as one *)
(* release of a lease promotes several.                                    *)
(***************************************************************************)
EXTENDS Integers, FiniteSets

CONSTANTS Clients, Kinds, NoKind, capacity

VARIABLES
    holders,   \* who is inside
    waiters,   \* who waits
    before,    \* <<c, d>>: both wait and c came first
    kind       \* what each of them is; NoKind for everyone else

vars == <<holders, waiters, before, kind>>

Outside == Clients \ (holders \cup waiters)

Init ==
    /\ holders = {}
    /\ waiters = {}
    /\ before = {}
    /\ kind = [c \in Clients |-> NoKind]

Arrive(c, k) ==
    /\ c \in Outside
    /\ waiters' = waiters \cup {c}
    /\ before' = before \cup (waiters \X {c})
    /\ kind' = [kind EXCEPT ![c] = k]
    /\ UNCHANGED holders

\* A client that finds nobody waiting may go straight in.
Enter(c, k) ==
    /\ c \in Outside
    /\ waiters = {}
    /\ Cardinality(holders) < capacity
    /\ \A d \in holders : kind[d] = k
    /\ holders' = holders \cup {c}
    /\ kind' = [kind EXCEPT ![c] = k]
    /\ UNCHANGED <<waiters, before>>

GiveUp(c) ==
    /\ c \in waiters
    /\ waiters' = waiters \ {c}
    /\ before' = {b \in before : c \notin {b[1], b[2]}}
    /\ kind' = [kind EXCEPT ![c] = NoKind]
    /\ UNCHANGED holders

\* `gone` leave and `next` come in: first come first in, all of one kind.
Pass(gone, next) ==
    /\ gone \subseteq holders /\ Cardinality(gone) <= 1
    /\ \A b \in before : b[2] \in next => b[1] \in next
    /\ holders' = (holders \ gone) \cup next
    /\ Cardinality(holders') <= capacity
    /\ \A c, d \in holders' : kind[c] = kind[d]
    /\ waiters' = waiters \ next
    /\ before' = {b \in before : b[1] \notin next /\ b[2] \notin next}
    /\ kind' = [c \in Clients |-> IF c \in gone THEN NoKind ELSE kind[c]]

Next ==
    \/ \E c \in Clients, k \in Kinds : Arrive(c, k) \/ Enter(c, k)
    \/ \E c \in Clients : GiveUp(c)
    \/ \E gone \in SUBSET holders, next \in SUBSET waiters : Pass(gone, next)

Spec == Init /\ [][Next]_vars
=============================================================================
