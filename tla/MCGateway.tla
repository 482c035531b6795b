----------------------------- MODULE MCGateway -----------------------------
(***************************************************************************)
(* Gateway within two bounds, chosen at the start: a few requests with an  *)
(* administrator, Ray and models that come late, or a crowd of requests    *)
(* and swap tasks that fail.                                               *)
(***************************************************************************)
EXTENDS Gateway, TLC

CONSTANTS r1, r2, r3, s1, s2, s3

VARIABLE crowd

MCvars == <<vars, crowd>>

MCInit == Init /\ crowd \in BOOLEAN

\* In a crowd: no administrator, Ray in order, every model loads in time.
Crowded ==
    /\ \A a \in Admins : swap'[a] = NoCall
    /\ ray_up'
    /\ \A t \in Tasks : swap[t].phase = "wait" /\ swap'[t].phase = "idle" =>
           proc[swap[t].target] = "up"

\* Without one r3 and s3 stay away, and no start fails.
Few ==
    /\ at'[r3] = "out" /\ swap'[s3] = NoCall
    /\ \A t \in Tasks : swap[t].phase = "start" => swap'[t].phase # "idle"

MCNext ==
    /\ Next
    /\ IF crowd THEN Crowded ELSE Few
    /\ UNCHANGED crowd

MCSpec == MCInit /\ [][MCNext]_MCvars

RequestSymmetry == Permutations({r1, r2}) \cup Permutations({s1, s2})
=============================================================================
