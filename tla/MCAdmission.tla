---------------------------- MODULE MCAdmission ----------------------------
(***************************************************************************)
(* Admission on small instances, under symmetry of requests and profiles.  *)
(***************************************************************************)
EXTENDS Admission, TLC

CONSTANTS r1, r2, r3, r4, r5, p1, p2

BothSymmetries == Permutations(Requests) \cup Permutations(Profiles)
=============================================================================
