---------------------------- MODULE MCJobRuntime ----------------------------
(* Instances of JobRuntime for TLC.                                         *)
EXTENDS JobRuntime, TLC

CONSTANTS j1, j2, j3, s1, s2, d1, d2, e1, t1, r1

Symmetry == Permutations(Jobs) \cup Permutations(Submissions)
=============================================================================
