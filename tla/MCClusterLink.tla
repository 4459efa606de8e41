---------------------------- MODULE MCClusterLink ----------------------------
(* Model values and symmetry for checking ClusterLink with TLC. *)
EXTENDS ClusterLink, TLC

CONSTANTS s1, s2, s3, op1, op2

MCSocks == {s1, s2, s3}
MCTwoSocks == {s1, s2}
MCCalls == {op1, op2}

Symmetry == Permutations(MCSocks) \cup Permutations(MCCalls)
=============================================================================
