------------------------------ MODULE MCCircuit ------------------------------
(* Small instances of Circuit for TLC.                                     *)
EXTENDS Circuit, TLC

CONSTANTS b1, b2, n1, n2, n3, n4

MCCalls == {b1, b2}
MCNodes3 == {n1, n2, n3}
MCNodes4 == {n1, n2, n3, n4}

Symmetry == Permutations(MCCalls) \cup Permutations(MCNodes4)
=============================================================================
