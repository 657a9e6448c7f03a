--------------------------- MODULE MCHopSelection ---------------------------
(* Small instances of HopSelection for TLC.                                *)
EXTENDS HopSelection, TLC

CONSTANTS n1, n2, n3, n4, n5

MCNodes5 == {n1, n2, n3, n4, n5}
=============================================================================
