---------------------------- MODULE MCRendezvous ----------------------------
(* Small instances of Rendezvous for TLC.                                  *)
EXTENDS Rendezvous, TLC

CONSTANTS c1, c2, c3, n1, n2, n3

MCConns == {c1, c2}
MCConns3 == {c1, c2, c3}
MCNames == {n1, n2, n3}

\* "e,g" from Dial and "g,b" from DialMiddle, whose "b" matches no case.
MCAttrLists == {<<"e", "g">>, <<"g">>}

Symmetry == Permutations(MCConns3) \cup Permutations(MCNames)
=============================================================================
