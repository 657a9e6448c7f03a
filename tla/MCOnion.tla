------------------------------- MODULE MCOnion -------------------------------
(***************************************************************************)
(* Onion with two circuits of one client over the same three relays, and a *)
(* connection to spare: the second circuit has connections re-made that    *)
(* the first has lost.                                                     *)
(***************************************************************************)
EXTENDS Onion

CONSTANTS a, x, y, z, c1, c2

MCOwner == c1 :> a @@ c2 :> a
MCPath == c1 :> <<x, y, z>> @@ c2 :> <<x, y, z>>
MCSteps == c1 :> 5 @@ c2 :> 2
=============================================================================
