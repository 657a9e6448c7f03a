----------------------------- MODULE MCSignaling -----------------------------
(***************************************************************************)
(* Signaling between two clients that are brought to connect twice, by     *)
(* themselves or by the server, which introduces x to y only.              *)
(***************************************************************************)
EXTENDS Signaling

CONSTANTS x, y

MCIntroduced == {<<x, y>>}
=============================================================================
