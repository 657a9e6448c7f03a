------------------------------ MODULE Channel -------------------------------
(***************************************************************************)
(* What a circuit is to its client: requests go in, the exit deals with    *)
(* each at most once, and at most one answer to it comes back, the exit's. *)
(* Requests and answers may be lost, and overtake each other.              *)
(***************************************************************************)
EXTENDS Naturals

CONSTANT Requests

VARIABLES
    asked,      \* the requests sent
    served,     \* how often the exit has dealt with a request
    answered    \* how many answers to it the client has taken

vars == <<asked, served, answered>>

Init ==
    /\ asked = {}
    /\ served = [r \in Requests |-> 0]
    /\ answered = [r \in Requests |-> 0]

Ask(r) ==
    /\ r \notin asked
    /\ asked' = asked \cup {r}
    /\ UNCHANGED <<served, answered>>

Serve(r) ==
    /\ r \in asked /\ served[r] = 0
    /\ served' = [served EXCEPT ![r] = 1]
    /\ UNCHANGED <<asked, answered>>

Answer(r) ==
    /\ served[r] = 1 /\ answered[r] = 0
    /\ answered' = [answered EXCEPT ![r] = 1]
    /\ UNCHANGED <<asked, served>>

Next == \E r \in Requests : Ask(r) \/ Serve(r) \/ Answer(r)

Spec == Init /\ [][Next]_vars
=============================================================================
