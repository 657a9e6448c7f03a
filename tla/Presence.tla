------------------------------ MODULE Presence ------------------------------
(***************************************************************************)
(* What the rendezvous server promises about its nodes, without saying how *)
(* it keeps it: a client joins, is offered to others for the roles it asks *)
(* for while it is present, and after it left is withdrawn from each role  *)
(* before it is gone.  Rendezvous implements it.                           *)
(***************************************************************************)
CONSTANTS Clients, Roles

VARIABLES phase, offered

vars == <<phase, offered>>

Init ==
    /\ phase = [c \in Clients |-> "absent"]
    /\ offered = [c \in Clients |-> {}]

Join(c) ==
    /\ phase[c] = "absent"
    /\ phase' = [phase EXCEPT ![c] = "present"]
    /\ UNCHANGED offered

Offer(c, r) ==
    /\ phase[c] = "present"
    /\ offered' = [offered EXCEPT ![c] = @ \cup {r}]
    /\ UNCHANGED phase

Leave(c) ==
    /\ phase[c] = "present"
    /\ phase' = [phase EXCEPT ![c] = "leaving"]
    /\ UNCHANGED offered

Withdraw(c, r) ==
    /\ phase[c] = "leaving"
    /\ offered' = [offered EXCEPT ![c] = @ \ {r}]
    /\ UNCHANGED phase

Gone(c) ==
    /\ phase[c] = "leaving" /\ offered[c] = {}
    /\ phase' = [phase EXCEPT ![c] = "absent"]
    /\ UNCHANGED offered

Next ==
    \E c \in Clients :
       \/ Join(c) \/ Leave(c) \/ Gone(c)
       \/ \E r \in Roles : Offer(c, r) \/ Withdraw(c, r)

Spec == Init /\ [][Next]_vars
=============================================================================
