---------------------------- MODULE HopSelection ----------------------------
(***************************************************************************)
(* How the rendezvous server chooses a hop: GetExit, and GetGuard which is *)
(* the same code over the other map, of minedive/server.go, called by the  *)
(* getexit, getguard and getbridge handlers of minedive/cmd/mined.         *)
(*                                                                         *)
(* The choice is a random skip and two loops over the map.  The first      *)
(* takes only positions after skip, the second only those up to skip.  The *)
(* order of a Go map is another one in every loop, so the two loops do not *)
(* split the same sequence.  The read lock is held throughout: the map     *)
(* changes only between requests.                                          *)
(***************************************************************************)
EXTENDS Naturals, FiniteSets

CONSTANTS
    Nodes,      \* names of nodes that may be in the map
    Asker,      \* the name of the client that asks, in the map or not
    None,       \* cli == nil
    MaxAvoid    \* names a request may ask to avoid: 2 for a bridge

ASSUME NodesAssumption == IsFiniteSet(Nodes) /\ None \notin Nodes
ASSUME MaxAvoidAssumption == MaxAvoid \in Nat

VARIABLES
    pc,         \* idle, the loop that runs, or unlock
    listed,     \* the names in the map
    avoid,      \* the avoid map of this request
    skip,       \* rand.Intn(len(s.exits))
    i,          \* the position in the running loop
    seen,       \* names the running loop has come past
    tested,     \* by loop, the names it looked up in avoid and passed over
    result      \* cli

vars == <<pc, listed, avoid, skip, i, seen, tested, result>>

Loops == {"first", "second"}

TypeOK ==
    /\ pc \in Loops \cup {"idle", "unlock"}
    /\ listed \subseteq Nodes
    /\ avoid \subseteq Nodes \cup {Asker}
    /\ skip \in Nat
    /\ i \in Nat
    /\ seen \subseteq listed
    /\ tested \in [Loops -> SUBSET listed]
    /\ result \in listed \cup {None}

Init ==
    /\ pc = "idle"
    /\ listed = {} /\ avoid = {} /\ seen = {}
    /\ skip = 0 /\ i = 0
    /\ tested = [l \in Loops |-> {}]
    /\ result = None

\* makeAvoidMap: the asker itself and the names listed in D0.
MakeAvoidMap(n, names) == {n} \cup names

\* Mutant: cli is kept from the request before.
RequestKeeps ==
    /\ pc = "idle"
    /\ pc' = "first"
    /\ listed' \in SUBSET Nodes /\ listed' # {}
    /\ \E names \in SUBSET Nodes : /\ Cardinality(names) <= MaxAvoid
                                   /\ avoid' = MakeAvoidMap(Asker, names)
    /\ skip' \in 0..(Cardinality(listed') - 1)
    /\ i' = 0 /\ seen' = {}
    /\ tested' = [l \in Loops |-> {}]
    /\ UNCHANGED result

(* A request is dispatched and the lock taken.  The map is not empty: what *)
(* happens otherwise is in Rendezvous.                                     *)
Request ==
    /\ pc = "idle"
    /\ pc' = "first"
    /\ listed' \in SUBSET Nodes /\ listed' # {}
    /\ \E names \in SUBSET Nodes : /\ Cardinality(names) <= MaxAvoid
                                   /\ avoid' = MakeAvoidMap(Asker, names)
    /\ skip' \in 0..(Cardinality(listed') - 1)
    /\ i' = 0 /\ seen' = {}
    /\ tested' = [l \in Loops |-> {}]
    /\ result' = None

-----------------------------------------------------------------------------
\* Mutant: the second loop leaves position skip itself out.
TestsStrict == \/ pc = "first" /\ i > skip
               \/ pc = "second" /\ i < skip

\* Whether the running loop looks at the name at position i.
Tests == \/ pc = "first" /\ i > skip
         \/ pc = "second" /\ i <= skip

(* The position is another loop's: only i++.                               *)
SkipOver(n) ==
    /\ pc \in Loops /\ n \in listed \ seen
    /\ ~Tests
    /\ i' = i + 1 /\ seen' = seen \cup {n}
    /\ UNCHANGED <<pc, listed, avoid, skip, tested, result>>

(* The name is in the avoid map.                                           *)
PassOver(n) ==
    /\ pc \in Loops /\ n \in listed \ seen
    /\ Tests /\ n \in avoid
    /\ i' = i + 1 /\ seen' = seen \cup {n}
    /\ tested' = [tested EXCEPT ![pc] = @ \cup {n}]
    /\ UNCHANGED <<pc, listed, avoid, skip, result>>

\* Mutant: the lookup in avoid is forgotten in the second loop.
TakeUnchecked(n) ==
    /\ pc \in Loops /\ n \in listed \ seen
    /\ Tests /\ (pc = "first" => n \notin avoid)
    /\ result' = n /\ pc' = "unlock"
    /\ UNCHANGED <<listed, avoid, skip, i, seen, tested>>

(* The name is taken: goto UNLOCK.                                         *)
Take(n) ==
    /\ pc \in Loops /\ n \in listed \ seen
    /\ Tests /\ n \notin avoid
    /\ result' = n /\ pc' = "unlock"
    /\ UNCHANGED <<listed, avoid, skip, i, seen, tested>>

\* Mutant: there is no second loop, the first one starts over.
EndLoopRestart ==
    /\ pc \in Loops /\ seen = listed
    /\ pc' = "first"
    /\ i' = 0 /\ seen' = {}
    /\ UNCHANGED <<listed, avoid, skip, tested, result>>

(* A loop has come to its end: i = 0 and the next one, or UNLOCK.          *)
EndLoop ==
    /\ pc \in Loops /\ seen = listed
    /\ \/ pc = "first" /\ pc' = "second" /\ i' = 0 /\ seen' = {}
       \/ pc = "second" /\ pc' = "unlock" /\ UNCHANGED <<i, seen>>
    /\ UNCHANGED <<listed, avoid, skip, tested, result>>

(* RUnlock; the name is sent, or an error drops the request unanswered.    *)
Unlock ==
    /\ pc = "unlock" /\ pc' = "idle"
    /\ UNCHANGED <<listed, avoid, skip, i, seen, tested, result>>

-----------------------------------------------------------------------------
Choose == EndLoop \/ Unlock
             \/ \E n \in Nodes : SkipOver(n) \/ PassOver(n) \/ Take(n)

Next == Request \/ Choose

Spec == Init /\ [][Next]_vars

\* The handler runs to its end once it has the lock.
FairSpec == Spec /\ WF_vars(Choose)

-----------------------------------------------------------------------------
\* The hop is a node of the map, and neither the asker nor one of the nodes
\* it asked to avoid: the exit is never its own guard, nor the bridge.
HopAllowed == result # None => result \in listed \ avoid /\ result # Asker

\* A request that fails had at least half of the map in its avoid map.  An
\* allowed node can be passed over, as the loops walk the map in two different
\* orders and the second is to "recheck for skipped" (server.go:84), but with
\* more allowed nodes than others they cannot miss all of them.
MissBound ==
    pc = "unlock" /\ result = None
       => Cardinality(listed) <= 2 * Cardinality(listed \cap avoid)

\* The books of the two loops, from which MissBound follows: after the first
\* len - (skip + 1) names, and after the second skip + 1 names, have each
\* been looked up in avoid and found there.
LoopCount ==
    /\ pc \in Loops => /\ result = None /\ Asker \in avoid
                      /\ i = Cardinality(seen)
    /\ pc # "idle" => skip + 1 <= Cardinality(listed)
    /\ \A l \in Loops : tested[l] \subseteq avoid
    /\ pc \in Loops => tested[pc] \subseteq seen
    /\ pc = "first" =>
          /\ Cardinality(tested["first"]) =
                IF i > skip THEN i - (skip + 1) ELSE 0
          /\ tested["second"] = {}
    /\ pc = "second" \/ (pc = "unlock" /\ result = None) =>
          Cardinality(tested["first"]) + skip + 1 = Cardinality(listed)
    /\ pc = "second" =>
          Cardinality(tested["second"]) = IF i <= skip THEN i ELSE skip + 1
    /\ pc = "unlock" /\ result = None =>
          Cardinality(tested["second"]) = skip + 1

\* The choice comes to an end, and the read lock is given back.
Returns == pc = "first" ~> pc = "idle"
=============================================================================
