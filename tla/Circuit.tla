------------------------------- MODULE Circuit -------------------------------
(***************************************************************************)
(* A client builds circuits: NewCircuit and SetupCircuit of                *)
(* minedive/circuit.go, the ws_loop of minedive/client.go that takes the   *)
(* server's answers, and the two ends of the test in minedive/l1peer.go.   *)
(*                                                                         *)
(* A member of Calls is one call of NewCircuit and the Circuit object it   *)
(* made.  The call asks the server for an exit, a guard that is not the    *)
(* exit and a bridge that is neither, polling its own object in between;   *)
(* but the answers, which name no request, are written by ws_loop into     *)
(* whatever object m.Circuits[0] is.  Then it fetches the three keys, has  *)
(* guard and bridge connect on, and tests the circuit end to end.          *)
(*                                                                         *)
(* The server answers one client's requests in order, so a request and its *)
(* answer are one entry of wire until ws_loop has handled it.  A layer is  *)
(* the node whose key seals it.  What a relay does with one is external to *)
(* this module: the test comes through or is lost.                         *)
(***************************************************************************)
EXTENDS Naturals, Sequences, FiniteSets

CONSTANTS
    Calls,      \* calls of NewCircuit
    Exits,      \* the nodes in the server's exits, without this client
    Guards,     \* the nodes in its guards, without this client
    None,       \* "", nil, no key
    MaxSends,   \* how often a test is sent (6 in the code)
    Overlap,    \* a call may begin while an earlier one is still building
    Late,       \* ... or while answers to an earlier one are still to come
    Departs     \* a node may be gone when its key is asked for

Nodes == Exits \cup Guards
Hops == {"exit", "guard", "bridge"}

ASSUME NoneAssumption == None \notin Nodes /\ None \notin Calls
ASSUME SendsAssumption == MaxSends \in Nat \ {0}
ASSUME FlagAssumption == {Overlap, Late, Departs} \subseteq BOOLEAN

VARIABLES
    cur,        \* m.Circuits[0]
    pc,         \* where a call is
    hop,        \* c.Exit.ID, c.Guard.ID, c.Bridge.ID
    args,       \* the three names SetupCircuit was called with
    layer,      \* the node each OKey and TKey belongs to
    state,      \* c.State is "OK"
    wire,       \* requests to the server, with the answer if there is one
    keys,       \* the nodes in m.Keys
    peers,      \* the nodes in m.L1Peers
    dialing,    \* the nodes a newL1Peer goroutine is connecting to
    open,       \* the circuits whose c.DC, to their guard, is open
    sends,      \* failedSend: how often a call has sent its test
    tested,     \* the circuits whose test has reached their exit
    answers,    \* the circuits whose test2 is on its way back
    found       \* the circuits a handler of test2 has looked up

ids == <<hop, args, layer>>
links == <<keys, peers, dialing, open>>
test == <<sends, tested, answers, found>>
vars == <<cur, pc, ids, state, wire, links, test>>

NoHops == [h \in Hops |-> None]
HopNames == [Hops -> Nodes \cup {None}]
Polls == {"exit", "guard", "bridge"}
Ended == {"new", "done", "timeout"}

Requests == [by : Calls, type : Hops, avoid : SUBSET Nodes]
               \cup [by : Calls, type : {"getk"}, node : Nodes]

TypeOK ==
    /\ cur \in Calls \cup {None}
    /\ pc \in [Calls ->
                 Polls \cup Ended \cup {"keys", "extend", "test", "wait"}]
    /\ hop \in [Calls -> HopNames]
    /\ args \in [Calls -> HopNames]
    /\ layer \in [Calls -> HopNames]
    /\ state \in [Calls -> BOOLEAN]
    /\ wire \in Seq(Requests)
    /\ keys \subseteq Nodes /\ peers \subseteq Nodes /\ dialing \subseteq Nodes
    /\ open \subseteq Calls /\ sends \in [Calls -> 0..MaxSends]
    /\ tested \subseteq Calls /\ answers \subseteq Calls
    /\ found \subseteq Calls

Init ==
    /\ cur = None
    /\ pc = [c \in Calls |-> "new"]
    /\ hop = [c \in Calls |-> NoHops]
    /\ args = [c \in Calls |-> NoHops]
    /\ layer = [c \in Calls |-> NoHops]
    /\ state = [c \in Calls |-> FALSE]
    /\ wire = << >>
    /\ keys = {} /\ peers = {} /\ dialing = {} /\ open = {}
    /\ sends = [c \in Calls |-> 0]
    /\ tested = {} /\ answers = {} /\ found = {}

-----------------------------------------------------------------------------
\* getexit, getguard or getbridge, with the names in D0.
Ask(c, h, names) ==
    wire' = Append(wire, [by |-> c, type |-> h, avoid |-> names])

\* The three getk of SetupCircuit, in the order guard, bridge, exit.
AskKeys(c, names) ==
    wire' = wire \o [k \in 1..3 |->
               [by |-> c, type |-> "getk",
                node |-> names[<<"guard", "bridge", "exit">>[k]]]]

\* The constants that set calls and answers apart.
MayBegin ==
    /\ Overlap \/ \A c \in Calls : pc[c] \in Ended
    /\ Late \/ (wire = << >> /\ answers = {} /\ found = {})

\* Mutant: the old object is used again, and its State with it.
BeginReuses(c) ==
    /\ pc[c] = "new" /\ MayBegin
    /\ cur' = c
    /\ state' = [state EXCEPT ![c] = cur # None /\ state[cur]]
    /\ Ask(c, "exit", {})
    /\ pc' = [pc EXCEPT ![c] = "exit"]
    /\ UNCHANGED <<ids, links, test>>

(* NewCircuit: the new object takes the place of the old one.              *)
Begin(c) ==
    /\ pc[c] = "new" /\ MayBegin
    /\ cur' = c
    /\ Ask(c, "exit", {})
    /\ pc' = [pc EXCEPT ![c] = "exit"]
    /\ UNCHANGED <<ids, state, links, test>>

\* Mutant: the guard is asked for before the exit is known.
HaveExitUnavoided(c) ==
    /\ pc[c] = "exit" /\ hop[c]["exit"] # None
    /\ Ask(c, "guard", {})
    /\ pc' = [pc EXCEPT ![c] = "guard"]
    /\ UNCHANGED <<cur, ids, state, links, test>>

(* WAIT_EXIT ends: getguard avoids the exit.                               *)
HaveExit(c) ==
    /\ pc[c] = "exit" /\ hop[c]["exit"] # None
    /\ Ask(c, "guard", {hop[c]["exit"]})
    /\ pc' = [pc EXCEPT ![c] = "guard"]
    /\ UNCHANGED <<cur, ids, state, links, test>>

(* WAIT_GUARD ends: getbridge avoids guard and exit.                       *)
HaveGuard(c) ==
    /\ pc[c] = "guard" /\ hop[c]["guard"] # None
    /\ Ask(c, "bridge", {hop[c]["guard"], hop[c]["exit"]})
    /\ pc' = [pc EXCEPT ![c] = "bridge"]
    /\ UNCHANGED <<cur, ids, state, links, test>>

(* WAIT_BRIDGE ends: SetupCircuit is called and asks for the keys.         *)
HaveBridge(c) ==
    /\ pc[c] = "bridge" /\ hop[c]["bridge"] # None
    /\ args' = [args EXCEPT ![c] = hop[c]]
    /\ AskKeys(c, hop[c])
    /\ pc' = [pc EXCEPT ![c] = "keys"]
    /\ UNCHANGED <<cur, hop, layer, state, links, test>>

\* Mutant: only the first of the three loops counts its polls.
TimeoutFirst(c) ==
    /\ pc[c] = "exit" /\ hop[c]["exit"] = None
    /\ pc' = [pc EXCEPT ![c] = "timeout"]
    /\ UNCHANGED <<cur, ids, state, wire, links, test>>

(* A dozen polls in vain: NewCircuit returns TIMEOUT.                      *)
Timeout(c) ==
    /\ pc[c] \in Polls /\ hop[c][pc[c]] = None
    /\ pc' = [pc EXCEPT ![c] = "timeout"]
    /\ UNCHANGED <<cur, ids, state, wire, links, test>>

-----------------------------------------------------------------------------
HaveKeys(c) == \A h \in Hops : args[c][h] \in keys

\* Mutant: the key of the guard is taken for all layers.
LayersOneKey(c) ==
    layer' = [layer EXCEPT ![c] = [h \in Hops |-> args[c]["guard"]]]

\* copy(c.Guard.OKey, m.Keys[guard]), box.Precompute(...) and so on.
Layers(c) == layer' = [layer EXCEPT ![c] = args[c]]

(* GETKEYS ends, and the guard has become a peer: it is told to connect to *)
(* the bridge.                                                             *)
Connect(c) ==
    /\ pc[c] = "keys" /\ HaveKeys(c)
    /\ args[c]["guard"] \in peers
    /\ Layers(c)
    /\ open' = open \cup {c}
    /\ hop' = [hop EXCEPT ![c]["guard"] = args[c]["guard"]]
    /\ pc' = [pc EXCEPT ![c] = "extend"]
    /\ UNCHANGED <<cur, args, state, wire, keys, peers, dialing, test>>

(* GETKEYS ends, and "guard not found": SetupCircuit returns.              *)
NoGuard(c) ==
    /\ pc[c] = "keys" /\ HaveKeys(c)
    /\ args[c]["guard"] \notin peers
    /\ Layers(c)
    /\ pc' = [pc EXCEPT ![c] = "done"]
    /\ UNCHANGED <<cur, hop, args, state, wire, links, test>>

(* Ten seconds later the bridge is told to connect to the exit.            *)
Extend(c) ==
    /\ pc[c] = "extend"
    /\ hop' = [hop EXCEPT ![c] = [@ EXCEPT !["bridge"] = args[c]["bridge"],
                                           !["exit"] = args[c]["exit"]]]
    /\ pc' = [pc EXCEPT ![c] = "test"]
    /\ UNCHANGED <<cur, args, layer, state, wire, links, test>>

\* A message comes through only if every relay named in fwd2's To is the
\* one whose key seals the layer it is given: DecL1Msg discards the others.
Reaches(c) == /\ c \in open
              /\ \A h \in {"bridge", "exit"} : hop[c][h] = layer[c][h]

(* SENDTEST: the test reaches the exit, which answers test2, or is lost.   *)
SendTest(c) ==
    /\ pc[c] = "test"
    /\ sends' = [sends EXCEPT ![c] = @ + 1]
    /\ pc' = [pc EXCEPT ![c] = "wait"]
    /\ \/ /\ Reaches(c)
          /\ tested' = tested \cup {c} /\ answers' = answers \cup {c}
       \/ UNCHANGED <<tested, answers>>
    /\ UNCHANGED <<cur, ids, state, wire, links, found>>

(* WAITTEST: the circuit is OK, or five more tests go unanswered.          *)
EndTest(c) ==
    /\ pc[c] = "wait" /\ (state[c] \/ sends[c] = MaxSends)
    /\ pc' = [pc EXCEPT ![c] = "done"]
    /\ UNCHANGED <<cur, ids, state, wire, links, test>>

\* Mutant: failedSend is not counted.
ResendUncounted(c) ==
    /\ pc[c] = "wait" /\ ~state[c]
    /\ pc' = [pc EXCEPT ![c] = "test"]
    /\ UNCHANGED <<cur, ids, state, wire, links, test>>

(* WAITTEST, RESEND: the test is sent once more.                           *)
Resend(c) ==
    /\ pc[c] = "wait" /\ ~state[c] /\ sends[c] < MaxSends
    /\ pc' = [pc EXCEPT ![c] = "test"]
    /\ UNCHANGED <<cur, ids, state, wire, links, test>>

-----------------------------------------------------------------------------
\* Mutant: the server picks a guard or bridge without its avoid map.
AllowedAny(r) == IF r.type = "exit" THEN Exits ELSE Guards

\* What the server may pick: HopSelection, without the client itself.
Allowed(r) == (IF r.type = "exit" THEN Exits ELSE Guards) \ r.avoid

\* Mutant: the answer is written into the object of the call that asked.
HopAnswerAsker ==
    /\ wire # << >> /\ Head(wire).type \in Hops
    /\ wire' = Tail(wire)
    /\ \E n \in Allowed(Head(wire)) :
          /\ hop' = [hop EXCEPT ![Head(wire).by][Head(wire).type] = n]
          /\ dialing' = IF Head(wire).type = "guard" THEN dialing \cup {n}
                                                     ELSE dialing
    /\ UNCHANGED <<cur, pc, args, layer, state, keys, peers, open, test>>

(* ws_loop reads exit, guard or bridge and writes it into Circuits[0]; for *)
(* a guard it starts to connect.                                           *)
HopAnswer ==
    /\ wire # << >> /\ Head(wire).type \in Hops
    /\ wire' = Tail(wire)
    /\ \E n \in Allowed(Head(wire)) :
          /\ hop' = [hop EXCEPT ![cur][Head(wire).type] = n]
          /\ dialing' = IF Head(wire).type = "guard" THEN dialing \cup {n}
                                                     ELSE dialing
    /\ UNCHANGED <<cur, pc, args, layer, state, keys, peers, open, test>>

(* The server has no answer: nobody is allowed, or its loops missed them.  *)
NoHopAnswer ==
    /\ wire # << >> /\ Head(wire).type \in Hops
    /\ wire' = Tail(wire)
    /\ UNCHANGED <<cur, pc, ids, state, links, test>>

(* ws_loop reads k and stores the key.                                     *)
KeyAnswer ==
    /\ wire # << >> /\ Head(wire).type = "getk"
    /\ wire' = Tail(wire)
    /\ keys' = keys \cup {Head(wire).node}
    /\ UNCHANGED <<cur, pc, ids, state, peers, dialing, open, test>>

(* getk for a name the server does not know any more is not answered.      *)
NoKeyAnswer ==
    /\ wire # << >> /\ Head(wire).type = "getk" /\ Departs
    /\ wire' = Tail(wire)
    /\ UNCHANGED <<cur, pc, ids, state, links, test>>

(* The goroutine of newL1Peer puts the peer into the table.                *)
PeerAdded(n) ==
    /\ n \in dialing
    /\ dialing' = dialing \ {n} /\ peers' = peers \cup {n}
    /\ UNCHANGED <<cur, pc, ids, state, wire, keys, open, test>>

(* The connection to a peer closes: DeletePeer.  A circuit keeps its DC,   *)
(* and its State, but nothing goes through it any more.                    *)
PeerLost(n) ==
    /\ n \in peers
    /\ peers' = peers \ {n}
    /\ open' = {c \in open : layer[c]["guard"] # n}
    /\ UNCHANGED <<cur, pc, ids, state, wire, keys, dialing, test>>

(* encrep for circuit c arrives.  "Right circuit found!" if it is still in *)
(* m.Circuits; a handler of test2 goes on.                                 *)
Find(c) ==
    /\ c \in answers
    /\ answers' = answers \ {c}
    /\ found' = IF c = cur THEN found \cup {c} ELSE found
    /\ UNCHANGED <<cur, pc, ids, state, wire, links, sends, tested>>

(* handleL1Msg, test2: cli.Circuits[0].State = "OK".                       *)
MarkOK(c) ==
    /\ c \in found
    /\ found' = found \ {c}
    /\ state' = [state EXCEPT ![cur] = TRUE]
    /\ UNCHANGED <<cur, pc, ids, wire, links, sends, tested, answers>>

-----------------------------------------------------------------------------
\* The goroutine of a call, once it has begun.
Step(c) ==
    \/ HaveExit(c) \/ HaveGuard(c) \/ HaveBridge(c) \/ Timeout(c)
    \/ Connect(c) \/ NoGuard(c) \/ Extend(c)
    \/ SendTest(c) \/ EndTest(c) \/ Resend(c)

\* ws_loop, fed by the server.
Answer == HopAnswer \/ NoHopAnswer \/ KeyAnswer \/ NoKeyAnswer

Next ==
    \/ \E c \in Calls : Begin(c) \/ Step(c) \/ Find(c) \/ MarkOK(c)
    \/ Answer
    \/ \E n \in Nodes : PeerAdded(n) \/ PeerLost(n)

Spec == Init /\ [][Next]_vars

\* Goroutines run, and the server works its requests off.
FairSpec == Spec /\ WF_vars(Answer) /\ \A c \in Calls : WF_vars(Step(c))

-----------------------------------------------------------------------------
(* What holds while one call follows the other and the answers to one are  *)
(* in before the next begins.                                              *)

Distinct(f) == \A g, h \in Hops : g # h => f[g] # f[h]

\* "pick a bridge (!exit)", "pick a guard (!exit !bridge)" (circuit.go:366
\* and 376): SetupCircuit is called with three different nodes, so that no
\* relay learns both who asks and what for.
DistinctHops == \A c \in Calls : args[c] # NoHops => Distinct(args[c])

\* Each name a message is forwarded to is the node whose key seals the
\* layer under it: no answer changes the names of a circuit that is set up,
\* else its messages are discarded by a relay and the circuit is mute.
NamesMatchLayers ==
    \A c \in Calls :
       pc[c] \in {"test", "wait"} \/ c \in tested => hop[c] = layer[c]

\* "Right circuit found!" (l1peer.go:101): the circuit that is marked OK is
\* the one whose test came back.
OKTested == \A c \in Calls : state[c] => c \in tested

\* SearchL2 sends over Circuits[0] if it is OK: then through three nodes,
\* each named and keyed alike, by a way a test has gone.
SearchReady ==
    cur # None => (state[cur] => /\ Distinct(hop[cur])
                                 /\ hop[cur] = layer[cur]
                                 /\ cur \in tested)

\* NewCircuit returns, with a circuit or with TIMEOUT, whatever answers are
\* missing; only a key that never comes leaves it in GETKEYS, the one loop
\* of the call that does not count.
CallEnds ==
    \A c \in Calls :
       pc[c] = "exit" ~> pc[c] \in Ended \/ (pc[c] = "keys" /\ ~HaveKeys(c))

-----------------------------------------------------------------------------
(* What holds also for calls that overlap.                                 *)

\* A circuit that was replaced is left alone by what still comes in for it:
\* it does not become OK (l1peer.go:279) and its names change only to those
\* its own SetupCircuit was called with (client.go:574 to 584).
ReplacedUntouched ==
    [][\A c \in Calls : cur # c =>
          /\ state'[c] = state[c]
          /\ \A h \in Hops :
                hop'[c][h] # hop[c][h] => hop'[c][h] = args[c][h]]_vars
=============================================================================
