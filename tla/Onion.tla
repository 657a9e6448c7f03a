-------------------------------- MODULE Onion --------------------------------
(***************************************************************************)
(* Messages of circuits on their way through the relays: Send and          *)
(* ReplyCircuit of minedive/circuit.go, DecL1Msg and handleL1Msg of        *)
(* minedive/l1peer.go.                                                     *)
(*                                                                         *)
(* A message of a circuit is sealed for guard, bridge and exit in turn.  A *)
(* relay opens the layer that is its own and finds the message for it, or  *)
(* the next relay's name and layer.  It remembers, by the circuit's key,   *)
(* the connection the first packet came over, and sends replies back that  *)
(* way.  SetupCircuit's two messages have guard and bridge connect to the  *)
(* next relay; what comes after them are requests to the exit.             *)
(*                                                                         *)
(* Connections break and are made anew.  How they are made is the subject  *)
(* of Signaling: here two clients either get connected or do not.  A       *)
(* circuit's names belong to its keys (NamesMatchLayers of Circuit), so a  *)
(* layer is a place on its path.                                           *)
(***************************************************************************)
EXTENDS Naturals, FiniteSets, SequencesExt

CONSTANTS
    Nodes,      \* clients
    Circuits,   \* CircuitIDs: the public keys made by NewCircuit
    Owner,      \* the client that made a circuit
    Path,       \* its guard, bridge and exit
    MaxLinks,   \* how many connections are made in all
    MaxBreaks,  \* how many of them break
    MaxSteps,   \* how many messages of a circuit are sent in all, less one
    None        \* no connection, no circuit

Links == 1..MaxLinks
Places == 1..3

ASSUME PathAssumption ==
    /\ Owner \in [Circuits -> Nodes]
    /\ Path \in [Circuits -> [Places -> Nodes]]
    /\ \A c \in Circuits : Path[c][1] # Owner[c]
    /\ \A c \in Circuits, i, j \in Places : i # j => Path[c][i] # Path[c][j]
ASSUME BoundAssumption ==
    MaxLinks \in Nat /\ MaxBreaks \in Nat /\ MaxSteps \in [Circuits -> Nat]
ASSUME NoneAssumption == None \notin Links /\ None \notin Circuits

VARIABLES
    ends,       \* the two clients of a connection, none before it is made
    up,         \* the connections that are open
    wire,       \* wire[k][n]: packets on their way over k to n
    racing,     \* <<k, n>>: the reader of k at n has found no route
    closing,    \* <<k, n, e>>: of the end of k, n is still to be told e
    peer,       \* peer[n][m]: the connection in L1Peers of n for m
    route,      \* route[n][c]: the connection in Routes of n for c
    dialing,    \* <<n, m>>: n is going to connect to m
    cur,        \* m.Circuits[0] of a client
    dc,         \* c.DC
    step,       \* how far a circuit is: begun, guard and bridge told, asking
    ok,         \* c.State is "OK"
    work,       \* the searches an exit has not answered yet
    served,     \* how often a request has been dealt with at the exit
    answered    \* how many answers to it the client has accepted

links == <<ends, up, closing, peer, dialing>>
client == <<cur, dc, step, ok>>
vars == <<links, wire, racing, route, client, work, served, answered>>

\* Messages are numbered: 2 and 3 say connect, those from 4 on are requests.
Requests == UNION {{c} \X (4..MaxSteps[c]) : c \in Circuits}

Packets ==
    [type : {"enc"}, circ : Circuits, nr : Nat,
     kind : {"connect", "test", "search"}, at : Places]
       \cup [type : {"encrep"}, circ : Circuits, nr : Nat,
             kind : {"test2", "respv2"}]

\* The place whose relay finds the message: the guard, the bridge, the exit.
Target(nr) == IF nr = 2 THEN 1 ELSE IF nr = 3 THEN 2 ELSE 3

\* Who comes before a place on the way out.
Before(c, i) == IF i = 1 THEN Owner[c] ELSE Path[c][i - 1]

\* What a client is told of a connection: OnClose, and the failed state.
Endings == {"closed", "failed"}

TypeOK ==
    /\ ends \in [Links -> SUBSET Nodes] /\ up \subseteq Links
    /\ wire \in [Links -> [Nodes -> Seq(Packets)]]
    /\ racing \subseteq Links \X Nodes
    /\ closing \subseteq Links \X Nodes \X Endings
    /\ peer \in [Nodes -> [Nodes -> Links \cup {None}]]
    /\ route \in [Nodes -> [Circuits -> Links \cup {None}]]
    /\ dialing \subseteq Nodes \X Nodes
    /\ cur \in [Nodes -> Circuits \cup {None}]
    /\ dc \in [Circuits -> Links \cup {None}]
    /\ step \in [Circuits -> Nat] /\ ok \in [Circuits -> BOOLEAN]
    /\ work \subseteq Requests
    /\ served \in [Requests -> Nat] /\ answered \in [Requests -> Nat]

Init ==
    /\ ends = [k \in Links |-> {}] /\ up = {}
    /\ wire = [k \in Links |-> [n \in Nodes |-> << >>]]
    /\ racing = {} /\ closing = {}
    /\ peer = [n \in Nodes |-> [m \in Nodes |-> None]]
    /\ route = [n \in Nodes |-> [c \in Circuits |-> None]]
    /\ dialing = {}
    /\ cur = [n \in Nodes |-> None]
    /\ dc = [c \in Circuits |-> None]
    /\ step = [c \in Circuits |-> 0] /\ ok = [c \in Circuits |-> FALSE]
    /\ work = {}
    /\ served = [r \in Requests |-> 0] /\ answered = [r \in Requests |-> 0]

-----------------------------------------------------------------------------
Broken == {k \in Links \ up : ends[k] # {}}

\* SendText to m over k: on a closed channel the packet is lost.
Sent(w, k, m, p) ==
    IF k \in up THEN [w EXCEPT ![k][m] = Append(@, p)] ELSE w

\* wire once the reader of k at n is done with its packet.
Taken(k, n) == [wire EXCEPT ![k][n] = Tail(@)]

Arrived(k, n, type) == wire[k][n] # << >> /\ Head(wire[k][n]).type = type

Other(k, n) == CHOOSE m \in Nodes : ends[k] = {n, m}

Enc(c, nr, kind, i) ==
    [type |-> "enc", circ |-> c, nr |-> nr, kind |-> kind, at |-> i]
Encrep(r, kind) ==
    [type |-> "encrep", circ |-> r[1], nr |-> r[2], kind |-> kind]

-----------------------------------------------------------------------------
(* The client that makes the circuit.                                      *)

\* NewCircuit: the circuit is Circuits[0], and the guard's name has ws_loop
\* connect to it.
Begin(c) ==
    /\ step[c] = 0
    /\ step' = [step EXCEPT ![c] = 1]
    /\ cur' = [cur EXCEPT ![Owner[c]] = c]
    /\ dialing' = dialing \cup {<<Owner[c], Path[c][1]>>}
    /\ UNCHANGED <<ends, up, closing, peer, wire, racing, route, dc, ok, work,
                   served, answered>>

\* The next message of the circuit leaves over k, sealed for its relays.
Emit(c, k, kind) ==
    /\ step[c] < MaxSteps[c]
    /\ step' = [step EXCEPT ![c] = @ + 1]
    /\ wire' = Sent(wire, k, Path[c][1], Enc(c, step[c] + 1, kind, 1))
    /\ UNCHANGED <<links, racing, route, cur, ok, work, served, answered>>

\* SetupCircuit finds the guard and tells it to connect to the bridge ...
TellGuard(c) ==
    /\ step[c] = 1 /\ peer[Owner[c]][Path[c][1]] # None
    /\ dc' = [dc EXCEPT ![c] = peer[Owner[c]][Path[c][1]]]
    /\ Emit(c, peer[Owner[c]][Path[c][1]], "connect")

\* ... ten seconds later the bridge to connect to the exit ...
TellBridge(c) ==
    /\ step[c] = 2
    /\ Emit(c, dc[c], "connect")
    /\ UNCHANGED dc

\* ... and tests the circuit until it is OK.
SendTest(c) ==
    /\ step[c] > 2 /\ ~ok[c]
    /\ Emit(c, dc[c], "test")
    /\ UNCHANGED dc

\* SearchL2: over Circuits[0], if it is OK.
Search(c) ==
    /\ cur[Owner[c]] = c /\ ok[c]
    /\ Emit(c, dc[c], "search")
    /\ UNCHANGED dc

-----------------------------------------------------------------------------
(* DecL1Msg and handleL1Msg, for a packet on its way out.                  *)

\* Mutant: a route over a broken connection counts as none.
NoLiveRoute(k, n) ==
    /\ Arrived(k, n, "enc") /\ <<k, n>> \notin racing
    /\ route[n][Head(wire[k][n]).circ] \notin up
    /\ racing' = racing \cup {<<k, n>>}
    /\ UNCHANGED <<links, wire, route, client, work, served, answered>>

\* The reader looks for a route of the circuit and finds none.
NoRoute(k, n) ==
    /\ Arrived(k, n, "enc") /\ <<k, n>> \notin racing
    /\ route[n][Head(wire[k][n]).circ] = None
    /\ racing' = racing \cup {<<k, n>>}
    /\ UNCHANGED <<links, wire, route, client, work, served, answered>>

\* There is a route, or the reader adds the one the packet came over, whatever
\* another reader has added since it looked.  The layer is opened.
Routed(k, n) ==
    /\ Arrived(k, n, "enc")
    /\ <<k, n>> \in racing \/ route[n][Head(wire[k][n]).circ] # None
    /\ racing' = racing \ {<<k, n>>}
    /\ route' = IF <<k, n>> \in racing
                THEN [route EXCEPT ![n][Head(wire[k][n]).circ] = k]
                ELSE route

\* fwd2: what is inside goes to the next relay, if that is a peer.
Forward(k, n) ==
    /\ Routed(k, n)
    /\ LET p == Head(wire[k][n])
           m == Path[p.circ][p.at + 1]
       IN  /\ p.at < Target(p.nr)
           /\ wire' = IF peer[n][m] = None THEN Taken(k, n)
                      ELSE Sent(Taken(k, n), peer[n][m], m,
                                Enc(p.circ, p.nr, p.kind, p.at + 1))
    /\ UNCHANGED <<links, client, work, served, answered>>

\* connect: newL1Peer, unless the next relay is a peer already.
Connect(k, n) ==
    /\ Routed(k, n)
    /\ LET p == Head(wire[k][n])
           m == Path[p.circ][p.at + 1]
       IN  /\ p.at = Target(p.nr) /\ p.kind = "connect"
           /\ dialing' = IF peer[n][m] = None THEN dialing \cup {<<n, m>>}
                                              ELSE dialing
    /\ wire' = Taken(k, n)
    /\ UNCHANGED <<ends, up, closing, peer, client, work, served, answered>>

\* Mutant: the reply goes by the route as it was before this packet.
TestOldRoute(k, n) ==
    /\ Routed(k, n)
    /\ LET p == Head(wire[k][n])
           r == <<p.circ, p.nr>>
           back == route[n][p.circ]
       IN  /\ p.at = Target(p.nr) /\ p.kind = "test"
           /\ served' = [served EXCEPT ![r] = @ + 1]
           /\ wire' = Sent(Taken(k, n), back, Other(back, n),
                           Encrep(r, "test2"))
    /\ UNCHANGED <<links, client, work, answered>>

\* test: ReplyCircuit sends test2 back at once.
Test(k, n) ==
    /\ Routed(k, n)
    /\ LET p == Head(wire[k][n])
           r == <<p.circ, p.nr>>
           back == route'[n][p.circ]
       IN  /\ p.at = Target(p.nr) /\ p.kind = "test"
           /\ served' = [served EXCEPT ![r] = @ + 1]
           /\ wire' = Sent(Taken(k, n), back, Other(back, n),
                           Encrep(r, "test2"))
    /\ UNCHANGED <<links, client, work, answered>>

\* search: the Searcher is given the query and the circuit's key.
Searcher(k, n) ==
    /\ Routed(k, n)
    /\ LET p == Head(wire[k][n])
           r == <<p.circ, p.nr>>
       IN  /\ p.at = Target(p.nr) /\ p.kind = "search"
           /\ served' = [served EXCEPT ![r] = @ + 1]
           /\ work' = work \cup {r}
    /\ wire' = Taken(k, n)
    /\ UNCHANGED <<links, client, answered>>

-----------------------------------------------------------------------------
(* The way back.                                                           *)

\* Mutant: the page may answer a search more than once.
ReplyAgain(r) ==
    /\ r \in work
    /\ LET n == Path[r[1]][3]
           back == route[n][r[1]]
       IN  wire' = Sent(wire, back, Other(back, n), Encrep(r, "respv2"))
    /\ UNCHANGED <<links, racing, route, client, work, served, answered>>

\* Mutant: what comes back is the search itself.
ReplyEcho(r) ==
    /\ r \in work
    /\ work' = work \ {r}
    /\ LET n == Path[r[1]][3]
           back == route[n][r[1]]
       IN  wire' = Sent(wire, back, Other(back, n), Encrep(r, "search"))
    /\ UNCHANGED <<links, racing, route, client, served, answered>>

\* ReplyL2: the page has results, and ReplyCircuit sends them over the route.
Reply(r) ==
    /\ r \in work
    /\ work' = work \ {r}
    /\ LET n == Path[r[1]][3]
           back == route[n][r[1]]
       IN  wire' = Sent(wire, back, Other(back, n), Encrep(r, "respv2"))
    /\ UNCHANGED <<links, racing, route, client, served, answered>>

\* DecL1Msg passes a reply on over the circuit's route.
Back(k, n) ==
    /\ Arrived(k, n, "encrep")
    /\ LET p == Head(wire[k][n])
           back == route[n][p.circ]
       IN  /\ back # None
           /\ wire' = Sent(Taken(k, n), back, Other(back, n), p)
    /\ UNCHANGED <<links, racing, route, client, work, served, answered>>

\* Mutant: the reader records a route for replies too.
HomeRouted(k, n) ==
    /\ Arrived(k, n, "encrep")
    /\ LET p == Head(wire[k][n])
           r == <<p.circ, p.nr>>
       IN  /\ route[n][p.circ] = None
           /\ route' = [route EXCEPT ![n][p.circ] = k]
           /\ IF cur[n] = p.circ
              THEN /\ answered' = [answered EXCEPT ![r] = @ + 1]
                   /\ ok' = [ok EXCEPT ![p.circ] = @ \/ p.kind = "test2"]
              ELSE UNCHANGED <<answered, ok>>
    /\ wire' = Taken(k, n)
    /\ UNCHANGED <<links, racing, cur, dc, step, work, served>>

\* It knows no route: the reply is for itself, if it is to Circuits[0].
\* test2 makes that circuit OK, respv2 goes to the Responder.
Home(k, n) ==
    /\ Arrived(k, n, "encrep")
    /\ LET p == Head(wire[k][n])
           r == <<p.circ, p.nr>>
       IN  /\ route[n][p.circ] = None
           /\ IF cur[n] = p.circ
              THEN /\ answered' = [answered EXCEPT ![r] = @ + 1]
                   /\ ok' = [ok EXCEPT ![p.circ] = @ \/ p.kind = "test2"]
              ELSE UNCHANGED <<answered, ok>>
    /\ wire' = Taken(k, n)
    /\ UNCHANGED <<links, racing, route, cur, dc, step, work, served>>

-----------------------------------------------------------------------------
(* Connections.                                                            *)

\* newL1Peer at n and AcceptOffer at m succeed: each has the other in L1Peers.
Link(k, n, m) ==
    /\ <<n, m>> \in dialing
    /\ ends[k] = {} /\ \A j \in 1..(k - 1) : ends[j] # {}
    /\ peer[n][m] = None /\ peer[m][n] = None
    /\ ends' = [ends EXCEPT ![k] = {n, m}]
    /\ up' = up \cup {k}
    /\ peer' = [peer EXCEPT ![n][m] = k, ![m][n] = k]
    /\ dialing' = dialing \ {<<n, m>>}
    /\ UNCHANGED <<wire, racing, closing, route, client, work, served,
                   answered>>

\* A connection goes: a page is closed, a network is down.
Break(k) ==
    /\ k \in up /\ Cardinality(Broken) < MaxBreaks
    /\ up' = up \ {k}
    /\ closing' = closing \cup ({k} \X ends[k] \X Endings)
    /\ UNCHANGED <<ends, peer, dialing, wire, racing, route, client, work,
                   served, answered>>

\* What had been sent and is not read yet is lost with it.
Lose(k, n) ==
    /\ k \notin up /\ wire[k][n] # << >>
    /\ <<k, n>> \in racing => Len(wire[k][n]) > 1
    /\ wire' = [wire EXCEPT ![k][n] = Front(@)]
    /\ UNCHANGED <<links, racing, route, client, work, served, answered>>

\* Mutant: the peer's routes go with it.
ForgetRoutes(k, n, e) ==
    /\ <<k, n, e>> \in closing
    /\ closing' = closing \ {<<k, n, e>>}
    /\ peer' = [peer EXCEPT ![n][Other(k, n)] = None]
    /\ route' = [route EXCEPT ![n] =
                    [c \in Circuits |-> IF @[c] = k THEN None ELSE @[c]]]
    /\ UNCHANGED <<ends, up, dialing, wire, racing, client, work, served,
                   answered>>

\* OnClose, and DeletePeer on failed: the peer is deleted by name, whichever
\* connection the name stands for by then.  Routes are not touched.
Forget(k, n, e) ==
    /\ <<k, n, e>> \in closing
    /\ closing' = closing \ {<<k, n, e>>}
    /\ peer' = [peer EXCEPT ![n][Other(k, n)] = None]
    /\ UNCHANGED <<ends, up, dialing, wire, racing, route, client, work,
                   served, answered>>

-----------------------------------------------------------------------------
Client(c) ==
    Begin(c) \/ TellGuard(c) \/ TellBridge(c) \/ SendTest(c) \/ Search(c)

\* The reader of the data channel k at n.
Reader(k, n) ==
    \/ NoRoute(k, n) \/ Forward(k, n) \/ Connect(k, n)
    \/ Test(k, n) \/ Searcher(k, n)
    \/ Back(k, n) \/ Home(k, n)

Network ==
    \E k \in Links :
       \/ Break(k)
       \/ \E n, m \in Nodes : Link(k, n, m)
       \/ \E n \in Nodes : Lose(k, n)
       \/ \E n \in Nodes, e \in Endings : Forget(k, n, e)

Next ==
    \/ \E c \in Circuits : Client(c)
    \/ \E k \in Links, n \in Nodes : Reader(k, n)
    \/ \E r \in Requests : Reply(r)
    \/ Network

Spec == Init /\ [][Next]_vars

\* While packets have arrived, some reader handles its next one.
FairSpec == Spec /\ WF_vars(\E k \in Links, n \in Nodes : Reader(k, n))

-----------------------------------------------------------------------------
(* What the relays promise.                                                *)

\* A relay's route of a circuit leads to the client before it on the path,
\* whichever of several readers has recorded it (l1peer.go:126-132): replies
\* never take a way other than the one their request came.
RouteBack ==
    \A n \in Nodes, c \in Circuits :
       route[n][c] # None =>
          \E i \in Places : /\ Path[c][i] = n
                            /\ ends[route[n][c]] = {n, Before(c, i)}

\* A reply under way is between a relay and the client before it, and that
\* client, if it is a relay, has the route to pass it on (l1peer.go:87-92): it
\* does not take the reply for its own and drop it.
Homeward ==
    \A k \in Links, n \in Nodes : \A j \in 1..Len(wire[k][n]) :
       LET p == wire[k][n][j]
       IN  p.type = "encrep" =>
              \E i \in Places : /\ n = Before(p.circ, i)
                                /\ ends[k] = {n, Path[p.circ][i]}
                                /\ i > 1 => route[n][p.circ] # None

\* The circuits are the channel of Channel: the exit deals with no request
\* twice, and no more than one answer to it, nor one that the exit has not
\* given, is accepted, across lost, racing and re-made connections.
Requested == {r \in Requests : r[2] <= step[r[1]]}
AsChannel == INSTANCE Channel WITH asked <- Requested
ImplementsChannel == AsChannel!Spec

\* Some packet of the request is on an open connection, and is not waiting
\* for a page's search to end.
Travels(r) ==
    \E k \in up, n \in Nodes : \E j \in 1..Len(wire[k][n]) :
       LET p == wire[k][n][j]
       IN  <<p.circ, p.nr>> = r /\ p.kind # "search"

\* The ways out and back of a circuit are open.
Sound(c) ==
    /\ dc[c] \in up
    /\ \A i \in {1, 2} : peer[Path[c][i]][Path[c][i + 1]] \in up
    /\ \A i \in Places : route[Path[c][i]][c] \in up \cup {None}

\* A test, or a reply, under way on a circuit whose ways are open is answered,
\* unless a connection breaks, a peer is deleted or the client makes another
\* circuit.  A client that is its own exit (remined's getexit may name it) is
\* left out: as a relay of its own circuit it sends its replies round for ever.
ReplyComes ==
    \A r \in Requests, b \in 0..MaxBreaks :
       LET c == r[1]
           undisturbed == /\ Sound(c) /\ cur[Owner[c]] = c
                          /\ Cardinality(Broken) = b
       IN  (\A i \in Places : Path[c][i] # Owner[c]) =>
              (Travels(r) /\ undisturbed ~> answered[r] > 0 \/ ~undisturbed)

\* A relay on the circuit has a route over a broken connection, and no reader
\* is about to replace it.
DeadEnd(c) ==
    \E i \in Places :
       LET n == Path[c][i]
       IN  /\ route[n][c] \in Broken
           /\ \A k \in Links :
                 <<k, n>> \in racing => Head(wire[k][n]).circ # c

\* Routes outlive their connection (l1peer.go:126-132, client.go:80): a dead
\* end on a circuit's way back is there for good, though the connection be
\* made anew and requests arrive over it again, and replies are lost at it.
DeadEndIsFinal == [][\A c \in Circuits : DeadEnd(c) => DeadEnd(c)']_vars
=============================================================================
