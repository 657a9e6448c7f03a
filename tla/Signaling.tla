------------------------------ MODULE Signaling ------------------------------
(***************************************************************************)
(* How two clients come to have a connection: newL1Peer of l1peer.go,      *)
(* AcceptOffer, AcceptAnswer and userlistHandler of client.go, SendPeer    *)
(* and FwdToTarget of server.go (package minedive).                        *)
(*                                                                         *)
(* newL1Peer makes an L1Peer with a webrtc connection of its own.  As      *)
(* initiator it sends an offer first and enters the peer in L1Peers after; *)
(* the other client makes an L1Peer too, unless it has one of that name,   *)
(* and answers.  Offers and answers say who they are from, not which       *)
(* L1Peer they mean.  ws_loop starts a goroutine for each, so that they    *)
(* are dealt with in any order.                                            *)
(*                                                                         *)
(* Of webrtc it is modelled what the code relies on: the signalling state, *)
(* that a connection opens when each end has the other's description, that *)
(* it may break then, and the callbacks.                                   *)
(***************************************************************************)
EXTENDS Naturals, FiniteSets

CONSTANTS
    Clients,
    MaxPeers,   \* how many L1Peers are made in all
    Introduced, \* <<x, y>>: the server may tell x to wait for y's offer
    MaxCalls,   \* how often two clients are brought to connect in all
    None        \* no L1Peer

Peers == 1..MaxPeers

ASSUME BoundAssumption == MaxPeers \in Nat /\ MaxCalls \in Nat
ASSUME NoneAssumption == None \notin Peers

VARIABLES
    made,       \* how many L1Peers have been made
    of,         \* the client that made an L1Peer
    with,       \* p.Name: the client it is a connection to
    initiator,  \* the L1Peers made to offer
    adding,     \* the L1Peers that newL1Peer has not entered yet
    sig,        \* the signalling state: "new" is stable with no description
    remote,     \* the L1Peer whose description was set, or is to be
    conn,       \* the connection
    theirs,     \* p.dc is the other end's channel: OnDataChannel has run
    ending,     \* <<p, e>>: p is still to be told that its connection ended
    l1peers,    \* l1peers[x][y]: what x has in L1Peers for y
    cells,      \* offers, answers and userlists on their way
    calls,      \* how often two clients have been brought to connect
    crashed     \* the clients whose program has ended with a nil pointer

object == <<made, of, with, initiator>>
webrtc == <<sig, remote, conn, theirs, ending>>
vars == <<object, adding, webrtc, l1peers, cells, calls, crashed>>

Cells ==
    [type : {"offer", "answer"}, D0 : Clients, D1 : Clients, D2 : Peers]
       \cup [type : {"userlist"}, D0 : {"0", "1"}, to : Clients,
           user : Clients]

\* What a client is told of a connection: the failed state, and OnClose.
Endings == {"failed", "closed"}

TypeOK ==
    /\ made \in 0..MaxPeers
    /\ of \in [Peers -> Clients \cup {None}]
    /\ with \in [Peers -> Clients \cup {None}]
    /\ initiator \subseteq Peers /\ adding \subseteq Peers
    /\ sig \in [Peers -> {"new", "have-local-offer", "stable"}]
    /\ remote \in [Peers -> Peers \cup {None}]
    /\ conn \in [Peers -> {"new", "open", "ended"}]
    /\ theirs \subseteq Peers
    /\ ending \subseteq Peers \X Endings
    /\ l1peers \in [Clients -> [Clients -> Peers \cup {None}]]
    /\ cells \subseteq Cells
    /\ calls \in 0..MaxCalls
    /\ crashed \subseteq Clients

Init ==
    /\ made = 0
    /\ of = [p \in Peers |-> None] /\ with = [p \in Peers |-> None]
    /\ initiator = {} /\ adding = {}
    /\ sig = [p \in Peers |-> "new"] /\ remote = [p \in Peers |-> None]
    /\ conn = [p \in Peers |-> "new"]
    /\ theirs = {} /\ ending = {}
    /\ l1peers = [x \in Clients |-> [y \in Clients |-> None]]
    /\ cells = {} /\ calls = 0 /\ crashed = {}

-----------------------------------------------------------------------------
Offer(p) ==
    [type |-> "offer", D0 |-> of'[p], D1 |-> with'[p], D2 |-> p]
Answer(p) ==
    [type |-> "answer", D0 |-> of[p], D1 |-> with[p], D2 |-> p]
Userlist(d0, to, user) ==
    [type |-> "userlist", D0 |-> d0, to |-> to, user |-> user]

\* FwdToTarget: a cell for a client that is gone is dropped.
Forwarded(cs) == {m \in cs : m.D1 \notin crashed}

\* Bound: there is an L1Peer left for every offer.
Room(n) ==
    made + n + Cardinality({m \in cells : m.type = "offer"}) <= MaxPeers

\* new(L1Peer) at x, with y's name.
New(p, x, y) ==
    /\ p = made + 1 /\ p \in Peers
    /\ made' = p
    /\ of' = [of EXCEPT ![p] = x] /\ with' = [with EXCEPT ![p] = y]
    /\ adding' = adding \cup {p}

\* newL1Peer as initiator: the offer is sent.
Dial(p, x, y) ==
    /\ Room(2)
    /\ New(p, x, y)
    /\ initiator' = initiator \cup {p}
    /\ sig' = [sig EXCEPT ![p] = "have-local-offer"]

\* The server has named y as x's guard, or a circuit's message says connect:
\* that it is no peer yet is only asked in the second case.
Connect(p, x, y) ==
    /\ x # y /\ x \notin crashed /\ calls < MaxCalls
    /\ Dial(p, x, y)
    /\ calls' = calls + 1
    /\ cells' = cells \cup Forwarded({Offer(p)})
    /\ UNCHANGED <<remote, conn, theirs, ending, l1peers, crashed>>

\* SendPeer: x is to wait for y, and y to offer.
SendPeer(x, y) ==
    /\ <<x, y>> \in Introduced
    /\ x # y /\ {x, y} \cap crashed = {} /\ calls < MaxCalls
    /\ calls' = calls + 1
    /\ cells' = cells \cup {Userlist("0", x, y), Userlist("1", y, x)}
    /\ UNCHANGED <<object, adding, webrtc, l1peers, crashed>>

\* userlistHandler, if the other is not a peer yet.  (Else nothing is done.)
UserlistWait(p, x, y) ==
    /\ Userlist("0", x, y) \in cells /\ x \notin crashed
    /\ l1peers[x][y] = None
    /\ Room(1)
    /\ New(p, x, y)
    /\ cells' = cells \ {Userlist("0", x, y)}
    /\ UNCHANGED <<initiator, webrtc, l1peers, calls, crashed>>

UserlistOffer(p, x, y) ==
    /\ Userlist("1", x, y) \in cells /\ x \notin crashed
    /\ l1peers[x][y] = None
    /\ Dial(p, x, y)
    /\ cells' = (cells \ {Userlist("1", x, y)}) \cup Forwarded({Offer(p)})
    /\ UNCHANGED <<remote, conn, theirs, ending, l1peers, calls, crashed>>

UserlistKnown(m) ==
    /\ m \in cells /\ m.type = "userlist" /\ m.to \notin crashed
    /\ l1peers[m.to][m.user] # None
    /\ cells' = cells \ {m}
    /\ UNCHANGED <<object, adding, webrtc, l1peers, calls, crashed>>

\* Mutant: AddPeer replaces the peer it finds.
AddAnyway(p) ==
    /\ p \in adding /\ of[p] \notin crashed /\ remote[p] = None
    /\ adding' = adding \ {p}
    /\ l1peers' = [l1peers EXCEPT ![of[p]][with[p]] = p]
    /\ UNCHANGED <<object, webrtc, cells, calls, crashed>>

\* AddPeer at the end of newL1Peer: a peer of that name is left in place.
Entered(p) ==
    IF l1peers[of[p]][with[p]] = None
    THEN [l1peers EXCEPT ![of[p]][with[p]] = p]
    ELSE l1peers

Add(p) ==
    /\ p \in adding /\ of[p] \notin crashed /\ remote[p] = None
    /\ adding' = adding \ {p}
    /\ l1peers' = Entered(p)
    /\ UNCHANGED <<object, webrtc, cells, calls, crashed>>

-----------------------------------------------------------------------------
(* AcceptOffer at x.                                                       *)

Offered(m, x) ==
    m \in cells /\ m.type = "offer" /\ m.D1 = x /\ x \notin crashed

\* There is no peer of that name: newL1Peer makes one.
AcceptNew(m, p) ==
    /\ Offered(m, m.D1)
    /\ l1peers[m.D1][m.D0] = None
    /\ New(p, m.D1, m.D0)
    /\ remote' = [remote EXCEPT ![p] = m.D2]
    /\ cells' = cells \ {m}
    /\ UNCHANGED <<initiator, sig, conn, theirs, ending, l1peers, calls,
                   crashed>>

\* Mutant: ICE counts as finished already, and no answer goes out.
AcceptMadeSilent(p) ==
    /\ p \in adding /\ of[p] \notin crashed /\ remote[p] # None
    /\ adding' = adding \ {p}
    /\ l1peers' = Entered(p)
    /\ sig' = [sig EXCEPT ![p] = "stable"]
    /\ UNCHANGED <<object, remote, conn, theirs, ending, cells, calls,
                   crashed>>

\* ... and enters it, whatever has been entered since; on the one it made it
\* sets the description, and the answer goes out when ICE is finished.
AcceptMade(p) ==
    /\ p \in adding /\ of[p] \notin crashed /\ remote[p] # None
    /\ adding' = adding \ {p}
    /\ l1peers' = Entered(p)
    /\ sig' = [sig EXCEPT ![p] = "stable"]
    /\ cells' = cells \cup Forwarded({Answer(p)})
    /\ UNCHANGED <<object, remote, conn, theirs, ending, calls, crashed>>

\* Mutant: the answer is not made the local description.
AcceptWaitingRemote(m) ==
    /\ Offered(m, m.D1)
    /\ LET p == l1peers[m.D1][m.D0]
       IN  /\ p # None /\ sig[p] = "new"
           /\ remote' = [remote EXCEPT ![p] = m.D2]
           /\ sig' = [sig EXCEPT ![p] = "have-remote-offer"]
           /\ cells' = (cells \ {m}) \cup Forwarded({Answer(p)})
    /\ UNCHANGED <<object, adding, conn, theirs, ending, l1peers, calls,
                   crashed>>

\* There is one that waits for an offer, by SendPeer: it answers.
AcceptWaiting(m) ==
    /\ Offered(m, m.D1)
    /\ LET p == l1peers[m.D1][m.D0]
       IN  /\ p # None /\ sig[p] = "new"
           /\ remote' = [remote EXCEPT ![p] = m.D2]
           /\ sig' = [sig EXCEPT ![p] = "stable"]
           /\ cells' = (cells \ {m}) \cup Forwarded({Answer(p)})
    /\ UNCHANGED <<object, adding, conn, theirs, ending, l1peers, calls,
                   crashed>>

\* There is one that has made an offer itself: webrtc refuses the description,
\* and no answer is sent.
AcceptGlare(m) ==
    /\ Offered(m, m.D1)
    /\ LET p == l1peers[m.D1][m.D0]
       IN  p # None /\ sig[p] = "have-local-offer"
    /\ cells' = cells \ {m}
    /\ UNCHANGED <<object, adding, webrtc, l1peers, calls, crashed>>

\* The connection of p ends: the state goes to failed, and if the channel was
\* open OnClose is called.
Ended(p) ==
    /\ conn' = [conn EXCEPT ![p] = "ended"]
    /\ ending' = ending \cup {<<p, "failed">>, <<p, "closed">>}

\* There is one that has its descriptions: webrtc takes the offer for a new
\* one of the same connection, which may end it; iceFinished keeps the answer
\* from being sent.
AcceptAgain(m) ==
    /\ Offered(m, m.D1)
    /\ LET p == l1peers[m.D1][m.D0]
       IN  /\ p # None /\ sig[p] = "stable"
           /\ \/ UNCHANGED <<conn, ending>>
              \/ conn[p] = "open" /\ Ended(p)
    /\ cells' = cells \ {m}
    /\ UNCHANGED <<object, adding, sig, remote, theirs, l1peers, calls,
                   crashed>>

-----------------------------------------------------------------------------
(* AcceptAnswer.                                                           *)

Replied(m, x) ==
    m \in cells /\ m.type = "answer" /\ m.D1 = x /\ x \notin crashed

\* Mutant: the signalling state is not looked at.
AcceptAnswerAnyway(m) ==
    /\ Replied(m, m.D1)
    /\ LET p == l1peers[m.D1][m.D0]
       IN  /\ p # None
           /\ remote' = [remote EXCEPT ![p] = m.D2]
           /\ sig' = [sig EXCEPT ![p] = "stable"]
    /\ cells' = cells \ {m}
    /\ UNCHANGED <<object, adding, conn, theirs, ending, l1peers, calls,
                   crashed>>

\* The peer of that name waits for an answer: it takes this one.
AcceptAnswer(m) ==
    /\ Replied(m, m.D1)
    /\ LET p == l1peers[m.D1][m.D0]
       IN  /\ p # None /\ sig[p] = "have-local-offer"
           /\ remote' = [remote EXCEPT ![p] = m.D2]
           /\ sig' = [sig EXCEPT ![p] = "stable"]
    /\ cells' = cells \ {m}
    /\ UNCHANGED <<object, adding, conn, theirs, ending, l1peers, calls,
                   crashed>>

\* It does not: skipped.
SkipAnswer(m) ==
    /\ Replied(m, m.D1)
    /\ LET p == l1peers[m.D1][m.D0]
       IN  p # None /\ sig[p] # "have-local-offer"
    /\ cells' = cells \ {m}
    /\ UNCHANGED <<object, adding, webrtc, l1peers, calls, crashed>>

\* There is none: p.SDP is written before ok is looked at, through a nil
\* pointer, and the program ends.  Its connections end too, some time.
AnswerUnknown(m) ==
    /\ Replied(m, m.D1)
    /\ l1peers[m.D1][m.D0] = None
    /\ crashed' = crashed \cup {m.D1}
    /\ cells' = cells \ {m}
    /\ UNCHANGED <<object, adding, webrtc, l1peers, calls>>

-----------------------------------------------------------------------------
(* webrtc.                                                                 *)

\* Each has the other's description: the connection opens.
Open(p) ==
    /\ sig[p] = "stable" /\ conn[p] = "new"
    /\ LET q == remote[p]
       IN  /\ remote[q] = p /\ sig[q] = "stable" /\ conn[q] = "new"
           /\ {of[p], of[q]} \cap crashed = {}
           /\ conn' = [conn EXCEPT ![p] = "open", ![q] = "open"]
    /\ UNCHANGED <<object, adding, sig, remote, theirs, ending, l1peers, cells,
                   calls, crashed>>

\* OnDataChannel: p.dc becomes the channel that the other end has made.  What
\* is sent before, on the own one, reaches nobody: the other end listens on
\* its own channel only.
OnDataChannel(p) ==
    /\ conn[p] = "open" /\ p \notin theirs
    /\ theirs' = theirs \cup {p}
    /\ UNCHANGED <<object, adding, sig, remote, conn, ending, l1peers, cells,
                   calls, crashed>>

\* The two ends cannot reach each other, or are not each other's.
Fail(p) ==
    /\ sig[p] = "stable" /\ conn[p] = "new"
    /\ conn' = [conn EXCEPT ![p] = "ended"]
    /\ ending' = ending \cup {<<p, "failed">>}
    /\ UNCHANGED <<object, adding, sig, remote, theirs, l1peers, cells, calls,
                   crashed>>

\* A connection that was open ends.
Break(p) ==
    /\ conn[p] = "open"
    /\ Ended(p)
    /\ UNCHANGED <<object, adding, sig, remote, theirs, l1peers, cells, calls,
                   crashed>>

\* Mutant: the peer is looked up under its alias.
ForgetAlias(p, e) ==
    /\ <<p, e>> \in ending
    /\ ending' = ending \ {<<p, e>>}
    /\ UNCHANGED <<object, adding, sig, remote, conn, theirs, l1peers, cells,
                   calls, crashed>>

\* OnClose, and DeletePeer on failed: the entry goes, by name.
Forget(p, e) ==
    /\ <<p, e>> \in ending
    /\ ending' = ending \ {<<p, e>>}
    /\ l1peers' = [l1peers EXCEPT ![of[p]][with[p]] = None]
    /\ UNCHANGED <<object, adding, sig, remote, conn, theirs, cells, calls,
                   crashed>>

-----------------------------------------------------------------------------
\* What a goroutine does with a cell that ws_loop has read.
Handle(m) ==
    \/ \E p \in Peers : AcceptNew(m, p)
    \/ AcceptWaiting(m) \/ AcceptGlare(m) \/ AcceptAgain(m)
    \/ AcceptAnswer(m) \/ SkipAnswer(m) \/ AnswerUnknown(m)
    \/ UserlistKnown(m)

Progress(p) ==
    Add(p) \/ AcceptMade(p) \/ Open(p) \/ OnDataChannel(p)
       \/ \E e \in Endings : Forget(p, e)

Next ==
    \/ \E p \in Peers, x, y \in Clients :
          Connect(p, x, y) \/ UserlistWait(p, x, y) \/ UserlistOffer(p, x, y)
    \/ \E x, y \in Clients : SendPeer(x, y)
    \/ \E m \in cells : Handle(m)
    \/ \E p \in Peers : Progress(p) \/ Fail(p) \/ Break(p)

Spec == Init /\ [][Next]_vars

\* What the clients' goroutines and webrtc do by themselves.
Run == (\E m \in cells : Handle(m)) \/ (\E p \in Peers : Progress(p))

\* Goroutines run, webrtc opens what it can and calls back.
FairSpec == Spec /\ WF_vars(Run)

-----------------------------------------------------------------------------
(* What can be relied on.                                                  *)

Same(p, q) == of[p] = of[q] /\ with[p] = with[q]

\* The ends of an open connection are L1Peers that the two clients have made
\* for each other, one to offer and one to answer (client.go:103-153), though
\* cells only name clients and several offers may be under way.
Matched ==
    \A p \in Peers : conn[p] = "open" =>
       LET q == remote[p]
       IN  /\ q \in Peers
           /\ remote[q] = p /\ of[q] = with[p] /\ with[q] = of[p]
           /\ (p \in initiator) # (q \in initiator)

\* An open connection is missing from L1Peers only if its client has made
\* another L1Peer of that name: one that ended and was deleted by name later
\* (l1peer.go:407-431), or, at the answering end, one that was entered between
\* the look-up and AddPeer (client.go:107-110).
Listed ==
    \A p \in Peers : conn[p] = "open" /\ l1peers[of[p]][with[p]] # p =>
       \E q \in Peers \ {p} :
          Same(p, q) /\ (conn[q] = "ended" \/ p \notin initiator)

\* p has offered, and nothing disturbs it: neither program has crashed, p has
\* not ended, and the two clients have no other L1Peer of each other but those
\* that p's offer is for.
Alone(p) ==
    /\ p \in initiator /\ conn[p] # "ended" /\ crashed = {}
    /\ \A q \in 1..made \ {p} :
          /\ ~Same(p, q)
          /\ (of[q] = with[p] /\ with[q] = of[p]) =>
                /\ conn[q] # "ended" /\ q \notin initiator
                /\ remote[q] \in {p, None}

\* A dial that is alone connects: each end comes to send on the other's channel
\* (l1peer.go:440-466), and what is sent before both do is lost (circuit.go:267
\* takes the channel p.dc was before, if it comes early).
LoneDialConnects ==
    \A p \in Peers :
       Alone(p) ~> {p, remote[p]} \subseteq theirs \/ ~Alone(p)

\* A connection that has ended does not stay in L1Peers: while it is there, one
\* of its callbacks has yet to run and delete it (l1peer.go:407-431).
EndedForgotten ==
    \A p \in Peers, x, y \in Clients :
       conn[p] = "ended" /\ l1peers[x][y] = p =>
          \E e \in Endings : <<p, e>> \in ending

\* "peer", target, "NOT FOUND" and return (client.go:135-138): an answer from
\* nobody known is ignored.
UnknownIgnored == crashed = {}
=============================================================================
