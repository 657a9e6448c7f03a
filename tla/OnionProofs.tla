----------------------------- MODULE OnionProofs -----------------------------
(***************************************************************************)
(* Proofs about Onion, for any nodes, circuits, paths and numbers of       *)
(* connections: the variables keep their types, a route leads to the       *)
(* client before the relay on the path, and a reply under way is on its    *)
(* way to a client that can pass it on or has asked for it.                *)
(***************************************************************************)
EXTENDS Onion, TLAPS

USE PathAssumption, BoundAssumption, NoneAssumption

Wires == [Links -> [Nodes -> Seq(Packets)]]

\* p is one of the packets on their way over k to n.
On(w, k, n, p) == \E j \in 1..Len(w[k][n]) : w[k][n][j] = p

-----------------------------------------------------------------------------
(* The operators that change wire.                                         *)

\* A packet that is read leaves its wire, and nothing comes instead.
LEMMA TakenFacts ==
  ASSUME wire \in Wires, NEW k \in Links, NEW n \in Nodes, wire[k][n] # << >>
  PROVE  /\ Taken(k, n) \in Wires
         /\ Head(wire[k][n]) \in Packets /\ On(wire, k, n, Head(wire[k][n]))
         /\ \A i \in Links, m \in Nodes, p \in Packets :
               On(Taken(k, n), i, m, p) => On(wire, i, m, p)
<1> DEFINE s == wire[k][n]
<1>1. s \in Seq(Packets) /\ s # << >>
  BY DEF Wires
<1>2. /\ Tail(s) \in Seq(Packets) /\ Len(Tail(s)) = Len(s) - 1
      /\ Len(s) \in Nat /\ Len(s) > 0
      /\ \A j \in 1..Len(Tail(s)) : Tail(s)[j] = s[j + 1]
  BY <1>1
<1>3. Head(s) = s[1] /\ s[1] \in Packets
  BY <1>1
<1>4. On(wire, k, n, Head(s))
  BY <1>2, <1>3 DEF On
<1>5. Taken(k, n) = [wire EXCEPT ![k][n] = Tail(s)]
  BY DEF Taken, Wires
<1>6. Taken(k, n) \in Wires
  BY <1>2, <1>5 DEF Wires
<1>7. ASSUME NEW i \in Links, NEW m \in Nodes, NEW p \in Packets,
             On(Taken(k, n), i, m, p)
      PROVE  On(wire, i, m, p)
  <2>1. CASE i = k /\ m = n
    <3>1. Taken(k, n)[i][m] = Tail(s)
      BY <1>5, <2>1 DEF Wires
    <3>2. PICK j \in 1..Len(Tail(s)) : Tail(s)[j] = p
      BY <3>1, <1>7 DEF On
    <3>3. j + 1 \in 1..Len(s) /\ s[j + 1] = p
      BY <3>2, <1>2
    <3> QED
      BY <3>3, <2>1 DEF On
  <2>2. CASE ~(i = k /\ m = n)
    BY <2>2, <1>5, <1>7 DEF On, Wires
  <2> QED
    BY <2>1, <2>2
<1> QED
  BY <1>3, <1>4, <1>6, <1>7

\* A packet that is sent is added to the wire it is sent over, if that is open.
LEMMA SentFacts ==
  ASSUME NEW w \in Wires, up \subseteq Links, NEW k, NEW m \in Nodes,
         NEW q \in Packets
  PROVE  /\ Sent(w, k, m, q) \in Wires
         /\ \A i \in Links, n \in Nodes, p \in Packets :
               On(Sent(w, k, m, q), i, n, p) =>
                  On(w, i, n, p) \/ (k \in up /\ i = k /\ n = m /\ p = q)
<1>1. CASE k \notin up
  BY <1>1 DEF Sent
<1>2. CASE k \in up
  <2> DEFINE s == w[k][m]
             t == Append(s, q)
  <2>1. k \in Links /\ s \in Seq(Packets)
    BY <1>2 DEF Wires
  <2>2. /\ t \in Seq(Packets) /\ Len(t) = Len(s) + 1 /\ Len(s) \in Nat
        /\ t[Len(s) + 1] = q /\ \A j \in 1..Len(s) : t[j] = s[j]
    BY <2>1
  <2>3. Sent(w, k, m, q) = [w EXCEPT ![k][m] = t]
    BY <1>2 DEF Sent
  <2>4. Sent(w, k, m, q) \in Wires
    BY <2>1, <2>2, <2>3 DEF Wires
  <2>5. ASSUME NEW i \in Links, NEW n \in Nodes, NEW p \in Packets,
               On(Sent(w, k, m, q), i, n, p)
        PROVE  On(w, i, n, p) \/ (k \in up /\ i = k /\ n = m /\ p = q)
    <3>1. CASE i = k /\ n = m
      <4>1. Sent(w, k, m, q)[i][n] = t
        BY <2>1, <2>3, <3>1 DEF Wires
      <4>2. PICK j \in 1..Len(t) : t[j] = p
        BY <4>1, <2>5 DEF On
      <4> QED
        BY <4>2, <2>2, <3>1, <1>2 DEF On
    <3>2. CASE ~(i = k /\ n = m)
      BY <3>2, <2>1, <2>3, <2>5 DEF On, Wires
    <3> QED
      BY <3>1, <3>2
  <2> QED
    BY <2>4, <2>5
<1> QED
  BY <1>1, <1>2

\* A packet that is lost is the last one on its wire.
LEMMA LostFacts ==
  ASSUME wire \in Wires, NEW k \in Links, NEW n \in Nodes, wire[k][n] # << >>,
         NEW w, w = [wire EXCEPT ![k][n] = Front(@)]
  PROVE  /\ w \in Wires
         /\ \A i \in Links, m \in Nodes, p \in Packets :
               On(w, i, m, p) => On(wire, i, m, p)
<1> DEFINE s == wire[k][n]
<1>1. s \in Seq(Packets) /\ s # << >>
  BY DEF Wires
<1>2. /\ Front(s) \in Seq(Packets) /\ Len(Front(s)) = Len(s) - 1
      /\ Len(s) \in Nat /\ Len(s) > 0
      /\ \A j \in 1..Len(Front(s)) : Front(s)[j] = s[j]
  BY <1>1 DEF Front
<1>3. w = [wire EXCEPT ![k][n] = Front(s)]
  BY DEF Wires
<1>4. w \in Wires
  BY <1>2, <1>3 DEF Wires
<1>5. ASSUME NEW i \in Links, NEW m \in Nodes, NEW p \in Packets,
             On(w, i, m, p)
      PROVE  On(wire, i, m, p)
  <2>1. CASE i = k /\ m = n
    <3>1. w[i][m] = Front(s)
      BY <1>3, <2>1 DEF Wires
    <3>2. PICK j \in 1..Len(Front(s)) : Front(s)[j] = p
      BY <3>1, <1>5 DEF On
    <3> QED
      BY <3>2, <1>2, <2>1, SMTT(30) DEF On
  <2>2. CASE ~(i = k /\ m = n)
    BY <2>2, <1>3, <1>5 DEF On, Wires
  <2> QED
    BY <2>1, <2>2
<1> QED
  BY <1>4, <1>5

-----------------------------------------------------------------------------
(* The invariant.                                                          *)

\* L1Peers, and the channel that a circuit has kept of one, are connections
\* to the client they are listed for.
PeerEnds == \A n, m \in Nodes : peer[n][m] # None => ends[peer[n][m]] = {n, m}
DcEnds ==
    \A c \in Circuits : dc[c] # None => ends[dc[c]] = {Owner[c], Path[c][1]}

\* A packet on its way out is where its path leads, and the relay it has come
\* from has a route; a reply is what Homeward says.
Outward(k, n, p) ==
    /\ n = Path[p.circ][p.at] /\ ends[k] = {n, Before(p.circ, p.at)}
    /\ p.kind = "connect" <=> p.nr < 4
    /\ p.at > 1 => route[Before(p.circ, p.at)][p.circ] # None

Returning(k, n, p) ==
    /\ p.nr > 3
    /\ \E i \in Places : /\ n = Before(p.circ, i)
                         /\ ends[k] = {n, Path[p.circ][i]}
                         /\ i > 1 => route[n][p.circ] # None

Good(k, n, p) ==
    /\ p.nr \in 2..MaxSteps[p.circ] /\ p.nr <= step[p.circ]
    /\ p.type = "enc" => Outward(k, n, p)
    /\ p.type = "encrep" => Returning(k, n, p)

WireGood ==
    \A k \in Links, n \in Nodes, p \in Packets :
       On(wire, k, n, p) => Good(k, n, p)

\* What the exit works on, and what makes a circuit OK, has been sent.
WorkSent == \A r \in work : r[2] <= step[r[1]]
OkTested == \A c \in Circuits : ok[c] => step[c] > 3

\* A relay that has a route has been reached through the one before, which
\* has one too.
Chain ==
    \A c \in Circuits, i \in {2, 3} :
       route[Path[c][i]][c] # None => route[Path[c][i - 1]][c] # None

IInv ==
    /\ TypeOK /\ RouteBack /\ Chain
    /\ PeerEnds /\ DcEnds /\ WireGood /\ WorkSent /\ OkTested

\* What no step takes back.
Grows ==
    /\ \A k \in Links : ends[k] # {} => ends'[k] = ends[k]
    /\ \A n \in Nodes, c \in Circuits :
          route[n][c] # None => route'[n][c] # None
    /\ \A c \in Circuits : step'[c] \in Nat /\ step'[c] >= step[c]

-----------------------------------------------------------------------------
(* Facts about paths and packets.                                          *)

LEMMA PathFacts ==
  ASSUME NEW c \in Circuits, NEW i \in Places
  PROVE  /\ Owner[c] \in Nodes /\ Path[c][i] \in Nodes
         /\ Before(c, i) \in Nodes
         /\ i > 1 => i - 1 \in Places /\ Before(c, i) = Path[c][i - 1]
         /\ i < 3 => i + 1 \in Places /\ Before(c, i + 1) = Path[c][i]
  BY DEF Before, Places

LEMMA PacketFacts ==
  ASSUME NEW p \in Packets
  PROVE  /\ p.circ \in Circuits /\ p.nr \in Nat
         /\ p.type \in {"enc", "encrep"}
         /\ p.type = "enc" => p.at \in Places
         /\ p.type = "encrep" => p.kind \in {"test2", "respv2"}
  BY DEF Packets

LEMMA EncFacts ==
  ASSUME NEW c \in Circuits, NEW nr \in Nat, NEW i \in Places,
         NEW kind \in {"connect", "test", "search"}
  PROVE  LET p == Enc(c, nr, kind, i)
         IN  /\ p \in Packets
             /\ p.circ = c /\ p.nr = nr /\ p.at = i /\ p.kind = kind
             /\ p.type = "enc"
  BY DEF Enc, Packets

LEMMA EncrepFacts ==
  ASSUME NEW r, r[1] \in Circuits, r[2] \in Nat,
         NEW kind \in {"test2", "respv2"}
  PROVE  LET p == Encrep(r, kind)
         IN  /\ p \in Packets
             /\ p.circ = r[1] /\ p.nr = r[2] /\ p.kind = kind
             /\ p.type = "encrep"
  BY DEF Encrep, Packets

\* The other end of a connection between two clients.
LEMMA OtherFacts ==
  ASSUME NEW k, NEW n \in Nodes, NEW m \in Nodes, ends[k] = {n, m}
  PROVE  Other(k, n) = m
<1>1. ASSUME NEW j \in Nodes, ends[k] = {n, j}
      PROVE  j = m
  <2>1. m \in {n, j} /\ j \in {n, m}
    BY <1>1
  <2> QED
    BY <2>1
<1> QED
  BY <1>1 DEF Other

LEMMA RequestFacts ==
  ASSUME NEW c \in Circuits, NEW nr \in 4..MaxSteps[c]
  PROVE  <<c, nr>> \in Requests
  BY DEF Requests

LEMMA RequestParts ==
  ASSUME NEW r \in Requests
  PROVE  r[1] \in Circuits /\ r[2] \in 4..MaxSteps[r[1]] /\ r[2] \in Nat
  BY DEF Requests

-----------------------------------------------------------------------------
(* Steps that take nothing back.                                           *)

LEMMA StillGood ==
  ASSUME TypeOK, Grows, NEW k \in Links, NEW n \in Nodes, NEW p \in Packets,
         Good(k, n, p)
  PROVE  Good(k, n, p)'
<1>1. /\ p.circ \in Circuits /\ p.nr \in Nat
      /\ p.type = "enc" => p.at \in Places
  BY PacketFacts
<1>2. step[p.circ] \in Nat /\ step'[p.circ] >= step[p.circ]
  BY <1>1 DEF TypeOK, Grows
<1>3. ASSUME p.type = "enc"
      PROVE  Outward(k, n, p)'
  <2>1. Outward(k, n, p) /\ Before(p.circ, p.at) \in Nodes
    BY <1>1, <1>3, PathFacts DEF Good
  <2>2. ends'[k] = ends[k]
    BY <2>1 DEF Outward, Grows
  <2> QED
    BY <1>1, <2>1, <2>2 DEF Outward, Grows, Before
<1>4. ASSUME p.type = "encrep"
      PROVE  Returning(k, n, p)'
  <2>1. PICK i \in Places : /\ n = Before(p.circ, i)
                            /\ ends[k] = {n, Path[p.circ][i]}
                            /\ i > 1 => route[n][p.circ] # None
    BY <1>4 DEF Good, Returning
  <2>2. ends'[k] = ends[k]
    BY <2>1 DEF Grows
  <2>3. i > 1 => route'[n][p.circ] # None
    BY <1>1, <2>1 DEF Grows
  <2>4. p.nr > 3
    BY <1>4 DEF Good, Returning
  <2> QED
    BY <2>1, <2>2, <2>3, <2>4 DEF Returning, Before
<1> QED
  BY <1>1, <1>2, <1>3, <1>4 DEF Good, Grows

LEMMA WireStep ==
  ASSUME TypeOK, WireGood, Grows,
         \A k \in Links, n \in Nodes, p \in Packets :
            On(wire', k, n, p) => On(wire, k, n, p) \/ Good(k, n, p)'
  PROVE  WireGood'
<1> SUFFICES ASSUME NEW k \in Links, NEW n \in Nodes, NEW p \in Packets,
                    On(wire', k, n, p)
             PROVE  Good(k, n, p)'
  BY DEF WireGood, On
<1> QED
  BY StillGood DEF WireGood

\* Routes that are as they were still lead back.
LEMMA RoutesStay ==
  ASSUME TypeOK, RouteBack, Chain, Grows, route' = route
  PROVE  RouteBack' /\ Chain'
<1>1. ASSUME NEW n \in Nodes, NEW c \in Circuits, route[n][c] # None
      PROVE  \E i \in Places : /\ Path[c][i] = n
                               /\ ends'[route[n][c]] = {n, Before(c, i)}
  <2>1. PICK i \in Places : /\ Path[c][i] = n
                            /\ ends[route[n][c]] = {n, Before(c, i)}
    BY <1>1, ZenonT(60) DEF RouteBack
  <2>2. route[n][c] \in Links
    BY <1>1 DEF TypeOK
  <2>3. {n, Before(c, i)} # {}
    OBVIOUS
  <2> QED
    BY <2>1, <2>2, <2>3 DEF Grows
<1>2. RouteBack'
  <2> SUFFICES ASSUME NEW n \in Nodes, NEW c \in Circuits, route'[n][c] # None
               PROVE  \E i \in Places :
                         /\ Path[c][i] = n
                         /\ ends'[route'[n][c]] = {n, Before(c, i)}
    BY DEF RouteBack, Before
  <2>1. route'[n][c] = route[n][c]
    OBVIOUS
  <2>2. \E i \in Places : /\ Path[c][i] = n
                         /\ ends'[route[n][c]] = {n, Before(c, i)}
    BY <1>1, <2>1, ZenonT(60)
  <2> QED
    BY <2>1, <2>2, Zenon
<1> QED
  BY <1>2 DEF Chain

\* So do connections that are as they were.
LEMMA EndsStay ==
  ASSUME TypeOK, PeerEnds, DcEnds, Grows
  PROVE  /\ \A n, m \in Nodes :
               peer[n][m] # None => ends'[peer[n][m]] = {n, m}
         /\ \A c \in Circuits :
               dc[c] # None => ends'[dc[c]] = {Owner[c], Path[c][1]}
<1>1. ASSUME NEW n \in Nodes, NEW m \in Nodes, peer[n][m] # None
      PROVE  ends'[peer[n][m]] = {n, m}
  <2>1. peer[n][m] \in Links
    BY <1>1 DEF TypeOK
  <2>2. ends[peer[n][m]] = {n, m} /\ {n, m} # {}
    BY <1>1 DEF PeerEnds
  <2> QED
    BY <2>1, <2>2 DEF Grows
<1>2. ASSUME NEW c \in Circuits, dc[c] # None
      PROVE  ends'[dc[c]] = {Owner[c], Path[c][1]}
  <2>1. dc[c] \in Links
    BY <1>2 DEF TypeOK
  <2>2. ends[dc[c]] = {Owner[c], Path[c][1]} /\ ends[dc[c]] # {}
    BY <1>2 DEF DcEnds
  <2> QED
    BY <2>1, <2>2 DEF Grows
<1> QED
  BY <1>1, <1>2
-----------------------------------------------------------------------------
(* The client's steps.                                                     *)

LEMMA BeginStep ==
  ASSUME IInv, NEW c \in Circuits, Begin(c)
  PROVE  IInv'
<1>1. TypeOK'
  BY PathFacts, SMTT(30) DEF IInv, TypeOK, Begin, Places
<1>2. Grows
  BY DEF IInv, TypeOK, Begin, Grows
<1>3. RouteBack' /\ Chain'
  BY <1>2, RoutesStay DEF IInv, Begin
<1>4. PeerEnds' /\ DcEnds'
  BY <1>2, EndsStay, ZenonT(60) DEF IInv, Begin, PeerEnds, DcEnds
<1>5. WireGood'
  BY <1>2, WireStep DEF IInv, Begin, On
<1>6. WorkSent'
  BY <1>2, RequestParts DEF IInv, TypeOK, Begin, WorkSent, Grows
<1>7. OkTested'
  BY <1>2 DEF IInv, TypeOK, Begin, OkTested, Grows
<1> QED
  BY <1>1, <1>3, <1>4, <1>5, <1>6, <1>7 DEF IInv

\* A message of a circuit leaves over a connection to its guard, if any.
LEMMA EmitStep ==
  ASSUME IInv, NEW c \in Circuits, NEW k \in Links \cup {None},
         NEW kind \in {"connect", "test", "search"},
         k # None => ends[k] = {Owner[c], Path[c][1]},
         step[c] > 0, kind = "connect" <=> step[c] < 3,
         dc' = dc \/ dc' = [dc EXCEPT ![c] = k], Emit(c, k, kind)
  PROVE  IInv'
<1> DEFINE g == Path[c][1]
<1> PICK q : q = Enc(c, step[c] + 1, kind, 1)
  OBVIOUS
<1>1. step[c] \in Nat /\ MaxSteps[c] \in Nat /\ step[c] < MaxSteps[c]
      /\ 1 \in Places /\ g \in Nodes /\ Before(c, 1) = Owner[c]
  BY PathFacts DEF IInv, TypeOK, Emit, Places, Before
<1>2. /\ q \in Packets /\ q.circ = c /\ q.nr = step[c] + 1 /\ q.at = 1
      /\ q.kind = kind /\ q.type = "enc"
  <2>1. step[c] + 1 \in Nat
    BY <1>1
  <2> QED
    BY <1>1, <2>1, EncFacts
<1>3. wire' = Sent(wire, k, g, q) /\ step' = [step EXCEPT ![c] = @ + 1]
  BY DEF Emit
<1>4. /\ wire' \in Wires
      /\ \A i \in Links, n \in Nodes, p \in Packets :
            On(wire', i, n, p) =>
               On(wire, i, n, p) \/ (k \in up /\ i = k /\ n = g /\ p = q)
  <2>1. wire \in Wires /\ up \subseteq Links
    BY DEF IInv, TypeOK, Wires
  <2> QED
    BY <1>1, <1>2, <1>3, <2>1, SentFacts, SMTT(30)
<1>5. TypeOK'
  <2>1. dc' \in [Circuits -> Links \cup {None}]
    BY DEF IInv, TypeOK
  <2>2. step' \in [Circuits -> Nat]
    BY <1>1, <1>3 DEF IInv, TypeOK
  <2> QED
    BY <1>4, <2>1, <2>2 DEF IInv, TypeOK, Emit, links, Wires
<1>6. Grows
  BY <1>1, <1>3 DEF IInv, TypeOK, Emit, links, Grows
<1>7. RouteBack' /\ Chain'
  BY <1>6, RoutesStay DEF IInv, Emit
<1>8. PeerEnds' /\ DcEnds'
  <2>1. ends' = ends /\ peer' = peer
    BY DEF Emit, links
  <2> QED
    BY <2>1, ZenonT(60) DEF IInv, TypeOK, PeerEnds, DcEnds
<1>9. WireGood'
  <2>1. ASSUME k \in up
        PROVE  Good(k, g, q)'
    <3>1. ends'[k] = {g, Before(c, 1)}
      BY <1>1, <2>1 DEF IInv, TypeOK, Emit, links
    <3>2. q.nr \in 2..MaxSteps[c] /\ q.nr <= step'[c]
      BY <1>1, <1>2, <1>3 DEF IInv, TypeOK
    <3>3. q.kind = "connect" <=> q.nr < 4
      BY <1>1, <1>2
    <3>4. Outward(k, g, q)'
      BY <1>1, <1>2, <3>1, <3>3 DEF Outward, Before
    <3> QED
      BY <1>2, <3>2, <3>4 DEF Good
  <2> QED
    BY <1>4, <1>6, <2>1, WireStep DEF IInv
<1>10. WorkSent'
  BY <1>6, RequestParts, SMTT(30) DEF IInv, TypeOK, Emit, WorkSent, Grows
<1>11. OkTested'
  BY <1>6 DEF IInv, TypeOK, Emit, OkTested, Grows
<1> QED
  BY <1>5, <1>7, <1>8, <1>9, <1>10, <1>11 DEF IInv

LEMMA ClientStep ==
  ASSUME IInv, NEW c \in Circuits, Client(c)
  PROVE  IInv'
<1>1. /\ Owner[c] \in Nodes /\ Path[c][1] \in Nodes /\ step[c] \in Nat
      /\ dc[c] \in Links \cup {None}
      /\ dc[c] # None => ends[dc[c]] = {Owner[c], Path[c][1]}
  BY DEF IInv, TypeOK, DcEnds, Places
<1>2. CASE Begin(c)
  BY <1>2, BeginStep
<1>3. CASE TellGuard(c)
  <2> DEFINE k == peer[Owner[c]][Path[c][1]]
  <2>1. /\ k \in Links \cup {None}
        /\ k # None => ends[k] = {Owner[c], Path[c][1]}
    BY <1>1 DEF IInv, TypeOK, PeerEnds
  <2>2. step[c] > 0 /\ step[c] < 3 /\ Emit(c, k, "connect")
        /\ dc' = [dc EXCEPT ![c] = k]
    BY <1>3, <1>1 DEF TellGuard
  <2> QED
    BY <2>1, <2>2, EmitStep
<1>4. CASE TellBridge(c)
  <2>1. step[c] > 0 /\ step[c] < 3 /\ Emit(c, dc[c], "connect") /\ dc' = dc
    BY <1>4, <1>1 DEF TellBridge
  <2> QED
    BY <1>1, <2>1, EmitStep
<1>5. CASE SendTest(c)
  <2>1. step[c] > 0 /\ ~(step[c] < 3) /\ Emit(c, dc[c], "test") /\ dc' = dc
    BY <1>5, <1>1 DEF SendTest
  <2> QED
    BY <1>1, <2>1, EmitStep
<1>6. CASE Search(c)
  <2>1. step[c] > 3
    BY <1>6 DEF Search, IInv, OkTested
  <2>2. step[c] > 0 /\ ~(step[c] < 3) /\ Emit(c, dc[c], "search") /\ dc' = dc
    BY <1>6, <1>1, <2>1 DEF Search
  <2> QED
    BY <1>1, <2>2, EmitStep
<1> QED
  BY <1>2, <1>3, <1>4, <1>5, <1>6 DEF Client
-----------------------------------------------------------------------------
(* The relays' steps.                                                      *)

\* The packet at hand is where it should be.
LEMMA ArrivedFacts ==
  ASSUME IInv, NEW k \in Links, NEW n \in Nodes, wire[k][n] # << >>
  PROVE  /\ Head(wire[k][n]) \in Packets
         /\ Good(k, n, Head(wire[k][n]))
         /\ Taken(k, n) \in Wires
         /\ \A i \in Links, m \in Nodes, q \in Packets :
               On(Taken(k, n), i, m, q) => On(wire, i, m, q)
<1>1. wire \in Wires
  BY DEF IInv, TypeOK, Wires
<1> QED
  BY <1>1, TakenFacts DEF IInv, WireGood

\* A route that a reader records leads back, and the relay before has one.
LEMMA RecordedRoute ==
  ASSUME IInv, NEW k \in Links, NEW n \in Nodes, NEW p \in Packets,
         Good(k, n, p), p.type = "enc", Grows, ends' = ends,
         route' = [route EXCEPT ![n][p.circ] = k]
  PROVE  RouteBack' /\ Chain'
<1>1. /\ p.circ \in Circuits /\ p.at \in Places /\ n = Path[p.circ][p.at]
      /\ ends[k] = {n, Before(p.circ, p.at)}
      /\ p.at > 1 => route[Before(p.circ, p.at)][p.circ] # None
  BY PacketFacts DEF Good, Outward
<1>2. ASSUME NEW m \in Nodes, NEW c \in Circuits
      PROVE  route'[m][c] = IF m = n /\ c = p.circ THEN k ELSE route[m][c]
  BY <1>1 DEF IInv, TypeOK
<1>3. ASSUME NEW m \in Nodes, NEW c \in Circuits, route'[m][c] # None
      PROVE  \E i \in Places : /\ Path[c][i] = m
                               /\ ends[route'[m][c]] = {m, Before(c, i)}
  <2>1. CASE m = n /\ c = p.circ
    BY <1>1, <1>2, <2>1, SMTT(30)
  <2>2. CASE ~(m = n /\ c = p.circ)
    <3>1. route'[m][c] = route[m][c] /\ route[m][c] # None
      BY <1>2, <1>3, <2>2
    <3>2. \E i \in Places : /\ Path[c][i] = m
                            /\ ends[route[m][c]] = {m, Before(c, i)}
      <4>1. RouteBack
        BY DEF IInv
      <4> QED
        BY <3>1, <4>1, ZenonT(60) DEF RouteBack
    <3> QED
      BY <3>1, <3>2, Zenon
  <2> QED
    BY <2>1, <2>2
<1>4. RouteBack'
  <2> SUFFICES ASSUME NEW m \in Nodes, NEW c \in Circuits, route'[m][c] # None
               PROVE  \E i \in Places :
                         /\ Path[c][i] = m
                         /\ ends'[route'[m][c]] = {m, Before(c, i)}
    BY DEF RouteBack, Before
  <2>1. PICK i \in Places : /\ Path[c][i] = m
                            /\ ends[route'[m][c]] = {m, Before(c, i)}
    BY <1>3, ZenonT(60)
  <2> QED
    BY <2>1
<1>5. ASSUME NEW c \in Circuits, NEW i \in {2, 3}, route'[Path[c][i]][c] # None
      PROVE  route'[Path[c][i - 1]][c] # None
  <2>1. i \in Places /\ i - 1 \in Places /\ i > 1
        /\ Path[c][i] \in Nodes /\ Path[c][i - 1] \in Nodes
    BY PathFacts DEF Places
  <2>2. CASE Path[c][i] = n /\ c = p.circ
    <3>1. i = p.at
      BY <1>1, <2>1, <2>2
    <3>2. route[Path[c][i - 1]][c] # None
      BY <1>1, <2>1, <2>2, <3>1, PathFacts
    <3> QED
      BY <2>1, <3>2 DEF Grows
  <2>3. CASE ~(Path[c][i] = n /\ c = p.circ)
    <3>1. route[Path[c][i]][c] # None
      BY <1>2, <1>5, <2>1, <2>3
    <3> QED
      BY <2>1, <3>1 DEF IInv, Chain, Grows
  <2> QED
    BY <2>2, <2>3
<1>6. Chain'
  BY <1>5 DEF Chain
<1> QED
  BY <1>4, <1>6

\* What opening a layer leaves: routes lead back, and the relay has one.
LEMMA RoutedFacts ==
  ASSUME IInv, NEW k \in Links, NEW n \in Nodes, NEW p, p = Head(wire[k][n]),
         Routed(k, n), ends' = ends, step' = step
  PROVE  /\ p \in Packets /\ Good(k, n, p) /\ p.type = "enc"
         /\ p.circ \in Circuits /\ p.at \in Places
         /\ wire[k][n] # << >> /\ racing' \subseteq Links \X Nodes
         /\ route' \in [Nodes -> [Circuits -> Links \cup {None}]]
         /\ route'[n][p.circ] # None
         /\ Grows /\ RouteBack' /\ Chain'
<1>1. /\ p \in Packets /\ Good(k, n, p) /\ p.type = "enc"
      /\ p.circ \in Circuits /\ p.at \in Places /\ wire[k][n] # << >>
  BY ArrivedFacts, PacketFacts DEF Routed, Arrived
<1>2. racing' \subseteq Links \X Nodes
  BY DEF IInv, TypeOK, Routed
<1>3. CASE <<k, n>> \in racing
  <2>1. route' = [route EXCEPT ![n][p.circ] = k]
    BY <1>3 DEF Routed
  <2>2. /\ route' \in [Nodes -> [Circuits -> Links \cup {None}]]
        /\ route'[n][p.circ] # None
    BY <1>1, <2>1 DEF IInv, TypeOK
  <2>3. Grows
    BY <1>1, <2>1 DEF IInv, TypeOK, Grows
  <2> QED
    BY <1>1, <1>2, <2>1, <2>2, <2>3, RecordedRoute
<1>4. CASE <<k, n>> \notin racing
  <2>1. route' = route /\ route[n][p.circ] # None
    BY <1>4 DEF Routed
  <2>2. Grows
    BY <2>1 DEF IInv, TypeOK, Grows
  <2>3. RouteBack' /\ Chain'
    BY <2>1, <2>2, RoutesStay DEF IInv
  <2> QED
    BY <1>1, <1>2, <2>1, <2>2, <2>3 DEF IInv, TypeOK
<1> QED
  BY <1>3, <1>4

\* The rest of the invariant, when connections and peers are as they were.
LEMMA KeptFacts ==
  ASSUME IInv, ends' = ends, peer' = peer, dc' = dc
  PROVE  PeerEnds' /\ DcEnds'
  BY DEF IInv, PeerEnds, DcEnds

LEMMA SentStep ==
  ASSUME IInv, Grows, NEW w \in Wires,
         \A i \in Links, n \in Nodes, p \in Packets :
            On(w, i, n, p) => On(wire, i, n, p),
         NEW k, NEW m \in Nodes, NEW q \in Packets,
         k \in up => Good(k, m, q)', wire' = Sent(w, k, m, q)
  PROVE  wire' \in Wires /\ WireGood'
<1>1. up \subseteq Links
  BY DEF IInv, TypeOK
<1>2. /\ wire' \in Wires
      /\ \A i \in Links, n \in Nodes, p \in Packets :
            On(wire', i, n, p) =>
               On(w, i, n, p) \/ (k \in up /\ i = k /\ n = m /\ p = q)
  BY <1>1, SentFacts
<1>3. \A i \in Links, n \in Nodes, p \in Packets :
         On(wire', i, n, p) => On(wire, i, n, p) \/ Good(i, n, p)'
  BY <1>2
<1> QED
  BY <1>2, <1>3, WireStep DEF IInv

\* A reply that a relay sends over its route is on its way to a client that
\* has a route too, or has made the circuit.
LEMMA ReplyGood ==
  ASSUME IInv, Grows, ends' = ends, step' = step, RouteBack', Chain',
         NEW n \in Nodes, NEW p \in Packets, p.type = "encrep", p.nr > 3,
         p.nr \in 2..MaxSteps[p.circ], p.nr <= step[p.circ],
         route' \in [Nodes -> [Circuits -> Links \cup {None}]],
         NEW k, k = route'[n][p.circ], k # None, NEW m, m = Other(k, n)
  PROVE  k \in Links /\ m \in Nodes /\ Good(k, m, p)'
<1>1. p.circ \in Circuits /\ k \in Links
  BY PacketFacts
<1>2. PICK i \in Places : /\ Path[p.circ][i] = n
                          /\ ends[k] = {n, Before(p.circ, i)}
  <2>1. \A o \in Nodes, c \in Circuits :
           route'[o][c] # None =>
              \E i \in Places : /\ Path[c][i] = o
                                /\ ends'[route'[o][c]] = {o, Before(c, i)}
    BY DEF RouteBack, Before
  <2>2. route'[n][p.circ] # None
    OBVIOUS
  <2>3. PICK i \in Places :
           /\ Path[p.circ][i] = n
           /\ ends'[route'[n][p.circ]] = {n, Before(p.circ, i)}
    BY <1>1, <2>1, <2>2, ZenonT(60)
  <2> QED
    BY <2>3
<1>3. Before(p.circ, i) \in Nodes /\ m = Before(p.circ, i)
  <2>1. Before(p.circ, i) \in Nodes
    BY <1>1, PathFacts
  <2>2. Other(k, n) = Before(p.circ, i)
    <3>1. PICK o \in Nodes : o = Before(p.circ, i)
      BY <2>1
    <3>2. ends[k] = {n, o}
      BY <1>2, <3>1
    <3>3. Other(k, n) = o
      BY <3>2, OtherFacts
    <3> QED
      BY <3>1, <3>3
  <2> QED
    BY <2>1, <2>2
<1>4. i > 1 => route'[m][p.circ] # None
  <2> SUFFICES ASSUME i > 1
               PROVE  route'[m][p.circ] # None
    OBVIOUS
  <2>1. i \in {2, 3}
    BY DEF Places
  <2>2. route'[Path[p.circ][i]][p.circ] # None
    BY <1>2
  <2>3. route'[Path[p.circ][i - 1]][p.circ] # None
    BY <1>1, <2>1, <2>2 DEF Chain
  <2> QED
    BY <1>1, <1>3, <2>3, PathFacts
<1>5. Returning(k, m, p)'
  <2>1. ends'[k] = {m, Path[p.circ][i]}
    BY <1>2, <1>3
  <2> QED
    BY <1>3, <1>4, <2>1 DEF Returning, Before
<1> QED
  BY <1>1, <1>3, <1>5 DEF Good

LEMMA NoRouteStep ==
  ASSUME IInv, NEW k \in Links, NEW n \in Nodes, NoRoute(k, n)
  PROVE  IInv'
<1>1. TypeOK'
  BY SMTT(30) DEF IInv, TypeOK, NoRoute, links, client
<1>2. Grows
  BY DEF IInv, TypeOK, NoRoute, links, client, Grows
<1>3. RouteBack' /\ Chain'
  BY <1>2, RoutesStay DEF IInv, NoRoute
<1>4. PeerEnds' /\ DcEnds'
  BY KeptFacts DEF NoRoute, links, client
<1>5. WireGood'
  BY <1>2, WireStep DEF IInv, NoRoute, On
<1>6. WorkSent' /\ OkTested'
  BY DEF IInv, NoRoute, links, client, WorkSent, OkTested
<1> QED
  BY <1>1, <1>3, <1>4, <1>5, <1>6 DEF IInv

LEMMA ForwardStep ==
  ASSUME IInv, NEW k \in Links, NEW n \in Nodes, Forward(k, n)
  PROVE  IInv'
<1>1. Routed(k, n) /\ wire[k][n] # << >>
  BY Zenon DEF Forward, Routed, Arrived
<1>2. PICK p \in Packets : p = Head(wire[k][n])
  BY <1>1, ArrivedFacts
<1>3. /\ ends' = ends /\ peer' = peer /\ dc' = dc /\ step' = step
      /\ work' = work /\ ok' = ok
  BY Zenon DEF Forward, links, client
<1>4. /\ Good(k, n, p) /\ p.type = "enc"
      /\ p.circ \in Circuits /\ p.at \in Places
      /\ racing' \subseteq Links \X Nodes
      /\ route' \in [Nodes -> [Circuits -> Links \cup {None}]]
      /\ route'[n][p.circ] # None
      /\ Grows /\ RouteBack' /\ Chain'
  BY <1>1, <1>2, <1>3, RoutedFacts
<1>5. p.at < Target(p.nr)
  BY <1>2, Zenon DEF Forward
<1>6. p.at < 3 /\ p.at + 1 \in Places
  BY <1>4, <1>5 DEF Target, Places
<1>7. n = Path[p.circ][p.at]
  BY <1>4 DEF Good, Outward
<1>8. PICK m \in Nodes : m = Path[p.circ][p.at + 1]
  BY <1>4, <1>6, PathFacts
<1>9. Before(p.circ, p.at + 1) = n
  BY <1>4, <1>6, <1>7, PathFacts
<1>10. PICK q \in Packets :
          /\ q = Enc(p.circ, p.nr, p.kind, p.at + 1)
          /\ q.circ = p.circ /\ q.nr = p.nr /\ q.at = p.at + 1
          /\ q.kind = p.kind /\ q.type = "enc"
  <2>1. p.nr \in Nat /\ p.kind \in {"connect", "test", "search"}
    BY <1>4, PacketFacts DEF Packets
  <2> QED
    BY <1>4, <1>6, <2>1, EncFacts
<1>11. PICK j \in Links \cup {None} : j = peer[n][m]
  BY DEF IInv, TypeOK
<1>12. wire' = IF j = None THEN Taken(k, n) ELSE Sent(Taken(k, n), j, m, q)
  BY <1>2, <1>8, <1>10, <1>11, Zenon DEF Forward
<1>13. ASSUME j # None
       PROVE  Good(j, m, q)'
  <2>1. ends'[j] = {n, m}
    BY <1>3, <1>11, <1>13 DEF IInv, PeerEnds
  <2>2. Before(q.circ, q.at) = n /\ Path[q.circ][q.at] = m
    BY <1>8, <1>9, <1>10
  <2>3. q.kind = "connect" <=> q.nr < 4
    BY <1>4, <1>10 DEF Good, Outward
  <2>4. route'[Before(q.circ, q.at)][q.circ] # None
    BY <1>4, <1>10, <2>2
  <2>5. Outward(j, m, q)'
    BY <2>1, <2>2, <2>3, <2>4 DEF Outward, Before
  <2> QED
    BY <1>3, <1>4, <1>10, <2>5 DEF Good
<1>14. wire' \in Wires /\ WireGood'
  <2>1. /\ Taken(k, n) \in Wires
        /\ \A i \in Links, o \in Nodes, r \in Packets :
              On(Taken(k, n), i, o, r) => On(wire, i, o, r)
    BY <1>1, ArrivedFacts
  <2>2. CASE j = None
    BY <1>4, <1>12, <2>1, <2>2, WireStep DEF IInv
  <2>3. CASE j # None
    <3>1. wire' = Sent(Taken(k, n), j, m, q) /\ Good(j, m, q)'
      BY <1>12, <1>13, <2>3
    <3> QED
      BY <1>4, <2>1, <3>1, SentStep
  <2> QED
    BY <2>2, <2>3
<1>15. TypeOK'
  BY <1>4, <1>14, Zenon DEF IInv, TypeOK, Forward, links, client, Wires
<1>16. PeerEnds' /\ DcEnds' /\ WorkSent' /\ OkTested'
  BY <1>3, KeptFacts DEF IInv, WorkSent, OkTested
<1> QED
  BY <1>4, <1>14, <1>15, <1>16 DEF IInv

LEMMA ConnectStep ==
  ASSUME IInv, NEW k \in Links, NEW n \in Nodes, Connect(k, n)
  PROVE  IInv'
<1>1. Routed(k, n) /\ wire[k][n] # << >> /\ wire' = Taken(k, n)
  BY Zenon DEF Connect, Routed, Arrived
<1>2. PICK p \in Packets : p = Head(wire[k][n])
  BY <1>1, ArrivedFacts
<1>3. /\ ends' = ends /\ peer' = peer /\ dc' = dc /\ step' = step
      /\ work' = work /\ ok' = ok
  BY Zenon DEF Connect, client
<1>4. /\ Good(k, n, p) /\ p.type = "enc"
      /\ p.circ \in Circuits /\ p.at \in Places
      /\ racing' \subseteq Links \X Nodes
      /\ route' \in [Nodes -> [Circuits -> Links \cup {None}]]
      /\ Grows /\ RouteBack' /\ Chain'
  BY <1>1, <1>2, <1>3, RoutedFacts
<1>5. /\ wire' \in Wires
      /\ \A i \in Links, o \in Nodes, r \in Packets :
            On(wire', i, o, r) => On(wire, i, o, r)
  BY <1>1, ArrivedFacts
<1>6. WireGood'
  BY <1>4, <1>5, WireStep DEF IInv
<1>7. /\ p.at = Target(p.nr) /\ p.kind = "connect"
      /\ dialing' \subseteq dialing \cup {<<n, Path[p.circ][p.at + 1]>>}
  BY <1>2, Zenon DEF Connect
<1>8. p.at < 3
  <2>1. p.nr < 4 /\ p.nr \in 2..MaxSteps[p.circ] /\ p.nr \in Nat
    BY <1>4, <1>7, PacketFacts DEF Good, Outward
  <2>2. MaxSteps[p.circ] \in Nat
    BY <1>4, PacketFacts
  <2>3. 2 <= p.nr /\ p.nr < 4
    BY <2>1, <2>2
  <2>4. \A i \in Nat : 2 <= i /\ i < 4 => i \in {2, 3}
    OBVIOUS
  <2>5. p.nr = 2 \/ p.nr = 3
    BY <2>1, <2>3, <2>4
  <2> QED
    BY <1>7, <2>5 DEF Target
<1>9. Path[p.circ][p.at + 1] \in Nodes
  BY <1>4, <1>8, PathFacts DEF Places
<1>10. dialing' \subseteq Nodes \X Nodes
  BY <1>7, <1>9 DEF IInv, TypeOK
<1>11. TypeOK'
  BY <1>4, <1>5, <1>10, Zenon DEF IInv, TypeOK, Connect, client, Wires
<1>12. PeerEnds' /\ DcEnds' /\ WorkSent' /\ OkTested'
  BY <1>3, KeptFacts DEF IInv, WorkSent, OkTested
<1> QED
  BY <1>4, <1>6, <1>11, <1>12 DEF IInv

LEMMA TestStep ==
  ASSUME IInv, NEW k \in Links, NEW n \in Nodes, Test(k, n)
  PROVE  IInv'
<1>1. Routed(k, n) /\ wire[k][n] # << >>
  BY Zenon DEF Test, Routed, Arrived
<1>2. PICK p \in Packets : p = Head(wire[k][n])
  BY <1>1, ArrivedFacts
<1>3. /\ ends' = ends /\ peer' = peer /\ dc' = dc /\ step' = step
      /\ work' = work /\ ok' = ok
  BY Zenon DEF Test, links, client
<1>4. /\ Good(k, n, p) /\ p.type = "enc"
      /\ p.circ \in Circuits /\ p.at \in Places
      /\ racing' \subseteq Links \X Nodes
      /\ route' \in [Nodes -> [Circuits -> Links \cup {None}]]
      /\ route'[n][p.circ] # None
      /\ Grows /\ RouteBack' /\ Chain'
  BY <1>1, <1>2, <1>3, RoutedFacts
<1>5. p.kind = "test"
  BY <1>2, Zenon DEF Test
<1>6. p.nr \in Nat /\ p.nr > 3 /\ p.nr \in 2..MaxSteps[p.circ]
      /\ p.nr <= step[p.circ]
  <2>1. p.nr \in Nat /\ p.kind # "connect"
    BY <1>4, <1>5, PacketFacts
  <2>2. p.nr \in 2..MaxSteps[p.circ] /\ p.nr <= step[p.circ]
    BY <1>4, Zenon DEF Good
  <2>3. ~(p.nr < 4)
    BY <1>4, <2>1 DEF Good, Outward
  <2> QED
    BY <2>1, <2>2, <2>3
<1>7. PICK r \in Requests : r = <<p.circ, p.nr>>
  <2>1. <<p.circ, p.nr>> \in Requests
    BY <1>4, <1>6, RequestFacts
  <2> QED
    BY <2>1
<1>8. PICK q \in Packets :
         /\ q = Encrep(r, "test2") /\ q.circ = p.circ /\ q.nr = p.nr
         /\ q.type = "encrep"
  BY <1>4, <1>6, <1>7, EncrepFacts
<1>9. PICK j \in Links : j = route'[n][p.circ]
  BY <1>4
<1>10. PICK m : m = Other(j, n)
  OBVIOUS
<1>11. /\ wire' = Sent(Taken(k, n), j, m, q)
       /\ served' = [served EXCEPT ![r] = @ + 1]
  BY <1>2, <1>7, <1>8, <1>9, <1>10, Zenon DEF Test
<1>12. m \in Nodes /\ Good(j, m, q)'
  BY <1>3, <1>4, <1>6, <1>8, <1>9, <1>10, ReplyGood
<1>13. /\ Taken(k, n) \in Wires
       /\ \A i \in Links, o \in Nodes, x \in Packets :
             On(Taken(k, n), i, o, x) => On(wire, i, o, x)
  BY <1>1, ArrivedFacts
<1>14. wire' \in Wires /\ WireGood'
  BY <1>4, <1>11, <1>12, <1>13, SentStep
<1>15. served' \in [Requests -> Nat]
  BY <1>11 DEF IInv, TypeOK
<1>16. TypeOK'
  BY <1>4, <1>14, <1>15, Zenon
  DEF IInv, TypeOK, Test, links, client, Wires
<1>17. PeerEnds' /\ DcEnds' /\ WorkSent' /\ OkTested'
  BY <1>3, KeptFacts DEF IInv, WorkSent, OkTested
<1> QED
  BY <1>4, <1>14, <1>16, <1>17 DEF IInv

LEMMA SearcherStep ==
  ASSUME IInv, NEW k \in Links, NEW n \in Nodes, Searcher(k, n)
  PROVE  IInv'
<1> PICK p : p = Head(wire[k][n])
  OBVIOUS
<1> PICK r : r = <<p.circ, p.nr>>
  OBVIOUS
<1>1. /\ ends' = ends /\ peer' = peer /\ dc' = dc /\ step' = step /\ ok' = ok
      /\ work' = work \cup {r} /\ wire' = Taken(k, n) /\ p.kind = "search"
      /\ served' = [served EXCEPT ![r] = @ + 1]
  BY DEF Searcher, links, client
<1>2. /\ p \in Packets /\ Good(k, n, p) /\ p.type = "enc"
      /\ p.circ \in Circuits /\ p.at \in Places
      /\ wire[k][n] # << >> /\ racing' \subseteq Links \X Nodes
      /\ route' \in [Nodes -> [Circuits -> Links \cup {None}]]
      /\ Grows /\ RouteBack' /\ Chain'
  BY <1>1, RoutedFacts DEF Searcher
<1>3. p.nr > 3 /\ p.nr \in 2..MaxSteps[p.circ] /\ p.nr <= step[p.circ]
  BY <1>1, <1>2, PacketFacts, SMTT(30) DEF Good, Outward
<1>4. r \in Requests
  BY <1>2, <1>3, RequestFacts
<1>5. /\ wire' \in Wires
      /\ \A i \in Links, o \in Nodes, s \in Packets :
            On(wire', i, o, s) => On(wire, i, o, s)
  BY <1>1, <1>2, ArrivedFacts
<1>6. WireGood'
  BY <1>2, <1>5, WireStep DEF IInv
<1>7. TypeOK'
  <2>1. served' \in [Requests -> Nat] /\ work' \subseteq Requests
    <3>1. served \in [Requests -> Nat] /\ work \subseteq Requests
      BY DEF IInv, TypeOK
    <3>2. served' \in [Requests -> Nat]
      BY <1>1, <1>4, <3>1
    <3>3. work' \subseteq Requests
      BY <1>1, <1>4, <3>1
    <3> QED
      BY <3>2, <3>3
  <2> QED
    BY <1>2, <1>5, <2>1 DEF IInv, TypeOK, Searcher, links, client, Wires
<1>8. WorkSent'
  BY <1>1, <1>3 DEF IInv, WorkSent
<1>9. PeerEnds' /\ DcEnds' /\ OkTested'
  BY <1>1, KeptFacts DEF IInv, OkTested
<1> QED
  BY <1>2, <1>6, <1>7, <1>8, <1>9 DEF IInv

LEMMA ReplyStep ==
  ASSUME IInv, NEW r \in Requests, Reply(r)
  PROVE  IInv'
<1>1. /\ ends' = ends /\ peer' = peer /\ dc' = dc /\ step' = step
      /\ ok' = ok /\ route' = route /\ racing' = racing
      /\ work' = work \ {r} /\ r \in work
  BY Zenon DEF Reply, links, client
<1>2. PICK c \in Circuits : /\ c = r[1] /\ r[2] \in Nat /\ r[2] > 3
                            /\ r[2] \in 2..MaxSteps[c]
  <2>1. r[1] \in Circuits /\ r[2] \in 4..MaxSteps[r[1]] /\ r[2] \in Nat
    BY RequestParts
  <2> QED
    BY <2>1
<1>3. PICK n \in Nodes : n = Path[c][3]
  BY PathFacts DEF Places
<1>4. PICK q \in Packets :
         /\ q = Encrep(r, "respv2") /\ q.circ = c /\ q.nr = r[2]
         /\ q.type = "encrep"
  BY <1>2, EncrepFacts
<1>5. q.nr <= step[c]
  BY <1>1, <1>2, <1>4 DEF IInv, WorkSent
<1>6. PICK j \in Links \cup {None} : j = route[n][c]
  BY DEF IInv, TypeOK
<1>7. PICK m : m = Other(j, n)
  OBVIOUS
<1>8. wire' = Sent(wire, j, m, q)
  BY <1>2, <1>3, <1>4, <1>6, <1>7, Zenon DEF Reply
<1>9. Grows
  BY <1>1 DEF IInv, TypeOK, Grows
<1>10. RouteBack' /\ Chain'
  BY <1>1, <1>9, RoutesStay DEF IInv
<1>11. wire \in Wires /\ up \subseteq Links
       /\ route' \in [Nodes -> [Circuits -> Links \cup {None}]]
  BY <1>1 DEF IInv, TypeOK, Wires
<1>12. wire' \in Wires /\ WireGood'
  <2>1. CASE j = None
    <3>1. wire' = wire
      BY <1>8, <1>11, <2>1, NoneAssumption DEF Sent
    <3> QED
      BY <1>9, <1>11, <3>1, WireStep DEF IInv, On
  <2>2. CASE j # None
    <3>1. j = route'[n][q.circ]
      BY <1>1, <1>4, <1>6
    <3>2. m \in Nodes /\ Good(j, m, q)'
      BY <1>1, <1>2, <1>4, <1>5, <1>7, <1>9, <1>10, <1>11, <2>2, <3>1,
         ReplyGood
    <3> QED
      BY <1>8, <1>9, <1>11, <3>2, SentStep
  <2> QED
    BY <2>1, <2>2
<1>13. TypeOK'
  BY <1>12, Zenon DEF IInv, TypeOK, Reply, links, client, Wires
<1>14. PeerEnds' /\ DcEnds' /\ WorkSent' /\ OkTested'
  BY <1>1, KeptFacts DEF IInv, WorkSent, OkTested
<1> QED
  BY <1>10, <1>12, <1>13, <1>14 DEF IInv

LEMMA BackStep ==
  ASSUME IInv, NEW k \in Links, NEW n \in Nodes, Back(k, n)
  PROVE  IInv'
<1>1. /\ ends' = ends /\ peer' = peer /\ dc' = dc /\ step' = step
      /\ ok' = ok /\ route' = route /\ work' = work
      /\ wire[k][n] # << >>
  BY Zenon DEF Back, Arrived, links, client
<1>2. PICK p \in Packets : p = Head(wire[k][n]) /\ Good(k, n, p)
  BY <1>1, ArrivedFacts
<1>3. /\ Taken(k, n) \in Wires
      /\ \A i \in Links, o \in Nodes, q \in Packets :
            On(Taken(k, n), i, o, q) => On(wire, i, o, q)
  BY <1>1, ArrivedFacts
<1>4. p.type = "encrep" /\ route[n][p.circ] # None
  BY <1>2, Zenon DEF Back, Arrived
<1>5. p.nr > 3 /\ p.nr \in 2..MaxSteps[p.circ] /\ p.nr <= step[p.circ]
  <2>1. Returning(k, n, p) /\ p.nr \in 2..MaxSteps[p.circ]
        /\ p.nr <= step[p.circ]
    BY <1>2, <1>4, Zenon DEF Good
  <2> QED
    BY <2>1, Zenon DEF Returning
<1>6. PICK j : j = route[n][p.circ]
  OBVIOUS
<1>7. PICK m : m = Other(j, n)
  OBVIOUS
<1>8. wire' = Sent(Taken(k, n), j, m, p)
  BY <1>2, <1>6, <1>7, Zenon DEF Back
<1>9. Grows
  BY <1>1 DEF IInv, TypeOK, Grows
<1>10. RouteBack' /\ Chain'
  BY <1>1, <1>9, RoutesStay DEF IInv
<1>11. route' \in [Nodes -> [Circuits -> Links \cup {None}]]
  BY <1>1 DEF IInv, TypeOK
<1>12. m \in Nodes /\ Good(j, m, p)'
  <2>1. j = route'[n][p.circ] /\ j # None
    BY <1>1, <1>4, <1>6
  <2> QED
    BY <1>1, <1>4, <1>5, <1>7, <1>9, <1>10, <1>11, <2>1, ReplyGood
<1>13. wire' \in Wires /\ WireGood'
  BY <1>3, <1>8, <1>9, <1>12, SentStep
<1>14. TypeOK'
  BY <1>13, Zenon DEF IInv, TypeOK, Back, links, client, Wires
<1>15. PeerEnds' /\ DcEnds' /\ WorkSent' /\ OkTested'
  BY <1>1, KeptFacts DEF IInv, WorkSent, OkTested
<1> QED
  BY <1>10, <1>13, <1>14, <1>15 DEF IInv

LEMMA HomeStep ==
  ASSUME IInv, NEW k \in Links, NEW n \in Nodes, Home(k, n)
  PROVE  IInv'
<1> PICK p : p = Head(wire[k][n])
  OBVIOUS
<1>1. /\ ends' = ends /\ peer' = peer /\ dc' = dc /\ step' = step
      /\ route' = route /\ work' = work /\ wire' = Taken(k, n)
      /\ wire[k][n] # << >> /\ p.type = "encrep"
  BY DEF Home, Arrived, links
<1>2. /\ p \in Packets /\ Good(k, n, p) /\ wire' \in Wires
      /\ \A i \in Links, o \in Nodes, q \in Packets :
            On(wire', i, o, q) => On(wire, i, o, q)
  BY <1>1, ArrivedFacts
<1>3. /\ p.nr > 3 /\ p.nr \in 2..MaxSteps[p.circ] /\ p.nr <= step[p.circ]
      /\ p.nr \in Nat /\ p.circ \in Circuits
  BY <1>1, <1>2, PacketFacts DEF Good, Returning
<1>4. <<p.circ, p.nr>> \in Requests
  BY <1>3, RequestFacts
<1>5. /\ answered' \in [Requests -> Nat] /\ ok' \in [Circuits -> BOOLEAN]
      /\ \A c \in Circuits : ok'[c] => ok[c] \/ c = p.circ
  <2>1. /\ answered \in [Requests -> Nat] /\ ok \in [Circuits -> BOOLEAN]
    BY DEF IInv, TypeOK
  <2>2. CASE cur[n] = p.circ
    <3>1. /\ answered' = [answered EXCEPT ![<<p.circ, p.nr>>] = @ + 1]
          /\ ok' = [ok EXCEPT ![p.circ] = @ \/ p.kind = "test2"]
      BY <2>2 DEF Home
    <3>2. answered' \in [Requests -> Nat]
      BY <1>4, <2>1, <3>1
    <3>3. /\ ok' \in [Circuits -> BOOLEAN]
          /\ \A c \in Circuits : ok'[c] => ok[c] \/ c = p.circ
      BY <1>3, <2>1, <3>1
    <3> QED
      BY <3>2, <3>3
  <2>3. CASE cur[n] # p.circ
    BY <2>1, <2>3 DEF Home
  <2> QED
    BY <2>2, <2>3
<1>6. Grows
  BY <1>1 DEF IInv, TypeOK, Grows
<1>7. RouteBack' /\ Chain'
  BY <1>1, <1>6, RoutesStay DEF IInv
<1>8. WireGood'
  BY <1>2, <1>6, WireStep DEF IInv
<1>9. TypeOK'
  BY <1>2, <1>5 DEF IInv, TypeOK, Home, links, Wires
<1>10. PeerEnds' /\ DcEnds' /\ WorkSent'
  BY <1>1, KeptFacts DEF IInv, WorkSent
<1>11. OkTested'
  <2>1. \A c \in Circuits : ok[c] => step[c] > 3
    BY DEF IInv, OkTested
  <2>2. step[p.circ] > 3
    BY <1>3 DEF IInv, TypeOK
  <2> QED
    BY <1>1, <1>5, <2>1, <2>2 DEF OkTested
<1> QED
  BY <1>7, <1>8, <1>9, <1>10, <1>11 DEF IInv

LEMMA ReaderStep ==
  ASSUME IInv, NEW k \in Links, NEW n \in Nodes, Reader(k, n)
  PROVE  IInv'
  BY NoRouteStep, ForwardStep, ConnectStep, TestStep, SearcherStep, BackStep,
     HomeStep DEF Reader
-----------------------------------------------------------------------------
(* The steps of connections.                                               *)

LEMMA LinkStep ==
  ASSUME IInv, NEW k \in Links, NEW n \in Nodes, NEW m \in Nodes, Link(k, n, m)
  PROVE  IInv'
<1>1. /\ ends' = [ends EXCEPT ![k] = {n, m}] /\ ends[k] = {}
      /\ ends \in [Links -> SUBSET Nodes]
  BY DEF Link, IInv, TypeOK
<1>2. peer' \in [Nodes -> [Nodes -> Links \cup {None}]]
  BY DEF Link, IInv, TypeOK
<1>3. ASSUME NEW a \in Nodes, NEW b \in Nodes
      PROVE  peer'[a][b] = peer[a][b] \/ (peer'[a][b] = k /\ {a, b} = {n, m})
  BY DEF Link, IInv, TypeOK
<1>4. ends' \in [Links -> SUBSET Nodes] /\ ends'[k] = {n, m}
      /\ \A j \in Links : ends[j] # {} => ends'[j] = ends[j]
  BY <1>1
<1>5. TypeOK'
  BY <1>2, <1>4, ZenonT(60) DEF Link, IInv, TypeOK, client
<1>6. Grows
  BY <1>4 DEF Link, IInv, TypeOK, client, Grows
<1>7. RouteBack' /\ Chain'
  BY <1>6, RoutesStay DEF IInv, Link
<1>8. PeerEnds' /\ DcEnds'
  <2>1. /\ \A a, b \in Nodes : peer[a][b] # None => ends'[peer[a][b]] = {a, b}
        /\ \A c \in Circuits :
              dc[c] # None => ends'[dc[c]] = {Owner[c], Path[c][1]}
    BY <1>6, EndsStay DEF IInv
  <2>2. ASSUME NEW a \in Nodes, NEW b \in Nodes, peer'[a][b] # None
        PROVE  ends'[peer'[a][b]] = {a, b}
    <3>1. CASE peer'[a][b] = peer[a][b]
      BY <2>1, <2>2, <3>1, ZenonT(60)
    <3>2. CASE peer'[a][b] = k /\ {a, b} = {n, m}
      BY <1>4, <3>2
    <3> QED
      BY <1>3, <3>1, <3>2
  <2>3. dc' = dc
    BY DEF Link, client
  <2> QED
    BY <2>1, <2>2, <2>3 DEF PeerEnds, DcEnds
<1>9. WireGood'
  BY <1>6, WireStep DEF IInv, Link, On
<1>10. WorkSent' /\ OkTested'
  BY DEF IInv, Link, client, WorkSent, OkTested
<1> QED
  BY <1>5, <1>7, <1>8, <1>9, <1>10 DEF IInv

LEMMA BreakStep ==
  ASSUME IInv, NEW k \in Links, Break(k)
  PROVE  IInv'
<1>1. closing' \subseteq Links \X Nodes \X Endings
  BY DEF IInv, TypeOK, Break
<1>2. TypeOK'
  BY <1>1 DEF IInv, TypeOK, Break, client
<1>3. Grows
  BY DEF IInv, TypeOK, Break, client, Grows
<1>4. RouteBack' /\ Chain'
  BY <1>3, RoutesStay DEF IInv, Break
<1>5. PeerEnds' /\ DcEnds'
  BY KeptFacts DEF Break, client
<1>6. WireGood'
  BY <1>3, WireStep DEF IInv, Break, On
<1>7. WorkSent' /\ OkTested'
  BY DEF IInv, Break, client, WorkSent, OkTested
<1> QED
  BY <1>2, <1>4, <1>5, <1>6, <1>7 DEF IInv

LEMMA LoseStep ==
  ASSUME IInv, NEW k \in Links, NEW n \in Nodes, Lose(k, n)
  PROVE  IInv'
<1>1. /\ wire' \in Wires
      /\ \A i \in Links, m \in Nodes, p \in Packets :
            On(wire', i, m, p) => On(wire, i, m, p)
  <2>1. wire \in Wires
    BY DEF IInv, TypeOK, Wires
  <2>2. wire[k][n] # << >> /\ wire' = [wire EXCEPT ![k][n] = Front(@)]
    BY DEF Lose
  <2> QED
    BY <2>1, <2>2, LostFacts
<1>2. TypeOK'
  BY <1>1 DEF IInv, TypeOK, Lose, links, client, Wires
<1>3. Grows
  BY DEF IInv, TypeOK, Lose, links, client, Grows
<1>4. RouteBack' /\ Chain'
  BY <1>3, RoutesStay DEF IInv, Lose
<1>5. PeerEnds' /\ DcEnds'
  BY KeptFacts DEF Lose, links, client
<1>6. WireGood'
  BY <1>1, <1>3, WireStep DEF IInv
<1>7. WorkSent' /\ OkTested'
  BY DEF IInv, Lose, client, WorkSent, OkTested
<1> QED
  BY <1>2, <1>4, <1>5, <1>6, <1>7 DEF IInv

LEMMA ForgetStep ==
  ASSUME IInv, NEW k \in Links, NEW n \in Nodes, NEW e \in Endings,
         Forget(k, n, e)
  PROVE  IInv'
<1> PICK o : o = Other(k, n)
  OBVIOUS
<1>1. peer' = [peer EXCEPT ![n][o] = None]
  BY DEF Forget
<1>2. /\ peer' \in [Nodes -> [Nodes -> Links \cup {None}]]
      /\ \A a, b \in Nodes : peer'[a][b] = peer[a][b] \/ peer'[a][b] = None
  BY <1>1 DEF IInv, TypeOK
<1>3. TypeOK'
  BY <1>2 DEF IInv, TypeOK, Forget, client
<1>4. Grows
  BY DEF IInv, TypeOK, Forget, client, Grows
<1>5. RouteBack' /\ Chain'
  BY <1>4, RoutesStay DEF IInv, Forget
<1>6. PeerEnds'
  <2>1. ends' = ends
    BY DEF Forget
  <2> QED
    BY <1>2, <2>1, ZenonT(60) DEF IInv, PeerEnds
<1>7. WireGood'
  BY <1>4, WireStep DEF IInv, Forget, On
<1>8. DcEnds' /\ WorkSent' /\ OkTested'
  BY DEF IInv, Forget, client, DcEnds, WorkSent, OkTested
<1> QED
  BY <1>3, <1>5, <1>6, <1>7, <1>8 DEF IInv

-----------------------------------------------------------------------------
LEMMA InitIInv ==
  ASSUME Init
  PROVE  IInv
<1>1. TypeOK
  BY DEF Init, TypeOK
<1>2. RouteBack /\ Chain /\ PeerEnds /\ DcEnds /\ WorkSent /\ OkTested
  BY PathFacts DEF Init, RouteBack, Chain, PeerEnds, DcEnds, WorkSent, OkTested,
                   Places
<1>3. WireGood
  BY DEF Init, WireGood, On
<1> QED
  BY <1>1, <1>2, <1>3 DEF IInv

LEMMA NextIInv ==
  ASSUME IInv, [Next]_vars
  PROVE  IInv'
<1>1. CASE Next
  <2>1. CASE \E c \in Circuits : Client(c)
    BY <2>1, ClientStep
  <2>2. CASE \E k \in Links, n \in Nodes : Reader(k, n)
    BY <2>2, ReaderStep
  <2>3. CASE \E r \in Requests : Reply(r)
    BY <2>3, ReplyStep
  <2>4. CASE Network
    BY <2>4, LinkStep, BreakStep, LoseStep, ForgetStep DEF Network
  <2> QED
    BY <1>1, <2>1, <2>2, <2>3, <2>4 DEF Next
<1>2. CASE UNCHANGED vars
  <2>1. /\ TypeOK' /\ Chain' /\ PeerEnds' /\ DcEnds' /\ WorkSent' /\ OkTested'
    BY <1>2 DEF vars, links, client, IInv, TypeOK, Chain, PeerEnds, DcEnds,
                WorkSent, OkTested
  <2>2. Grows
    BY <1>2 DEF vars, links, client, IInv, TypeOK, Grows
  <2>3. RouteBack'
    BY <1>2, <2>2, RoutesStay DEF vars, IInv
  <2>4. WireGood'
    BY <1>2, <2>2, WireStep DEF vars, IInv, On
  <2> QED
    BY <2>1, <2>3, <2>4 DEF IInv
<1> QED
  BY <1>1, <1>2

THEOREM Invariance == Spec => []IInv
<1>1. Init => IInv
  BY InitIInv
<1>2. IInv /\ [Next]_vars => IInv'
  BY NextIInv
<1> QED
  BY <1>1, <1>2, PTL DEF Spec

\* The variables keep their types.
THEOREM Typing == Spec => []TypeOK
<1>1. IInv => TypeOK
  BY DEF IInv
<1> QED
  BY <1>1, Invariance, PTL

\* A relay's route of a circuit leads to the client before it on the path,
\* whichever of several readers has recorded it (l1peer.go:126-132).
THEOREM RoutesLeadBack == Spec => []RouteBack
<1>1. IInv => RouteBack
  BY DEF IInv
<1> QED
  BY <1>1, Invariance, PTL

\* A reply under way is on its way to the client that has made the circuit, or
\* to a relay that has the route to pass it on (l1peer.go:87-92).
THEOREM RepliesGoHome == Spec => []Homeward
<1>1. ASSUME IInv
      PROVE  Homeward
  <2> SUFFICES ASSUME NEW k \in Links, NEW n \in Nodes,
                      NEW j \in 1..Len(wire[k][n]),
                      wire[k][n][j].type = "encrep"
               PROVE  LET p == wire[k][n][j]
                      IN  \E i \in Places : /\ n = Before(p.circ, i)
                                            /\ ends[k] = {n, Path[p.circ][i]}
                                            /\ i > 1 => route[n][p.circ] # None
    BY DEF Homeward
  <2> PICK p : p = wire[k][n][j]
    OBVIOUS
  <2>1. p \in Packets
    <3>1. wire[k][n] \in Seq(Packets)
      BY <1>1 DEF IInv, TypeOK
    <3> QED
      BY <3>1
  <2>2. Good(k, n, p)
    BY <1>1, <2>1 DEF IInv, WireGood, On
  <2> QED
    BY <2>2, SMTT(30) DEF Good, Returning
<1> QED
  BY <1>1, Invariance, PTL

-----------------------------------------------------------------------------
(* Routes outlive their connection.                                        *)

\* A reader that has found no route is still at its packet.
RacingEnc == \A k \in Links, n \in Nodes : <<k, n>> \in racing =>
                wire[k][n] # << >> /\ Head(wire[k][n]).type = "enc"

\* The reader of i at o has its packet before it still.
SameHead(i, o) == /\ <<i, o>> \in racing /\ wire[i][o] # << >>
                  /\ wire'[i][o] # << >>
                  /\ Head(wire'[i][o]) = Head(wire[i][o])

LEMMA SentHead ==
  ASSUME NEW w \in Wires, NEW k, NEW m, NEW q \in Packets,
         NEW i \in Links, NEW o \in Nodes, w[i][o] # << >>
  PROVE  /\ Sent(w, k, m, q)[i][o] # << >>
         /\ Head(Sent(w, k, m, q)[i][o]) = Head(w[i][o])
<1> DEFINE s == w[i][o]
<1>1. s \in Seq(Packets)
  BY DEF Wires
<1>2. Append(s, q) # << >> /\ Head(Append(s, q)) = Head(s)
  BY <1>1
<1>3. Sent(w, k, m, q)[i][o] = s \/ Sent(w, k, m, q)[i][o] = Append(s, q)
  BY DEF Sent, Wires
<1> QED
  BY <1>2, <1>3

LEMMA TakenHead ==
  ASSUME wire \in Wires, NEW k \in Links, NEW n \in Nodes,
         NEW i \in Links, NEW o \in Nodes, ~(i = k /\ o = n)
  PROVE  Taken(k, n)[i][o] = wire[i][o]
  BY DEF Taken, Wires

LEMMA LostHead ==
  ASSUME wire \in Wires, NEW k \in Links, NEW n \in Nodes, Lose(k, n),
         NEW i \in Links, NEW o \in Nodes, <<i, o>> \in racing,
         wire[i][o] # << >>
  PROVE  wire'[i][o] # << >> /\ Head(wire'[i][o]) = Head(wire[i][o])
<1> DEFINE s == wire[i][o]
<1>1. wire' = [wire EXCEPT ![k][n] = Front(@)]
  BY DEF Lose
<1>2. CASE i = k /\ o = n
  <2>1. s \in Seq(Packets) /\ Len(s) > 1 /\ wire'[i][o] = Front(s)
    BY <1>1, <1>2 DEF Wires, Lose
  <2>2. /\ Front(s) \in Seq(Packets) /\ Len(Front(s)) = Len(s) - 1
        /\ Front(s)[1] = s[1] /\ Len(s) \in Nat
    BY <2>1 DEF Front
  <2>3. Front(s) # << >>
    BY <2>1, <2>2
  <2>4. Head(Front(s)) = Head(s)
    BY <2>1, <2>2, <2>3
  <2> QED
    BY <2>1, <2>3, <2>4
<1>3. CASE ~(i = k /\ o = n)
  BY <1>1, <1>3 DEF Wires
<1> QED
  BY <1>2, <1>3

\* What a step leaves to a reader that has found no route, to routes and to
\* broken connections.
RacingStep ==
    \A i \in Links, o \in Nodes : <<i, o>> \in racing' =>
       \/ SameHead(i, o)
       \/ /\ wire' = wire /\ Arrived(i, o, "enc")
          /\ route[o][Head(wire[i][o]).circ] = None

RouteStep ==
    \A o \in Nodes, c \in Circuits :
       \/ route'[o][c] = route[o][c]
       \/ \E i \in Links : <<i, o>> \in racing /\ Head(wire[i][o]).circ = c

\* Readers at other ends have their packet still when a packet is read.
LEMMA PoppedHeads ==
  ASSUME IInv, RacingEnc, NEW k \in Links, NEW n \in Nodes, wire[k][n] # << >>,
         NEW j, NEW m, NEW q \in Packets,
         wire' = Taken(k, n) \/ wire' = Sent(Taken(k, n), j, m, q),
         NEW i \in Links, NEW o \in Nodes, <<i, o>> \in racing,
         ~(i = k /\ o = n)
  PROVE  SameHead(i, o)
<1>1. wire \in Wires /\ Taken(k, n) \in Wires
  BY ArrivedFacts DEF IInv, TypeOK, Wires
<1>2. wire[i][o] # << >> /\ Taken(k, n)[i][o] = wire[i][o]
  BY <1>1, TakenHead DEF RacingEnc
<1>3. CASE wire' = Taken(k, n)
  BY <1>2, <1>3 DEF SameHead
<1>4. CASE wire' = Sent(Taken(k, n), j, m, q)
  <2>1. /\ Sent(Taken(k, n), j, m, q)[i][o] # << >>
        /\ Head(Sent(Taken(k, n), j, m, q)[i][o]) = Head(Taken(k, n)[i][o])
    BY <1>1, <1>2, SentHead
  <2> QED
    BY <1>2, <1>4, <2>1 DEF SameHead
<1> QED
  BY <1>3, <1>4

\* A reader that is done with a packet on its way out.
LEMMA RoutedHeads ==
  ASSUME IInv, RacingEnc, NEW k \in Links, NEW n \in Nodes, Routed(k, n),
         ends' = ends, up' = up,
         NEW j, NEW m, NEW q \in Packets,
         wire' = Taken(k, n) \/ wire' = Sent(Taken(k, n), j, m, q)
  PROVE  RacingStep /\ RouteStep /\ Broken \subseteq Broken'
<1>1. wire[k][n] # << >> /\ racing' = racing \ {<<k, n>>}
  BY DEF Routed, Arrived
<1>2. ASSUME NEW i \in Links, NEW o \in Nodes, <<i, o>> \in racing'
      PROVE  SameHead(i, o)
  <2>1. <<i, o>> \in racing /\ ~(i = k /\ o = n)
    BY <1>1, <1>2
  <2> QED
    BY <1>1, <2>1, PoppedHeads, ZenonT(60)
<1>3. RouteStep
  <2> PICK d : d = Head(wire[k][n]).circ
    OBVIOUS
  <2>1. CASE <<k, n>> \in racing
    <3>1. route' = [route EXCEPT ![n][d] = k]
      BY <2>1 DEF Routed
    <3>2. ASSUME NEW o \in Nodes, NEW c \in Circuits
          PROVE  route'[o][c] = route[o][c] \/ (o = n /\ c = d)
      BY <3>1 DEF IInv, TypeOK
    <3> QED
      BY <2>1, <3>2, ZenonT(60) DEF RouteStep
  <2>2. CASE <<k, n>> \notin racing
    BY <2>2 DEF Routed, RouteStep
  <2> QED
    BY <2>1, <2>2
<1>4. Broken \subseteq Broken'
  BY DEF Broken
<1> QED
  BY <1>2, <1>3, <1>4 DEF RacingStep

LEMMA ReaderHeads ==
  ASSUME IInv, RacingEnc, NEW k \in Links, NEW n \in Nodes, Reader(k, n)
  PROVE  RacingStep /\ RouteStep /\ Broken \subseteq Broken'
<1>1. wire \in Wires /\ wire[k][n] # << >> /\ ends' = ends /\ up' = up
  <2>1. wire \in Wires
    BY DEF IInv, TypeOK, Wires
  <2>2. wire[k][n] # << >>
    BY Zenon DEF Reader, NoRoute, Forward, Connect, Test, Searcher, Routed,
                 Back, Home, Arrived
  <2>3. ends' = ends /\ up' = up
    BY Zenon DEF Reader, NoRoute, Forward, Connect, Test, Searcher, Back, Home,
                 links
  <2> QED
    BY <2>1, <2>2, <2>3
<1>0. PICK p \in Packets : p = Head(wire[k][n])
  BY <1>1, ArrivedFacts
<1>2. CASE NoRoute(k, n)
  <2>1. ASSUME NEW i \in Links, NEW o \in Nodes, <<i, o>> \in racing'
        PROVE  \/ SameHead(i, o)
               \/ /\ wire' = wire /\ Arrived(i, o, "enc")
                  /\ route[o][Head(wire[i][o]).circ] = None
    <3>1. CASE <<i, o>> \in racing
      BY <1>2, <3>1 DEF NoRoute, RacingEnc, SameHead
    <3>2. CASE i = k /\ o = n
      BY <1>2, <3>2 DEF NoRoute
    <3> QED
      BY <1>2, <2>1, <3>1, <3>2 DEF NoRoute
  <2>2. RouteStep /\ Broken \subseteq Broken'
    BY <1>1, <1>2 DEF NoRoute, RouteStep, Broken
  <2> QED
    BY <2>1, <2>2 DEF RacingStep
<1>3. CASE Forward(k, n)
  <2>1. Routed(k, n) /\ p.type = "enc" /\ p.at < Target(p.nr)
    BY <1>3, <1>0, Zenon DEF Forward, Routed, Arrived
  <2>2. /\ p.at \in Places /\ p.circ \in Circuits /\ p.nr \in Nat
        /\ p.kind \in {"connect", "test", "search"}
    BY <2>1, PacketFacts DEF Packets
  <2>3. p.at + 1 \in Places
    BY <2>1, <2>2 DEF Target, Places
  <2>4. PICK q \in Packets : q = Enc(p.circ, p.nr, p.kind, p.at + 1)
    BY <2>2, <2>3, EncFacts
  <2>5. PICK m : m = Path[p.circ][p.at + 1]
    OBVIOUS
  <2>6. PICK j : j = peer[n][m]
    OBVIOUS
  <2>7. wire' = Taken(k, n) \/ wire' = Sent(Taken(k, n), j, m, q)
    BY <1>3, <1>0, <2>4, <2>5, <2>6, Zenon DEF Forward
  <2> QED
    BY <1>1, <2>1, <2>7, RoutedHeads
<1>4. CASE Connect(k, n) \/ Searcher(k, n)
  <2>1. Routed(k, n) /\ wire' = Taken(k, n)
    BY <1>4, Zenon DEF Connect, Searcher
  <2> QED
    BY <1>1, <1>0, <2>1, RoutedHeads
<1>5. CASE Test(k, n)
  <2>1. Routed(k, n) /\ p.type = "enc"
    BY <1>5, <1>0, Zenon DEF Test, Routed, Arrived
  <2>2. <<p.circ, p.nr>>[1] = p.circ /\ <<p.circ, p.nr>>[2] = p.nr
    OBVIOUS
  <2>3. PICK q \in Packets : q = Encrep(<<p.circ, p.nr>>, "test2")
    BY <2>1, <2>2, PacketFacts, EncrepFacts
  <2>4. PICK j : j = route'[n][p.circ]
    OBVIOUS
  <2>5. PICK m : m = Other(j, n)
    OBVIOUS
  <2>6. wire' = Sent(Taken(k, n), j, m, q)
    BY <1>5, <1>0, <2>3, <2>4, <2>5, Zenon DEF Test
  <2> QED
    BY <1>1, <2>1, <2>6, RoutedHeads
<1>6. CASE Back(k, n) \/ Home(k, n)
  <2>1. racing' = racing /\ route' = route /\ p.type = "encrep"
    BY <1>6, <1>0, Zenon DEF Back, Home, Arrived
  <2>2. \E j, m : wire' = Taken(k, n) \/ wire' = Sent(Taken(k, n), j, m, p)
    BY <1>6, <1>0, Zenon DEF Back, Home
  <2>3. PICK q \in Packets :
           \E j, m : wire' = Taken(k, n) \/ wire' = Sent(Taken(k, n), j, m, q)
    BY <1>1, <2>2
  <2>4. PICK j, m : wire' = Taken(k, n) \/ wire' = Sent(Taken(k, n), j, m, q)
    BY <2>3
  <2>5. ASSUME NEW i \in Links, NEW o \in Nodes, <<i, o>> \in racing'
        PROVE  SameHead(i, o)
    <3>1. <<i, o>> \in racing /\ wire[i][o] # << >> /\ ~(i = k /\ o = n)
      BY <1>0, <2>1, <2>5 DEF RacingEnc
    <3> QED
      BY <1>1, <2>4, <3>1, PoppedHeads, ZenonT(60)
  <2> QED
    BY <1>1, <2>1, <2>5 DEF RacingStep, RouteStep, Broken
<1> QED
  BY <1>2, <1>3, <1>4, <1>5, <1>6 DEF Reader

LEMMA SentHeads ==
  ASSUME IInv, RacingEnc, NEW j, NEW m, NEW q \in Packets,
         wire' = Sent(wire, j, m, q), racing' = racing, route' = route,
         ends' = ends, up' = up
  PROVE  RacingStep /\ RouteStep /\ Broken \subseteq Broken'
<1>1. wire \in Wires
  BY DEF IInv, TypeOK, Wires
<1>2. ASSUME NEW i \in Links, NEW o \in Nodes, <<i, o>> \in racing'
      PROVE  SameHead(i, o)
  <2>1. <<i, o>> \in racing /\ wire[i][o] # << >>
    BY <1>2 DEF RacingEnc
  <2>2. /\ Sent(wire, j, m, q)[i][o] # << >>
        /\ Head(Sent(wire, j, m, q)[i][o]) = Head(wire[i][o])
    BY <1>1, <2>1, SentHead
  <2> QED
    BY <2>1, <2>2 DEF SameHead
<1> QED
  BY <1>2 DEF RacingStep, RouteStep, Broken

LEMMA QuietHeads ==
  ASSUME RacingEnc, wire' = wire, racing' = racing, route' = route
  PROVE  RacingStep /\ RouteStep
  BY DEF RacingEnc, RacingStep, RouteStep, SameHead

LEMMA NextHeads ==
  ASSUME IInv, RacingEnc, [Next]_vars
  PROVE  RacingStep /\ RouteStep /\ Broken \subseteq Broken'
<1>1. CASE UNCHANGED vars
  BY <1>1, QuietHeads DEF vars, links, Broken
<1>2. ASSUME NEW c \in Circuits, Client(c)
      PROVE  RacingStep /\ RouteStep /\ Broken \subseteq Broken'
  <2>1. CASE Begin(c)
    BY <2>1, QuietHeads DEF Begin, Broken
  <2>2. ASSUME NEW k, NEW kind \in {"connect", "test", "search"},
               Emit(c, k, kind)
        PROVE  RacingStep /\ RouteStep /\ Broken \subseteq Broken'
    <3> PICK q : q = Enc(c, step[c] + 1, kind, 1)
      OBVIOUS
    <3>1. /\ wire' = Sent(wire, k, Path[c][1], q) /\ racing' = racing
          /\ route' = route /\ ends' = ends /\ up' = up
      BY <2>2 DEF Emit, links
    <3>2. q \in Packets
      <4>1. step[c] + 1 \in Nat /\ 1 \in Places
        BY DEF IInv, TypeOK, Places
      <4> QED
        BY <4>1, EncFacts
    <3> QED
      BY <3>1, <3>2, SentHeads
  <2> QED
    BY <1>2, <2>1, <2>2 DEF Client, TellGuard, TellBridge, SendTest, Search
<1>3. ASSUME NEW r \in Requests, Reply(r)
      PROVE  RacingStep /\ RouteStep /\ Broken \subseteq Broken'
  <2> PICK q : q = Encrep(r, "respv2")
    OBVIOUS
  <2>1. q \in Packets
    BY RequestParts, EncrepFacts
  <2>2. PICK j, m : wire' = Sent(wire, j, m, q)
    BY <1>3 DEF Reply
  <2>3. racing' = racing /\ route' = route /\ ends' = ends /\ up' = up
    BY <1>3 DEF Reply, links
  <2> QED
    BY <2>1, <2>2, <2>3, SentHeads
<1>4. CASE Network
  <2>1. ASSUME NEW k \in Links, Break(k)
        PROVE  RacingStep /\ RouteStep /\ Broken \subseteq Broken'
    BY <2>1, QuietHeads DEF Break, Broken
  <2>2. ASSUME NEW k \in Links, NEW n \in Nodes, NEW m \in Nodes, Link(k, n, m)
        PROVE  RacingStep /\ RouteStep /\ Broken \subseteq Broken'
    <3>1. RacingStep /\ RouteStep
      BY <2>2, QuietHeads DEF Link
    <3>2. ASSUME NEW j \in Broken
          PROVE  j \in Broken'
      <4>1. j \in Links \ up /\ ends[j] # {} /\ j # k
        BY <2>2 DEF Broken, Link
      <4>2. ends'[j] = ends[j] /\ j \notin up'
        BY <2>2, <4>1 DEF Link, IInv, TypeOK
      <4> QED
        BY <4>1, <4>2 DEF Broken
    <3> QED
      BY <3>1, <3>2
  <2>3. ASSUME NEW k \in Links, NEW n \in Nodes, Lose(k, n)
        PROVE  RacingStep /\ RouteStep /\ Broken \subseteq Broken'
    <3>1. wire \in Wires
      BY DEF IInv, TypeOK, Wires
    <3>2. racing' = racing /\ route' = route /\ ends' = ends /\ up' = up
      BY <2>3 DEF Lose, links
    <3>3. ASSUME NEW i \in Links, NEW o \in Nodes, <<i, o>> \in racing'
          PROVE  SameHead(i, o)
      BY <2>3, <3>1, <3>2, <3>3, LostHead DEF RacingEnc, SameHead
    <3> QED
      BY <3>2, <3>3 DEF RacingStep, RouteStep, Broken
  <2>4. ASSUME NEW k \in Links, NEW n \in Nodes, NEW e \in Endings,
               Forget(k, n, e)
        PROVE  RacingStep /\ RouteStep /\ Broken \subseteq Broken'
    BY <2>4, QuietHeads DEF Forget, Broken
  <2> QED
    BY <1>4, <2>1, <2>2, <2>3, <2>4 DEF Network
<1> QED
  BY <1>1, <1>2, <1>3, <1>4, ReaderHeads DEF Next

LEMMA NextRacing ==
  ASSUME IInv, RacingEnc, [Next]_vars
  PROVE  RacingEnc'
<1>1. RacingStep
  BY NextHeads
<1> SUFFICES ASSUME NEW k \in Links, NEW n \in Nodes, <<k, n>> \in racing'
             PROVE  wire'[k][n] # << >> /\ Head(wire'[k][n]).type = "enc"
  BY DEF RacingEnc
<1> QED
  BY <1>1 DEF RacingStep, SameHead, RacingEnc, Arrived

\* A dead end on a circuit's way back is there for good (l1peer.go:126-132,
\* client.go:80): though the connection be made anew and requests arrive over
\* it again, the relay's route stays the broken one.
THEOREM DeadEndsStay == Spec => DeadEndIsFinal
<1>1. Init => RacingEnc
  BY DEF Init, RacingEnc
<1>2. ASSUME IInv, RacingEnc, [Next]_vars, NEW c \in Circuits, DeadEnd(c)
      PROVE  DeadEnd(c)'
  <2>1. RacingStep /\ RouteStep /\ Broken \subseteq Broken'
    BY <1>2, NextHeads
  <2>2. PICK i \in Places :
           /\ route[Path[c][i]][c] \in Broken
           /\ \A k \in Links :
                 <<k, Path[c][i]>> \in racing =>
                    Head(wire[k][Path[c][i]]).circ # c
    BY <1>2 DEF DeadEnd
  <2> PICK n : n = Path[c][i]
    OBVIOUS
  <2>3. n \in Nodes
    BY PathFacts
  <2>4. route'[n][c] = route[n][c] /\ route'[n][c] \in Broken'
    <3>1. ~\E k \in Links : <<k, n>> \in racing /\ Head(wire[k][n]).circ = c
      BY <2>2
    <3>2. route'[n][c] = route[n][c]
      BY <2>1, <2>3, <3>1 DEF RouteStep
    <3> QED
      BY <2>1, <2>2, <3>2
  <2>5. ASSUME NEW k \in Links, <<k, n>> \in racing'
        PROVE  Head(wire'[k][n]).circ # c
    <3>1. CASE SameHead(k, n)
      BY <2>2, <3>1 DEF SameHead
    <3>2. CASE wire' = wire /\ route[n][Head(wire[k][n]).circ] = None
      <4>1. route[n][c] # None
        BY <2>2 DEF Broken
      <4> QED
        BY <3>2, <4>1
    <3> QED
      BY <2>1, <2>3, <2>5, <3>1, <3>2 DEF RacingStep
  <2> QED
    BY <2>4, <2>5 DEF DeadEnd
<1>3. IInv /\ RacingEnc /\ [Next]_vars
         => [\A c \in Circuits : DeadEnd(c) => DeadEnd(c)']_vars
  BY <1>2
<1>4. IInv /\ RacingEnc /\ [Next]_vars => RacingEnc'
  BY NextRacing
<1> QED
  BY <1>1, <1>3, <1>4, Invariance, PTL DEF Spec, DeadEndIsFinal
=============================================================================
