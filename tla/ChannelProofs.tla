---------------------------- MODULE ChannelProofs ----------------------------
(***************************************************************************)
(* Proofs that the circuits of Onion are the channel of Channel, for any   *)
(* nodes, circuits, paths and numbers of connections.  What it takes is    *)
(* that a request exists once: as one packet on its way out, as a search   *)
(* the exit works on, or as one reply on its way back, and never as two of *)
(* these, whichever readers race and whichever connections are re-made.    *)
(***************************************************************************)
EXTENDS OnionProofs

USE PathAssumption, BoundAssumption, NoneAssumption

\* The message of its circuit that a packet carries, or answers.
Req(p) == <<p.circ, p.nr>>

\* No two packets on their way carry, or answer, the same message.
Once(w) ==
    \A k, l \in Links, n, m \in Nodes :
       \A i \in 1..Len(w[k][n]), j \in 1..Len(w[l][m]) :
          Req(w[k][n][i]) = Req(w[l][m][j]) => k = l /\ n = m /\ i = j

-----------------------------------------------------------------------------
(* The operators that change wire leave every message there at most once.  *)

\* After a packet is read, no other carries its message.
LEMMA TakenOnce ==
  ASSUME wire \in Wires, NEW k \in Links, NEW n \in Nodes,
         wire[k][n] # << >>, Once(wire)
  PROVE  /\ Once(Taken(k, n))
         /\ \A i \in Links, m \in Nodes, p \in Packets :
               On(Taken(k, n), i, m, p) => Req(p) # Req(Head(wire[k][n]))
<1> DEFINE s == wire[k][n]
           w == Taken(k, n)
<1>1. s \in Seq(Packets) /\ s # << >>
  BY DEF Wires
<1>2. /\ Len(Tail(s)) = Len(s) - 1 /\ Len(s) \in Nat /\ Len(s) > 0
      /\ \A j \in 1..Len(Tail(s)) : Tail(s)[j] = s[j + 1]
      /\ Head(s) = s[1]
  BY <1>1
<1>3. \A i \in Links, m \in Nodes :
         w[i][m] = IF i = k /\ m = n THEN Tail(s) ELSE wire[i][m]
  BY DEF Taken, Wires
<1>4. ASSUME NEW i \in Links, NEW m \in Nodes, NEW j \in 1..Len(w[i][m])
      PROVE  \E h \in 1..Len(wire[i][m]) :
                /\ w[i][m][j] = wire[i][m][h]
                /\ h = IF i = k /\ m = n THEN j + 1 ELSE j
  <2> HIDE DEF w, s
  <2>1. CASE i = k /\ m = n
    <3>1. w[i][m] = Tail(s) /\ wire[i][m] = s
      BY <1>3, <2>1 DEF s
    <3>2. j \in 1..Len(Tail(s)) /\ j + 1 \in 1..Len(s)
      BY <1>2, <3>1
    <3> QED
      BY <1>2, <2>1, <3>1, <3>2
  <2>2. CASE ~(i = k /\ m = n)
    <3>1. w[i][m] = wire[i][m]
      BY <1>3, <2>2
    <3> QED
      BY <2>2, <3>1
  <2> QED
    BY <2>1, <2>2
<1> HIDE DEF w, s
<1>5. Once(w)
  <2> SUFFICES ASSUME NEW i \in Links, NEW l \in Links,
                      NEW o \in Nodes, NEW m \in Nodes,
                      NEW a \in 1..Len(w[i][o]), NEW b \in 1..Len(w[l][m]),
                      Req(w[i][o][a]) = Req(w[l][m][b])
               PROVE  i = l /\ o = m /\ a = b
    BY Zenon DEF Once
  <2>1. PICK g \in 1..Len(wire[i][o]) :
           /\ w[i][o][a] = wire[i][o][g]
           /\ g = IF i = k /\ o = n THEN a + 1 ELSE a
    BY <1>4
  <2>2. PICK h \in 1..Len(wire[l][m]) :
           /\ w[l][m][b] = wire[l][m][h]
           /\ h = IF l = k /\ m = n THEN b + 1 ELSE b
    BY <1>4
  <2>3. i = l /\ o = m /\ g = h
    BY <2>1, <2>2 DEF Once
  <2> QED
    BY <2>1, <2>2, <2>3
<1>6. ASSUME NEW i \in Links, NEW m \in Nodes, NEW p \in Packets,
             On(w, i, m, p), Req(p) = Req(Head(s))
      PROVE  FALSE
  <2>1. PICK j \in 1..Len(w[i][m]) : w[i][m][j] = p
    BY <1>6 DEF On
  <2>2. PICK h \in 1..Len(wire[i][m]) :
           /\ w[i][m][j] = wire[i][m][h]
           /\ h = IF i = k /\ m = n THEN j + 1 ELSE j
    BY <1>4
  <2>3. 1 \in 1..Len(wire[k][n])
    BY <1>2 DEF s
  <2>4. Req(wire[i][m][h]) = Req(wire[k][n][1])
    BY <1>2, <1>6, <2>1, <2>2 DEF s
  <2>5. i = k /\ m = n /\ h = 1
    BY <2>3, <2>4 DEF Once
  <2> QED
    BY <2>2, <2>5
<1> QED
  BY <1>5, <1>6 DEF w, s

\* v is w with no other packet than q added.
Adds(w, v, q) ==
    \A i \in Links, o \in Nodes, p \in Packets :
       On(v, i, o, p) => On(w, i, o, p) \/ p = q

\* A packet whose message no other carries may be sent, and is all that is.
LEMMA SentOnce ==
  ASSUME NEW w \in Wires, up \subseteq Links, NEW k, NEW m \in Nodes,
         NEW q \in Packets, Once(w),
         \A i \in Links, n \in Nodes, p \in Packets :
            On(w, i, n, p) => Req(p) # Req(q)
  PROVE  Once(Sent(w, k, m, q)) /\ Adds(w, Sent(w, k, m, q), q)
<1>1. CASE k \notin up
  BY <1>1 DEF Sent, Adds
<1>2. CASE k \in up
  <2> DEFINE s == w[k][m]
             v == Sent(w, k, m, q)
  <2>1. k \in Links /\ s \in Seq(Packets)
    BY <1>2 DEF Wires
  <2>2. /\ Len(Append(s, q)) = Len(s) + 1 /\ Len(s) \in Nat
        /\ Append(s, q)[Len(s) + 1] = q
        /\ \A j \in 1..Len(s) : Append(s, q)[j] = s[j]
    BY <2>1
  <2>3. \A i \in Links, n \in Nodes :
           v[i][n] = IF i = k /\ n = m THEN Append(s, q) ELSE w[i][n]
    BY <1>2, <2>1 DEF Sent, Wires
  <2>4. ASSUME NEW i \in Links, NEW n \in Nodes, NEW j \in 1..Len(v[i][n])
        PROVE  \/ j \in 1..Len(w[i][n]) /\ v[i][n][j] = w[i][n][j]
               \/ i = k /\ n = m /\ j = Len(s) + 1 /\ v[i][n][j] = q
    <3> HIDE DEF v, s
    <3>1. CASE i = k /\ n = m
      <4>1. v[i][n] = Append(s, q) /\ w[i][n] = s
        BY <2>3, <3>1 DEF s
      <4>2. j \in 1..Len(s) \/ j = Len(s) + 1
        BY <2>2, <4>1
      <4> QED
        BY <2>2, <3>1, <4>1, <4>2
    <3>2. CASE ~(i = k /\ n = m)
      BY <2>3, <3>2
    <3> QED
      BY <3>1, <3>2
  <2>5. ASSUME NEW i \in Links, NEW n \in Nodes, NEW j \in 1..Len(w[i][n])
        PROVE  Req(w[i][n][j]) # Req(q)
    <3>1. w[i][n][j] \in Packets
      BY DEF Wires
    <3> QED
      BY <3>1 DEF On
  <2> HIDE DEF v, s
  <2>6. Once(v)
    <3> SUFFICES ASSUME NEW i \in Links, NEW l \in Links,
                        NEW o \in Nodes, NEW n \in Nodes,
                        NEW a \in 1..Len(v[i][o]), NEW b \in 1..Len(v[l][n]),
                        Req(v[i][o][a]) = Req(v[l][n][b])
                 PROVE  i = l /\ o = n /\ a = b
      BY Zenon DEF Once
    <3>1. CASE a \in 1..Len(w[i][o]) /\ v[i][o][a] = w[i][o][a]
      <4>1. Req(v[l][n][b]) # Req(q)
        BY <2>5, <3>1
      <4>2. b \in 1..Len(w[l][n]) /\ v[l][n][b] = w[l][n][b]
        BY <2>4, <4>1
      <4> QED
        BY <3>1, <4>2 DEF Once
    <3>2. CASE i = k /\ o = m /\ a = Len(s) + 1 /\ v[i][o][a] = q
      <4>1. ~(b \in 1..Len(w[l][n]) /\ v[l][n][b] = w[l][n][b])
        BY <2>5, <3>2
      <4>2. l = k /\ n = m /\ b = Len(s) + 1
        BY <2>4, <4>1
      <4> QED
        BY <3>2, <4>2
    <3> QED
      BY <2>4, <3>1, <3>2
  <2>7. Adds(w, v, q)
    <3> SUFFICES ASSUME NEW i \in Links, NEW n \in Nodes, NEW p \in Packets,
                        On(v, i, n, p)
                 PROVE  On(w, i, n, p) \/ p = q
      BY Zenon DEF Adds
    <3>1. PICK h \in 1..Len(v[i][n]) : v[i][n][h] = p
      BY Zenon DEF On
    <3>2. (h \in 1..Len(w[i][n]) /\ v[i][n][h] = w[i][n][h]) \/ v[i][n][h] = q
      BY <2>4
    <3> QED
      BY <3>1, <3>2, Zenon DEF On
  <2> QED
    BY <2>6, <2>7 DEF v
<1> QED
  BY <1>1, <1>2

\* A packet that is lost leaves the others where they were.
LEMMA LostOnce ==
  ASSUME wire \in Wires, NEW k \in Links, NEW n \in Nodes,
         wire[k][n] # << >>, Once(wire),
         NEW w, w = [wire EXCEPT ![k][n] = Front(@)]
  PROVE  Once(w)
<1> DEFINE s == wire[k][n]
<1>1. s \in Seq(Packets) /\ s # << >>
  BY DEF Wires
<1>2. /\ Len(Front(s)) = Len(s) - 1 /\ Len(s) \in Nat
      /\ \A j \in 1..Len(Front(s)) : Front(s)[j] = s[j]
  BY <1>1 DEF Front
<1>3. \A i \in Links, m \in Nodes :
         w[i][m] = IF i = k /\ m = n THEN Front(s) ELSE wire[i][m]
  BY DEF Wires
<1>4. \A i \in Links, m \in Nodes : \A j \in 1..Len(w[i][m]) :
         j \in 1..Len(wire[i][m]) /\ w[i][m][j] = wire[i][m][j]
  BY <1>2, <1>3
<1> QED
  BY <1>4 DEF Once

-----------------------------------------------------------------------------
(* Where a request is, and what has been counted of it by then.            *)

Carried(r) ==
    \A k \in Links, n \in Nodes, p \in Packets :
       On(wire, k, n, p) /\ Req(p) = r =>
          /\ r \notin work
          /\ p.type = "enc" => served[r] = 0
          /\ p.type = "encrep" => served[r] = 1 /\ answered[r] = 0

Stage(r) ==
    /\ served[r] \in {0, 1} /\ answered[r] \in {0, 1}
    /\ answered[r] <= served[r]
    /\ r[2] > step[r[1]] => served[r] = 0
    /\ r \in work => served[r] = 1 /\ answered[r] = 0
    /\ Carried(r)

Stages == \A r \in Requests : Stage(r)
Stock == IInv /\ Once(wire) /\ Stages

\* A request stays where it is when nothing of it is counted, taken up by the
\* exit or sent.
LEMMA StageStays ==
  ASSUME TypeOK, Grows, NEW r \in Requests, Stage(r),
         served'[r] = served[r], answered'[r] = answered[r],
         r \in work' <=> r \in work,
         \A k \in Links, n \in Nodes, p \in Packets :
            On(wire', k, n, p) /\ Req(p) = r => On(wire, k, n, p)
  PROVE  Stage(r)'
<1>1. r[1] \in Circuits /\ r[2] \in Nat
  BY RequestParts
<1>2. Carried(r)'
  BY DEF Stage, Carried, On, Req
<1>3. r[2] > step'[r[1]] => served'[r] = 0
  <2>1. /\ step[r[1]] \in Nat /\ step'[r[1]] \in Nat
        /\ step[r[1]] <= step'[r[1]]
    BY <1>1 DEF TypeOK, Grows
  <2> QED
    BY <1>1, <2>1 DEF Stage
<1> QED
  BY <1>2, <1>3 DEF Stage

\* Nothing at all happens to the requests in a step that sends nothing.
LEMMA QuietStages ==
  ASSUME TypeOK, Stages, Grows, UNCHANGED <<served, answered, work>>,
         \A k \in Links, n \in Nodes, p \in Packets :
            On(wire', k, n, p) => On(wire, k, n, p)
  PROVE  Stages'
<1>1. ASSUME NEW r \in Requests
      PROVE  Stage(r)'
  BY StageStays DEF Stages
<1>2. Requests' = Requests
  BY DEF Requests
<1> QED
  BY <1>1 DEF Stages

-----------------------------------------------------------------------------
(* The packet a reader has at hand, in a step that reads it.               *)
LEMMA HandFacts ==
  ASSUME Stock, NEW k \in Links, NEW n \in Nodes, wire[k][n] # << >>,
         NEW p, p = Head(wire[k][n])
  PROVE  /\ p \in Packets /\ Good(k, n, p) /\ On(wire, k, n, p)
         /\ Taken(k, n) \in Wires /\ Once(Taken(k, n))
         /\ \A i \in Links, m \in Nodes, q \in Packets :
               On(Taken(k, n), i, m, q) => On(wire, i, m, q) /\ Req(q) # Req(p)
         /\ Req(p) \in Requests =>
               /\ Req(p) \notin work /\ Stage(Req(p))
               /\ p.type = "enc" => served[Req(p)] = 0
               /\ p.type = "encrep" =>
                     served[Req(p)] = 1 /\ answered[Req(p)] = 0
<1>1. IInv /\ Once(wire) /\ wire \in Wires
  BY DEF Stock, IInv, TypeOK, Wires
<1>2. /\ p \in Packets /\ On(wire, k, n, p) /\ Taken(k, n) \in Wires
      /\ \A i \in Links, m \in Nodes, q \in Packets :
            On(Taken(k, n), i, m, q) => On(wire, i, m, q)
  BY <1>1, TakenFacts
<1>3. Good(k, n, p)
  BY <1>1, ArrivedFacts
<1>4. /\ Once(Taken(k, n))
      /\ \A i \in Links, m \in Nodes, q \in Packets :
            On(Taken(k, n), i, m, q) => Req(q) # Req(p)
  BY <1>1, TakenOnce
<1>5. ASSUME Req(p) \in Requests
      PROVE  /\ Req(p) \notin work /\ Stage(Req(p))
             /\ p.type = "enc" => served[Req(p)] = 0
             /\ p.type = "encrep" => served[Req(p)] = 1 /\ answered[Req(p)] = 0
  BY <1>2, <1>5 DEF Stock, Stages, Stage, Carried
<1> QED
  BY <1>2, <1>3, <1>4, <1>5

\* A packet that moves on, or is replied to, leaves the other requests alone.
\* w is wire without it.
LEMMA MovedStages ==
  ASSUME TypeOK, Stages, Grows, NEW w \in Wires,
         NEW j, NEW m \in Nodes, NEW q \in Packets,
         Once(w), wire' = Sent(w, j, m, q),
         \A i \in Links, o \in Nodes, p \in Packets :
            On(w, i, o, p) => On(wire, i, o, p) /\ Req(p) # Req(q),
         \A r \in Requests : r # Req(q) =>
            /\ served'[r] = served[r] /\ answered'[r] = answered[r]
            /\ r \in work' <=> r \in work,
         Req(q) \in Requests =>
            /\ served'[Req(q)] \in {0, 1} /\ answered'[Req(q)] = 0
            /\ Req(q)[2] > step'[Req(q)[1]] => served'[Req(q)] = 0
            /\ Req(q) \notin work'
            /\ q.type = "enc" => served'[Req(q)] = 0
            /\ q.type = "encrep" => served'[Req(q)] = 1
  PROVE  Once(wire') /\ Stages'
<1>1. /\ Once(wire')
      /\ \A i \in Links, o \in Nodes, p \in Packets :
            On(wire', i, o, p) => On(w, i, o, p) \/ p = q
  <2>1. Once(Sent(w, j, m, q)) /\ Adds(w, Sent(w, j, m, q), q)
    <3>1. /\ up \subseteq Links
          /\ \A i \in Links, o \in Nodes, p \in Packets :
                On(w, i, o, p) => Req(p) # Req(q)
      BY Zenon DEF TypeOK
    <3> QED
      BY <3>1, SentOnce
  <2> QED
    BY <2>1 DEF Adds
<1>3. ASSUME NEW r \in Requests
      PROVE  Stage(r)'
  <2>1. CASE r = Req(q)
    <3>1. ASSUME NEW i \in Links, NEW o \in Nodes, NEW p \in Packets,
                 On(wire', i, o, p), Req(p) = r
          PROVE  p = q
      BY <1>1, <2>1, <3>1
    <3>2. Carried(r)'
      BY <2>1, <3>1 DEF Carried, On, Req
    <3> QED
      BY <2>1, <3>2 DEF Stage
  <2>2. CASE r # Req(q)
    <3>1. \A i \in Links, o \in Nodes, p \in Packets :
             On(wire', i, o, p) /\ Req(p) = r => On(wire, i, o, p)
      BY <1>1, <2>2
    <3>2. /\ Stage(r) /\ served'[r] = served[r] /\ answered'[r] = answered[r]
          /\ r \in work' <=> r \in work
      BY <2>2 DEF Stages
    <3> QED
      BY <3>1, <3>2, StageStays
  <2> QED
    BY <2>1, <2>2
<1>4. Requests' = Requests
  BY DEF Requests
<1> QED
  BY <1>1, <1>3, <1>4 DEF Stages
-----------------------------------------------------------------------------
(* Each step keeps that, and is one of Channel's, or none.                 *)

Channelled == [AsChannel!Next]_(AsChannel!vars)
Kept == Once(wire') /\ Stages' /\ Channelled

LEMMA Stutter ==
  ASSUME step' = step, served' = served, answered' = answered
  PROVE  Channelled
<1>1. Requested' = Requested
  BY DEF Requested, Requests
<1> QED
  BY <1>1 DEF Channelled, AsChannel!vars

\* A step that sends nothing and counts nothing.
LEMMA QuietKept ==
  ASSUME Stock, Grows, UNCHANGED <<step, served, answered, work>>, Once(wire'),
         \A k \in Links, n \in Nodes, p \in Packets :
            On(wire', k, n, p) => On(wire, k, n, p)
  PROVE  Kept
  BY QuietStages, Stutter DEF Kept, Stock, IInv

\* A message of a circuit that is new is nowhere yet.
LEMMA NewMessage ==
  ASSUME Stock, NEW q \in Packets, q.nr > step[q.circ]
  PROVE  /\ \A k \in Links, n \in Nodes, p \in Packets :
               On(wire, k, n, p) => Req(p) # Req(q)
         /\ Req(q) \notin work /\ Req(q) \notin Requested
         /\ Req(q) \in Requests => served[Req(q)] = 0 /\ answered[Req(q)] = 0
<1>1. q.circ \in Circuits /\ q.nr \in Nat /\ step[q.circ] \in Nat
  BY PacketFacts DEF Stock, IInv, TypeOK
<1>2. ASSUME NEW k \in Links, NEW n \in Nodes, NEW p \in Packets,
             On(wire, k, n, p)
      PROVE  Req(p) # Req(q)
  <2>1. p.circ \in Circuits /\ p.nr \in Nat /\ p.nr <= step[p.circ]
    BY <1>2, PacketFacts DEF Stock, IInv, WireGood, Good
  <2> QED
    BY <1>1, <2>1 DEF Req
<1>3. Req(q)[1] = q.circ /\ Req(q)[2] = q.nr
  BY DEF Req
<1>4. Req(q) \notin work
  BY <1>1, <1>3 DEF Stock, IInv, WorkSent
<1>5. Req(q) \notin Requested
  BY <1>1, <1>3 DEF Requested
<1>6. ASSUME Req(q) \in Requests
      PROVE  served[Req(q)] = 0 /\ answered[Req(q)] = 0
  BY <1>3, <1>6 DEF Stock, Stages, Stage
<1> QED
  BY <1>2, <1>4, <1>5, <1>6

\* A client sends the next message of a circuit: a request, or one before.
LEMMA EmitKept ==
  ASSUME Stock, NEW c \in Circuits, NEW k,
         NEW kind \in {"connect", "test", "search"}, Emit(c, k, kind)
  PROVE  Kept
<1> DEFINE g == Path[c][1]
<1> PICK q : q = Enc(c, step[c] + 1, kind, 1)
  OBVIOUS
<1>1. /\ step[c] \in Nat /\ step[c] + 1 \in Nat
      /\ MaxSteps[c] \in Nat /\ step[c] < MaxSteps[c]
      /\ 1 \in Places /\ g \in Nodes
  BY PathFacts DEF Stock, IInv, TypeOK, Emit, Places
<1>2. q \in Packets /\ q.circ = c /\ q.nr = step[c] + 1 /\ q.type = "enc"
  BY <1>1, EncFacts
<1>3. /\ wire' = Sent(wire, k, g, q) /\ step' = [step EXCEPT ![c] = @ + 1]
      /\ UNCHANGED <<ends, route, work, served, answered>>
  BY DEF Emit, links
<1>4. Grows
  BY <1>1, <1>3 DEF Stock, IInv, TypeOK, Grows
<1>5. /\ \A i \in Links, n \in Nodes, p \in Packets :
            On(wire, i, n, p) => On(wire, i, n, p) /\ Req(p) # Req(q)
      /\ Req(q) \notin work /\ Req(q) \notin Requested
      /\ Req(q) \in Requests => served[Req(q)] = 0 /\ answered[Req(q)] = 0
  <2>1. q.nr > step[q.circ]
    BY <1>1, <1>2
  <2>2. /\ \A i \in Links, n \in Nodes, p \in Packets :
              On(wire, i, n, p) => Req(p) # Req(q)
        /\ Req(q) \notin work /\ Req(q) \notin Requested
        /\ Req(q) \in Requests => served[Req(q)] = 0 /\ answered[Req(q)] = 0
    BY <1>2, <2>1, NewMessage
  <2> QED
    BY <2>2, Zenon
<1>6. Once(wire') /\ Stages'
  <2>1. wire \in Wires /\ Once(wire) /\ TypeOK /\ Stages
    BY DEF Stock, IInv, TypeOK, Wires
  <2> QED
    BY <1>1, <1>2, <1>3, <1>4, <1>5, <2>1, MovedStages
<1>7. Channelled
  <2>1. \A r \in Requests : r \in Requested' <=> r \in Requested \/ r = Req(q)
    <3> SUFFICES ASSUME NEW r \in Requests
                 PROVE  r \in Requested' <=> r \in Requested \/ r = Req(q)
      OBVIOUS
    <3>1. r = <<r[1], r[2]>> /\ r[1] \in Circuits /\ r[2] \in Nat
          /\ step[r[1]] \in Nat
      BY DEF Requests, Stock, IInv, TypeOK
    <3>2. step'[r[1]] = IF r[1] = c THEN step[c] + 1 ELSE step[r[1]]
      BY <1>3, <3>1 DEF Stock, IInv, TypeOK
    <3>3. r = Req(q) <=> r[1] = c /\ r[2] = step[c] + 1
      BY <1>2, <3>1 DEF Req
    <3>4. r \in Requested <=> r[2] <= step[r[1]]
      BY DEF Requested
    <3>5. r \in Requested' <=> r[2] <= step'[r[1]]
      BY DEF Requested, Requests
    <3> QED
      BY <1>1, <3>1, <3>2, <3>3, <3>4, <3>5
  <2>2. Requested \subseteq Requests /\ Requested' \subseteq Requests
    BY DEF Requested, Requests
  <2>3. CASE Req(q) \in Requests
    <3>1. Requested' = Requested \cup {Req(q)}
      BY <2>1, <2>2, <2>3
    <3>2. AsChannel!Ask(Req(q))
      BY <1>3, <1>5, <3>1 DEF AsChannel!Ask
    <3> QED
      BY <2>3, <3>2 DEF Channelled, AsChannel!Next
  <2>4. CASE Req(q) \notin Requests
    <3>1. Requested' = Requested
      BY <2>1, <2>2, <2>4
    <3> QED
      BY <1>3, <3>1 DEF Channelled, AsChannel!vars
  <2> QED
    BY <2>3, <2>4
<1> QED
  BY <1>6, <1>7 DEF Kept

LEMMA ClientKept ==
  ASSUME Stock, NEW c \in Circuits, Client(c)
  PROVE  Kept
<1>1. CASE Begin(c)
  <2>1. /\ step' = [step EXCEPT ![c] = 1] /\ step[c] = 0
        /\ UNCHANGED <<ends, wire, route, work, served, answered>>
    BY <1>1 DEF Begin
  <2>2. Grows
    BY <2>1 DEF Stock, IInv, TypeOK, Grows
  <2>3. Once(wire') /\ Stages'
    BY <2>1, <2>2, QuietStages DEF Stock, IInv, On, Once
  <2>4. Requested' = Requested
    <3>1. \A r \in Requests : r[2] <= step'[r[1]] <=> r[2] <= step[r[1]]
      <4> TAKE r \in Requests
      <4>1. r[1] \in Circuits /\ r[2] \in 4..MaxSteps[r[1]] /\ r[2] \in Nat
            /\ MaxSteps[r[1]] \in Nat
        BY RequestParts
      <4>2. step'[r[1]] = IF r[1] = c THEN 1 ELSE step[r[1]]
        BY <2>1, <4>1 DEF Stock, IInv, TypeOK
      <4> QED
        BY <2>1, <4>1, <4>2
    <3> QED
      BY <3>1 DEF Requested, Requests
  <2> QED
    BY <2>1, <2>3, <2>4 DEF Kept, Channelled, AsChannel!vars
<1>2. CASE TellGuard(c) \/ TellBridge(c) \/ SendTest(c) \/ Search(c)
  <2>1. \E k : \E kind \in {"connect", "test", "search"} : Emit(c, k, kind)
    BY <1>2, Zenon DEF TellGuard, TellBridge, SendTest, Search
  <2> QED
    BY <2>1, EmitKept
<1> QED
  BY <1>1, <1>2 DEF Client

\* A packet that is read and not sent on leaves the other requests alone.
LEMMA ReadStages ==
  ASSUME Stock, Grows, NEW k \in Links, NEW n \in Nodes, wire[k][n] # << >>,
         NEW r, r = Req(Head(wire[k][n])), wire' = Taken(k, n),
         \A s \in Requests : s # r =>
            /\ served'[s] = served[s] /\ answered'[s] = answered[s]
            /\ s \in work' <=> s \in work,
         r \in Requests =>
            /\ served'[r] \in {0, 1} /\ answered'[r] \in {0, 1}
            /\ answered'[r] <= served'[r]
            /\ r[2] > step'[r[1]] => served'[r] = 0
            /\ r \in work' => served'[r] = 1 /\ answered'[r] = 0
  PROVE  Once(wire') /\ Stages'
<1>1. /\ Once(wire')
      /\ \A i \in Links, m \in Nodes, q \in Packets :
            On(wire', i, m, q) => On(wire, i, m, q) /\ Req(q) # r
  BY HandFacts
<1>2. ASSUME NEW s \in Requests
      PROVE  Stage(s)'
  <2>1. CASE s = r
    <3>1. Carried(r)'
      BY <1>1 DEF Carried, On, Req
    <3> QED
      BY <2>1, <3>1 DEF Stage
  <2>2. CASE s # r
    BY <1>1, <2>2, StageStays DEF Stock, IInv, Stages
  <2> QED
    BY <2>1, <2>2
<1>3. Requests' = Requests
  BY DEF Requests
<1> QED
  BY <1>1, <1>2, <1>3 DEF Stages

\* What a packet at hand says of the request it carries or answers.
LEMMA HandRequest ==
  ASSUME Stock, NEW k \in Links, NEW n \in Nodes, wire[k][n] # << >>,
         NEW p, p = Head(wire[k][n]), p.kind # "connect"
  PROVE  /\ Req(p) \in Requested /\ Req(p) \in Requests
         /\ Req(p)[1] = p.circ /\ Req(p)[2] = p.nr /\ p.circ \in Circuits
         /\ p.nr \in Nat /\ p.nr > 3 /\ p.nr \in 2..MaxSteps[p.circ]
         /\ p.nr <= step[p.circ] /\ step[p.circ] \in Nat
<1>1. /\ p \in Packets /\ Good(k, n, p) /\ p.circ \in Circuits /\ p.nr \in Nat
      /\ p.type \in {"enc", "encrep"} /\ step[p.circ] \in Nat
      /\ MaxSteps[p.circ] \in Nat
  BY HandFacts, PacketFacts DEF Stock, IInv, TypeOK
<1>2. p.nr \in 2..MaxSteps[p.circ] /\ p.nr <= step[p.circ]
  BY <1>1, Zenon DEF Good
<1>3. p.nr > 3
  <2>1. CASE p.type = "enc"
    BY <1>1, <2>1 DEF Good, Outward
  <2>2. CASE p.type = "encrep"
    BY <1>1, <2>2, Zenon DEF Good, Returning
  <2> QED
    BY <1>1, <2>1, <2>2
<1>4. p.nr \in 4..MaxSteps[p.circ]
  BY <1>1, <1>2, <1>3
<1>5. Req(p) \in Requests /\ Req(p)[1] = p.circ /\ Req(p)[2] = p.nr
  BY <1>1, <1>4, RequestFacts DEF Req
<1> QED
  BY <1>1, <1>2, <1>3, <1>5 DEF Requested

\* A relay passes a message on to the next relay.
LEMMA ForwardKept ==
  ASSUME Stock, NEW k \in Links, NEW n \in Nodes, Forward(k, n)
  PROVE  Kept
<1>1. Routed(k, n) /\ wire[k][n] # << >>
  BY Zenon DEF Forward, Routed, Arrived
<1>2. PICK p : p = Head(wire[k][n])
  OBVIOUS
<1>3. /\ ends' = ends /\ step' = step
      /\ UNCHANGED <<served, answered, work>>
  BY DEF Forward, links, client
<1>4. IInv
  BY DEF Stock
<1>5. /\ p \in Packets /\ Good(k, n, p) /\ p.type = "enc" /\ Grows
      /\ p.circ \in Circuits /\ p.at \in Places
  BY <1>1, <1>2, <1>3, <1>4, RoutedFacts
<1>6. /\ Taken(k, n) \in Wires /\ Once(Taken(k, n))
      /\ \A i \in Links, m \in Nodes, q \in Packets :
            On(Taken(k, n), i, m, q) => On(wire, i, m, q) /\ Req(q) # Req(p)
      /\ Req(p) \in Requests =>
            Req(p) \notin work /\ Stage(Req(p)) /\ served[Req(p)] = 0
  BY <1>1, <1>2, <1>5, HandFacts
<1>7. p.at < Target(p.nr)
  BY <1>2, Zenon DEF Forward
<1>8. p.at < 3 /\ p.at + 1 \in Places
  BY <1>5, <1>7 DEF Target, Places
<1>9. PICK m \in Nodes : m = Path[p.circ][p.at + 1]
  BY <1>5, <1>8, PathFacts
<1>10. PICK q \in Packets :
          /\ q = Enc(p.circ, p.nr, p.kind, p.at + 1)
          /\ q.circ = p.circ /\ q.nr = p.nr /\ q.type = "enc"
  <2>1. p.nr \in Nat /\ p.kind \in {"connect", "test", "search"}
    BY <1>5, PacketFacts DEF Packets
  <2> QED
    BY <1>5, <1>8, <2>1, EncFacts
<1>11. PICK j : j = peer[n][m]
  OBVIOUS
<1>12. wire' = IF j = None THEN Taken(k, n) ELSE Sent(Taken(k, n), j, m, q)
  BY <1>2, <1>9, <1>10, <1>11, Zenon DEF Forward
<1>13. CASE j = None
  <2>1. wire' = Taken(k, n)
    BY <1>12, <1>13
  <2> QED
    BY <1>3, <1>5, <1>6, <2>1, QuietKept
<1>14. CASE j # None
  <2>1. Req(q) = Req(p)
    BY <1>10 DEF Req
  <2>2. wire' = Sent(Taken(k, n), j, m, q)
    BY <1>12, <1>14
  <2>3. Req(q) \in Requests =>
           /\ served'[Req(q)] = 0 /\ answered'[Req(q)] = 0
           /\ Req(q) \notin work'
    BY <1>3, <1>6, <2>1 DEF Stage
  <2>4. Once(wire') /\ Stages'
    <3>1. TypeOK /\ Stages
      BY DEF Stock, IInv
    <3>2. \A i \in Links, o \in Nodes, x \in Packets :
             On(Taken(k, n), i, o, x) => On(wire, i, o, x) /\ Req(x) # Req(q)
      BY <1>6, <2>1
    <3> QED
      BY <1>3, <1>5, <1>6, <1>10, <2>2, <2>3, <3>1, <3>2, MovedStages
  <2> QED
    BY <1>3, <2>4, Stutter DEF Kept
<1> QED
  BY <1>13, <1>14

\* The exit answers a test at once.
LEMMA TestKept ==
  ASSUME Stock, NEW k \in Links, NEW n \in Nodes, Test(k, n)
  PROVE  Kept
<1>1. Routed(k, n) /\ wire[k][n] # << >>
  BY Zenon DEF Test, Routed, Arrived
<1>2. PICK p : p = Head(wire[k][n])
  OBVIOUS
<1>3. ends' = ends /\ step' = step /\ answered' = answered /\ work' = work
  BY DEF Test, links, client
<1>4. IInv
  BY DEF Stock
<1>5. /\ p \in Packets /\ Good(k, n, p) /\ p.type = "enc"
      /\ route' \in [Nodes -> [Circuits -> Links \cup {None}]]
      /\ route'[n][p.circ] # None
      /\ Grows /\ RouteBack' /\ Chain'
  BY <1>1, <1>2, <1>3, <1>4, RoutedFacts
<1>6. p.kind = "test"
  BY <1>2, Zenon DEF Test
<1>7. PICK r \in Requests :
         /\ r = <<p.circ, p.nr>> /\ r = Req(p) /\ r \in Requested
         /\ r[1] = p.circ /\ r[2] = p.nr /\ p.circ \in Circuits
         /\ p.nr \in Nat /\ p.nr > 3 /\ p.nr \in 2..MaxSteps[p.circ]
         /\ p.nr <= step[p.circ] /\ step[p.circ] \in Nat
  BY <1>1, <1>2, <1>6, HandRequest DEF Req
<1>8. /\ Taken(k, n) \in Wires /\ Once(Taken(k, n))
      /\ \A i \in Links, m \in Nodes, x \in Packets :
            On(Taken(k, n), i, m, x) => On(wire, i, m, x) /\ Req(x) # r
      /\ r \notin work /\ Stage(r) /\ served[r] = 0
  <2>1. /\ Taken(k, n) \in Wires /\ Once(Taken(k, n))
        /\ \A i \in Links, m \in Nodes, x \in Packets :
              On(Taken(k, n), i, m, x) => On(wire, i, m, x) /\ Req(x) # Req(p)
        /\ Req(p) \in Requests =>
              Req(p) \notin work /\ Stage(Req(p)) /\ served[Req(p)] = 0
    BY <1>1, <1>2, <1>5, HandFacts
  <2> QED
    BY <1>7, <2>1, Zenon
<1>9. PICK q \in Packets :
         /\ q = Encrep(r, "test2") /\ q.circ = p.circ /\ q.nr = p.nr
         /\ q.type = "encrep"
  BY <1>7, EncrepFacts
<1>10. PICK j : j = route'[n][p.circ]
  OBVIOUS
<1>11. PICK m : m = Other(j, n)
  OBVIOUS
<1>12. /\ wire' = Sent(Taken(k, n), j, m, q)
       /\ served' = [served EXCEPT ![r] = @ + 1]
  BY <1>2, <1>7, <1>9, <1>10, <1>11, Zenon DEF Test
<1>13. m \in Nodes
  BY <1>3, <1>4, <1>5, <1>7, <1>9, <1>10, <1>11, ReplyGood
<1>14. served' = [served EXCEPT ![r] = 1] /\ served \in [Requests -> Nat]
  BY <1>4, <1>8, <1>12 DEF IInv, TypeOK
<1>15. Req(q) = r
  BY <1>7, <1>9 DEF Req
<1>16. Once(wire') /\ Stages'
  <2>1. TypeOK /\ Stages
    BY DEF Stock, IInv
  <2>2. \A s \in Requests : s # r =>
           /\ served'[s] = served[s] /\ answered'[s] = answered[s]
           /\ s \in work' <=> s \in work
    BY <1>3, <1>14
  <2>3. /\ served'[r] = 1 /\ answered'[r] = 0 /\ r \notin work'
        /\ ~(r[2] > step'[r[1]])
    BY <1>3, <1>7, <1>8, <1>14 DEF Stage
  <2> QED
    BY <1>5, <1>8, <1>9, <1>12, <1>13, <1>15, <2>1, <2>2, <2>3, MovedStages
<1>17. AsChannel!Serve(r)
  <2>1. Requested' = Requested
    BY <1>3 DEF Requested, Requests
  <2> QED
    BY <1>3, <1>7, <1>8, <1>14, <2>1 DEF AsChannel!Serve
<1> QED
  BY <1>16, <1>17 DEF Kept, Channelled, AsChannel!Next

\* The exit has a search to work on.
LEMMA SearcherKept ==
  ASSUME Stock, NEW k \in Links, NEW n \in Nodes, Searcher(k, n)
  PROVE  Kept
<1>1. Routed(k, n) /\ wire[k][n] # << >>
  BY Zenon DEF Searcher, Routed, Arrived
<1>2. PICK p : p = Head(wire[k][n])
  OBVIOUS
<1>3. PICK r : r = <<p.circ, p.nr>>
  OBVIOUS
<1>4. /\ ends' = ends /\ step' = step /\ answered' = answered
      /\ work' = work \cup {r} /\ wire' = Taken(k, n) /\ p.kind = "search"
      /\ served' = [served EXCEPT ![r] = @ + 1]
  BY <1>2, <1>3 DEF Searcher, links, client
<1>5. IInv
  BY DEF Stock
<1>6. p.type = "enc" /\ Grows
  BY <1>1, <1>2, <1>4, <1>5, RoutedFacts
<1>7. /\ r = Req(p) /\ r \in Requests /\ r \in Requested
      /\ r[2] <= step[r[1]] /\ r[2] \in Nat /\ step[r[1]] \in Nat
  BY <1>1, <1>2, <1>3, <1>4, HandRequest DEF Req
<1>8. Stage(r) /\ served[r] = 0
  BY <1>1, <1>2, <1>6, <1>7, HandFacts
<1>9. served' = [served EXCEPT ![r] = 1] /\ served \in [Requests -> Nat]
  BY <1>4, <1>5, <1>8 DEF IInv, TypeOK
<1>10. Once(wire') /\ Stages'
  <2>1. \A s \in Requests : s # r =>
           /\ served'[s] = served[s] /\ answered'[s] = answered[s]
           /\ s \in work' <=> s \in work
    BY <1>4, <1>9
  <2>2. /\ served'[r] = 1 /\ answered'[r] = 0 /\ ~(r[2] > step'[r[1]])
    BY <1>4, <1>7, <1>8, <1>9 DEF Stage
  <2> QED
    BY <1>1, <1>2, <1>4, <1>6, <1>7, <2>1, <2>2, ReadStages
<1>11. AsChannel!Serve(r)
  <2>1. Requested' = Requested
    BY <1>4 DEF Requested, Requests
  <2> QED
    BY <1>4, <1>7, <1>8, <1>9, <2>1 DEF AsChannel!Serve
<1> QED
  BY <1>7, <1>10, <1>11 DEF Kept, Channelled, AsChannel!Next

\* The exit has worked on a search, and replies to it.
LEMMA ReplyKept ==
  ASSUME Stock, NEW r \in Requests, Reply(r)
  PROVE  Kept
<1>1. /\ ends' = ends /\ step' = step /\ route' = route
      /\ UNCHANGED <<served, answered>> /\ work' = work \ {r} /\ r \in work
  BY DEF Reply, links, client
<1>2. /\ r[1] \in Circuits /\ r[2] \in 4..MaxSteps[r[1]] /\ r[2] \in Nat
      /\ MaxSteps[r[1]] \in Nat /\ r = <<r[1], r[2]>>
  BY RequestParts DEF Requests
<1>3. PICK c \in Circuits : c = r[1]
  BY <1>2
<1>4. PICK n \in Nodes : n = Path[c][3]
  BY PathFacts DEF Places
<1>5. PICK q \in Packets :
         /\ q = Encrep(r, "respv2") /\ q.circ = c /\ q.nr = r[2]
         /\ q.type = "encrep"
  BY <1>2, <1>3, EncrepFacts
<1>6. /\ IInv /\ wire \in Wires /\ up \subseteq Links
      /\ route' \in [Nodes -> [Circuits -> Links \cup {None}]]
      /\ r[2] <= step[c] /\ step[c] \in Nat
  BY <1>1, <1>3 DEF Stock, IInv, TypeOK, Wires, WorkSent
<1>7. Grows /\ RouteBack' /\ Chain'
  <2>1. Grows
    BY <1>1, <1>6 DEF IInv, TypeOK, Grows
  <2> QED
    BY <1>1, <1>6, <2>1, RoutesStay DEF IInv
<1>8. PICK j : j = route[n][c]
  OBVIOUS
<1>9. PICK m \in Nodes : wire' = Sent(wire, j, m, q)
  <2>1. wire' = Sent(wire, j, Other(j, n), q)
    BY <1>3, <1>4, <1>5, <1>8, Zenon DEF Reply
  <2>2. CASE j = None
    <3>1. j \notin up
      BY <1>6, <2>2
    <3>2. wire' = Sent(wire, j, n, q)
      BY <2>1, <3>1 DEF Sent
    <3> QED
      BY <3>2
  <2>3. CASE j # None
    <3>1. q.nr > 3 /\ q.nr \in 2..MaxSteps[q.circ] /\ q.nr <= step[q.circ]
      BY <1>2, <1>3, <1>5, <1>6
    <3>2. Other(j, n) \in Nodes
      BY <1>1, <1>5, <1>6, <1>7, <1>8, <2>3, <3>1, ReplyGood
    <3> QED
      BY <2>1, <3>2
  <2> QED
    BY <2>2, <2>3
<1>10. Req(q) = r
  BY <1>2, <1>3, <1>5 DEF Req
<1>11. Stage(r) /\ served[r] = 1 /\ answered[r] = 0
  BY <1>1 DEF Stock, Stages, Stage
<1>12. \A i \in Links, o \in Nodes, p \in Packets :
          On(wire, i, o, p) => On(wire, i, o, p) /\ Req(p) # Req(q)
  BY <1>1, <1>10, <1>11, Zenon DEF Stage, Carried
<1>13. Once(wire') /\ Stages'
  <2>1. TypeOK /\ Stages /\ Once(wire)
    BY DEF Stock, IInv
  <2>2. \A s \in Requests : s # r =>
           /\ served'[s] = served[s] /\ answered'[s] = answered[s]
           /\ s \in work' <=> s \in work
    BY <1>1
  <2>3. /\ served'[r] = 1 /\ answered'[r] = 0 /\ r \notin work'
        /\ ~(r[2] > step'[r[1]])
    BY <1>1, <1>2, <1>3, <1>6, <1>11
  <2>4. /\ \A s \in Requests : s # Req(q) =>
              /\ served'[s] = served[s] /\ answered'[s] = answered[s]
              /\ s \in work' <=> s \in work
        /\ served'[Req(q)] = 1 /\ answered'[Req(q)] = 0 /\ Req(q) \notin work'
        /\ ~(Req(q)[2] > step'[Req(q)[1]])
    BY <1>10, <2>2, <2>3, Zenon
  <2> QED
    BY <1>5, <1>6, <1>7, <1>9, <1>12, <2>1, <2>4, MovedStages
<1> QED
  BY <1>1, <1>13, Stutter DEF Kept

\* A relay passes a reply on.
LEMMA BackKept ==
  ASSUME Stock, NEW k \in Links, NEW n \in Nodes, Back(k, n)
  PROVE  Kept
<1>1. /\ ends' = ends /\ step' = step /\ route' = route /\ wire[k][n] # << >>
      /\ UNCHANGED <<served, answered, work>>
  BY DEF Back, Arrived, links, client
<1>2. PICK p : p = Head(wire[k][n])
  OBVIOUS
<1>3. p.type = "encrep" /\ route[n][p.circ] # None
  BY <1>2, Zenon DEF Back, Arrived
<1>4. p \in Packets /\ p.kind # "connect"
  BY <1>1, <1>2, <1>3, HandFacts, PacketFacts
<1>5. /\ Req(p) \in Requests /\ p.nr > 3 /\ p.nr \in 2..MaxSteps[p.circ]
      /\ p.nr <= step[p.circ] /\ Req(p)[1] = p.circ /\ Req(p)[2] = p.nr
      /\ p.nr \in Nat /\ step[p.circ] \in Nat
  BY <1>1, <1>2, <1>4, HandRequest
<1>6. /\ Taken(k, n) \in Wires /\ Once(Taken(k, n))
      /\ \A i \in Links, m \in Nodes, x \in Packets :
            On(Taken(k, n), i, m, x) => On(wire, i, m, x) /\ Req(x) # Req(p)
      /\ Req(p) \notin work /\ served[Req(p)] = 1 /\ answered[Req(p)] = 0
  BY <1>1, <1>2, <1>3, <1>5, HandFacts
<1>7. PICK j : j = route[n][p.circ]
  OBVIOUS
<1>8. PICK m : m = Other(j, n)
  OBVIOUS
<1>9. wire' = Sent(Taken(k, n), j, m, p)
  BY <1>2, <1>7, <1>8, Zenon DEF Back
<1>10. /\ IInv /\ Grows /\ RouteBack' /\ Chain'
       /\ route' \in [Nodes -> [Circuits -> Links \cup {None}]]
  <2>1. IInv /\ TypeOK
    BY DEF Stock, IInv
  <2>2. Grows
    BY <1>1, <2>1 DEF TypeOK, Grows
  <2> QED
    BY <1>1, <2>1, <2>2, RoutesStay DEF IInv, TypeOK
<1>11. m \in Nodes
  BY <1>1, <1>3, <1>4, <1>5, <1>7, <1>8, <1>10, ReplyGood
<1>12. Once(wire') /\ Stages'
  <2>1. TypeOK /\ Stages
    BY DEF Stock, IInv
  <2>2. /\ served'[Req(p)] = 1 /\ answered'[Req(p)] = 0 /\ Req(p) \notin work'
        /\ ~(Req(p)[2] > step'[Req(p)[1]])
    BY <1>1, <1>5, <1>6
  <2> QED
    BY <1>1, <1>3, <1>4, <1>6, <1>9, <1>10, <1>11, <2>1, <2>2, MovedStages
<1> QED
  BY <1>1, <1>12, Stutter DEF Kept

\* A reply has come to the client that asked, or to one that asks no more.
LEMMA HomeKept ==
  ASSUME Stock, NEW k \in Links, NEW n \in Nodes, Home(k, n)
  PROVE  Kept
<1>1. PICK p : p = Head(wire[k][n])
  OBVIOUS
<1>2. PICK r : r = <<p.circ, p.nr>>
  OBVIOUS
<1>3. /\ ends' = ends /\ step' = step /\ route' = route /\ wire[k][n] # << >>
      /\ UNCHANGED <<served, work>> /\ wire' = Taken(k, n)
      /\ p.type = "encrep"
      /\ answered' = answered \/ answered' = [answered EXCEPT ![r] = @ + 1]
  BY <1>1, <1>2 DEF Home, Arrived, links, client
<1>4. p.kind # "connect"
  BY <1>1, <1>3, HandFacts, PacketFacts
<1>5. /\ r = Req(p) /\ r \in Requests /\ r[2] <= step[r[1]]
      /\ r[2] \in Nat /\ step[r[1]] \in Nat
  BY <1>1, <1>2, <1>3, <1>4, HandRequest DEF Req
<1>6. r \notin work /\ Stage(r) /\ served[r] = 1 /\ answered[r] = 0
  BY <1>1, <1>3, <1>5, HandFacts
<1>7. /\ Grows /\ Requested' = Requested
      /\ answered \in [Requests -> Nat]
  BY <1>3 DEF Stock, IInv, TypeOK, Grows, Requested, Requests
<1>8. CASE answered' = answered
  <2>1. Once(wire') /\ Stages'
    BY <1>1, <1>3, <1>5, <1>6, <1>7, <1>8, ReadStages
  <2> QED
    BY <1>3, <1>8, <2>1, Stutter DEF Kept
<1>9. CASE answered' = [answered EXCEPT ![r] = @ + 1]
  <2>1. answered' = [answered EXCEPT ![r] = 1]
    BY <1>6, <1>7, <1>9
  <2>2. \A s \in Requests : s # r =>
           /\ served'[s] = served[s] /\ answered'[s] = answered[s]
           /\ s \in work' <=> s \in work
    BY <1>3, <1>7, <2>1
  <2>3. /\ served'[r] = 1 /\ answered'[r] = 1 /\ r \notin work'
        /\ ~(r[2] > step'[r[1]])
    BY <1>3, <1>5, <1>6, <1>7, <2>1
  <2>4. Once(wire') /\ Stages'
    BY <1>1, <1>3, <1>5, <1>7, <2>2, <2>3, ReadStages
  <2>5. AsChannel!Answer(r)
    BY <1>3, <1>6, <1>7, <2>1 DEF AsChannel!Answer
  <2> QED
    BY <1>5, <2>4, <2>5 DEF Kept, Channelled, AsChannel!Next
<1> QED
  BY <1>3, <1>8, <1>9

LEMMA ReaderKept ==
  ASSUME Stock, NEW k \in Links, NEW n \in Nodes, Reader(k, n)
  PROVE  Kept
<1>1. CASE NoRoute(k, n)
  <2>1. UNCHANGED <<ends, step, wire, route, served, answered, work>>
    BY <1>1 DEF NoRoute, links, client
  <2>2. Grows
    BY <2>1 DEF Stock, IInv, TypeOK, Grows
  <2> QED
    BY <2>1, <2>2, QuietKept DEF Stock, On, Once
<1>2. CASE Connect(k, n)
  <2>1. Routed(k, n) /\ wire[k][n] # << >> /\ wire' = Taken(k, n)
        /\ UNCHANGED <<ends, step, served, answered, work>>
    BY <1>2 DEF Connect, Routed, Arrived, client
  <2>2. Grows
    BY <2>1, RoutedFacts DEF Stock
  <2>3. /\ Once(wire')
        /\ \A i \in Links, m \in Nodes, q \in Packets :
              On(wire', i, m, q) => On(wire, i, m, q)
    BY <2>1, HandFacts
  <2> QED
    BY <2>1, <2>2, <2>3, QuietKept
<1> QED
  BY <1>1, <1>2, ForwardKept, TestKept, SearcherKept, BackKept, HomeKept
  DEF Reader

LEMMA NetworkKept ==
  ASSUME Stock, Network
  PROVE  Kept
<1>1. TypeOK /\ wire \in Wires /\ Once(wire)
  BY DEF Stock, IInv, TypeOK, Wires
<1>2. ASSUME UNCHANGED <<step, wire, route, served, answered, work>>,
             \A k \in Links : ends[k] # {} => ends'[k] = ends[k]
      PROVE  Kept
  <2>1. Grows
    BY <1>1, <1>2 DEF TypeOK, Grows
  <2> QED
    BY <1>1, <1>2, <2>1, QuietKept DEF On, Once
<1>3. ASSUME NEW k \in Links, NEW n \in Nodes, Lose(k, n)
      PROVE  Kept
  <2>1. wire[k][n] # << >> /\ wire' = [wire EXCEPT ![k][n] = Front(@)]
        /\ UNCHANGED <<ends, step, route, served, answered, work>>
    BY <1>3 DEF Lose, links, client
  <2>2. Grows
    BY <1>1, <2>1 DEF TypeOK, Grows
  <2>3. Once(wire')
    BY <1>1, <2>1, LostOnce
  <2>4. \A i \in Links, m \in Nodes, p \in Packets :
           On(wire', i, m, p) => On(wire, i, m, p)
    BY <1>1, <2>1, LostFacts
  <2> QED
    BY <2>1, <2>2, <2>3, <2>4, QuietKept
<1>4. ASSUME NEW k \in Links, Break(k)
      PROVE  Kept
  BY <1>2, <1>4 DEF Break, client
<1>5. ASSUME NEW k \in Links, NEW n \in Nodes, NEW e \in Endings,
             Forget(k, n, e)
      PROVE  Kept
  BY <1>2, <1>5 DEF Forget, client
<1>6. ASSUME NEW k \in Links, NEW n \in Nodes, NEW m \in Nodes, Link(k, n, m)
      PROVE  Kept
  <2>1. \A i \in Links : ends[i] # {} => ends'[i] = ends[i]
    BY <1>1, <1>6 DEF Link, TypeOK
  <2> QED
    BY <1>2, <1>6, <2>1 DEF Link, client
<1> QED
  BY <1>3, <1>4, <1>5, <1>6 DEF Network

LEMMA NextKept ==
  ASSUME Stock, [Next]_vars
  PROVE  Stock' /\ Channelled
<1>1. IInv'
  BY NextIInv DEF Stock
<1>2. Kept
  <2>1. CASE UNCHANGED vars
    <3>1. UNCHANGED <<ends, step, wire, route, served, answered, work>>
      BY <2>1 DEF vars, links, client
    <3>2. Grows
      BY <3>1 DEF Stock, IInv, TypeOK, Grows
    <3> QED
      BY <3>1, <3>2, QuietKept DEF Stock, On, Once
  <2> QED
    BY <2>1, ClientKept, ReaderKept, ReplyKept, NetworkKept DEF Next
<1> QED
  BY <1>1, <1>2 DEF Stock, Kept

LEMMA InitStock ==
  ASSUME Init
  PROVE  Stock
<1>1. IInv
  BY InitIInv
<1>2. Once(wire)
  BY DEF Init, Once
<1>3. Stages
  <2> SUFFICES ASSUME NEW r \in Requests
               PROVE  Stage(r)
    BY DEF Stages
  <2>1. Carried(r)
    BY DEF Init, Carried, On
  <2> QED
    BY <2>1 DEF Init, Stage
<1> QED
  BY <1>1, <1>2, <1>3 DEF Stock

-----------------------------------------------------------------------------
\* A message of a circuit exists once at any time: as one packet on its way, or
\* as one search the exit works on, whichever readers race, whatever is lost
\* and whichever connections are made anew (l1peer.go:81-174, circuit.go:87-155).
THEOREM OneOfEach == Spec => []Stock
<1>1. Init => Stock
  BY InitStock
<1>2. Stock /\ [Next]_vars => Stock'
  BY NextKept
<1> QED
  BY <1>1, <1>2, PTL DEF Spec

\* The circuits are the channel of Channel: the exit deals with no request
\* twice, and no more than one answer to it, nor one that the exit has not
\* given, is accepted, across lost, racing and re-made connections.
THEOREM Implements == Spec => ImplementsChannel
<1>1. Init => AsChannel!Init
  <2> SUFFICES ASSUME Init
               PROVE  AsChannel!Init
    OBVIOUS
  <2>1. Requested = {}
    <3>1. \A r \in Requests : ~(r[2] <= step[r[1]])
      BY RequestParts DEF Init
    <3> QED
      BY <3>1 DEF Requested
  <2> QED
    BY <2>1 DEF Init, AsChannel!Init
<1>2. Stock /\ [Next]_vars => [AsChannel!Next]_(AsChannel!vars)
  BY NextKept DEF Channelled
<1> QED
  BY <1>1, <1>2, OneOfEach, PTL DEF Spec, ImplementsChannel, AsChannel!Spec

\* What Channel says of answers: a client has taken no more answers to a
\* request than the exit has dealt with it, and that is once at most, and only
\* after it was sent.
AtMostOnce ==
    \A r \in Requests :
       /\ answered[r] <= served[r] /\ served[r] <= 1
       /\ served[r] > 0 => r[2] <= step[r[1]]

\* A request is dealt with at most once, after it was sent, and answered no
\* more often than that (l1peer.go:94-124, 181-203, 274-276).
THEOREM AnsweredOnce == Spec => []AtMostOnce
<1>1. ASSUME Stock
      PROVE  AtMostOnce
  <2> SUFFICES ASSUME NEW r \in Requests
               PROVE  /\ answered[r] <= served[r] /\ served[r] <= 1
                      /\ served[r] > 0 => r[2] <= step[r[1]]
    BY DEF AtMostOnce
  <2>1. r[1] \in Circuits /\ r[2] \in Nat
    BY RequestParts
  <2>2. step \in [Circuits -> Nat] /\ Stage(r)
    BY <1>1, Zenon DEF Stock, IInv, TypeOK, Stages
  <2>3. step[r[1]] \in Nat
    BY <2>1, <2>2
  <2> QED
    BY <2>1, <2>2, <2>3 DEF Stage
<1> QED
  BY <1>1, OneOfEach, PTL

=============================================================================
