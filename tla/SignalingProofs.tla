---------------------------- MODULE SignalingProofs ----------------------------
(***************************************************************************)
(* Proofs about Signaling, for any clients and any number of connections:  *)
(* the variables keep their types, an open connection is between two       *)
(* L1Peers made for each other, it is listed unless another one of that    *)
(* name is to blame, and one that has ended is deleted.                    *)
(***************************************************************************)
EXTENDS Signaling, TLAPS

USE BoundAssumption, NoneAssumption

-----------------------------------------------------------------------------
(* The invariant.                                                          *)

\* What is not made yet is blank.
MadeOnly ==
    \A p \in Peers :
       IF p <= made THEN of[p] \in Clients /\ with[p] \in Clients
       ELSE /\ p \notin initiator /\ p \notin adding
            /\ sig[p] = "new" /\ remote[p] = None /\ conn[p] = "new"

\* p and q are made for each other, one to offer and one to answer.
Pair(p, q) ==
    /\ p <= made /\ q <= made
    /\ of[q] = with[p] /\ with[q] = of[p]
    /\ p \in initiator <=> q \notin initiator

\* Offers are from an initiator and answers from another, as they say.
CellsMeant ==
    \A m \in cells : m.type # "userlist" =>
       /\ m.D2 <= made /\ of[m.D2] = m.D0 /\ with[m.D2] = m.D1
       /\ m.type = "offer" <=> m.D2 \in initiator

\* L1Peers has what was made for the client and the name.
Entries ==
    \A x, y \in Clients, p \in Peers : l1peers[x][y] = p =>
       p <= made /\ of[p] = x /\ with[p] = y /\ p \notin adding

Remotes == \A p, q \in Peers : remote[p] = q => Pair(p, q)

\* How far a connection is.
Stages ==
    \A p \in Peers :
       /\ sig[p] = "stable" => remote[p] # None /\ p \notin adding
       /\ p \in initiator => sig[p] # "new"
       /\ p \notin initiator => sig[p] # "have-local-offer"
       /\ p \in initiator /\ p \in adding => remote[p] = None
       /\ conn[p] # "new" => sig[p] = "stable"
       /\ \A e \in Endings : <<p, e>> \in ending => conn[p] = "ended"

\* Remotes of what is open are mutual, and stay so.
Mutual ==
    \A p \in Peers : conn[p] = "open" =>
       remote[remote[p]] = p /\ sig[remote[p]] = "stable"

\* Entered, a peer is missing only if it has ended or there is another.
Missing ==
    \A p \in Peers : p <= made /\ p \notin adding =>
       \/ l1peers[of[p]][with[p]] = p \/ conn[p] = "ended"
       \/ \E q \in Peers \ {p} :
             /\ q <= made /\ Same(p, q)
             /\ conn[q] = "ended" \/ p \notin initiator
                                  \/ sig[p] # "stable"

IInv ==
    /\ TypeOK /\ MadeOnly /\ CellsMeant /\ Entries /\ Remotes
    /\ Stages /\ Mutual /\ Missing /\ EndedForgotten

LEMMA InitIInv ==
  ASSUME Init
  PROVE  IInv
<1>1. TypeOK
  BY DEF Init, TypeOK
<1>2. MadeOnly /\ CellsMeant /\ Entries /\ Remotes /\ Stages
  BY DEF Init, MadeOnly, CellsMeant, Entries, Remotes, Stages, Peers
<1>3. Mutual /\ Missing /\ EndedForgotten
  BY DEF Init, Mutual, Missing, EndedForgotten, Peers
<1> QED
  BY <1>1, <1>2, <1>3 DEF IInv

-----------------------------------------------------------------------------
(* A new L1Peer.                                                           *)

LEMMA NewStep ==
  ASSUME IInv, NEW x \in Clients, NEW y \in Clients, NEW p, New(p, x, y),
         \/ initiator' = initiator /\ sig' = sig
         \/ /\ initiator' = initiator \cup {p} /\ remote' = remote
            /\ sig' = [sig EXCEPT ![p] = "have-local-offer"],
         \/ remote' = remote
         \/ \E q \in Peers :
               /\ q <= made /\ of[q] = y /\ with[q] = x /\ q \in initiator
               /\ remote' = [remote EXCEPT ![p] = q],
         UNCHANGED <<conn, theirs, ending, l1peers, crashed>>,
         calls' \in 0..MaxCalls, cells' \subseteq Cells,
         \A m \in cells' : m \in cells \/ m.type = "userlist"
                              \/ (m = Offer(p) /\ p \in initiator')
  PROVE  IInv'
<1>1. /\ p = made + 1 /\ p \in Peers /\ made' = p /\ made \in Nat
      /\ p \in 0..MaxPeers
      /\ of' = [of EXCEPT ![p] = x] /\ with' = [with EXCEPT ![p] = y]
      /\ adding' = adding \cup {p}
  BY DEF New, IInv, TypeOK, Peers
<1>2. /\ p \notin initiator /\ p \notin adding /\ sig[p] = "new"
      /\ remote[p] = None /\ conn[p] = "new"
  BY <1>1 DEF IInv, MadeOnly
<1>3. TypeOK'
  <2>1. made' \in 0..MaxPeers
    BY <1>1
  <2>2. /\ of' \in [Peers -> Clients \cup {None}]
        /\ with' \in [Peers -> Clients \cup {None}]
        /\ initiator' \subseteq Peers /\ adding' \subseteq Peers
    BY <1>1 DEF IInv, TypeOK
  <2>3. /\ sig' \in [Peers -> {"new", "have-local-offer", "stable"}]
        /\ remote' \in [Peers -> Peers \cup {None}]
    BY <1>1 DEF IInv, TypeOK
  <2> QED
    BY <2>1, <2>2, <2>3 DEF IInv, TypeOK
<1>4. ASSUME NEW q \in Peers
      PROVE  /\ of'[q] = IF q = p THEN x ELSE of[q]
             /\ with'[q] = IF q = p THEN y ELSE with[q]
             /\ q <= made => q # p /\ q <= made'
             /\ q <= made' => q <= made \/ q = p
             /\ q # p => /\ q \in initiator' <=> q \in initiator
                         /\ q \in adding' <=> q \in adding
                         /\ sig'[q] = sig[q] /\ remote'[q] = remote[q]
  BY <1>1 DEF IInv, TypeOK, Peers
<1>5. MadeOnly'
  BY <1>1, <1>4 DEF IInv, MadeOnly
<1>6. ASSUME NEW m \in cells', m.type # "userlist"
      PROVE  /\ m.D2 <= made' /\ of'[m.D2] = m.D0 /\ with'[m.D2] = m.D1
             /\ m.type = "offer" <=> m.D2 \in initiator'
  <2>1. CASE m \in cells
    <3>1. m.D2 \in Peers
      BY <1>6, <2>1 DEF IInv, TypeOK, Cells
    <3> QED
      BY <1>4, <1>6, <2>1, <3>1 DEF IInv, CellsMeant
  <2>2. CASE m = Offer(p) /\ p \in initiator'
    BY <1>1, <1>4, <2>2 DEF Offer
  <2> QED
    BY <1>6, <2>1, <2>2
<1>7. CellsMeant'
  BY <1>6 DEF CellsMeant
<1>8. Entries'
  BY <1>1, <1>4 DEF IInv, Entries
<1>9. Remotes'
  <2> SUFFICES ASSUME NEW a \in Peers, NEW b \in Peers, remote'[a] = b
               PROVE  Pair(a, b)'
    BY DEF Remotes
  <2>1. CASE a # p
    <3>1. Pair(a, b)
      BY <1>4, <2>1 DEF IInv, Remotes
    <3> QED
      BY <1>4, <3>1 DEF Pair
  <2>2. CASE a = p
    <3>1. /\ b <= made /\ of[b] = y /\ with[b] = x /\ b \in initiator
          /\ remote' # remote
      BY <1>1, <1>2, <2>2 DEF IInv, TypeOK
    <3>2. p \notin initiator'
      BY <1>2, <3>1
    <3> QED
      BY <1>1, <1>4, <2>2, <3>1, <3>2 DEF Pair
  <2> QED
    BY <2>1, <2>2
<1>10. Stages'
  <2> SUFFICES ASSUME NEW q \in Peers
               PROVE
                  /\ sig'[q] = "stable" => remote'[q] # None /\ q \notin adding'
                  /\ q \in initiator' => sig'[q] # "new"
                  /\ q \notin initiator' => sig'[q] # "have-local-offer"
                  /\ q \in initiator' /\ q \in adding' => remote'[q] = None
                  /\ conn'[q] # "new" => sig'[q] = "stable"
                  /\ \A e \in Endings :
                        <<q, e>> \in ending' => conn'[q] = "ended"
    BY DEF Stages
  <2>1. CASE q # p
    BY <1>4, <2>1 DEF IInv, Stages
  <2>2. CASE q = p
    <3>1. conn'[p] = "new" /\ \A e \in Endings : <<p, e>> \notin ending'
      BY <1>1, <1>2 DEF IInv, Stages
    <3>2. CASE initiator' = initiator /\ sig' = sig
      BY <1>2, <2>2, <3>1, <3>2
    <3>3. CASE /\ initiator' = initiator \cup {p} /\ remote' = remote
               /\ sig' = [sig EXCEPT ![p] = "have-local-offer"]
      BY <1>1, <1>2, <2>2, <3>1, <3>3 DEF IInv, TypeOK
    <3> QED
      BY <3>2, <3>3
  <2> QED
    BY <2>1, <2>2
<1>11. Mutual'
  <2>1. \A q \in Peers : conn[q] = "open" =>
           q # p /\ remote[q] \in Peers /\ remote[q] # p
    BY <1>2 DEF IInv, TypeOK, Stages, Mutual
  <2> QED
    BY <1>4, <2>1 DEF IInv, Mutual
<1>12. Missing'
  BY <1>1, <1>4 DEF IInv, Missing, Same
<1>13. EndedForgotten'
  BY DEF IInv, EndedForgotten
<1> QED
  BY <1>3, <1>5, <1>7, <1>8, <1>9, <1>10, <1>11, <1>12, <1>13 DEF IInv

LEMMA ConnectStep ==
  ASSUME IInv, NEW p \in Peers, NEW x \in Clients, NEW y \in Clients,
         Connect(p, x, y) \/ UserlistOffer(p, x, y) \/ UserlistWait(p, x, y)
  PROVE  IInv'
<1>1. New(p, x, y) /\ UNCHANGED <<conn, theirs, ending, l1peers, crashed>>
      /\ remote' = remote
  BY DEF Connect, UserlistOffer, UserlistWait, Dial, webrtc
<1>2. of'[p] = x /\ with'[p] = y
  BY <1>1 DEF New, IInv, TypeOK
<1>3. Offer(p) \in Cells
  BY <1>2 DEF Offer, Cells
<1>4. /\ calls' \in 0..MaxCalls
      /\ \A m \in cells' : m \in cells \/ (m = Offer(p) /\ p \in initiator')
      /\ \/ initiator' = initiator /\ sig' = sig
         \/ /\ initiator' = initiator \cup {p}
            /\ sig' = [sig EXCEPT ![p] = "have-local-offer"]
  <2>1. calls \in 0..MaxCalls
    BY DEF IInv, TypeOK
  <2>2. CASE Connect(p, x, y) \/ UserlistOffer(p, x, y)
    BY <2>1, <2>2 DEF Connect, UserlistOffer, Dial, Forwarded
  <2>3. CASE UserlistWait(p, x, y)
    BY <2>1, <2>3 DEF UserlistWait, webrtc
  <2> QED
    BY <2>2, <2>3
<1>5. cells' \subseteq Cells
  BY <1>3, <1>4 DEF IInv, TypeOK
<1> QED
  BY <1>1, <1>4, <1>5, NewStep

LEMMA AcceptNewStep ==
  ASSUME IInv, NEW p \in Peers, NEW m \in cells, AcceptNew(m, p)
  PROVE  IInv'
<1>1. /\ m.D0 \in Clients /\ m.D1 \in Clients /\ m.D2 \in Peers
      /\ m.type = "offer"
  BY DEF IInv, TypeOK, Cells, AcceptNew, Offered
<1>2. /\ m.D2 <= made /\ of[m.D2] = m.D0 /\ with[m.D2] = m.D1
      /\ m.D2 \in initiator
  BY <1>1 DEF IInv, CellsMeant
<1>3. /\ New(p, m.D1, m.D0) /\ initiator' = initiator /\ sig' = sig
      /\ remote' = [remote EXCEPT ![p] = m.D2] /\ cells' = cells \ {m}
      /\ UNCHANGED <<conn, theirs, ending, l1peers, crashed>>
      /\ calls' = calls
  BY DEF AcceptNew
<1>4. calls' \in 0..MaxCalls /\ cells' \subseteq Cells
  BY <1>3 DEF IInv, TypeOK
<1> QED
  BY <1>1, <1>2, <1>3, <1>4, NewStep

-----------------------------------------------------------------------------
(* Steps with the cells alone.                                             *)

LEMMA CellsStep ==
  ASSUME IInv, UNCHANGED <<object, adding, webrtc, l1peers>>,
         calls' \in 0..MaxCalls, crashed' \subseteq Clients,
         cells' \subseteq Cells,
         \A m \in cells' : m \in cells \/ m.type = "userlist"
  PROVE  IInv'
<1>1. TypeOK'
  BY DEF IInv, TypeOK, object, webrtc
<1>2. MadeOnly' /\ Entries' /\ Remotes' /\ Stages' /\ Mutual'
  BY DEF object, webrtc, IInv, MadeOnly, Entries, Remotes, Pair, Stages, Mutual
<1>3. Missing' /\ EndedForgotten'
  BY DEF object, webrtc, IInv, Missing, Same, EndedForgotten
<1>4. CellsMeant'
  BY DEF object, IInv, CellsMeant
<1> QED
  BY <1>1, <1>2, <1>3, <1>4 DEF IInv

LEMMA SendPeerStep ==
  ASSUME IInv, NEW x \in Clients, NEW y \in Clients, SendPeer(x, y)
  PROVE  IInv'
<1> PICK a : a = Userlist("0", x, y)
  OBVIOUS
<1> PICK b : b = Userlist("1", y, x)
  OBVIOUS
<1>1. a \in Cells /\ b \in Cells /\ a.type = "userlist" /\ b.type = "userlist"
  BY DEF Userlist, Cells
<1>2. /\ cells' = cells \cup {a, b} /\ crashed' = crashed
      /\ UNCHANGED <<object, adding, webrtc, l1peers>>
      /\ calls' \in 0..MaxCalls
  BY DEF SendPeer, IInv, TypeOK
<1>3. cells \subseteq Cells /\ crashed \subseteq Clients
  BY DEF IInv, TypeOK
<1>4. cells' \subseteq Cells
  BY <1>1, <1>2, <1>3
<1>5. \A m \in cells' : m \in cells \/ m.type = "userlist"
  BY <1>1, <1>2
<1> QED
  BY <1>2, <1>3, <1>4, <1>5, CellsStep

LEMMA DropCellStep ==
  ASSUME IInv, NEW m \in cells,
         UserlistKnown(m) \/ AcceptGlare(m) \/ SkipAnswer(m) \/ AnswerUnknown(m)
  PROVE  IInv'
<1>1. /\ cells \subseteq Cells /\ crashed \subseteq Clients
      /\ calls \in 0..MaxCalls
  BY DEF IInv, TypeOK
<1>2. /\ UNCHANGED <<object, adding, webrtc, l1peers, calls>>
      /\ cells' = cells \ {m}
  BY DEF UserlistKnown, AcceptGlare, SkipAnswer, AnswerUnknown
<1>3. crashed' \subseteq Clients
  <2>1. CASE AnswerUnknown(m)
    <3>1. m.D1 \in Clients
      BY <1>1, <2>1 DEF AnswerUnknown, Replied, Cells
    <3> QED
      BY <1>1, <2>1, <3>1 DEF AnswerUnknown
  <2>2. CASE ~AnswerUnknown(m)
    BY <1>1, <2>2 DEF UserlistKnown, AcceptGlare, SkipAnswer
  <2> QED
    BY <2>1, <2>2
<1>4. cells' \subseteq Cells /\ calls' \in 0..MaxCalls
  BY <1>1, <1>2
<1> QED
  BY <1>2, <1>3, <1>4, CellsStep

-----------------------------------------------------------------------------
(* An L1Peer is entered.                                                   *)

LEMMA EnteredFacts ==
  ASSUME IInv, NEW p \in adding, l1peers' = Entered(p)
  PROVE  /\ p \in Peers /\ p <= made
         /\ of[p] \in Clients /\ with[p] \in Clients /\ conn[p] = "new"
         /\ l1peers' \in [Clients -> [Clients -> Peers \cup {None}]]
         /\ \A x, y \in Clients :
               \/ l1peers'[x][y] = l1peers[x][y]
               \/ /\ l1peers[x][y] = None /\ l1peers'[x][y] = p
                  /\ x = of[p] /\ y = with[p]
         /\ l1peers'[of[p]][with[p]] # None
<1>1. p \in Peers
  BY DEF IInv, TypeOK
<1>2. /\ p <= made /\ of[p] \in Clients /\ with[p] \in Clients
      /\ conn[p] = "new"
  BY <1>1 DEF IInv, MadeOnly, Stages
<1>3. l1peers \in [Clients -> [Clients -> Peers \cup {None}]] /\ p # None
  BY <1>1 DEF IInv, TypeOK
<1>4. CASE l1peers[of[p]][with[p]] = None
  <2>1. l1peers' = [l1peers EXCEPT ![of[p]][with[p]] = p]
    BY <1>4 DEF Entered
  <2> QED
    BY <1>1, <1>2, <1>3, <1>4, <2>1
<1>5. CASE l1peers[of[p]][with[p]] # None
  BY <1>1, <1>2, <1>3, <1>5 DEF Entered
<1> QED
  BY <1>4, <1>5

\* What is entered or was, with its name taken by another.
LEMMA EnterStep ==
  ASSUME IInv, NEW p \in adding, l1peers' = Entered(p),
         adding' = adding \ {p},
         UNCHANGED <<object, remote, conn, theirs, ending, calls, crashed>>,
         \/ sig' = sig /\ cells' = cells
         \/ /\ p \notin initiator /\ remote[p] # None
            /\ sig' = [sig EXCEPT ![p] = "stable"]
            /\ cells' \subseteq cells \cup {Answer(p)}
  PROVE  IInv'
<1>1. /\ p \in Peers /\ p <= made
      /\ of[p] \in Clients /\ with[p] \in Clients /\ conn[p] = "new"
      /\ l1peers' \in [Clients -> [Clients -> Peers \cup {None}]]
      /\ \A x, y \in Clients :
            \/ l1peers'[x][y] = l1peers[x][y]
            \/ /\ l1peers[x][y] = None /\ l1peers'[x][y] = p
               /\ x = of[p] /\ y = with[p]
      /\ l1peers'[of[p]][with[p]] # None
  BY EnteredFacts
<1>2. /\ made' = made /\ of' = of /\ with' = with /\ initiator' = initiator
  BY DEF object
<1>3. ASSUME NEW q \in Peers
      PROVE  /\ q # p => sig'[q] = sig[q]
             /\ q \in adding' <=> q \in adding /\ q # p
             /\ sig'[q] = "stable" =>
                   sig[q] = "stable" \/ (q = p /\ remote[p] # None)
             /\ sig'[q] = "new" => sig[q] = "new"
             /\ sig'[q] = "have-local-offer" => sig[q] = "have-local-offer"
             /\ sig[q] = "stable" => sig'[q] = "stable"
  BY <1>1 DEF IInv, TypeOK
<1>4. Answer(p) \in Cells
  BY <1>1 DEF Answer, Cells
<1>5. TypeOK'
  BY <1>1, <1>2, <1>4 DEF IInv, TypeOK
<1>6. MadeOnly'
  BY <1>1, <1>2, <1>3 DEF IInv, MadeOnly
<1>7. CellsMeant'
  <2>1. ASSUME p \notin initiator
        PROVE  LET m == Answer(p)
               IN  /\ m.D2 <= made /\ of[m.D2] = m.D0 /\ with[m.D2] = m.D1
                   /\ m.type = "offer" <=> m.D2 \in initiator
    BY <1>1, <2>1 DEF Answer
  <2>2. \A m \in cells' : m \in cells \/ (p \notin initiator /\ m = Answer(p))
    OBVIOUS
  <2> QED
    BY <1>2, <2>1, <2>2 DEF IInv, CellsMeant
<1>8. Entries'
  BY <1>1, <1>2 DEF IInv, Entries
<1>9. Remotes' /\ Mutual'
  <2>1. Remotes'
    BY <1>2 DEF IInv, Remotes, Pair
  <2>2. \A q \in Peers : conn[q] = "open" => remote[q] \in Peers
    BY DEF IInv, TypeOK, Stages
  <2> QED
    BY <1>3, <2>1, <2>2 DEF IInv, Mutual
<1>10. Stages'
  BY <1>2, <1>3 DEF IInv, Stages
<1>11. Missing'
  <2> SUFFICES ASSUME NEW q \in Peers, q <= made, q \notin adding'
               PROVE  \/ l1peers'[of[q]][with[q]] = q \/ conn[q] = "ended"
                      \/ \E r \in Peers \ {q} :
                            /\ r <= made /\ Same(q, r)
                            /\ conn[r] = "ended" \/ q \notin initiator
                                                 \/ sig'[q] # "stable"
    BY <1>2 DEF Missing, Same
  <2>1. of[q] \in Clients /\ with[q] \in Clients
    BY DEF IInv, MadeOnly
  <2>2. CASE q = p
    <3> PICK r : r = l1peers'[of[p]][with[p]]
      OBVIOUS
    <3>1. r \in Peers
      BY <1>1
    <3>2. CASE r # p
      <4>1. r = l1peers[of[p]][with[p]]
        BY <1>1, <3>2
      <4>2. r <= made /\ Same(p, r)
        BY <1>1, <3>1, <4>1 DEF IInv, Entries, Same
      <4>3. p \notin initiator \/ sig'[p] # "stable"
        BY <1>1 DEF IInv, Stages
      <4> QED
        BY <2>2, <3>1, <3>2, <4>2, <4>3
    <3> QED
      BY <2>2, <3>2
  <2>3. CASE q # p
    <3>1. q \notin adding /\ sig'[q] = sig[q]
      BY <1>3, <2>3
    <3>2. l1peers[of[q]][with[q]] = q => l1peers'[of[q]][with[q]] = q
      BY <1>1, <2>1
    <3> QED
      BY <3>1, <3>2 DEF IInv, Missing
  <2> QED
    BY <2>2, <2>3
<1>12. EndedForgotten'
  <2> SUFFICES ASSUME NEW q \in Peers, NEW x \in Clients, NEW y \in Clients,
                      conn[q] = "ended", l1peers'[x][y] = q
               PROVE  \E e \in Endings : <<q, e>> \in ending
    BY DEF EndedForgotten
  <2>1. q # p
    BY <1>1
  <2>2. l1peers[x][y] = q
    BY <1>1, <2>1
  <2> QED
    BY <2>2 DEF IInv, EndedForgotten
<1> QED
  BY <1>5, <1>6, <1>7, <1>8, <1>9, <1>10, <1>11, <1>12 DEF IInv

LEMMA AddStep ==
  ASSUME IInv, NEW p \in Peers, Add(p) \/ AcceptMade(p)
  PROVE  IInv'
<1>1. CASE Add(p)
  BY <1>1, EnterStep DEF Add, webrtc
<1>2. CASE AcceptMade(p)
  <2>1. p \notin initiator
    BY <1>2 DEF AcceptMade, IInv, Stages
  <2>2. cells' \subseteq cells \cup {Answer(p)}
    BY <1>2 DEF AcceptMade, Forwarded
  <2> QED
    BY <1>2, <2>1, <2>2, EnterStep DEF AcceptMade
<1> QED
  BY <1>1, <1>2

-----------------------------------------------------------------------------
(* A description is set.                                                   *)

\* A listed L1Peer takes the description of who offers or answers.
LEMMA DescribedStep ==
  ASSUME IInv, NEW m \in cells, NEW p \in Peers,
         m.D0 \in Clients, m.D1 \in Clients, l1peers[m.D1][m.D0] = p,
         remote' = [remote EXCEPT ![p] = m.D2],
         sig' = [sig EXCEPT ![p] = "stable"],
         \/ /\ m.type = "offer" /\ sig[p] = "new"
            /\ cells' \subseteq cells \cup {Answer(p)}
         \/ /\ m.type = "answer" /\ sig[p] = "have-local-offer"
            /\ cells' \subseteq cells,
         UNCHANGED <<object, adding, conn, theirs, ending, l1peers, calls,
                     crashed>>
  PROVE  IInv'
<1>1. /\ p <= made /\ of[p] = m.D1 /\ with[p] = m.D0 /\ p \notin adding
      /\ conn[p] = "new"
  BY DEF IInv, Entries, Stages
<1>2. /\ m.D2 \in Peers /\ m.D2 <= made
      /\ of[m.D2] = m.D0 /\ with[m.D2] = m.D1
      /\ m.type = "offer" <=> m.D2 \in initiator
  BY DEF IInv, TypeOK, CellsMeant, Cells
<1>3. /\ m.type = "offer" => p \notin initiator
      /\ m.type = "answer" => p \in initiator
  BY DEF IInv, Stages
<1>4. Pair(p, m.D2) /\ m.D2 # p
  BY <1>1, <1>2, <1>3 DEF Pair
<1>5. /\ made' = made /\ of' = of /\ with' = with /\ initiator' = initiator
  BY DEF object
<1>6. ASSUME NEW q \in Peers
      PROVE  /\ sig'[q] = IF q = p THEN "stable" ELSE sig[q]
             /\ remote'[q] = IF q = p THEN m.D2 ELSE remote[q]
  BY DEF IInv, TypeOK
<1>7. Answer(p) \in Cells
  BY <1>1 DEF Answer, Cells
<1>8. TypeOK'
  BY <1>2, <1>5, <1>7 DEF IInv, TypeOK
<1>9. MadeOnly'
  BY <1>1, <1>5, <1>6 DEF IInv, MadeOnly
<1>10. CellsMeant'
  <2>1. LET a == Answer(p)
        IN  /\ a.D2 <= made /\ of[a.D2] = a.D0 /\ with[a.D2] = a.D1
            /\ a.type = "answer" /\ a.D2 = p
    BY <1>1 DEF Answer
  <2>2. ASSUME NEW a \in cells', a \notin cells
        PROVE  a = Answer(p) /\ p \notin initiator
    BY <1>3, <2>2
  <2> QED
    BY <1>5, <2>1, <2>2 DEF IInv, CellsMeant
<1>11. Entries'
  BY <1>5 DEF IInv, Entries
<1>12. Remotes'
  BY <1>4, <1>5, <1>6 DEF IInv, Remotes, Pair
<1>13. Stages'
  BY <1>1, <1>2, <1>5, <1>6 DEF IInv, Stages, Peers
<1>14. Mutual'
  <2> SUFFICES ASSUME NEW q \in Peers, conn[q] = "open"
               PROVE  remote'[remote'[q]] = q /\ sig'[remote'[q]] = "stable"
    BY DEF Mutual
  <2>1. q # p
    BY <1>1
  <2>2. remote[q] \in Peers /\ remote[remote[q]] = q
        /\ sig[remote[q]] = "stable"
    BY DEF IInv, TypeOK, Stages, Mutual
  <2>3. remote[q] # p
    BY <2>2
  <2> QED
    BY <1>6, <2>1, <2>2, <2>3
<1>15. Missing'
  <2> SUFFICES ASSUME NEW q \in Peers, q <= made, q \notin adding
               PROVE  \/ l1peers[of[q]][with[q]] = q \/ conn[q] = "ended"
                      \/ \E r \in Peers \ {q} :
                            /\ r <= made /\ Same(q, r)
                            /\ conn[r] = "ended" \/ q \notin initiator
                                                 \/ sig'[q] # "stable"
    BY <1>5 DEF Missing, Same
  <2>1. CASE q = p
    BY <1>1, <2>1
  <2>2. CASE q # p
    BY <1>6, <2>2 DEF IInv, Missing
  <2> QED
    BY <2>1, <2>2
<1>16. EndedForgotten'
  BY DEF IInv, EndedForgotten
<1> QED
  BY <1>8, <1>9, <1>10, <1>11, <1>12, <1>13, <1>14, <1>15, <1>16 DEF IInv

LEMMA AcceptStep ==
  ASSUME IInv, NEW m \in cells, AcceptWaiting(m) \/ AcceptAnswer(m)
  PROVE  IInv'
<1>1. m.D0 \in Clients /\ m.D1 \in Clients
  BY DEF IInv, TypeOK, Cells, AcceptWaiting, AcceptAnswer, Offered, Replied
<1>2. PICK p \in Peers \cup {None} : p = l1peers[m.D1][m.D0]
  BY <1>1 DEF IInv, TypeOK
<1>3. CASE AcceptWaiting(m)
  <2>1. /\ p # None /\ sig[p] = "new" /\ m.type = "offer"
        /\ remote' = [remote EXCEPT ![p] = m.D2]
        /\ sig' = [sig EXCEPT ![p] = "stable"]
        /\ cells' \subseteq cells \cup {Answer(p)}
        /\ UNCHANGED <<object, adding, conn, theirs, ending, l1peers, calls,
                       crashed>>
    BY <1>2, <1>3 DEF AcceptWaiting, Offered, Forwarded
  <2> QED
    BY <1>1, <1>2, <2>1, DescribedStep
<1>4. CASE AcceptAnswer(m)
  <2>1. /\ p # None /\ sig[p] = "have-local-offer" /\ m.type = "answer"
        /\ remote' = [remote EXCEPT ![p] = m.D2]
        /\ sig' = [sig EXCEPT ![p] = "stable"]
        /\ cells' \subseteq cells
        /\ UNCHANGED <<object, adding, conn, theirs, ending, l1peers, calls,
                       crashed>>
    BY <1>2, <1>4 DEF AcceptAnswer, Replied
  <2> QED
    BY <1>1, <1>2, <2>1, DescribedStep
<1> QED
  BY <1>3, <1>4

-----------------------------------------------------------------------------
(* Connections open and end.                                               *)

LEMMA ConnStep ==
  ASSUME IInv,
         UNCHANGED <<object, adding, sig, remote, l1peers, calls, crashed>>,
         cells' \subseteq cells, theirs' \subseteq Peers,
         conn' \in [Peers -> {"new", "open", "ended"}],
         ending \subseteq ending', ending' \subseteq Peers \X Endings,
         \A q \in Peers :
            /\ conn[q] = "ended" => conn'[q] = "ended"
            /\ conn'[q] # "new" => sig[q] = "stable"
            /\ conn'[q] = "open" => \/ conn[q] = "open"
                                   \/ /\ remote[remote[q]] = q
                                      /\ sig[remote[q]] = "stable"
            /\ conn'[q] = "ended" /\ conn[q] # "ended" =>
                  \E e \in Endings : <<q, e>> \in ending'
            /\ \A e \in Endings : <<q, e>> \in ending' =>
                  <<q, e>> \in ending \/ conn'[q] = "ended"
  PROVE  IInv'
<1>1. /\ made' = made /\ of' = of /\ with' = with /\ initiator' = initiator
  BY DEF object
<1>2. TypeOK'
  BY <1>1 DEF IInv, TypeOK
<1>3. MadeOnly' /\ CellsMeant' /\ Entries' /\ Remotes'
  <2>1. MadeOnly'
    <3> SUFFICES ASSUME NEW q \in Peers, ~(q <= made)
                 PROVE  conn'[q] = "new"
      BY <1>1 DEF IInv, MadeOnly
    <3> QED
      BY DEF IInv, MadeOnly
  <2>2. CellsMeant' /\ Entries' /\ Remotes'
    BY <1>1 DEF IInv, CellsMeant, Entries, Remotes, Pair
  <2> QED
    BY <2>1, <2>2
<1>4. Stages'
  BY <1>1 DEF IInv, Stages
<1>5. Mutual'
  BY DEF IInv, Mutual
<1>6. Missing'
  BY <1>1 DEF IInv, Missing, Same
<1>7. EndedForgotten'
  BY DEF IInv, EndedForgotten
<1> QED
  BY <1>2, <1>3, <1>4, <1>5, <1>6, <1>7 DEF IInv

LEMMA EndedStep ==
  ASSUME IInv, NEW p \in Peers, sig[p] = "stable", NEW E,
         E = {<<p, "failed">>} \/ E = {<<p, "failed">>, <<p, "closed">>},
         conn' = [conn EXCEPT ![p] = "ended"], ending' = ending \cup E,
         UNCHANGED <<object, adding, sig, remote, l1peers, calls, crashed>>,
         cells' \subseteq cells, theirs' = theirs
  PROVE  IInv'
<1>1. /\ conn \in [Peers -> {"new", "open", "ended"}] /\ theirs \subseteq Peers
      /\ ending \subseteq Peers \X Endings
  BY DEF IInv, TypeOK
<1>2. /\ <<p, "failed">> \in E /\ E \subseteq Peers \X Endings
      /\ \A q \in Peers, e \in Endings : <<q, e>> \in E => q = p
      /\ "failed" \in Endings
  BY DEF Endings
<1>3. \A q \in Peers : conn'[q] = IF q = p THEN "ended" ELSE conn[q]
  BY <1>1
<1>4. \A q \in Peers : conn[q] # "new" => sig[q] = "stable"
  BY DEF IInv, Stages
<1>5. \A q \in Peers :
         conn'[q] = "ended" /\ conn[q] # "ended" =>
            \E e \in Endings : <<q, e>> \in ending'
  BY <1>2, <1>3
<1>6. \A q \in Peers, e \in Endings : <<q, e>> \in ending' =>
         <<q, e>> \in ending \/ conn'[q] = "ended"
  BY <1>2, <1>3
<1>7. /\ conn' \in [Peers -> {"new", "open", "ended"}]
      /\ ending \subseteq ending' /\ ending' \subseteq Peers \X Endings
      /\ theirs' \subseteq Peers
  BY <1>1, <1>2
<1> QED
  BY <1>3, <1>4, <1>5, <1>6, <1>7, ConnStep

LEMMA WebrtcStep ==
  ASSUME IInv, NEW p \in Peers,
         Open(p) \/ OnDataChannel(p) \/ Fail(p) \/ Break(p)
  PROVE  IInv'
<1>1. /\ conn \in [Peers -> {"new", "open", "ended"}] /\ theirs \subseteq Peers
      /\ ending \subseteq Peers \X Endings
  BY DEF IInv, TypeOK
<1>2. \A q \in Peers :
         /\ conn[q] # "new" => sig[q] = "stable"
         /\ sig[q] = "stable" => remote[q] \in Peers
  BY DEF IInv, TypeOK, Stages
<1>3. CASE Open(p)
  <2>1. PICK q \in Peers : q = remote[p]
    BY <1>2, <1>3 DEF Open
  <2>2. /\ remote[q] = p /\ sig[p] = "stable" /\ sig[q] = "stable"
        /\ conn[p] = "new" /\ conn[q] = "new"
        /\ conn' = [conn EXCEPT ![p] = "open", ![q] = "open"]
        /\ UNCHANGED <<object, adding, sig, remote, theirs, ending, l1peers,
                       cells, calls, crashed>>
    BY <1>3, <2>1 DEF Open
  <2>3. \A r \in Peers :
           conn'[r] = IF r = p \/ r = q THEN "open" ELSE conn[r]
    BY <1>1, <2>2
  <2> QED
    BY <1>1, <1>2, <2>1, <2>2, <2>3, ConnStep
<1>4. CASE OnDataChannel(p)
  BY <1>1, <1>2, <1>4, ConnStep DEF OnDataChannel
<1>5. CASE Fail(p)
  BY <1>5, EndedStep DEF Fail
<1>6. CASE Break(p)
  BY <1>2, <1>6, EndedStep DEF Break, Ended
<1> QED
  BY <1>3, <1>4, <1>5, <1>6

LEMMA AcceptAgainStep ==
  ASSUME IInv, NEW m \in cells, AcceptAgain(m)
  PROVE  IInv'
<1>1. m.D0 \in Clients /\ m.D1 \in Clients
  BY DEF IInv, TypeOK, Cells, AcceptAgain, Offered
<1>2. PICK p \in Peers \cup {None} : p = l1peers[m.D1][m.D0]
  BY <1>1 DEF IInv, TypeOK
<1>3. /\ p \in Peers /\ sig[p] = "stable"
      /\ UNCHANGED <<conn, ending>> \/ (conn[p] = "open" /\ Ended(p))
      /\ UNCHANGED <<object, adding, sig, remote, theirs, l1peers, calls,
                     crashed>>
      /\ cells' \subseteq cells
  BY <1>2 DEF AcceptAgain
<1>4. CASE UNCHANGED <<conn, ending>>
  <2>1. cells' \subseteq Cells /\ crashed' \subseteq Clients
        /\ calls' \in 0..MaxCalls
    BY <1>3 DEF IInv, TypeOK
  <2> QED
    BY <1>3, <1>4, <2>1, CellsStep DEF webrtc
<1>5. CASE Ended(p)
  BY <1>3, <1>5, EndedStep DEF Ended
<1> QED
  BY <1>3, <1>4, <1>5

LEMMA ForgetStep ==
  ASSUME IInv, NEW p \in Peers, NEW e \in Endings, Forget(p, e)
  PROVE  IInv'
<1>1. /\ <<p, e>> \in ending /\ ending' = ending \ {<<p, e>>}
      /\ l1peers' = [l1peers EXCEPT ![of[p]][with[p]] = None]
      /\ UNCHANGED <<adding, sig, remote, conn, theirs, cells, calls, crashed>>
      /\ made' = made /\ of' = of /\ with' = with /\ initiator' = initiator
  BY DEF Forget, object
<1>2. conn[p] = "ended" /\ p <= made /\ of[p] \in Clients /\ with[p] \in Clients
  BY <1>1 DEF IInv, Stages, MadeOnly
<1>3. \A x, y \in Clients :
         l1peers'[x][y] = IF x = of[p] /\ y = with[p] THEN None
                          ELSE l1peers[x][y]
  BY <1>1, <1>2 DEF IInv, TypeOK
<1>4. TypeOK'
  BY <1>1, <1>2 DEF IInv, TypeOK
<1>5. MadeOnly' /\ CellsMeant' /\ Remotes' /\ Mutual'
  BY <1>1 DEF IInv, MadeOnly, CellsMeant, Remotes, Pair, Mutual
<1>6. Entries'
  BY <1>1, <1>3 DEF IInv, Entries
<1>7. Stages'
  BY <1>1 DEF IInv, Stages
<1>8. Missing'
  <2> SUFFICES ASSUME NEW q \in Peers, q <= made, q \notin adding
               PROVE  \/ l1peers'[of[q]][with[q]] = q \/ conn[q] = "ended"
                      \/ \E r \in Peers \ {q} :
                            /\ r <= made /\ Same(q, r)
                            /\ conn[r] = "ended" \/ q \notin initiator
                                                 \/ sig[q] # "stable"
    BY <1>1 DEF Missing, Same
  <2>1. of[q] \in Clients /\ with[q] \in Clients
    BY DEF IInv, MadeOnly
  <2>2. CASE of[q] = of[p] /\ with[q] = with[p]
    BY <1>2, <2>2 DEF Same
  <2>3. CASE ~(of[q] = of[p] /\ with[q] = with[p])
    BY <1>3, <2>1, <2>3 DEF IInv, Missing
  <2> QED
    BY <2>2, <2>3
<1>9. EndedForgotten'
  <2> SUFFICES ASSUME NEW q \in Peers, NEW x \in Clients, NEW y \in Clients,
                      conn[q] = "ended", l1peers'[x][y] = q
               PROVE  \E f \in Endings : <<q, f>> \in ending'
    BY <1>1 DEF EndedForgotten
  <2>1. l1peers[x][y] = q /\ ~(x = of[p] /\ y = with[p])
    BY <1>3
  <2>2. q # p
    BY <2>1 DEF IInv, Entries
  <2> QED
    BY <1>1, <2>1, <2>2 DEF IInv, EndedForgotten
<1> QED
  BY <1>4, <1>5, <1>6, <1>7, <1>8, <1>9 DEF IInv

-----------------------------------------------------------------------------
(* Every step, and the theorems.                                           *)

LEMMA NextIInv ==
  ASSUME IInv, [Next]_vars
  PROVE  IInv'
<1>1. CASE \E p \in Peers, x, y \in Clients :
              Connect(p, x, y) \/ UserlistWait(p, x, y)
                 \/ UserlistOffer(p, x, y)
  BY <1>1, ConnectStep
<1>2. CASE \E x, y \in Clients : SendPeer(x, y)
  BY <1>2, SendPeerStep
<1>3. CASE \E m \in cells : Handle(m)
  <2>1. PICK m \in cells : Handle(m)
    BY <1>3
  <2>2. CASE \E p \in Peers : AcceptNew(m, p)
    BY <2>2, AcceptNewStep
  <2>3. CASE AcceptWaiting(m) \/ AcceptAnswer(m)
    BY <2>3, AcceptStep
  <2>4. CASE AcceptAgain(m)
    BY <2>4, AcceptAgainStep
  <2>5. CASE UserlistKnown(m) \/ AcceptGlare(m) \/ SkipAnswer(m)
                \/ AnswerUnknown(m)
    BY <2>5, DropCellStep
  <2> QED
    BY <2>1, <2>2, <2>3, <2>4, <2>5 DEF Handle
<1>4. CASE \E p \in Peers : Progress(p) \/ Fail(p) \/ Break(p)
  <2>1. PICK p \in Peers : Progress(p) \/ Fail(p) \/ Break(p)
    BY <1>4
  <2>2. CASE Add(p) \/ AcceptMade(p)
    BY <2>2, AddStep
  <2>3. CASE Open(p) \/ OnDataChannel(p) \/ Fail(p) \/ Break(p)
    BY <2>3, WebrtcStep
  <2>4. CASE \E e \in Endings : Forget(p, e)
    BY <2>4, ForgetStep
  <2> QED
    BY <2>1, <2>2, <2>3, <2>4 DEF Progress
<1>5. CASE UNCHANGED vars
  <2>1. /\ UNCHANGED <<object, adding, webrtc, l1peers, calls, crashed>>
        /\ cells' = cells
    BY <1>5 DEF vars
  <2>2. cells' \subseteq Cells /\ crashed' \subseteq Clients
        /\ calls' \in 0..MaxCalls
    BY <2>1 DEF IInv, TypeOK
  <2> QED
    BY <2>1, <2>2, CellsStep
<1> QED
  BY <1>1, <1>2, <1>3, <1>4, <1>5 DEF Next

\* In every state the invariant holds, which says of each L1Peer what it was
\* made for, how far its connection is and where it is entered.
THEOREM Invariance == Spec => []IInv
<1>1. Init => IInv
  BY InitIInv
<1>2. IInv /\ [Next]_vars => IInv'
  BY NextIInv
<1> QED
  BY <1>1, <1>2, PTL DEF Spec

\* The variables keep their types: the signalling state is one of three, and
\* only L1Peers that newL1Peer makes are entered (l1peer.go:73-177).
THEOREM Typing == Spec => []TypeOK
<1>1. IInv => TypeOK
  BY DEF IInv
<1> QED
  BY <1>1, Invariance, PTL

\* The ends of an open connection are L1Peers that the clients have made for
\* each other, one to offer and one to answer (client.go:103-153).
THEOREM EndsMatch == Spec => []Matched
<1>1. IInv => Matched
  BY DEF IInv, TypeOK, Stages, Mutual, Remotes, Pair, Matched
<1> QED
  BY <1>1, Invariance, PTL

\* An open connection is in L1Peers, unless there is another L1Peer of that
\* name to blame (l1peer.go:407-431, client.go:107-110).
THEOREM OpenIsListed == Spec => []Listed
<1>1. IInv => Listed
  <2> SUFFICES ASSUME IInv, NEW p \in Peers, conn[p] = "open",
                      l1peers[of[p]][with[p]] # p
               PROVE  \E q \in Peers \ {p} :
                         Same(p, q) /\ (conn[q] = "ended" \/ p \notin initiator)
    BY DEF Listed
  <2>1. sig[p] = "stable" /\ p \notin adding
    BY DEF IInv, Stages
  <2>2. p <= made
    BY <2>1 DEF IInv, MadeOnly
  <2> QED
    BY <2>1, <2>2 DEF IInv, Missing
<1> QED
  BY <1>1, Invariance, PTL

\* What has ended is deleted from L1Peers: while it is there, one of the
\* callbacks that delete it has yet to run (l1peer.go:407-431).
THEOREM EndedGoes == Spec => []EndedForgotten
<1>1. IInv => EndedForgotten
  BY DEF IInv
<1> QED
  BY <1>1, Invariance, PTL
=============================================================================
