---------------------------- MODULE DirectoryProofs ----------------------------
(***************************************************************************)
(* Proofs about Directory, for any clients and any number of names: the    *)
(* variables keep their types, a connected client is in the sets under its *)
(* name and with no other's key, a guard or a bridge that is answered may  *)
(* be used, and a client that is left without a key, or that does not know *)
(* its name, remains so.                                                   *)
(***************************************************************************)
EXTENDS Directory, FiniteSetTheorems, TLAPS

USE SetsAssumption

Queues == [Clients -> Seq(Cells)]

In(m, s) == \E j \in 1..Len(s) : s[j] = m

-----------------------------------------------------------------------------
(* Queues of cells.                                                        *)

LEMMA HeadFacts ==
  ASSUME NEW s \in Seq(Cells), s # << >>
  PROVE  /\ Head(s) \in Cells /\ In(Head(s), s) /\ Tail(s) \in Seq(Cells)
         /\ \A m : In(m, Tail(s)) => In(m, s)
<1>1. /\ Len(s) \in Nat /\ Len(s) > 0 /\ Head(s) = s[1] /\ s[1] \in Cells
      /\ Tail(s) \in Seq(Cells) /\ Len(Tail(s)) = Len(s) - 1
      /\ \A j \in 1..Len(Tail(s)) : Tail(s)[j] = s[j + 1]
  OBVIOUS
<1>2. In(Head(s), s)
  BY <1>1 DEF In
<1>3. ASSUME NEW m, In(m, Tail(s))
      PROVE  In(m, s)
  <2>1. PICK j \in 1..Len(Tail(s)) : Tail(s)[j] = m
    BY <1>3 DEF In
  <2>2. j + 1 \in 1..Len(s) /\ s[j + 1] = m
    BY <1>1, <2>1
  <2> QED
    BY <2>2 DEF In
<1> QED
  BY <1>1, <1>2, <1>3

LEMMA AppendFacts ==
  ASSUME NEW s \in Seq(Cells), NEW x \in Cells
  PROVE  /\ Append(s, x) \in Seq(Cells)
         /\ \A m : In(m, Append(s, x)) => In(m, s) \/ m = x
<1>1. /\ Append(s, x) \in Seq(Cells) /\ Len(Append(s, x)) = Len(s) + 1
      /\ Len(s) \in Nat /\ Append(s, x)[Len(s) + 1] = x
      /\ \A j \in 1..Len(s) : Append(s, x)[j] = s[j]
  OBVIOUS
<1> QED
  BY <1>1 DEF In

LEMMA PutFacts ==
  ASSUME NEW q \in Queues, NEW c \in Clients, NEW x \in Cells
  PROVE  /\ Put(q, c, x) \in Queues
         /\ \A m : \A d \in Clients : In(m, Put(q, c, x)[d]) =>
               In(m, q[d]) \/ (m = x /\ d = c /\ conn[c] = "open")
<1>1. /\ Append(q[c], x) \in Seq(Cells)
      /\ \A m : In(m, Append(q[c], x)) => In(m, q[c]) \/ m = x
  BY AppendFacts DEF Queues
<1>2. CASE conn[c] = "open"
  <2>1. Put(q, c, x) = [q EXCEPT ![c] = Append(q[c], x)]
    BY <1>2 DEF Put
  <2>2. Put(q, c, x) \in Queues
    BY <1>1, <2>1 DEF Queues
  <2>3. ASSUME NEW d \in Clients
        PROVE  Put(q, c, x)[d] = IF d = c THEN Append(q[c], x) ELSE q[d]
    BY <2>1 DEF Queues
  <2> QED
    BY <1>1, <1>2, <2>2, <2>3
<1>3. CASE conn[c] # "open"
  BY <1>3 DEF Put
<1> QED
  BY <1>2, <1>3

-----------------------------------------------------------------------------
(* The invariant.                                                          *)

\* All names in use have been drawn.
Drawn ==
    /\ guards \subseteq 1..drawn /\ exits \subseteq 1..drawn
    /\ \A n \in Names : keys[n] # None => n <= drawn
    /\ \A c \in Clients : /\ name[c] # None => name[c] <= drawn
                          /\ tid[c] # None => tid[c] <= drawn
    /\ \A c \in Clients, m \in Cells : In(m, s2c[c]) => m.D0 \in 1..drawn

\* The server knows clients by open websockets, each by a name of its own.
Connected ==
    \A c \in Clients : /\ name[c] # None => conn[c] = "open"
                       /\ conn[c] = "open" => up
                       /\ \A d \in Clients :
                             name[c] = name[d] /\ name[c] # None => c = d

IInv == TypeOK /\ Drawn /\ Connected /\ ListedOwnKey

LEMMA InitIInv ==
  ASSUME Init
  PROVE  IInv
<1>1. TypeOK
  BY DEF Init, TypeOK
<1>2. Drawn /\ Connected /\ ListedOwnKey
  BY DEF Init, Drawn, Connected, ListedOwnKey, In
<1> QED
  BY <1>1, <1>2 DEF IInv

LEMMA DialStep ==
  ASSUME IInv, NEW c \in Clients, Dial(c)
  PROVE  IInv'
<1>1. [type |-> "gettid"] \in Cells
  BY DEF Cells
<1>2. TypeOK'
  BY <1>1 DEF IInv, TypeOK, Dial, server, redis
<1>3. Drawn' /\ Connected' /\ ListedOwnKey'
  BY DEF IInv, TypeOK, Dial, server, redis, Drawn, Connected, ListedOwnKey
<1> QED
  BY <1>2, <1>3 DEF IInv

\* A client that takes the head of its queue.
LEMMA TakenFacts ==
  ASSUME IInv, NEW c \in Clients, s2c[c] # << >>,
         s2c' = [s2c EXCEPT ![c] = Tail(@)]
  PROVE  /\ Head(s2c[c]) \in Cells /\ s2c' \in Queues
         /\ Head(s2c[c]).D0 \in 1..drawn
         /\ \A m : \A d \in Clients : In(m, s2c'[d]) => In(m, s2c[d])
<1>1. s2c[c] \in Seq(Cells) /\ s2c \in Queues
  BY DEF IInv, TypeOK, Queues
<1>2. /\ Head(s2c[c]) \in Cells /\ In(Head(s2c[c]), s2c[c])
      /\ Tail(s2c[c]) \in Seq(Cells)
      /\ \A m : In(m, Tail(s2c[c])) => In(m, s2c[c])
  BY <1>1, HeadFacts
<1>3. s2c' \in Queues
  BY <1>1, <1>2 DEF Queues
<1>4. Head(s2c[c]).D0 \in 1..drawn
  BY <1>2 DEF IInv, Drawn
<1>5. ASSUME NEW d \in Clients
      PROVE  s2c'[d] = IF d = c THEN Tail(s2c[c]) ELSE s2c[d]
  BY <1>1 DEF Queues
<1> QED
  BY <1>2, <1>3, <1>4, <1>5

LEMMA TidComeStep ==
  ASSUME IInv, NEW c \in Clients, TidCome(c)
  PROVE  IInv'
<1>1. /\ s2c' \in Queues /\ Head(s2c[c]).D0 \in 1..drawn
      /\ \A m : \A d \in Clients : In(m, s2c'[d]) => In(m, s2c[d])
  BY TakenFacts DEF TidCome, Receives
<1>2. tid' = [tid EXCEPT ![c] = Head(s2c[c]).D0]
  BY DEF TidCome
<1>3. Head(s2c[c]).D0 \in Names
  BY <1>1 DEF IInv, TypeOK, Names
<1>4. TypeOK'
  BY <1>1, <1>2, <1>3 DEF IInv, TypeOK, TidCome, server, redis, Queues
<1>5. Drawn'
  BY <1>1, <1>2 DEF IInv, TypeOK, TidCome, server, redis, Drawn
<1>6. Connected' /\ ListedOwnKey'
  BY DEF IInv, TidCome, server, redis, Connected, ListedOwnKey
<1> QED
  BY <1>4, <1>5, <1>6 DEF IInv

\* Steps of the client that leave names, keys and what it has been sent alone.
Aside ==
    /\ UNCHANGED <<server, redis, s2c, name, tid>>
    /\ TypeOK'
    /\ \A c \in Clients : /\ conn[c] = "open" => conn'[c] = "open"
                          /\ conn'[c] = "open" => up

LEMMA AsideStep ==
  ASSUME IInv, Aside
  PROVE  IInv'
<1>1. Drawn'
  BY DEF IInv, Drawn, Aside, server, redis
<1>2. Connected' /\ ListedOwnKey'
  BY DEF IInv, Connected, ListedOwnKey, Aside, server, redis
<1> QED
  BY <1>1, <1>2 DEF IInv, Aside

LEMMA PutStep ==
  ASSUME IInv, NEW c \in Clients, NEW x \in Cells, c2s' = Put(c2s, c, x)
  PROVE  c2s' \in [Clients -> Seq(Cells)]
<1>1. c2s \in Queues
  BY DEF IInv, TypeOK, Queues
<1> QED
  BY <1>1, PutFacts DEF Queues

LEMMA OwnStep ==
  ASSUME IInv, NEW c \in Clients,
         DialCut(c) \/ Publish(c) \/ Ask(c) \/ Redial(c) \/ Greet(c)
  PROVE  IInv'
<1>1. \A d \in Clients : conn[d] = "open" => up
  BY DEF IInv, Connected
<1>2. CASE DialCut(c)
  <2>1. TypeOK'
    BY <1>2 DEF IInv, TypeOK, DialCut, server, redis, session
  <2> QED
    BY <1>1, <1>2, <2>1, AsideStep DEF Aside, DialCut, server, redis, session
<1>3. CASE Publish(c)
  <2>1. [type |-> "pubk"] \in Cells
    BY DEF Cells
  <2>2. c2s' \in [Clients -> Seq(Cells)]
    BY <1>3, <2>1, PutStep DEF Publish
  <2>3. TypeOK'
    BY <1>3, <2>2 DEF IInv, TypeOK, Publish, server, redis
  <2> QED
    BY <1>1, <1>3, <2>3, AsideStep DEF Aside, Publish
<1>4. CASE Ask(c)
  <2> PICK t : t = <<"getexit", "getguard", "getbridge">>[asked'[c]]
    OBVIOUS
  <2>1. asked[c] \in {0, 1, 2} /\ asked' = [asked EXCEPT ![c] = @ + 1]
    BY <1>4 DEF IInv, TypeOK, Ask
  <2>2. asked' \in [Clients -> 0..3] /\ asked'[c] \in {1, 2, 3}
    BY <2>1 DEF IInv, TypeOK
  <2>3. t \in {"getexit", "getguard", "getbridge"}
    BY <2>2
  <2>4. [type |-> t] \in Cells
    BY <2>3 DEF Cells
  <2>5. c2s' \in [Clients -> Seq(Cells)]
    <3>1. c2s' = Put(c2s, c, [type |-> t])
      BY <1>4 DEF Ask
    <3> QED
      BY <2>4, <3>1, PutStep
  <2>6. TypeOK'
    BY <1>4, <2>2, <2>5 DEF IInv, TypeOK, Ask, server, redis
  <2> QED
    BY <1>1, <1>4, <2>6, AsideStep DEF Aside, Ask
<1>5. CASE Redial(c)
  <2>1. TypeOK'
    <3>1. /\ conn' = [conn EXCEPT ![c] = "open"] \/ UNCHANGED conn
          /\ greet' = greet \cup {c} \/ UNCHANGED greet
          /\ phase' = [phase EXCEPT ![c] = "ended"] \/ UNCHANGED phase
          /\ UNCHANGED <<server, redis, c2s, s2c, name, tid, hop, asked>>
      BY <1>5 DEF Redial
    <3>2. /\ conn' \in [Clients -> {"none", "open", "broken"}]
          /\ greet' \subseteq Clients
          /\ phase' \in [Clients -> {"off", "dialing", "dialed", "published",
                                     "ended"}]
      BY <3>1 DEF IInv, TypeOK
    <3> QED
      BY <3>1, <3>2 DEF IInv, TypeOK, server, redis
  <2>2. \A d \in Clients : /\ conn[d] = "open" => conn'[d] = "open"
                           /\ conn'[d] = "open" => up
    BY <1>1, <1>5 DEF IInv, TypeOK, Redial
  <2> QED
    BY <1>5, <2>1, <2>2, AsideStep DEF Aside, Redial
<1>6. CASE Greet(c)
  <2>1. [type |-> "gettid"] \in Cells
    BY DEF Cells
  <2>2. c2s' \in [Clients -> Seq(Cells)]
    BY <1>6, <2>1, PutStep DEF Greet
  <2>3. TypeOK'
    BY <1>6, <2>2 DEF IInv, TypeOK, Greet, server, redis, program
  <2> QED
    BY <1>1, <1>6, <2>3, AsideStep DEF Aside, Greet, program
<1> QED
  BY <1>2, <1>3, <1>4, <1>5, <1>6

LEMMA TakeStep ==
  ASSUME IInv, NEW c \in Clients, Take(c)
  PROVE  IInv'
<1>1. /\ s2c' \in Queues /\ Head(s2c[c]).D0 \in 1..drawn
      /\ \A m : \A d \in Clients : In(m, s2c'[d]) => In(m, s2c[d])
  BY TakenFacts DEF Take, Receives
<1>2. Head(s2c[c]).D0 \in Names
  BY <1>1 DEF IInv, TypeOK, Names
<1>3. hop' \in [Clients -> Seq(Names)]
  <2>1. hop \in [Clients -> Seq(Names)]
    BY DEF IInv, TypeOK
  <2>2. Append(hop[c], Head(s2c[c]).D0) \in Seq(Names)
    BY <1>2, <2>1
  <2> QED
    BY <2>1, <2>2 DEF Take
<1>4. TypeOK'
  BY <1>1, <1>3 DEF IInv, TypeOK, Take, server, redis, Queues
<1>5. Drawn'
  BY <1>1 DEF IInv, Take, server, redis, Drawn
<1>6. Connected' /\ ListedOwnKey'
  BY DEF IInv, Take, server, redis, Connected, ListedOwnKey
<1> QED
  BY <1>4, <1>5, <1>6 DEF IInv

-----------------------------------------------------------------------------
(* The server's steps.                                                     *)

\* The server takes a cell from the head of a queue.
LEMMA ReadFacts ==
  ASSUME IInv, NEW c \in Clients, c2s[c] # << >>,
         c2s' = [c2s EXCEPT ![c] = Tail(@)]
  PROVE  /\ c2s' \in Queues
         /\ \A m : \A d \in Clients : In(m, c2s'[d]) => In(m, c2s[d])
<1>1. c2s[c] \in Seq(Cells) /\ c2s \in Queues
  BY DEF IInv, TypeOK, Queues
<1>2. /\ Tail(c2s[c]) \in Seq(Cells)
      /\ \A m : In(m, Tail(c2s[c])) => In(m, c2s[c])
  BY <1>1, HeadFacts
<1>3. c2s' \in Queues
  BY <1>1, <1>2 DEF Queues
<1>4. ASSUME NEW d \in Clients
      PROVE  c2s'[d] = IF d = c THEN Tail(c2s[c]) ELSE c2s[d]
  BY <1>1 DEF Queues
<1> QED
  BY <1>2, <1>3, <1>4

\* The server sends a cell.
LEMMA SendFacts ==
  ASSUME IInv, NEW c \in Clients, NEW x \in Cells, s2c' = Put(s2c, c, x)
  PROVE  /\ s2c' \in Queues
         /\ \A m : \A d \in Clients : In(m, s2c'[d]) => In(m, s2c[d]) \/ m = x
<1>1. s2c \in Queues
  BY DEF IInv, TypeOK, Queues
<1>2. /\ Put(s2c, c, x) \in Queues
      /\ \A m : \A d \in Clients : In(m, Put(s2c, c, x)[d]) =>
            In(m, s2c[d]) \/ m = x
  <2>1. /\ Put(s2c, c, x) \in Queues
        /\ \A m : \A d \in Clients : In(m, Put(s2c, c, x)[d]) =>
              In(m, s2c[d]) \/ (m = x /\ d = c /\ conn[c] = "open")
    BY <1>1, PutFacts, Zenon
  <2>2. ASSUME NEW m, NEW d \in Clients, In(m, Put(s2c, c, x)[d])
        PROVE  In(m, s2c[d]) \/ m = x
    BY <2>1, <2>2
  <2> QED
    BY <2>1, <2>2
<1> QED
  BY <1>2

LEMMA GetTidStep ==
  ASSUME IInv, NEW c \in Clients, GetTid(c)
  PROVE  IInv'
<1> PICK n : n = drawn + 1
  OBVIOUS
<1>1. /\ drawn \in 0..MaxNames /\ drawn < MaxNames /\ n \in Names
      /\ n \notin 1..drawn /\ 1..drawn \subseteq 1..n
  BY DEF IInv, TypeOK, GetTid, Names
<1>2. /\ drawn' = n /\ name' = [name EXCEPT ![c] = n]
      /\ exits' = (IF c \in ExitNodes THEN exits \cup {n} ELSE exits)
      /\ guards' = guards \cup {n} /\ keys' = keys /\ tid' = tid
      /\ conn' = conn /\ up' = up /\ conn[c] = "open"
  BY DEF GetTid, program, Receives
<1>3. c2s' \in Queues
  BY ReadFacts DEF GetTid, Receives
<1>4. PICK x \in Cells : x = [type |-> "tid", D0 |-> n] /\ x.D0 = n
  <2>1. [type |-> "tid", D0 |-> n] \in Cells
    BY <1>1 DEF Cells
  <2> QED
    BY <2>1
<1>5. /\ s2c' \in Queues
      /\ \A m : \A d \in Clients : In(m, s2c'[d]) => In(m, s2c[d]) \/ m = x
  <2>1. s2c' = Put(s2c, c, x)
    BY <1>4 DEF GetTid
  <2> QED
    BY <2>1, SendFacts
<1>6. TypeOK'
  <2>1. drawn' \in 0..MaxNames
    BY <1>1, <1>2
  <2>2. name' \in [Clients -> Names \cup {None}]
    BY <1>1, <1>2 DEF IInv, TypeOK
  <2>3. exits' \subseteq Names /\ guards' \subseteq Names
    BY <1>1, <1>2 DEF IInv, TypeOK
  <2> QED
    BY <1>3, <1>5, <2>1, <2>2, <2>3 DEF IInv, TypeOK, GetTid, program, Queues
<1>7. Drawn'
  <2>1. guards' \subseteq 1..drawn' /\ exits' \subseteq 1..drawn'
    BY <1>1, <1>2 DEF IInv, Drawn
  <2>2. ASSUME NEW k \in Names, keys'[k] # None
        PROVE  k <= drawn'
    BY <1>1, <1>2, <2>2 DEF IInv, Drawn, Names
  <2>3. ASSUME NEW d \in Clients
        PROVE  /\ name'[d] # None => name'[d] <= drawn'
               /\ tid'[d] # None => tid'[d] <= drawn'
    <3>1. /\ name[d] # None => name[d] <= drawn /\ name[d] \in Nat
          /\ tid[d] # None => tid[d] <= drawn /\ tid[d] \in Nat
      BY DEF IInv, TypeOK, Drawn, Names
    <3>2. name'[d] = IF d = c THEN n ELSE name[d]
      BY <1>2 DEF IInv, TypeOK
    <3> QED
      BY <1>1, <1>2, <3>1, <3>2
  <2>4. ASSUME NEW d \in Clients, NEW m \in Cells, In(m, s2c'[d])
        PROVE  m.D0 \in 1..drawn'
    BY <1>1, <1>2, <1>4, <1>5, <2>4 DEF IInv, Drawn
  <2> QED
    BY <2>1, <2>2, <2>3, <2>4 DEF Drawn
<1>8. Connected'
  <2>1. ASSUME NEW d \in Clients
        PROVE  /\ name'[d] = IF d = c THEN n ELSE name[d]
               /\ name[d] # n
    <3>1. name'[d] = IF d = c THEN n ELSE name[d]
      BY <1>2 DEF IInv, TypeOK
    <3>2. name[d] # None => name[d] \in 1..drawn
      BY DEF IInv, TypeOK, Drawn, Names
    <3>3. n # None
      BY <1>1
    <3> QED
      BY <1>1, <3>1, <3>2, <3>3
  <2> QED
    BY <1>2, <2>1 DEF IInv, Connected
<1>9. ListedOwnKey'
  <2>1. keys[n] = None
    BY <1>1 DEF IInv, Drawn
  <2>2. ASSUME NEW d \in Clients
        PROVE  name'[d] = IF d = c THEN n ELSE name[d]
    BY <1>2 DEF IInv, TypeOK
  <2> QED
    BY <1>2, <2>1, <2>2 DEF IInv, ListedOwnKey
<1> QED
  BY <1>6, <1>7, <1>8, <1>9 DEF IInv

LEMMA PubKStep ==
  ASSUME IInv, NEW c \in Clients, PubK(c)
  PROVE  IInv'
<1>1. c2s' \in Queues
  BY ReadFacts DEF PubK, Receives
<1>2. ASSUME NEW n \in Names
      PROVE  keys'[n] = IF n = name[c] THEN c ELSE keys[n]
  BY DEF IInv, TypeOK, PubK
<1>3. keys' \in [Names -> Clients \cup {None}]
  BY DEF IInv, TypeOK, PubK
<1>4. TypeOK'
  BY <1>1, <1>3 DEF IInv, TypeOK, PubK, server, program, Queues
<1>5. Drawn'
  BY <1>2 DEF IInv, Drawn, PubK, server, program
<1>6. Connected'
  BY DEF IInv, Connected, PubK, server
<1>7. ListedOwnKey'
  <2>1. ASSUME NEW d \in Clients, name[d] # None
        PROVE  keys'[name[d]] \in {d, None}
    <3>1. name[d] \in Names /\ keys[name[d]] \in {d, None}
      BY <2>1 DEF IInv, TypeOK, ListedOwnKey
    <3>2. name[d] = name[c] => c = d
      BY <2>1 DEF IInv, Connected
    <3> QED
      BY <1>2, <3>1, <3>2
  <2>2. name' = name /\ guards' = guards /\ exits' = exits
    BY DEF PubK
  <2> QED
    BY <2>1, <2>2 DEF IInv, ListedOwnKey
<1> QED
  BY <1>4, <1>5, <1>6, <1>7 DEF IInv

LEMMA PicksFacts ==
  ASSUME NEW set, NEW avoid, NEW least
  PROVE  Picks(set, avoid, least) \subseteq set
  BY DEF Picks, FirstAllowed, Sample

LEMMA AnswerStep ==
  ASSUME IInv, NEW c \in Clients, NEW get,
         NEW type \in {"exit", "guard", "bridge"}, NEW picks \in SUBSET Names,
         picks \subseteq 1..drawn, Answer(c, get, type, picks)
  PROVE  IInv'
<1>1. c2s' \in Queues
  BY ReadFacts DEF Answer, Receives
<1>2. /\ s2c' \in Queues
      /\ \A d \in Clients, m \in Cells : In(m, s2c'[d]) =>
            In(m, s2c[d]) \/ m.D0 \in 1..drawn
  <2>1. s2c \in Queues
    BY DEF IInv, TypeOK, Queues
  <2>2. CASE picks = {}
    BY <2>1, <2>2 DEF Answer
  <2>3. CASE picks # {}
    <3>1. PICK n \in picks : s2c' = Put(s2c, c, [type |-> type, D0 |-> n])
      BY <2>3 DEF Answer
    <3>2. [type |-> type, D0 |-> n] \in Cells
      BY DEF Cells
    <3>3. PICK x \in Cells : x = [type |-> type, D0 |-> n]
      BY <3>2
    <3>4. s2c' = Put(s2c, c, x) /\ x.D0 \in 1..drawn
      BY <3>1, <3>3
    <3>5. /\ s2c' \in Queues
          /\ \A m : \A d \in Clients : In(m, s2c'[d]) => In(m, s2c[d]) \/ m = x
      BY <3>4, SendFacts
    <3> QED
      BY <3>4, <3>5
  <2> QED
    BY <2>2, <2>3
<1>3. TypeOK'
  BY <1>1, <1>2 DEF IInv, TypeOK, Answer, server, redis, program, Queues
<1>4. Drawn'
  BY <1>2 DEF IInv, Drawn, Answer, server, redis, program
<1>5. Connected' /\ ListedOwnKey'
  BY DEF IInv, Connected, ListedOwnKey, Answer, server, redis
<1> QED
  BY <1>3, <1>4, <1>5 DEF IInv

LEMMA DispatchStep ==
  ASSUME IInv, NEW c \in Clients, Dispatch(c)
  PROVE  IInv'
<1>1. /\ exits \subseteq Names /\ exits \subseteq 1..drawn
      /\ guards \subseteq Names /\ guards \subseteq 1..drawn
  BY DEF IInv, TypeOK, Drawn
<1>2. CASE GetExit(c)
  <2> PICK picks : picks = ExitPicks(exits, Avoid(c))
    OBVIOUS
  <2>1. picks \in SUBSET Names /\ picks \subseteq 1..drawn
    BY <1>1, PicksFacts DEF ExitPicks
  <2>2. Answer(c, "getexit", "exit", picks)
    BY <1>2 DEF GetExit
  <2> QED
    BY <2>1, <2>2, AnswerStep
<1>3. CASE GetGuard(c) \/ GetBridge(c)
  <2> PICK picks : picks = GuardPicks(guards, Avoid(c))
    OBVIOUS
  <2>1. picks \in SUBSET Names /\ picks \subseteq 1..drawn
    BY <1>1, PicksFacts DEF GuardPicks
  <2>2. PICK get \in {"getguard", "getbridge"}, type \in {"guard", "bridge"} :
           Answer(c, get, type, picks)
    BY <1>3 DEF GetGuard, GetBridge
  <2> QED
    BY <2>1, <2>2, AnswerStep
<1> QED
  BY <1>2, <1>3, GetTidStep, PubKStep DEF Dispatch

LEMMA ExpireStep ==
  ASSUME IInv, NEW n \in Names, Expire(n)
  PROVE  IInv'
<1>1. ASSUME NEW k \in Names
      PROVE  keys'[k] = IF k = n THEN None ELSE keys[k]
  BY DEF IInv, TypeOK, Expire
<1>2. TypeOK'
  BY DEF IInv, TypeOK, Expire, server, session, program
<1>3. Drawn'
  BY <1>1 DEF IInv, Drawn, Expire, server, session, program
<1>4. Connected'
  BY DEF IInv, Connected, Expire, server, session
<1>5. ListedOwnKey'
  BY <1>1 DEF IInv, TypeOK, ListedOwnKey, Expire, session
<1> QED
  BY <1>2, <1>3, <1>4, <1>5 DEF IInv

LEMMA DropStep ==
  ASSUME IInv, NEW c \in Clients, Drop(c)
  PROVE  IInv'
<1>1. ASSUME NEW d \in Clients
      PROVE  /\ name'[d] = IF d = c THEN None ELSE name[d]
             /\ conn'[d] = IF d = c THEN "broken" ELSE conn[d]
             /\ s2c'[d] = IF d = c THEN << >> ELSE s2c[d]
  BY DEF IInv, TypeOK, Drop
<1>2. TypeOK'
  BY DEF IInv, TypeOK, Drop, redis, program
<1>3. Drawn'
  BY <1>1 DEF IInv, Drawn, Drop, redis, program, In
<1>4. Connected'
  BY <1>1 DEF IInv, Connected, Drop
<1>5. ListedOwnKey'
  BY <1>1 DEF IInv, ListedOwnKey, Drop, redis
<1> QED
  BY <1>2, <1>3, <1>4, <1>5 DEF IInv

LEMMA StopStep ==
  ASSUME IInv, Stop
  PROVE  IInv'
<1>1. TypeOK'
  <2>1. conn' \in [Clients -> {"none", "open", "broken"}]
    BY DEF IInv, TypeOK, Stop
  <2>2. /\ c2s' \in [Clients -> Seq(Cells)] /\ s2c' \in [Clients -> Seq(Cells)]
        /\ name' \in [Clients -> Names \cup {None}]
    BY DEF Stop
  <2>3. losses' \in 0..MaxLosses
    BY DEF IInv, TypeOK, Stop
  <2>4. up' \in BOOLEAN
    BY DEF Stop
  <2> QED
    BY <2>1, <2>2, <2>3, <2>4 DEF IInv, TypeOK, Stop, redis, program
<1>2. Drawn'
  BY DEF IInv, Drawn, Stop, redis, program, In
<1>3. Connected' /\ ListedOwnKey'
  BY DEF Connected, ListedOwnKey, Stop
<1> QED
  BY <1>1, <1>2, <1>3 DEF IInv

LEMMA StartStep ==
  ASSUME IInv, Start
  PROVE  IInv'
<1>1. TypeOK'
  BY DEF IInv, TypeOK, Start, session, program
<1>2. Drawn'
  BY DEF IInv, Drawn, Start, session, program
<1>3. \A c \in Clients : name[c] = None
  BY DEF IInv, Connected, Start
<1>4. Connected' /\ ListedOwnKey'
  BY <1>3 DEF IInv, Connected, ListedOwnKey, Start, session
<1> QED
  BY <1>1, <1>2, <1>4 DEF IInv

LEMMA NextIInv ==
  ASSUME IInv, [Next]_vars
  PROVE  IInv'
<1>1. CASE UNCHANGED vars
  <2>1. TypeOK' /\ Drawn' /\ Connected' /\ ListedOwnKey'
    BY <1>1 DEF vars, server, redis, session, program, IInv, TypeOK, Drawn,
                Connected, ListedOwnKey
  <2> QED
    BY <2>1 DEF IInv
<1>2. CASE \E c \in Clients : Client(c) \/ Dispatch(c) \/ Drop(c)
  BY <1>2, DialStep, TidComeStep, OwnStep, TakeStep, DispatchStep, DropStep
     DEF Client
<1>3. CASE (\E n \in Names : Expire(n)) \/ Stop \/ Start
  BY <1>3, ExpireStep, StopStep, StartStep
<1> QED
  BY <1>1, <1>2, <1>3 DEF Next

THEOREM Invariance == Spec => []IInv
  BY InitIInv, NextIInv, PTL DEF Spec

\* The variables keep their types.
THEOREM Typing == Spec => []TypeOK
<1>1. IInv => TypeOK
  BY DEF IInv
<1> QED
  BY <1>1, Invariance, PTL

\* A connected client is in the sets under its name, and the key under it, if
\* any, is its own (remined/main.go:76-111), across restarts and redials.
THEOREM ListedUnderOwnKey == Spec => []ListedOwnKey
<1>1. IInv => ListedOwnKey
  BY DEF IInv
<1> QED
  BY <1>1, Invariance, PTL

-----------------------------------------------------------------------------
(* What a client does not get over.                                        *)

\* A client that has no key under its name, and whose pubk is not under way.
Unkeyed(c) ==
    /\ ~In([type |-> "pubk"], c2s[c])
    /\ name[c] = None \/ keys[name[c]] = None

LEMMA KeylessFacts ==
  ASSUME TypeOK, NEW c \in Clients
  PROVE  Keyless(c) <=> phase[c] = "published" /\ Unkeyed(c)
<1>1. c2s[c] \in Seq(Cells)
  BY DEF TypeOK
<1>2. \A m : m \in ToSet(c2s[c]) <=> In(m, c2s[c])
  BY <1>1 DEF ToSet, In
<1> QED
  BY <1>2 DEF Keyless, Unkeyed

\* No pubk has been sent, and the name is the same as before, with no key, or
\* a new one without a key.
KeepsUnkeyed(c) ==
    /\ In([type |-> "pubk"], c2s'[c]) => In([type |-> "pubk"], c2s[c])
    /\ \/ name'[c] = name[c] /\ (name[c] # None => keys'[name[c]] = None)
       \/ name'[c] = None \/ keys'[name'[c]] = None

LEMMA PutOther ==
  ASSUME IInv, NEW d \in Clients, NEW x \in Cells, c2s' = Put(c2s, d, x),
         NEW c \in Clients, c # d \/ x.type # "pubk"
  PROVE  In([type |-> "pubk"], c2s'[c]) => In([type |-> "pubk"], c2s[c])
<1>1. c2s \in Queues
  BY DEF IInv, TypeOK, Queues
<1>2. PICK q \in Queues : q = c2s
  BY <1>1
<1>3. \A m : \A e \in Clients : In(m, Put(q, d, x)[e]) =>
         In(m, q[e]) \/ (m = x /\ e = d /\ conn[d] = "open")
  BY PutFacts
<1>4. [type |-> "pubk"].type = "pubk"
  OBVIOUS
<1> QED
  BY <1>2, <1>3, <1>4

LEMMA ClientUnkeyed ==
  ASSUME IInv, NEW d \in Clients, Client(d),
         NEW c \in Clients, phase[c] = "published", Unkeyed(c)
  PROVE  /\ KeepsUnkeyed(c)
         /\ phase'[c] = "published" \/ phase'[c] = "ended"
<1>1. phase \in [Clients -> {"off", "dialing", "dialed", "published", "ended"}]
      /\ c2s \in [Clients -> Seq(Cells)]
  BY DEF IInv, TypeOK
<1>2. name' = name /\ keys' = keys
  BY DEF Client, Dial, TidCome, DialCut, Publish, Ask, Take, Redial, Greet,
         redis, session
<1>3. phase'[c] = "published" \/ phase'[c] = "ended"
  BY <1>1 DEF Client, Dial, TidCome, DialCut, Publish, Ask, Take, Redial,
              Greet, program
<1>4. In([type |-> "pubk"], c2s'[c]) => In([type |-> "pubk"], c2s[c])
  <2>1. CASE Dial(d)
    BY <1>1, <2>1 DEF Dial
  <2>2. CASE TidCome(d) \/ DialCut(d) \/ Take(d) \/ Redial(d)
    BY <2>2 DEF TidCome, DialCut, Take, Redial, session
  <2>3. CASE Publish(d)
    <3>1. PICK x \in Cells : c2s' = Put(c2s, d, x)
      <4>1. [type |-> "pubk"] \in Cells
        BY DEF Cells
      <4> QED
        BY <2>3, <4>1 DEF Publish
    <3>2. c # d
      BY <2>3 DEF Publish
    <3> QED
      BY <3>1, <3>2, PutOther
  <2>4. CASE Ask(d)
    <3>1. asked' = [asked EXCEPT ![d] = @ + 1] /\ asked[d] \in {0, 1, 2}
      BY <2>4 DEF IInv, TypeOK, Ask
    <3>2. asked'[d] \in {1, 2, 3}
      BY <3>1 DEF IInv, TypeOK
    <3>3. PICK t \in {"getexit", "getguard", "getbridge"} :
             t = <<"getexit", "getguard", "getbridge">>[asked'[d]]
      BY <3>2
    <3>4. [type |-> t] \in Cells /\ [type |-> t].type # "pubk"
      BY DEF Cells
    <3>5. PICK x \in Cells : c2s' = Put(c2s, d, x) /\ x.type # "pubk"
      BY <2>4, <3>3, <3>4 DEF Ask
    <3> QED
      BY <3>5, PutOther
  <2>5. CASE Greet(d)
    <3>1. [type |-> "gettid"] \in Cells /\ [type |-> "gettid"].type # "pubk"
      BY DEF Cells
    <3>2. PICK x \in Cells : c2s' = Put(c2s, d, x) /\ x.type # "pubk"
      BY <2>5, <3>1 DEF Greet
    <3> QED
      BY <3>2, PutOther
  <2> QED
    BY <2>1, <2>2, <2>3, <2>4, <2>5 DEF Client
<1> QED
  BY <1>2, <1>3, <1>4 DEF KeepsUnkeyed, Unkeyed

LEMMA ServerUnkeyed ==
  ASSUME IInv, NEW d \in Clients, Dispatch(d) \/ Drop(d),
         NEW c \in Clients, phase[c] = "published", Unkeyed(c)
  PROVE  KeepsUnkeyed(c) /\ phase' = phase
<1>1. phase' = phase
  BY DEF Dispatch, GetTid, PubK, GetExit, GetGuard, GetBridge, Answer, Drop,
         program
<1>2. In([type |-> "pubk"], c2s'[c]) => In([type |-> "pubk"], c2s[c])
  <2>1. CASE Dispatch(d)
    <3>1. c2s[d] # << >> /\ c2s' = [c2s EXCEPT ![d] = Tail(@)]
      BY <2>1 DEF Dispatch, GetTid, PubK, GetExit, GetGuard, GetBridge, Answer,
                  Receives
    <3> QED
      BY <3>1, ReadFacts
  <2>2. CASE Drop(d)
    BY <2>2 DEF Drop, In, IInv, TypeOK
  <2> QED
    BY <2>1, <2>2
<1>3. CASE GetTid(d)
  <2>1. drawn + 1 \in Names /\ drawn \in Nat
    BY <1>3 DEF GetTid, IInv, TypeOK, Names
  <2>2. keys[drawn + 1] = None /\ keys' = keys
    BY <1>3, <2>1 DEF GetTid, IInv, Drawn
  <2>3. name'[c] = IF c = d THEN drawn + 1 ELSE name[c]
    BY <1>3 DEF GetTid, IInv, TypeOK
  <2> QED
    BY <1>1, <1>2, <2>2, <2>3 DEF KeepsUnkeyed, Unkeyed
<1>4. CASE PubK(d)
  <2>1. c # d
    <3>1. c2s[d] \in Seq(Cells) /\ c2s[d] # << >> /\ Head(c2s[d]).type = "pubk"
      BY <1>4 DEF PubK, Receives, IInv, TypeOK
    <3>2. Head(c2s[d]) \in Cells /\ In(Head(c2s[d]), c2s[d])
      BY <3>1, HeadFacts
    <3>3. Head(c2s[d]) = [type |-> "pubk"]
      BY <3>1, <3>2 DEF Cells
    <3> QED
      BY <3>2, <3>3 DEF Unkeyed
  <2>2. ASSUME name[c] # None
        PROVE  keys'[name[c]] = None
    <3>1. name[c] \in Names /\ name[c] # name[d]
      BY <2>1, <2>2 DEF IInv, TypeOK, Connected
    <3> QED
      BY <1>4, <2>2, <3>1 DEF PubK, Unkeyed, IInv, TypeOK
  <2>3. name' = name
    BY <1>4 DEF PubK
  <2> QED
    BY <1>1, <1>2, <2>2, <2>3 DEF KeepsUnkeyed
<1>5. CASE GetExit(d) \/ GetGuard(d) \/ GetBridge(d)
  <2>1. name' = name /\ keys' = keys
    BY <1>5 DEF GetExit, GetGuard, GetBridge, Answer, redis
  <2> QED
    BY <1>1, <1>2, <2>1 DEF KeepsUnkeyed, Unkeyed
<1>6. CASE Drop(d)
  <2>1. keys' = keys /\ name'[c] = IF c = d THEN None ELSE name[c]
    BY <1>6 DEF Drop, redis, IInv, TypeOK
  <2> QED
    BY <1>1, <1>2, <2>1 DEF KeepsUnkeyed, Unkeyed
<1> QED
  BY <1>3, <1>4, <1>5, <1>6 DEF Dispatch

LEMMA OtherUnkeyed ==
  ASSUME IInv, (\E n \in Names : Expire(n)) \/ Stop \/ Start,
         NEW c \in Clients, phase[c] = "published", Unkeyed(c)
  PROVE  KeepsUnkeyed(c) /\ phase' = phase
<1>1. CASE \E n \in Names : Expire(n)
  <2>1. PICK n \in Names : Expire(n)
    BY <1>1
  <2>2. /\ name' = name /\ c2s' = c2s /\ phase' = phase
        /\ name[c] # None => keys'[name[c]] = None
    BY <2>1 DEF Expire, session, program, Unkeyed, IInv, TypeOK
  <2> QED
    BY <2>2 DEF KeepsUnkeyed
<1>2. CASE Stop
  BY <1>2 DEF Stop, program, KeepsUnkeyed, In
<1>3. CASE Start
  BY <1>3 DEF Start, session, program, KeepsUnkeyed, Unkeyed
<1> QED
  BY <1>1, <1>2, <1>3

\* A client that is left without a key has none for good (client.go:162-173,
\* remined/main.go:111): neither it nor the server enters one again.
THEOREM KeylessStays == Spec => KeylessForGood
<1>1. ASSUME IInv, IInv', [Next]_vars, NEW c \in Clients, Keyless(c)
      PROVE  Keyless(c)' \/ phase'[c] = "ended"
  <2>1. phase[c] = "published" /\ Unkeyed(c)
    BY <1>1, KeylessFacts DEF IInv
  <2>2. CASE UNCHANGED vars
    BY <1>1, <2>2 DEF vars, redis, session, program, Keyless
  <2>3. CASE Next
    <3>1. /\ KeepsUnkeyed(c)
          /\ phase'[c] = "published" \/ phase'[c] = "ended"
      BY <1>1, <2>1, <2>3, ClientUnkeyed, ServerUnkeyed, OtherUnkeyed DEF Next
    <3>2. Unkeyed(c)'
      BY <2>1, <3>1 DEF KeepsUnkeyed, Unkeyed
    <3>3. c2s'[c] \in Seq(Cells)
      BY <1>1 DEF IInv, TypeOK
    <3>4. \A m : m \in ToSet(c2s'[c]) <=> In(m, c2s'[c])
      BY <3>3 DEF ToSet, In
    <3> QED
      BY <3>1, <3>2, <3>4 DEF Keyless, Unkeyed
  <2> QED
    BY <1>1, <2>2, <2>3
<1>2. IInv /\ IInv' /\ [Next]_vars
         => [\A c \in Clients :
                Keyless(c) => Keyless(c)' \/ phase'[c] = "ended"]_vars
  BY <1>1
<1> QED
  BY <1>2, Invariance, PTL DEF Spec, KeylessForGood

\* Misnamed, without the look at its program.
LEMMA MisnamedStep ==
  ASSUME IInv, [Next]_vars, NEW c \in Clients, Misnamed(c)
  PROVE  Misnamed(c)' \/ phase'[c] = "ended"
<1>1. /\ phase[c] \in {"dialed", "published"}
      /\ name[c] = None \/ tid[c] # name[c]
      /\ tid[c] # None => tid[c] <= drawn
      /\ drawn \in Nat
  BY DEF Misnamed, Running, IInv, Drawn, TypeOK
<1> SUFFICES /\ phase'[c] \in {"dialed", "published", "ended"}
             /\ tid'[c] = tid[c]
             /\ name'[c] \in {name[c], None} \/ name'[c] = drawn + 1
  BY <1>1 DEF Misnamed, Running
<1>2. /\ phase \in [Clients ->
                      {"off", "dialing", "dialed", "published", "ended"}]
      /\ tid \in [Clients -> Names \cup {None}]
      /\ name \in [Clients -> Names \cup {None}]
  BY DEF IInv, TypeOK
<1>3. CASE UNCHANGED vars
  BY <1>1, <1>3 DEF vars, session, program
<1>4. ASSUME NEW d \in Clients, Client(d)
      PROVE  /\ phase'[c] \in {"dialed", "published", "ended"}
             /\ tid'[c] = tid[c] /\ name' = name
  BY <1>1, <1>2, <1>4 DEF Client, Dial, TidCome, DialCut, Publish, Ask, Take,
                          Redial, Greet, program, session
<1>5. ASSUME NEW d \in Clients, Dispatch(d) \/ Drop(d)
      PROVE  /\ phase' = phase /\ tid' = tid
             /\ name'[c] \in {name[c], None} \/ name'[c] = drawn + 1
  BY <1>2, <1>5 DEF Dispatch, GetTid, PubK, GetExit, GetGuard, GetBridge,
                    Answer, Drop, program
<1>6. CASE (\E n \in Names : Expire(n)) \/ Stop \/ Start
  BY <1>1, <1>6 DEF Expire, Stop, Start, program, session
<1> QED
  BY <1>1, <1>3, <1>4, <1>5, <1>6 DEF Next

\* A client that has redialled does not learn its name for as long as its
\* program runs (client.go:555-626).
THEOREM MisnamedStays == Spec => MisnamedForGood
<1>1. IInv /\ [Next]_vars
         => [\A c \in Clients :
                Misnamed(c) => Misnamed(c)' \/ phase'[c] = "ended"]_vars
  BY MisnamedStep
<1> QED
  BY <1>1, Invariance, PTL DEF Spec, MisnamedForGood

-----------------------------------------------------------------------------
(* Answers that may be used.                                               *)

\* There is one more candidate than names to avoid: one of them is allowed.
LEMMA PicksAllowed ==
  ASSUME NEW set, NEW avoid, IsFiniteSet(avoid), NEW n,
         n \in Picks(set, avoid, Cardinality(avoid) + 1)
  PROVE  n \notin avoid
<1>1. PICK nc \in Sample(set, Cardinality(avoid) + 1) :
         /\ Cardinality(nc) >= Cardinality(avoid) + 1
         /\ n \in FirstAllowed(nc, avoid)
  BY DEF Picks
<1>2. ~(nc \subseteq avoid)
  <2> SUFFICES ASSUME nc \subseteq avoid
               PROVE  FALSE
    OBVIOUS
  <2>1. IsFiniteSet(nc) /\ Cardinality(nc) <= Cardinality(avoid)
    BY FS_Subset
  <2>2. Cardinality(nc) \in Nat /\ Cardinality(avoid) \in Nat
    BY <2>1, FS_CardinalityType
  <2> QED
    BY <1>1, <2>1, <2>2
<1> QED
  BY <1>1, <1>2 DEF FirstAllowed

LEMMA AvoidFinite ==
  ASSUME TypeOK, NEW c \in Clients
  PROVE  IsFiniteSet(Avoid(c))
<1>1. ToSet(hop[c]) \subseteq Names
  BY DEF TypeOK, ToSet
<1>2. IsFiniteSet(Names)
  BY FS_Interval DEF Names
<1>3. IsFiniteSet(ToSet(hop[c]))
  BY <1>1, <1>2, FS_Subset
<1> QED
  BY <1>3, FS_AddElement DEF Avoid

Gets == {"getexit", "getguard", "getbridge"}
Hops == {"exit", "guard", "bridge"}

Has(s, types) == \E j \in 1..Len(s) : s[j].type \in types
Once(s, types) ==
    \A i, j \in 1..Len(s) : s[i].type \in types /\ s[j].type \in types => i = j

LEMMA TailTurn ==
  ASSUME NEW s \in Seq(Cells), s # << >>, NEW T, Once(s, T)
  PROVE  /\ Once(Tail(s), T)
         /\ Has(Tail(s), T) => Has(s, T)
         /\ Head(s).type \in T => Has(s, T) /\ ~Has(Tail(s), T)
<1>1. /\ Len(s) \in Nat /\ Len(s) > 0 /\ Head(s) = s[1]
      /\ Len(Tail(s)) = Len(s) - 1
      /\ \A j \in 1..Len(Tail(s)) : Tail(s)[j] = s[j + 1]
  OBVIOUS
<1>2. ASSUME NEW i \in 1..Len(Tail(s))
      PROVE  i + 1 \in 1..Len(s) /\ Tail(s)[i] = s[i + 1] /\ i \in Nat
  BY <1>1
<1>3. Once(Tail(s), T)
  <2> SUFFICES ASSUME NEW i \in 1..Len(Tail(s)), NEW j \in 1..Len(Tail(s)),
                      Tail(s)[i].type \in T, Tail(s)[j].type \in T
               PROVE  i = j
    BY DEF Once
  <2>1. i + 1 = j + 1
    BY <1>2 DEF Once
  <2> QED
    BY <1>2, <2>1
<1>4. Has(Tail(s), T) => Has(s, T)
  BY <1>2 DEF Has
<1>5. ASSUME Head(s).type \in T
      PROVE  Has(s, T) /\ ~Has(Tail(s), T)
  <2>1. 1 \in 1..Len(s) /\ s[1].type \in T
    BY <1>1, <1>5
  <2>2. ASSUME NEW i \in 1..Len(Tail(s)), Tail(s)[i].type \in T
        PROVE  FALSE
    <3>1. i + 1 = 1
      BY <1>2, <2>1, <2>2 DEF Once
    <3> QED
      BY <1>2, <3>1
  <2> QED
    BY <2>1, <2>2 DEF Has
<1> QED
  BY <1>3, <1>4, <1>5

LEMMA AppendTurn ==
  ASSUME NEW s \in Seq(Cells), NEW x \in Cells, NEW T, Once(s, T),
         x.type \in T => ~Has(s, T)
  PROVE  /\ Once(Append(s, x), T)
         /\ Has(Append(s, x), T) => Has(s, T) \/ x.type \in T
<1>1. /\ Len(s) \in Nat /\ Len(Append(s, x)) = Len(s) + 1
      /\ Append(s, x)[Len(s) + 1] = x
      /\ \A j \in 1..Len(s) : Append(s, x)[j] = s[j]
  OBVIOUS
<1>2. ASSUME NEW i \in 1..Len(Append(s, x)), Append(s, x)[i].type \in T
      PROVE  \/ i \in 1..Len(s) /\ s[i].type \in T /\ Has(s, T)
             \/ i = Len(s) + 1 /\ x.type \in T
  BY <1>1, <1>2 DEF Has
<1>3. Once(Append(s, x), T)
  <2> SUFFICES ASSUME NEW i \in 1..Len(Append(s, x)),
                      NEW j \in 1..Len(Append(s, x)),
                      Append(s, x)[i].type \in T, Append(s, x)[j].type \in T
               PROVE  i = j
    BY DEF Once
  <2> QED
    BY <1>2 DEF Once
<1>4. Has(Append(s, x), T) => Has(s, T) \/ x.type \in T
  BY <1>2 DEF Has
<1> QED
  BY <1>3, <1>4

\* A client has one of its requests, or the answer to it, under way.
Turn(c) ==
    /\ Once(c2s[c], Gets) /\ Once(s2c[c], Hops)
    /\ ~(Has(c2s[c], Gets) /\ Has(s2c[c], Hops))
    /\ Has(c2s[c], Gets) \/ Has(s2c[c], Hops) => Len(hop[c]) < asked[c]

\* What the answer says may be used still.
Allowed(c) ==
    \A m \in Cells : In(m, s2c[c]) /\ m.type \in {"guard", "bridge"} =>
       m.D0 \notin Avoid(c)

HInv == \A c \in Clients : Turn(c) /\ Allowed(c)

\* What a step leaves alone for c.
Untouched(c) ==
    /\ c2s'[c] = c2s[c] /\ s2c'[c] = s2c[c] /\ name'[c] = name[c]
    /\ hop'[c] = hop[c] /\ asked'[c] = asked[c]

LEMMA UntouchedStep ==
  ASSUME NEW c \in Clients, Turn(c), Allowed(c), Untouched(c)
  PROVE  Turn(c)' /\ Allowed(c)'
  BY DEF Untouched, Turn, Allowed, Avoid

\* A cell other than a request is sent to the server.
LEMMA PlainSent ==
  ASSUME IInv, NEW d \in Clients, NEW x \in Cells, x.type \notin Gets,
         c2s' = Put(c2s, d, x), UNCHANGED <<s2c, name, hop, asked>>,
         NEW c \in Clients, Turn(c), Allowed(c)
  PROVE  Turn(c)' /\ Allowed(c)'
<1>1. c2s'[c] = c2s[c] \/ c2s'[c] = Append(c2s[c], x)
  BY DEF Put, IInv, TypeOK
<1>2. c2s[c] \in Seq(Cells)
  BY DEF IInv, TypeOK
<1>3. Allowed(c)'
  BY DEF Allowed, Avoid
<1>4. Once(c2s'[c], Gets) /\ (Has(c2s'[c], Gets) => Has(c2s[c], Gets))
  <2>1. Once(c2s[c], Gets)
    BY DEF Turn
  <2>2. /\ Once(Append(c2s[c], x), Gets)
        /\ Has(Append(c2s[c], x), Gets) => Has(c2s[c], Gets)
    BY <1>2, <2>1, AppendTurn
  <2> QED
    BY <1>1, <2>1, <2>2
<1> QED
  BY <1>3, <1>4 DEF Turn

LEMMA AskTurn ==
  ASSUME IInv, NEW d \in Clients, Ask(d), NEW c \in Clients, Turn(c), Allowed(c)
  PROVE  Turn(c)' /\ Allowed(c)'
<1>1. /\ asked \in [Clients -> 0..3] /\ c2s \in [Clients -> Seq(Cells)]
      /\ hop[c] \in Seq(Names) /\ c2s[c] \in Seq(Cells)
  BY DEF IInv, TypeOK
<1>2. /\ asked' = [asked EXCEPT ![d] = @ + 1] /\ asked[d] \in {0, 1, 2}
      /\ s2c' = s2c /\ name' = name /\ hop' = hop
      /\ Len(hop[d]) = asked[d]
  BY <1>1 DEF Ask
<1>3. CASE c # d
  <2>1. Untouched(c)
    BY <1>1, <1>2, <1>3 DEF Ask, Put, Untouched
  <2> QED
    BY <2>1, UntouchedStep
<1>4. CASE c = d
  <2>1. asked'[c] = asked[c] + 1 /\ asked'[c] \in {1, 2, 3}
    BY <1>1, <1>2, <1>4
  <2>2. PICK t \in Gets : t = <<"getexit", "getguard", "getbridge">>[asked'[c]]
    BY <2>1 DEF Gets
  <2>3. [type |-> t] \in Cells
    BY DEF Cells, Gets
  <2>4. PICK x \in Cells : c2s' = Put(c2s, c, x)
    BY <1>4, <2>2, <2>3 DEF Ask
  <2>5. c2s'[c] = c2s[c] \/ c2s'[c] = Append(c2s[c], x)
    BY <1>1, <2>4 DEF Put
  <2>6. ~Has(c2s[c], Gets) /\ ~Has(s2c[c], Hops) /\ Once(c2s[c], Gets)
    BY <1>1, <1>2, <1>4 DEF Turn
  <2>7. Once(Append(c2s[c], x), Gets)
    BY <1>1, <2>6, AppendTurn
  <2>8. Once(c2s'[c], Gets) /\ Len(hop'[c]) < asked'[c]
    <3>1. Once(c2s'[c], Gets)
      BY <2>5, <2>6, <2>7
    <3>2. Len(hop'[c]) = asked[c] /\ asked[c] \in {0, 1, 2}
      BY <1>2, <1>4
    <3> QED
      BY <2>1, <3>1, <3>2
  <2>9. Turn(c)'
    BY <1>2, <2>6, <2>8 DEF Turn
  <2>10. Allowed(c)'
    BY <1>2 DEF Allowed, Avoid
  <2> QED
    BY <2>9, <2>10
<1> QED
  BY <1>3, <1>4

LEMMA TakeTurn ==
  ASSUME IInv, NEW d \in Clients, Take(d), NEW c \in Clients,
         Turn(c), Allowed(c)
  PROVE  Turn(c)' /\ Allowed(c)'
<1>1. /\ s2c \in [Clients -> Seq(Cells)] /\ hop \in [Clients -> Seq(Names)]
      /\ s2c[c] \in Seq(Cells)
  BY DEF IInv, TypeOK
<1>2. /\ c2s' = c2s /\ name' = name /\ asked' = asked
      /\ s2c' = [s2c EXCEPT ![d] = Tail(@)] /\ s2c[d] # << >>
  BY DEF Take, Receives
<1>3. CASE c # d
  <2>1. Untouched(c)
    BY <1>1, <1>2, <1>3 DEF Take, Untouched
  <2> QED
    BY <2>1, UntouchedStep
<1>4. CASE c = d
  <2>1. s2c'[c] = Tail(s2c[c]) /\ Once(s2c[c], Hops)
    BY <1>1, <1>2, <1>4 DEF Turn
  <2>2. /\ Once(s2c'[c], Hops) /\ (Has(s2c'[c], Hops) => Has(s2c[c], Hops))
        /\ Head(s2c[c]).type \in Hops => Has(s2c[c], Hops) /\ ~Has(s2c'[c], Hops)
    BY <1>1, <1>2, <1>4, <2>1, TailTurn
  <2>3. \A m : In(m, s2c'[c]) => In(m, s2c[c])
    BY <1>1, <1>2, <1>4, <2>1, HeadFacts
  <2>4. CASE Head(s2c[c]).type \in Hops
    <3>1. ~Has(s2c'[c], Hops) /\ ~Has(c2s'[c], Gets)
      BY <1>2, <2>2, <2>4 DEF Turn
    <3>2. Turn(c)'
      BY <1>2, <2>2, <3>1 DEF Turn
    <3>3. Allowed(c)'
      BY <3>1 DEF Allowed, Has, Hops, In
    <3> QED
      BY <3>2, <3>3
  <2>5. CASE Head(s2c[c]).type \notin Hops
    <3>1. Head(s2c[c]).type = "tid"
      BY <1>4, <2>5 DEF Take, Receives, Hops
    <3>2. hop' = hop
      BY <1>4, <3>1 DEF Take
    <3>3. Turn(c)'
      BY <1>2, <2>2, <3>2 DEF Turn
    <3>4. Allowed(c)'
      BY <1>2, <2>3, <3>2 DEF Allowed, Avoid
    <3> QED
      BY <3>3, <3>4
  <2> QED
    BY <2>4, <2>5
<1> QED
  BY <1>3, <1>4

LEMMA TidComeTurn ==
  ASSUME IInv, NEW d \in Clients, TidCome(d),
         NEW c \in Clients, Turn(c), Allowed(c)
  PROVE  Turn(c)' /\ Allowed(c)'
<1>1. s2c \in [Clients -> Seq(Cells)] /\ s2c[c] \in Seq(Cells)
  BY DEF IInv, TypeOK
<1>2. /\ c2s' = c2s /\ name' = name /\ asked' = asked /\ hop' = hop
      /\ s2c' = [s2c EXCEPT ![d] = Tail(@)] /\ s2c[d] # << >>
  BY DEF TidCome, Receives
<1>3. CASE c # d
  <2>1. Untouched(c)
    BY <1>1, <1>2, <1>3 DEF Untouched
  <2> QED
    BY <2>1, UntouchedStep
<1>4. CASE c = d
  <2>1. s2c'[c] = Tail(s2c[c]) /\ Once(s2c[c], Hops)
    BY <1>1, <1>2, <1>4 DEF Turn
  <2>2. Once(s2c'[c], Hops) /\ (Has(s2c'[c], Hops) => Has(s2c[c], Hops))
    BY <1>1, <1>2, <1>4, <2>1, TailTurn
  <2>3. \A m : In(m, s2c'[c]) => In(m, s2c[c])
    BY <1>1, <1>2, <1>4, <2>1, HeadFacts
  <2>4. Turn(c)'
    BY <1>2, <2>2 DEF Turn
  <2>5. Allowed(c)'
    BY <1>2, <2>3 DEF Allowed, Avoid
  <2> QED
    BY <2>4, <2>5
<1> QED
  BY <1>3, <1>4

\* The server reads a cell and sends none, or one that is no answer to a
\* request, or the answer to the request that it has read.
LEMMA ReadTurn ==
  ASSUME IInv, NEW d \in Clients, c2s[d] # << >>,
         c2s' = [c2s EXCEPT ![d] = Tail(@)], UNCHANGED <<hop, asked>>,
         \/ s2c' = s2c /\ name' = name
         \/ \E x \in Cells :
               /\ x.type = "tid" /\ s2c' = Put(s2c, d, x)
               /\ name' = [name EXCEPT ![d] = drawn + 1] /\ drawn + 1 \in Names
         \/ \E x \in Cells :
               /\ Head(c2s[d]).type \in Gets /\ s2c' = Put(s2c, d, x)
               /\ x.type \in {"guard", "bridge"} => x.D0 \notin Avoid(d)
               /\ name' = name,
         NEW c \in Clients, Turn(c), Allowed(c)
  PROVE  Turn(c)' /\ Allowed(c)'
<1>1. /\ s2c \in [Clients -> Seq(Cells)] /\ c2s \in [Clients -> Seq(Cells)]
      /\ name \in [Clients -> Names \cup {None}] /\ drawn \in Nat
      /\ s2c[c] \in Seq(Cells) /\ c2s[c] \in Seq(Cells)
  BY DEF IInv, TypeOK
<1>2. CASE c # d
  <2>1. Untouched(c)
    BY <1>1, <1>2 DEF Put, Untouched
  <2> QED
    BY <2>1, UntouchedStep
<1>3. CASE c = d
  <2>1. c2s'[c] = Tail(c2s[c]) /\ Once(c2s[c], Gets) /\ Once(s2c[c], Hops)
    BY <1>1, <1>3 DEF Turn
  <2>2. /\ Once(c2s'[c], Gets) /\ (Has(c2s'[c], Gets) => Has(c2s[c], Gets))
        /\ Head(c2s[c]).type \in Gets => Has(c2s[c], Gets) /\ ~Has(c2s'[c], Gets)
    BY <1>1, <1>3, <2>1, TailTurn
  <2>3. CASE s2c' = s2c /\ name' = name
    BY <2>2, <2>3 DEF Turn, Allowed, Avoid
  <2>4. ASSUME NEW x \in Cells, x.type = "tid", s2c' = Put(s2c, c, x),
               name' = [name EXCEPT ![c] = drawn + 1], drawn + 1 \in Names
        PROVE  Turn(c)' /\ Allowed(c)'
    <3>1. s2c'[c] = s2c[c] \/ s2c'[c] = Append(s2c[c], x)
      BY <1>1, <2>4 DEF Put
    <3>2. /\ Once(Append(s2c[c], x), Hops)
          /\ Has(Append(s2c[c], x), Hops) => Has(s2c[c], Hops)
      BY <1>1, <2>1, <2>4, AppendTurn DEF Hops
    <3>3. Turn(c)'
      BY <2>1, <2>2, <3>1, <3>2 DEF Turn
    <3>4. ASSUME NEW m \in Cells, In(m, s2c'[c]), m.type \in {"guard", "bridge"}
          PROVE  m.D0 \notin Avoid(c)'
      <4>1. In(m, s2c[c])
        <5>1. In(m, s2c'[c]) => In(m, s2c[c]) \/ m = x
          BY <1>1, <3>1, AppendFacts
        <5>2. m # x
          BY <2>4, <3>4
        <5> QED
          BY <3>4, <5>1, <5>2
      <4>2. m.D0 \in 1..drawn /\ m.D0 \notin Avoid(c)
        BY <3>4, <4>1 DEF IInv, Drawn, Allowed
      <4>3. name'[c] = drawn + 1 /\ hop'[c] = hop[c]
        BY <1>1, <2>4
      <4> QED
        BY <1>1, <4>2, <4>3 DEF Avoid
    <3> QED
      BY <3>3, <3>4 DEF Allowed
  <2>5. ASSUME NEW x \in Cells, Head(c2s[c]).type \in Gets,
               s2c' = Put(s2c, c, x), name' = name,
               x.type \in {"guard", "bridge"} => x.D0 \notin Avoid(c)
        PROVE  Turn(c)' /\ Allowed(c)'
    <3>1. s2c'[c] = s2c[c] \/ s2c'[c] = Append(s2c[c], x)
      BY <1>1, <2>5 DEF Put
    <3>2. /\ Has(c2s[c], Gets) /\ ~Has(c2s'[c], Gets) /\ ~Has(s2c[c], Hops)
          /\ Len(hop[c]) < asked[c]
      BY <2>2, <2>5 DEF Turn
    <3>3. Once(Append(s2c[c], x), Hops)
      BY <1>1, <2>1, <3>2, AppendTurn
    <3>4. Turn(c)'
      BY <2>1, <2>2, <3>1, <3>2, <3>3 DEF Turn
    <3>5. \A m : In(m, s2c'[c]) => In(m, s2c[c]) \/ m = x
      BY <1>1, <3>1, AppendFacts
    <3>6. Allowed(c)'
      BY <2>5, <3>5 DEF Allowed, Avoid
    <3> QED
      BY <3>4, <3>6
  <2> QED
    BY <1>3, <2>3, <2>4, <2>5
<1> QED
  BY <1>2, <1>3

LEMMA DialTurn ==
  ASSUME IInv, NEW d \in Clients, Dial(d),
         NEW c \in Clients, Turn(c), Allowed(c)
  PROVE  Turn(c)' /\ Allowed(c)'
<1>1. /\ c2s \in [Clients -> Seq(Cells)]
      /\ c2s' = [c2s EXCEPT ![d] = <<[type |-> "gettid"]>>]
      /\ UNCHANGED <<s2c, name, hop, asked>>
  BY DEF IInv, TypeOK, Dial
<1>2. CASE c # d
  BY <1>1, <1>2, UntouchedStep DEF Untouched
<1>3. CASE c = d
  <2> PICK s : s = <<[type |-> "gettid"]>>
    OBVIOUS
  <2>1. c2s'[c] = s
    BY <1>1, <1>3
  <2>2. ~Has(s, Gets)
    BY DEF Has, Gets
  <2>3. Once(s, Gets)
    BY <2>2 DEF Once, Has
  <2>4. Turn(c)'
    BY <1>1, <2>1, <2>2, <2>3 DEF Turn
  <2>5. Allowed(c)'
    BY <1>1 DEF Allowed, Avoid
  <2> QED
    BY <2>4, <2>5
<1> QED
  BY <1>2, <1>3

LEMMA ClientTurn ==
  ASSUME IInv, NEW d \in Clients, Client(d),
         NEW c \in Clients, Turn(c), Allowed(c)
  PROVE  Turn(c)' /\ Allowed(c)'
<1>1. CASE DialCut(d) \/ Redial(d)
  <2>1. Untouched(c)
    BY <1>1 DEF DialCut, Redial, session, Untouched
  <2> QED
    BY <2>1, UntouchedStep
<1>2. CASE Publish(d)
  <2>1. [type |-> "pubk"] \in Cells /\ [type |-> "pubk"].type \notin Gets
    BY DEF Cells, Gets
  <2>2. PICK x \in Cells : x.type \notin Gets /\ c2s' = Put(c2s, d, x)
    BY <1>2, <2>1 DEF Publish
  <2> QED
    BY <1>2, <2>2, PlainSent DEF Publish
<1>3. CASE Greet(d)
  <2>1. [type |-> "gettid"] \in Cells /\ [type |-> "gettid"].type \notin Gets
    BY DEF Cells, Gets
  <2>2. PICK x \in Cells : x.type \notin Gets /\ c2s' = Put(c2s, d, x)
    BY <1>3, <2>1 DEF Greet
  <2> QED
    BY <1>3, <2>2, PlainSent DEF Greet, program
<1> QED
  BY <1>1, <1>2, <1>3, DialTurn, TidComeTurn, AskTurn, TakeTurn DEF Client

LEMMA AnswerTurn ==
  ASSUME IInv, NEW d \in Clients, NEW get \in Gets,
         NEW type \in {"exit", "guard", "bridge"}, NEW picks \in SUBSET Names,
         type # "exit" => picks \cap Avoid(d) = {}, Answer(d, get, type, picks),
         NEW c \in Clients, Turn(c), Allowed(c)
  PROVE  Turn(c)' /\ Allowed(c)'
<1>1. /\ c2s[d] # << >> /\ Head(c2s[d]).type \in Gets
      /\ c2s' = [c2s EXCEPT ![d] = Tail(@)]
      /\ UNCHANGED <<hop, asked, name>>
  BY DEF Answer, Receives, program
<1>2. CASE picks = {}
  <2>1. s2c' = s2c
    BY <1>2 DEF Answer
  <2> QED
    BY <1>1, <2>1, ReadTurn
<1>3. CASE picks # {}
  <2>1. PICK n \in picks : s2c' = Put(s2c, d, [type |-> type, D0 |-> n])
    BY <1>3 DEF Answer
  <2>2. /\ [type |-> type, D0 |-> n] \in Cells
        /\ [type |-> type, D0 |-> n].type = type
        /\ [type |-> type, D0 |-> n].D0 = n
    BY DEF Cells
  <2>3. PICK x \in Cells : s2c' = Put(s2c, d, x) /\ x.type = type /\ x.D0 = n
    BY <2>1, <2>2
  <2>4. x.type \in {"guard", "bridge"} => x.D0 \notin Avoid(d)
    BY <2>3
  <2> QED
    BY <1>1, <2>3, <2>4, ReadTurn
<1> QED
  BY <1>2, <1>3

LEMMA DispatchTurn ==
  ASSUME IInv, NEW d \in Clients, Dispatch(d),
         NEW c \in Clients, Turn(c), Allowed(c)
  PROVE  Turn(c)' /\ Allowed(c)'
<1>1. CASE GetTid(d)
  <2>1. drawn + 1 \in Names
    BY <1>1 DEF GetTid, IInv, TypeOK, Names
  <2>2. /\ [type |-> "tid", D0 |-> drawn + 1] \in Cells
        /\ [type |-> "tid", D0 |-> drawn + 1].type = "tid"
    BY <2>1 DEF Cells
  <2>3. PICK x \in Cells : x.type = "tid" /\ s2c' = Put(s2c, d, x)
    BY <1>1, <2>2 DEF GetTid
  <2>4. /\ c2s[d] # << >> /\ c2s' = [c2s EXCEPT ![d] = Tail(@)]
        /\ UNCHANGED <<hop, asked>> /\ name' = [name EXCEPT ![d] = drawn + 1]
    BY <1>1 DEF GetTid, Receives, program
  <2> QED
    BY <2>1, <2>3, <2>4, ReadTurn
<1>2. CASE PubK(d)
  <2>1. /\ c2s[d] # << >> /\ c2s' = [c2s EXCEPT ![d] = Tail(@)]
        /\ UNCHANGED <<hop, asked>> /\ s2c' = s2c /\ name' = name
    BY <1>2 DEF PubK, Receives, program
  <2> QED
    BY <2>1, ReadTurn
<1>3. exits \subseteq Names /\ guards \subseteq Names
  BY DEF IInv, TypeOK
<1>4. CASE GetExit(d)
  <2>1. PICK picks \in SUBSET Names : picks = ExitPicks(exits, Avoid(d))
    BY <1>3, PicksFacts DEF ExitPicks
  <2>2. Answer(d, "getexit", "exit", picks)
    BY <1>4, <2>1 DEF GetExit
  <2> QED
    BY <2>2, AnswerTurn DEF Gets
<1>5. CASE GetGuard(d) \/ GetBridge(d)
  <2>1. PICK picks \in SUBSET Names : picks = GuardPicks(guards, Avoid(d))
    BY <1>3, PicksFacts DEF GuardPicks
  <2>2. picks \cap Avoid(d) = {}
    BY <2>1, AvoidFinite, PicksAllowed DEF GuardPicks, IInv
  <2>3. PICK get \in Gets, type \in {"guard", "bridge"} :
           Answer(d, get, type, picks)
    BY <1>5, <2>1 DEF GetGuard, GetBridge, Gets
  <2> QED
    BY <2>2, <2>3, AnswerTurn
<1> QED
  BY <1>1, <1>2, <1>4, <1>5 DEF Dispatch

\* With its websocket goes all that was under way.
LEMMA CutTurn ==
  ASSUME NEW c \in Clients, c2s'[c] = << >>, s2c'[c] = << >>
  PROVE  Turn(c)' /\ Allowed(c)'
  BY DEF Turn, Allowed, Once, Has, In

LEMMA NextHInv ==
  ASSUME IInv, HInv, [Next]_vars
  PROVE  HInv'
<1> SUFFICES ASSUME NEW c \in Clients, Turn(c), Allowed(c)
             PROVE  Turn(c)' /\ Allowed(c)'
  BY DEF HInv
<1>1. CASE UNCHANGED vars \/ Start \/ \E n \in Names : Expire(n)
  <2>1. Untouched(c)
    BY <1>1 DEF vars, session, program, Start, Expire, Untouched
  <2> QED
    BY <2>1, UntouchedStep
<1>2. CASE Stop
  <2>1. c2s'[c] = << >> /\ s2c'[c] = << >>
    BY <1>2 DEF Stop
  <2> QED
    BY <2>1, CutTurn
<1>3. ASSUME NEW d \in Clients, Drop(d)
      PROVE  Turn(c)' /\ Allowed(c)'
  <2>1. CASE c = d
    <3>1. c2s'[c] = << >> /\ s2c'[c] = << >>
      BY <1>3, <2>1 DEF Drop, IInv, TypeOK
    <3> QED
      BY <3>1, CutTurn
  <2>2. CASE c # d
    <3>1. Untouched(c)
      BY <1>3, <2>2 DEF Drop, program, Untouched, IInv, TypeOK
    <3> QED
      BY <3>1, UntouchedStep
  <2> QED
    BY <2>1, <2>2
<1> QED
  BY <1>1, <1>2, <1>3, ClientTurn, DispatchTurn DEF Next

\* A guard or a bridge that is answered is neither the asker's own name nor
\* one of the circuit's earlier hops (remined/main.go:148-181), for any number
\* of names in the sets, whatever has happened since the request.
THEOREM HopsMayBeUsed == Spec => []HopsAllowed
<1>1. Init => HInv
  BY DEF Init, HInv, Turn, Allowed, Once, Has, In
<1>2. IInv /\ HInv /\ [Next]_vars => HInv'
  BY NextHInv
<1>3. IInv /\ HInv => HopsAllowed
  <2> SUFFICES ASSUME IInv, HInv, NEW c \in Clients,
                      Answered(c, {"guard", "bridge"})
               PROVE  Head(s2c[c]).D0 \notin Avoid(c)
    BY DEF HopsAllowed
  <2>1. s2c[c] \in Seq(Cells) /\ s2c[c] # << >>
    BY DEF IInv, TypeOK, Answered
  <2>2. Head(s2c[c]) \in Cells /\ In(Head(s2c[c]), s2c[c])
    BY <2>1, HeadFacts
  <2> QED
    BY <2>2 DEF HInv, Allowed, Answered
<1> QED
  BY <1>1, <1>2, <1>3, Invariance, PTL DEF Spec
=============================================================================
