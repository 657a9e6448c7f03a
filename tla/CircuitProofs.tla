--------------------------- MODULE CircuitProofs ---------------------------
(***************************************************************************)
(* What Circuit promises for any number of calls and nodes, and whenever   *)
(* calls begin and answers come.                                           *)
(***************************************************************************)
EXTENDS Circuit, SequenceTheorems, TLAPS

\* A call that waits for the next hop has the ones before, so what it asks
\* the server to avoid, and the keys it asks for, are nodes.
Earlier ==
    \A c \in Calls :
       /\ pc[c] \in {"guard", "bridge"} => hop[c]["exit"] # None
       /\ pc[c] = "bridge" => hop[c]["guard"] # None

\* failedSend: nothing is sent before the test loop, and in it there is
\* another test to send.
Counted ==
    \A c \in Calls :
       /\ pc[c] \in Polls \cup {"new", "keys", "extend"} => sends[c] = 0
       /\ pc[c] = "test" => sends[c] < MaxSends

TypeInv == TypeOK /\ Earlier /\ Counted

\* The three requests for keys are requests, and so is one for a hop.
LEMMA AskKeysType ==
    ASSUME wire \in Seq(Requests), NEW c \in Calls,
           NEW names \in [Hops -> Nodes], AskKeys(c, names)
    PROVE  wire' \in Seq(Requests)
<1> DEFINE order == <<"guard", "bridge", "exit">>
           keyReqs == [k \in 1..3 |->
                         [by |-> c, type |-> "getk", node |-> names[order[k]]]]
<1>1. \A k \in 1..3 : order[k] \in Hops
  BY DEF Hops
<1>2. \A k \in 1..3 : keyReqs[k] \in Requests
  BY <1>1 DEF Requests
<1>3. keyReqs \in Seq(Requests)
  BY <1>2, IsASeq
<1>4. wire' = wire \o keyReqs
  BY DEF AskKeys
<1> QED
  BY <1>3, <1>4, ConcatProperties

LEMMA AskType ==
    ASSUME wire \in Seq(Requests), NEW c \in Calls, NEW h \in Hops,
           NEW avoid \in SUBSET Nodes, Ask(c, h, avoid)
    PROVE  wire' \in Seq(Requests)
<1>1. [by |-> c, type |-> h, avoid |-> avoid] \in Requests
  BY DEF Requests
<1> QED
  BY <1>1, AppendProperties DEF Ask

\* An answered request is one.
LEMMA HeadType ==
    ASSUME wire \in Seq(Requests), wire # << >>
    PROVE  /\ Tail(wire) \in Seq(Requests)
           /\ Head(wire) \in Requests
           /\ Head(wire).type = "getk" => Head(wire).node \in Nodes
           /\ Allowed(Head(wire)) \subseteq Nodes
<1>1. Tail(wire) \in Seq(Requests) /\ Head(wire) \in Requests
  BY HeadTailProperties
<1>2. ASSUME NEW r \in Requests
      PROVE  r.type = "getk" => r.node \in Nodes
  BY DEF Requests, Hops
<1>3. ASSUME NEW r \in Requests
      PROVE  Allowed(r) \subseteq Nodes
  BY DEF Allowed, Nodes
<1> QED
  BY <1>1, <1>2, <1>3

LEMMA TypeInvInit == Init => TypeInv
BY SendsAssumption DEF Init, TypeInv, TypeOK, Earlier, Counted, NoHops, HopNames,
    Ended, Polls

LEMMA TypeInvStep == TypeInv /\ [Next]_vars => TypeInv'
<1> SUFFICES ASSUME TypeInv, [Next]_vars
             PROVE  TypeInv'
  OBVIOUS
<1> USE SendsAssumption DEF TypeInv, TypeOK, Earlier, Counted, HopNames,
        Polls, Ended, Hops
<1>1. ASSUME NEW c \in Calls, Begin(c)
      PROVE  TypeInv'
  <2>1. wire' \in Seq(Requests)
    BY <1>1, AskType DEF Begin
  <2> QED
    BY <1>1, <2>1 DEF Begin, ids, links, test
<1>2. ASSUME NEW c \in Calls, HaveExit(c)
      PROVE  TypeInv'
  <2>1. {hop[c]["exit"]} \in SUBSET Nodes
    BY <1>2 DEF HaveExit
  <2>2. wire' \in Seq(Requests)
    BY <1>2, <2>1, AskType DEF HaveExit
  <2> QED
    BY <1>2, <2>2 DEF HaveExit, ids, links, test
<1>3. ASSUME NEW c \in Calls, HaveGuard(c)
      PROVE  TypeInv'
  <2>1. {hop[c]["guard"], hop[c]["exit"]} \in SUBSET Nodes
    BY <1>3 DEF HaveGuard
  <2>2. wire' \in Seq(Requests)
    BY <1>3, <2>1, AskType DEF HaveGuard
  <2> QED
    BY <1>3, <2>2 DEF HaveGuard, ids, links, test
<1>4. ASSUME NEW c \in Calls, HaveBridge(c)
      PROVE  TypeInv'
  <2>1. hop[c] \in [Hops -> Nodes]
    BY <1>4 DEF HaveBridge
  <2>2. wire' \in Seq(Requests)
    BY <1>4, <2>1, AskKeysType DEF HaveBridge
  <2> QED
    BY <1>4, <2>2 DEF HaveBridge, links, test
<1>5. ASSUME NEW c \in Calls, Timeout(c)
      PROVE  TypeInv'
  BY <1>5 DEF Timeout, ids, links, test
<1>6. ASSUME NEW c \in Calls, Connect(c) \/ NoGuard(c)
      PROVE  TypeInv'
  <2>1. layer' \in [Calls -> HopNames]
    BY <1>6 DEF Connect, NoGuard, Layers
  <2>2. CASE Connect(c)
    <3>1. hop' \in [Calls -> HopNames]
      BY <2>2 DEF Connect
    <3>2. \A d \in Calls : d # c => hop'[d] = hop[d] /\ pc'[d] = pc[d]
      BY <2>2 DEF Connect
    <3> QED
      BY <2>1, <2>2, <3>1, <3>2 DEF Connect, test
  <2>3. CASE NoGuard(c)
    BY <2>1, <2>3 DEF NoGuard, links, test
  <2> QED
    BY <1>6, <2>2, <2>3
<1>7. ASSUME NEW c \in Calls, Extend(c)
      PROVE  TypeInv'
  <2>1. hop' \in [Calls -> HopNames]
    BY <1>7 DEF Extend
  <2>2. \A d \in Calls : d # c => hop'[d] = hop[d] /\ pc'[d] = pc[d]
    BY <1>7 DEF Extend
  <2>3. pc' = [pc EXCEPT ![c] = "test"] /\ sends' = sends /\ sends[c] = 0
    BY <1>7 DEF Extend, test
  <2>4. Earlier' /\ Counted'
    BY <2>2, <2>3
  <2>5. TypeOK'
    BY <1>7, <2>1, <2>3 DEF Extend, links, test
  <2> QED
    BY <2>4, <2>5
<1>8. ASSUME NEW c \in Calls, SendTest(c) \/ EndTest(c) \/ Resend(c)
      PROVE  TypeInv'
  <2>1. CASE SendTest(c)
    <3>1. sends[c] + 1 \in 0..MaxSends
      BY <2>1 DEF SendTest
    <3> QED
      BY <2>1, <3>1 DEF SendTest, ids, links
  <2>2. CASE EndTest(c) \/ Resend(c)
    BY <2>2 DEF EndTest, Resend, ids, links, test
  <2> QED
    BY <1>8, <2>1, <2>2
<1>9. CASE HopAnswer
  <2>1. PICK n \in Allowed(Head(wire)) :
           hop' = [hop EXCEPT ![cur][Head(wire).type] = n]
    BY <1>9 DEF HopAnswer
  <2>2. n \in Nodes /\ n # None
    BY <1>9, <2>1, HeadType, NoneAssumption DEF HopAnswer
  <2>3. hop' \in [Calls -> HopNames]
    BY <2>1, <2>2
  <2>4. \A c \in Calls, h \in Hops : hop[c][h] # None => hop'[c][h] # None
    BY <2>1, <2>2
  <2>5. wire' \in Seq(Requests) /\ dialing' \subseteq Nodes
    BY <1>9, HeadType DEF HopAnswer
  <2> QED
    BY <1>9, <2>3, <2>4, <2>5 DEF HopAnswer, test
<1>10. CASE NoHopAnswer \/ KeyAnswer \/ NoKeyAnswer
  BY <1>10, HeadType DEF NoHopAnswer, KeyAnswer, NoKeyAnswer, ids, links, test
<1>11. ASSUME NEW n \in Nodes, PeerAdded(n) \/ PeerLost(n)
       PROVE  TypeInv'
  BY <1>11 DEF PeerAdded, PeerLost, ids, test
<1>12. ASSUME NEW c \in Calls, Find(c) \/ MarkOK(c)
       PROVE  TypeInv'
  BY <1>12 DEF Find, MarkOK, ids, links
<1>13. CASE UNCHANGED vars
  BY <1>13 DEF vars, ids, links, test
<1> QED
  BY <1>1, <1>2, <1>3, <1>4, <1>5, <1>6, <1>7, <1>8, <1>9, <1>10, <1>11,
     <1>12, <1>13 DEF Next, Step, Answer

(* Every variable keeps its type; in particular only nodes are asked for,  *)
(* avoided and connected to, and a test is sent at most MaxSends times.    *)
THEOREM CircuitTyping == Spec => []TypeOK
<1>1. TypeInv => TypeOK
  BY DEF TypeInv
<1> QED
  BY <1>1, TypeInvInit, TypeInvStep, PTL DEF Spec

(* A call that is not the current one is left alone: only its own          *)
(* SetupCircuit writes its names, those it was called with, and no late    *)
(* test2 marks it OK.                                                      *)
THEOREM Replaced == Spec => ReplacedUntouched
<1> DEFINE Alone ==
       \A c \in Calls : cur # c =>
          /\ state'[c] = state[c]
          /\ \A h \in Hops :
                hop'[c][h] # hop[c][h] => hop'[c][h] = args[c][h]
<1>1. ASSUME TypeInv, [Next]_vars
      PROVE  Alone
  <2> SUFFICES ASSUME NEW c \in Calls, cur # c, NEW h \in Hops
               PROVE  /\ state'[c] = state[c]
                      /\ hop'[c][h] # hop[c][h] => hop'[c][h] = args[c][h]
    BY DEF Hops
  <2> USE <1>1 DEF TypeInv, TypeOK, HopNames, Hops
  <2>1. ASSUME NEW d \in Calls, Connect(d) \/ Extend(d)
        PROVE  /\ state'[c] = state[c]
               /\ hop'[c][h] # hop[c][h] => hop'[c][h] = args[c][h]
    <3>1. state' = state
      BY <2>1 DEF Connect, Extend
    <3>2. CASE d # c
      BY <2>1, <3>1, <3>2 DEF Connect, Extend
    <3>3. CASE d = c /\ Connect(d)
      BY <3>1, <3>3 DEF Connect
    <3>4. CASE d = c /\ Extend(d)
      <4>1. hop'[c] = [hop[c] EXCEPT !["bridge"] = args[c]["bridge"],
                                     !["exit"] = args[c]["exit"]]
        BY <3>4 DEF Extend
      <4> QED
        BY <3>1, <4>1
    <3> QED
      BY <2>1, <3>2, <3>3, <3>4
  <2>2. CASE HopAnswer
    BY <2>2 DEF HopAnswer
  <2>3. ASSUME NEW d \in Calls, MarkOK(d)
        PROVE  state'[c] = state[c] /\ hop' = hop
    BY <2>3 DEF MarkOK, ids
  <2>4. ASSUME NEW d \in Calls,
               \/ Begin(d) \/ HaveExit(d) \/ HaveGuard(d) \/ HaveBridge(d)
               \/ Timeout(d) \/ NoGuard(d) \/ SendTest(d) \/ EndTest(d)
               \/ Resend(d) \/ Find(d)
        PROVE  state' = state /\ hop' = hop
    BY <2>4 DEF Begin, HaveExit, HaveGuard, HaveBridge, Timeout, NoGuard,
         SendTest, EndTest, Resend, Find, ids
  <2>5. CASE NoHopAnswer \/ KeyAnswer \/ NoKeyAnswer
    BY <2>5 DEF NoHopAnswer, KeyAnswer, NoKeyAnswer, ids
  <2>6. ASSUME NEW n \in Nodes, PeerAdded(n) \/ PeerLost(n)
        PROVE  state' = state /\ hop' = hop
    BY <2>6 DEF PeerAdded, PeerLost, ids
  <2>7. CASE UNCHANGED vars
    BY <2>7 DEF vars, ids
  <2> QED
    BY <2>1, <2>2, <2>3, <2>4, <2>5, <2>6, <2>7 DEF Next, Step, Answer
<1>2. ASSUME TypeInv, [Next]_vars
      PROVE  [Alone]_vars
  BY <1>1, <1>2
<1> QED
  BY <1>2, TypeInvInit, TypeInvStep, PTL DEF Spec, ReplacedUntouched

-----------------------------------------------------------------------------
(* Calls one after the other, each begun when the answers to the one       *)
(* before are in.                                                          *)
OneByOne == ~Overlap /\ ~Late

\* The calls of NewCircuit that are under way, and those set up.
Building == Polls \cup {"keys", "extend", "test", "wait"}
SetUp == {"keys", "extend", "test", "wait", "done"}

\* Only the current call is under way, and one not begun has nothing yet.
OneBuilding ==
    \A c \in Calls :
       /\ pc[c] \in Building => c = cur
       /\ pc[c] = "new" => c # cur

\* What the current call asks the server to avoid at each of its polls.
AvoidOf(h, f) ==
    CASE h = "exit" -> {}
      [] h = "guard" -> {f["exit"]}
      [] h = "bridge" -> {f["guard"], f["exit"]}

\* While a call polls, the one request on the wire is the one it polls for;
\* a call that timed out leaves at most one behind; and while one is set up
\* there are only requests for keys.
OneRequest ==
    /\ cur = None => wire = << >>
    /\ cur # None =>
         /\ pc[cur] \in Polls /\ wire # << >> =>
               /\ Len(wire) = 1
               /\ Head(wire).type = pc[cur]
               /\ hop[cur][pc[cur]] = None
               /\ Head(wire).avoid = AvoidOf(pc[cur], hop[cur])
         /\ pc[cur] = "timeout" => Len(wire) <= 1
         /\ pc[cur] \in SetUp =>
               \A i \in 1..Len(wire) : wire[i].type = "getk"

\* The hops found so far differ, and the next ones are not there yet.
FoundDiffer ==
    \A c \in Calls :
       /\ pc[c] = "new" => hop[c] = NoHops
       /\ pc[c] = "exit" => hop[c]["guard"] = None
       /\ pc[c] \in {"exit", "guard"} => hop[c]["bridge"] = None
       /\ pc[c] \in {"guard", "bridge"} => hop[c]["guard"] # hop[c]["exit"]
       /\ pc[c] = "bridge" =>
             hop[c]["bridge"] \notin {hop[c]["guard"], hop[c]["exit"]}

\* From the names SetupCircuit was called with neither the names in the
\* circuit nor its keys ever differ.
SetUpSame ==
    \A c \in Calls :
       /\ pc[c] \in SetUp => hop[c] = args[c] /\ Distinct(args[c])
       /\ pc[c] \notin SetUp => args[c] = NoHops
       /\ pc[c] \in {"extend", "test", "wait"} \/ c \in tested =>
             layer[c] = args[c]

\* A test, its answer and the mark OK are those of the current circuit, in
\* this order.
TestedInOrder ==
    /\ \A c \in tested : pc[c] \in {"wait", "test", "done"}
    /\ answers \cup found \subseteq tested \cap {cur}
    /\ \A c \in Calls : state[c] => c \in tested

Orderly ==
    /\ OneBuilding /\ OneRequest /\ FoundDiffer /\ SetUpSame /\ TestedInOrder

CallInv == TypeInv /\ Orderly

LEMMA AskFirst ==
    ASSUME wire = << >>, NEW c \in Calls, NEW h, NEW avoid, Ask(c, h, avoid)
    PROVE  /\ Len(wire') = 1 /\ wire' # << >>
           /\ Head(wire').type = h /\ Head(wire').avoid = avoid
BY DEF Ask

LEMMA AskKeysOnly ==
    ASSUME wire = << >>, NEW c \in Calls, NEW names, AskKeys(c, names)
    PROVE  \A i \in 1..Len(wire') : wire'[i].type = "getk"
BY DEF AskKeys

\* What is left on the wire once its first request is answered.
LEMMA Answered ==
    ASSUME wire \in Seq(Requests), wire # << >>
    PROVE  /\ Len(Tail(wire)) = Len(wire) - 1
           /\ Len(wire) \in Nat \ {0}
           /\ Len(wire) = 1 => Tail(wire) = << >>
           /\ Head(wire) = wire[1]
           /\ \A i \in 1..Len(Tail(wire)) : Tail(wire)[i] = wire[i + 1]
<1>1. Tail(wire) \in Seq(Requests) /\ Len(Tail(wire)) = Len(wire) - 1
  BY HeadTailProperties
<1>2. Len(wire) \in Nat \ {0}
  BY EmptySeq, LenProperties
<1>3. Len(wire) = 1 => Tail(wire) = << >>
  <2> SUFFICES ASSUME Len(wire) = 1, Tail(wire) # << >>
               PROVE  FALSE
    OBVIOUS
  <2>1. Len(Tail(wire)) \in Nat \ {0}
    BY <1>1, EmptySeq, LenProperties
  <2> QED
    BY <1>1, <2>1
<1>4. Head(wire) = wire[1]
  OBVIOUS
<1>5. \A i \in 1..Len(Tail(wire)) : Tail(wire)[i] = wire[i + 1]
  BY HeadTailProperties
<1> QED
  BY <1>1, <1>2, <1>3, <1>4, <1>5

LEMMA CallInvInit == Init => CallInv
<1>1. Init => Orderly
  BY NoneAssumption
  DEF Init, Orderly, OneBuilding, OneRequest, FoundDiffer, SetUpSame,
      TestedInOrder, Building, SetUp, Polls, NoHops
<1> QED
  BY <1>1, TypeInvInit DEF CallInv

LEMMA CallInvStep == OneByOne /\ CallInv /\ [Next]_vars => CallInv'
<1> SUFFICES ASSUME OneByOne, CallInv, [Next]_vars
             PROVE  Orderly'
  BY TypeInvStep DEF CallInv
<1>0. TypeOK /\ Earlier /\ Orderly /\ TypeOK'
  BY TypeInvStep DEF CallInv, TypeInv
<1> USE NoneAssumption
    DEF Orderly, Building, SetUp, Polls, Ended, Hops
<1>1. ASSUME NEW c \in Calls, Begin(c)
      PROVE  Orderly'
  <2>1. wire = << >> /\ answers = {} /\ found = {}
        /\ \A d \in Calls : pc[d] \in Ended
    BY <1>1 DEF Begin, MayBegin, OneByOne
  <2>2. OneBuilding'
    BY <1>0, <1>1, <2>1 DEF Begin, TypeOK, OneBuilding
  <2>3. OneRequest'
    BY <1>0, <1>1, <2>1, AskFirst
    DEF Begin, TypeOK, OneRequest, AvoidOf, FoundDiffer, NoHops, ids
  <2>4. FoundDiffer'
    BY <1>0, <1>1 DEF Begin, TypeOK, FoundDiffer, NoHops, ids
  <2>5. SetUpSame' /\ TestedInOrder'
    BY <1>0, <1>1, <2>1
    DEF Begin, TypeOK, SetUpSame, TestedInOrder, ids, test
  <2> QED
    BY <2>2, <2>3, <2>4, <2>5
<1>2. ASSUME NEW c \in Calls, HaveExit(c)
      PROVE  Orderly'
  <2>1. c = cur /\ wire = << >>
    BY <1>0, <1>2 DEF HaveExit, OneBuilding, OneRequest
  <2>2. OneBuilding'
    BY <1>0, <1>2 DEF HaveExit, TypeOK, OneBuilding
  <2>3. OneRequest'
    BY <1>0, <1>2, <2>1, AskFirst
    DEF HaveExit, TypeOK, OneRequest, AvoidOf, FoundDiffer, ids
  <2>4. FoundDiffer'
    BY <1>0, <1>2 DEF HaveExit, TypeOK, FoundDiffer, ids
  <2>5. SetUpSame' /\ TestedInOrder'
    BY <1>0, <1>2 DEF HaveExit, TypeOK, SetUpSame, TestedInOrder, ids, test
  <2> QED
    BY <2>2, <2>3, <2>4, <2>5
<1>3. ASSUME NEW c \in Calls, HaveGuard(c)
      PROVE  Orderly'
  <2>1. c = cur /\ wire = << >>
    BY <1>0, <1>3 DEF HaveGuard, OneBuilding, OneRequest
  <2>2. OneBuilding'
    BY <1>0, <1>3 DEF HaveGuard, TypeOK, OneBuilding
  <2>3. OneRequest'
    BY <1>0, <1>3, <2>1, AskFirst
    DEF HaveGuard, TypeOK, OneRequest, AvoidOf, FoundDiffer, ids
  <2>4. FoundDiffer'
    BY <1>0, <1>3 DEF HaveGuard, TypeOK, FoundDiffer, Earlier, ids
  <2>5. SetUpSame' /\ TestedInOrder'
    BY <1>0, <1>3 DEF HaveGuard, TypeOK, SetUpSame, TestedInOrder, ids, test
  <2> QED
    BY <2>2, <2>3, <2>4, <2>5
<1>4. ASSUME NEW c \in Calls, HaveBridge(c)
      PROVE  Orderly'
  <2>1. c = cur /\ wire = << >>
    BY <1>0, <1>4 DEF HaveBridge, OneBuilding, OneRequest
  <2>2. OneBuilding'
    BY <1>0, <1>4 DEF HaveBridge, TypeOK, OneBuilding
  <2>3. OneRequest'
    BY <1>0, <1>4, <2>1, AskKeysOnly DEF HaveBridge, TypeOK, OneRequest
  <2>4. FoundDiffer'
    BY <1>0, <1>4 DEF HaveBridge, TypeOK, FoundDiffer
  <2>5. Distinct(hop[c])
    BY <1>0, <1>4 DEF HaveBridge, FoundDiffer, Distinct
  <2>6. c \notin tested
    BY <1>0, <1>4 DEF HaveBridge, TestedInOrder
  <2>7. SetUpSame' /\ TestedInOrder'
    BY <1>0, <1>4, <2>5, <2>6
    DEF HaveBridge, TypeOK, SetUpSame, TestedInOrder, Distinct, test
  <2> QED
    BY <2>2, <2>3, <2>4, <2>7
<1>5. ASSUME NEW c \in Calls, Timeout(c)
      PROVE  Orderly'
  <2>1. OneBuilding' /\ FoundDiffer'
    BY <1>0, <1>5 DEF Timeout, TypeOK, OneBuilding, FoundDiffer, ids
  <2>2. OneRequest'
    <3>1. c = cur /\ (wire = << >> \/ Len(wire) = 1)
      BY <1>0, <1>5 DEF Timeout, OneBuilding, OneRequest
    <3>2. Len(wire) <= 1
      <4>1. CASE wire = << >>
        <5>1. Len(wire) = 0
          BY <4>1
        <5> QED
          BY <5>1
      <4>2. CASE Len(wire) = 1
        BY <4>2
      <4> QED
        BY <3>1, <4>1, <4>2
    <3>3. cur' = cur /\ wire' = wire /\ cur \in Calls /\ pc'[cur] = "timeout"
      BY <1>0, <1>5, <3>1 DEF Timeout, TypeOK
    <3> QED
      BY <3>2, <3>3 DEF OneRequest
  <2>3. SetUpSame' /\ TestedInOrder'
    BY <1>0, <1>5 DEF Timeout, TypeOK, SetUpSame, TestedInOrder, ids, test
  <2> QED
    BY <2>1, <2>2, <2>3
<1>6. ASSUME NEW c \in Calls, Connect(c) \/ NoGuard(c)
      PROVE  Orderly'
  <2>1. c = cur /\ hop[c] = args[c] /\ hop' = hop
    BY <1>0, <1>6
    DEF Connect, NoGuard, OneBuilding, SetUpSame, TypeOK, HopNames
  <2>2. c \notin tested
    BY <1>0, <1>6 DEF Connect, NoGuard, TestedInOrder
  <2>3. OneBuilding' /\ FoundDiffer'
    BY <1>0, <1>6, <2>1
    DEF Connect, NoGuard, TypeOK, OneBuilding, FoundDiffer
  <2>4. OneRequest'
    BY <1>0, <1>6, <2>1 DEF Connect, NoGuard, TypeOK, OneRequest
  <2>5. UNCHANGED <<cur, args, state, tested, answers, found>>
    BY <1>6 DEF Connect, NoGuard, test
  <2>6. /\ layer' = [layer EXCEPT ![c] = args[c]]
        /\ \A d \in Calls : d # c => pc'[d] = pc[d]
        /\ pc'[c] \in {"extend", "done"} /\ pc[c] = "keys"
    BY <1>0, <1>6 DEF Connect, NoGuard, Layers, TypeOK
  <2>7. SetUpSame'
    BY <1>0, <2>1, <2>5, <2>6 DEF SetUpSame, Distinct, TypeOK
  <2>8. TestedInOrder'
    <3>1. \A d \in tested' : pc'[d] \in {"wait", "test", "done"}
      BY <1>0, <2>2, <2>5, <2>6 DEF TestedInOrder, TypeOK
    <3>2. answers' \cup found' \subseteq tested' \cap {cur'}
      BY <1>0, <2>5 DEF TestedInOrder
    <3>3. \A d \in Calls : state'[d] => d \in tested'
      BY <1>0, <2>5 DEF TestedInOrder
    <3> QED
      BY <3>1, <3>2, <3>3 DEF TestedInOrder
  <2> QED
    BY <2>3, <2>4, <2>7, <2>8
<1>7. ASSUME NEW c \in Calls, Extend(c)
      PROVE  Orderly'
  <2>1. c = cur /\ hop[c] = args[c] /\ hop' = hop
    BY <1>0, <1>7 DEF Extend, OneBuilding, SetUpSame, TypeOK, HopNames
  <2>2. c \notin tested
    BY <1>0, <1>7 DEF Extend, TestedInOrder
  <2>3. OneBuilding' /\ FoundDiffer'
    BY <1>0, <1>7, <2>1 DEF Extend, TypeOK, OneBuilding, FoundDiffer
  <2>4. OneRequest'
    BY <1>0, <1>7, <2>1 DEF Extend, TypeOK, OneRequest
  <2>5. SetUpSame' /\ TestedInOrder'
    BY <1>0, <1>7, <2>1, <2>2
    DEF Extend, TypeOK, SetUpSame, TestedInOrder, test
  <2> QED
    BY <2>3, <2>4, <2>5
<1>8. ASSUME NEW c \in Calls, SendTest(c) \/ EndTest(c) \/ Resend(c)
      PROVE  Orderly'
  <2>1. c = cur
    BY <1>0, <1>8 DEF SendTest, EndTest, Resend, OneBuilding
  <2>2. OneBuilding' /\ FoundDiffer'
    BY <1>0, <1>8
    DEF SendTest, EndTest, Resend, TypeOK, OneBuilding, FoundDiffer, ids
  <2>3. OneRequest'
    BY <1>0, <1>8, <2>1
    DEF SendTest, EndTest, Resend, TypeOK, OneRequest, ids
  <2>4. /\ UNCHANGED <<cur, hop, args, layer, state, found>>
        /\ \A d \in Calls : d # c => pc'[d] = pc[d]
        /\ pc[c] \in {"test", "wait"} /\ pc'[c] \in {"test", "wait", "done"}
        /\ tested' \in {tested, tested \cup {c}}
        /\ answers' \in {answers, answers \cup {c}}
        /\ answers' # answers => c \in tested'
        /\ tested \subseteq tested'
    BY <1>0, <1>8 DEF SendTest, EndTest, Resend, TypeOK, ids, test
  <2>5. SetUpSame'
    BY <1>0, <2>4 DEF SetUpSame, Distinct
  <2>6. TestedInOrder'
    <3>1. \A d \in tested' : pc'[d] \in {"wait", "test", "done"}
      BY <1>0, <2>4 DEF TestedInOrder, TypeOK
    <3>2. answers' \cup found' \subseteq tested' \cap {cur'}
      BY <1>0, <2>1, <2>4 DEF TestedInOrder
    <3>3. \A d \in Calls : state'[d] => d \in tested'
      BY <1>0, <2>4 DEF TestedInOrder
    <3> QED
      BY <3>1, <3>2, <3>3 DEF TestedInOrder
  <2> QED
    BY <2>2, <2>3, <2>5, <2>6
<1>9. CASE HopAnswer
  <2>1. PICK n \in Allowed(Head(wire)) :
           hop' = [hop EXCEPT ![cur][Head(wire).type] = n]
    BY <1>9 DEF HopAnswer
  <2>2. n # None /\ n \notin Head(wire).avoid /\ wire # << >>
    BY <1>0, <1>9, <2>1, HeadType DEF HopAnswer, Allowed, TypeOK
  <2>3. cur \in Calls /\ pc[cur] \notin SetUp
    BY <1>0, <1>9, <2>2, Answered DEF HopAnswer, OneRequest, TypeOK
  <2>4. Len(wire) = 1 /\ wire' = << >>
    BY <1>0, <1>9, <2>2, <2>3, Answered
    DEF HopAnswer, OneRequest, OneBuilding, TypeOK
  <2>5. OneBuilding' /\ OneRequest'
    BY <1>0, <1>9, <2>3, <2>4 DEF HopAnswer, OneBuilding, OneRequest
  <2>6. \A d \in Calls : d # cur => hop'[d] = hop[d]
    BY <1>0, <2>1 DEF TypeOK, HopNames
  <2>7. ASSUME pc[cur] \in Polls
        PROVE  /\ hop'[cur] = [hop[cur] EXCEPT ![pc[cur]] = n]
               /\ n \notin AvoidOf(pc[cur], hop[cur])
    BY <1>0, <2>1, <2>2, <2>3, <2>7 DEF OneRequest, TypeOK, HopNames
  <2>8. FoundDiffer'
    <3> SUFFICES ASSUME NEW d \in Calls
                 PROVE  /\ pc'[d] = "new" => hop'[d] = NoHops
                        /\ pc'[d] = "exit" => hop'[d]["guard"] = None
                        /\ pc'[d] \in {"exit", "guard"} =>
                              hop'[d]["bridge"] = None
                        /\ pc'[d] \in {"guard", "bridge"} =>
                              hop'[d]["guard"] # hop'[d]["exit"]
                        /\ pc'[d] = "bridge" =>
                              hop'[d]["bridge"] \notin
                                 {hop'[d]["guard"], hop'[d]["exit"]}
      BY DEF FoundDiffer
    <3>1. CASE d # cur
      BY <1>0, <1>9, <2>6, <3>1 DEF HopAnswer, FoundDiffer
    <3>2. CASE d = cur /\ pc[cur] \in Polls
      BY <1>0, <1>9, <2>2, <2>7, <3>2
      DEF HopAnswer, FoundDiffer, AvoidOf, TypeOK, HopNames
    <3>3. CASE d = cur /\ pc[cur] \notin Polls
      BY <1>0, <1>9, <3>3 DEF HopAnswer, OneBuilding
    <3> QED
      BY <3>1, <3>2, <3>3
  <2>9. SetUpSame' /\ TestedInOrder'
    BY <1>0, <1>9, <2>3, <2>6
    DEF HopAnswer, SetUpSame, TestedInOrder, Distinct, test
  <2> QED
    BY <2>5, <2>8, <2>9
<1>10. CASE NoHopAnswer \/ KeyAnswer \/ NoKeyAnswer
  <2>1. wire # << >> /\ wire' = Tail(wire)
    BY <1>10 DEF NoHopAnswer, KeyAnswer, NoKeyAnswer
  <2>2. UNCHANGED <<cur, pc, hop, args, layer, state, tested, answers, found>>
    BY <1>10 DEF NoHopAnswer, KeyAnswer, NoKeyAnswer, ids, links, test
  <2>3. OneRequest'
    BY <1>0, <2>1, <2>2, Answered DEF OneRequest, TypeOK
  <2>4. OneBuilding' /\ FoundDiffer' /\ SetUpSame' /\ TestedInOrder'
    BY <1>0, <2>2 DEF OneBuilding, FoundDiffer, SetUpSame, TestedInOrder
  <2> QED
    BY <2>3, <2>4
<1>11. ASSUME \/ UNCHANGED vars
              \/ \E n \in Nodes : PeerAdded(n) \/ PeerLost(n)
       PROVE  Orderly'
  <2>1. UNCHANGED <<cur, pc, hop, args, layer, state, wire, tested, answers,
                    found>>
    BY <1>11 DEF PeerAdded, PeerLost, vars, ids, links, test
  <2> QED
    BY <1>0, <2>1
    DEF OneBuilding, OneRequest, FoundDiffer, SetUpSame, TestedInOrder
<1>12. ASSUME NEW c \in Calls, Find(c) \/ MarkOK(c)
       PROVE  Orderly'
  <2>1. UNCHANGED <<cur, pc, hop, args, layer, wire, tested>>
    BY <1>12 DEF Find, MarkOK, ids, links
  <2>2. OneBuilding' /\ OneRequest' /\ FoundDiffer' /\ SetUpSame'
    BY <1>0, <2>1 DEF OneBuilding, OneRequest, FoundDiffer, SetUpSame
  <2>3. TestedInOrder'
    BY <1>0, <1>12, <2>1 DEF Find, MarkOK, TestedInOrder, TypeOK
  <2> QED
    BY <2>2, <2>3
<1> QED
  BY <1>1, <1>2, <1>3, <1>4, <1>5, <1>6, <1>7, <1>8, <1>9, <1>10, <1>11,
     <1>12 DEF Next, Step, Answer

LEMMA CallInvHolds == OneByOne => (Spec => []CallInv)
<1> SUFFICES ASSUME OneByOne
             PROVE  Spec => []CallInv
  OBVIOUS
<1>1. CallInv /\ [Next]_vars => CallInv'
  BY CallInvStep
<1> QED
  BY <1>1, CallInvInit, PTL DEF Spec

(* One call after the other, SetupCircuit is given three different nodes.  *)
THEOREM Distinctness == OneByOne => (Spec => []DistinctHops)
<1> SUFFICES ASSUME OneByOne
             PROVE  Spec => []DistinctHops
  OBVIOUS
<1>1. CallInv => DistinctHops
  BY DEF CallInv, Orderly, SetUpSame, DistinctHops
<1> QED
  BY <1>1, CallInvHolds, PTL

(* One call after the other, the names a message of a circuit is forwarded *)
(* to are those of the nodes whose keys seal its layers.                   *)
THEOREM NamesAndKeys == OneByOne => (Spec => []NamesMatchLayers)
<1> SUFFICES ASSUME OneByOne
             PROVE  Spec => []NamesMatchLayers
  OBVIOUS
<1>1. CallInv => NamesMatchLayers
  BY DEF CallInv, Orderly, SetUpSame, SetUp, TestedInOrder, NamesMatchLayers
<1> QED
  BY <1>1, CallInvHolds, PTL

(* One call after the other, test2 marks OK only a circuit whose own test  *)
(* came back from its exit.                                                *)
THEOREM MarkedTested == OneByOne => (Spec => []OKTested)
<1> SUFFICES ASSUME OneByOne
             PROVE  Spec => []OKTested
  OBVIOUS
<1>1. CallInv => OKTested
  BY DEF CallInv, Orderly, TestedInOrder, OKTested
<1> QED
  BY <1>1, CallInvHolds, PTL

(* The circuit a search is sent over is tested end to end, through three   *)
(* different nodes that are named and keyed alike.                         *)
THEOREM Searchable == OneByOne => (Spec => []SearchReady)
<1> SUFFICES ASSUME OneByOne
             PROVE  Spec => []SearchReady
  OBVIOUS
<1>1. CallInv => SearchReady
  BY DEF CallInv, TypeInv, TypeOK, Orderly, SetUpSame, SetUp, TestedInOrder,
         SearchReady
<1> QED
  BY <1>1, CallInvHolds, PTL
=============================================================================
