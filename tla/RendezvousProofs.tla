-------------------------- MODULE RendezvousProofs --------------------------
(***************************************************************************)
(* Proofs about Rendezvous, for every set of clients, names and attribute  *)
(* lists.  Typing and the shape of clients hold for all clients; that the  *)
(* registry is sound is proved for those that break after their gettid,    *)
(* ask once listed, and keep their name.  What other clients still can     *)
(* rely on is in RegistryProofs.                                           *)
(***************************************************************************)
EXTENDS Rendezvous, TLAPS

-----------------------------------------------------------------------------
(* Removing entry i from a sequence without repetitions, as                *)
(* DeleteClientByName does, removes exactly the value at i.                *)
LEMMA SwapRemoveFacts ==
    ASSUME NEW S, NEW s \in Seq(S), NEW i \in 1..Len(s)
    PROVE  /\ SwapRemove(s, i) \in Seq(S)
           /\ Len(SwapRemove(s, i)) = Len(s) - 1
           /\ \A j \in 1..(Len(s) - 1) :
                 SwapRemove(s, i)[j] = IF j = i THEN s[Len(s)] ELSE s[j]
<1>1. Len(s) \in Nat /\ Len(s) - 1 \in Nat
  OBVIOUS
<1>2. \A j \in 1..(Len(s) - 1) :
         (IF j = i THEN s[Len(s)] ELSE s[j]) \in S
  BY <1>1
<1>3. QED
  BY <1>1, <1>2 DEF SwapRemove

Injective(s) == \A j, k \in 1..Len(s) : s[j] = s[k] => j = k
Holds(s, x) == \E j \in 1..Len(s) : s[j] = x

LEMMA SwapRemoveContents ==
    ASSUME NEW S, NEW s \in Seq(S), NEW i \in 1..Len(s), Injective(s)
    PROVE  /\ Injective(SwapRemove(s, i))
           /\ \A x \in S : Holds(SwapRemove(s, i), x) <=> Holds(s, x) /\ x # s[i]
<1> DEFINE t == SwapRemove(s, i)
<1>1. Len(s) \in Nat
  OBVIOUS
<1>2. /\ Len(t) = Len(s) - 1
      /\ \A j \in 1..Len(t) : t[j] = IF j = i THEN s[Len(s)] ELSE s[j]
  BY SwapRemoveFacts
<1> HIDE DEF t
<1>3. Injective(t)
  BY <1>1, <1>2 DEF Injective
<1>4. ASSUME NEW x \in S, Holds(t, x)
      PROVE  Holds(s, x) /\ x # s[i]
  BY <1>1, <1>2, <1>4 DEF Holds, Injective
<1>5. ASSUME NEW k \in 1..Len(s), s[k] # s[i]
      PROVE  Holds(t, s[k])
  <2>1. CASE k = Len(s)
    BY <2>1, <1>1, <1>2, <1>5 DEF Holds
  <2>2. CASE k # Len(s)
    BY <2>2, <1>1, <1>2, <1>5 DEF Holds
  <2>3. QED
    BY <2>1, <2>2
<1>6. QED
  BY <1>3, <1>4, <1>5 DEF t, Holds

-----------------------------------------------------------------------------
(* No step of any client takes a variable out of its type.                 *)
LEMMA TypingStep == TypeOK /\ [Next]_vars => TypeOK'
<1> SUFFICES ASSUME TypeOK, [Next]_vars
             PROVE  TypeOK'
  OBVIOUS
<1> USE DEF TypeOK
<1>1. ASSUME NEW c \in Conns, Accept(c)
      PROVE  TypeOK'
  BY <1>1 DEF Accept, Open
<1>2. ASSUME NEW c \in Conns, GetTid(c)
      PROVE  TypeOK'
  BY <1>2, AttrAssumption DEF GetTid, Open
<1>3. ASSUME NEW c \in Conns, GetTssid(c)
      PROVE  TypeOK'
  BY <1>3 DEF GetTssid, Open
<1>4. ASSUME NEW c \in Conns, Ask(c)
      PROVE  TypeOK'
  BY <1>4 DEF Ask, Open
<1>5. ASSUME NEW c \in Conns, Disconnect(c)
      PROVE  TypeOK'
  <2>1. PICK i \in 1..Len(clients) :
           /\ clients' = SwapRemove(clients, i)
           /\ victim' = [victim EXCEPT ![c] = clients[i]]
    BY <1>5 DEF Disconnect
  <2>2. clients' \in Seq(Conns) /\ clients[i] \in Conns
    BY <2>1, SwapRemoveFacts
  <2>3. <<"e", "g">> \in Seq(Roles)
    BY DEF Roles
  <2>4. QED
    BY <1>5, <2>1, <2>2, <2>3 DEF Disconnect, Open
<1>6. ASSUME NEW c \in Conns, DisconnectUnknown(c)
      PROVE  TypeOK'
  BY <1>6 DEF DisconnectUnknown, Open
<1>7. ASSUME NEW c \in Conns, SetFlag(c)
      PROVE  TypeOK'
  <2>1. Head(todo[c]) \in Roles
    BY <1>7 DEF SetFlag
  <2>2. QED
    BY <1>7, <2>1 DEF SetFlag, Open
<1>8. ASSUME NEW c \in Conns, AddTo(c)
      PROVE  TypeOK'
  <2>1. Head(todo[c]) \in Roles /\ Tail(todo[c]) \in Seq(Roles)
    BY <1>8 DEF AddTo
  <2>2. QED
    BY <1>8, <2>1 DEF AddTo, Open
<1>9. ASSUME NEW c \in Conns, ReplyTid(c)
      PROVE  TypeOK'
  BY <1>9 DEF ReplyTid, Open
<1>10. ASSUME NEW c \in Conns, Pick(c)
       PROVE  TypeOK'
  BY <1>10 DEF Pick, Open
<1>11. ASSUME NEW c \in Conns, PickPanics(c)
       PROVE  TypeOK'
  <2>1. Head(todo[c]) \in Roles
    BY <1>11 DEF PickPanics
  <2>2. QED
    BY <1>11, <2>1 DEF PickPanics, Open
<1>12. ASSUME NEW c \in Conns, DelFrom(c)
       PROVE  TypeOK'
  <2>1. Head(todo[c]) \in Roles /\ Tail(todo[c]) \in Seq(Roles)
    BY <1>12 DEF DelFrom
  <2>2. dir' \in [Roles -> [Names -> Conns \cup {NoConn}]]
    <3>1. CASE dir' = [dir EXCEPT ![Head(todo[c])][name[victim[c]]] = NoConn]
      BY <3>1, <2>1
    <3>2. CASE UNCHANGED dir
      BY <3>2
    <3>3. QED
      BY <1>12, <3>1, <3>2 DEF DelFrom
  <2>3. QED
    BY <1>12, <2>1, <2>2 DEF DelFrom, Open
<1>13. ASSUME NEW c \in Conns, Depart(c)
       PROVE  TypeOK'
  BY <1>13 DEF Depart, Open
<1>14. CASE UNCHANGED vars
  BY <1>14 DEF vars, Open
<1>15. QED
  BY <1>1, <1>2, <1>3, <1>4, <1>5, <1>6, <1>7, <1>8, <1>9, <1>10, <1>11,
     <1>12, <1>13, <1>14 DEF Next, Step

(* Every variable of the registry keeps its type, whatever clients do: no  *)
(* nil is left in clients, no loop runs past its attribute list.           *)
THEOREM Typing == Spec => []TypeOK
<1>1. Init => TypeOK
  BY DEF Init, TypeOK, Open, Roles
<1>2. QED
  BY <1>1, TypingStep, PTL DEF Spec

-----------------------------------------------------------------------------
(* The clients of Dial, DialOpts and DialMiddle while nothing goes wrong   *)
(* before their gettid: no Redial has replaced a websocket.                *)
Shipped == ~EarlyDrop /\ ~EarlyAsk /\ ~Rename

(* DeleteClientByName finds the client of the goroutine that calls it.     *)
LEMMA DisconnectOwn ==
    ASSUME Shipped, Consistent, NEW c \in Conns, Disconnect(c)
    PROVE  \E i \in 1..Len(clients) :
              /\ clients[i] = c
              /\ clients' = SwapRemove(clients, i)
              /\ victim' = [victim EXCEPT ![c] = c]
<1>1. PICK i \in 1..Len(clients) :
         /\ FirstNamed(i, name[c])
         /\ clients' = SwapRemove(clients, i)
         /\ victim' = [victim EXCEPT ![c] = clients[i]]
  BY DEF Disconnect
<1>2. clients[i] \in Conns /\ pc[clients[i]] \in Open
  BY DEF Consistent, TypeOK, ClientsOpen
<1>3. name[c] # Unnamed /\ pc[c] = "ready"
  BY DEF Disconnect, Shipped
<1>4. clients[i] = c
  BY <1>1, <1>2, <1>3 DEF Consistent, OwnName, FirstNamed, Open
<1>5. QED
  BY <1>1, <1>4

(* What clients holds after a disconnect: everyone but the client that     *)
(* disconnected, still once.                                               *)
LEMMA DisconnectClients ==
    ASSUME Shipped, Consistent, NEW c \in Conns, Disconnect(c)
    PROVE  NoTwin' /\ ClientsOpen' /\ OpenInClients'
<1>1. PICK i \in 1..Len(clients) : /\ clients[i] = c
                                   /\ clients' = SwapRemove(clients, i)
  BY DisconnectOwn
<1>2. clients \in Seq(Conns) /\ Injective(clients)
  BY DEF Consistent, TypeOK, NoTwin, Injective
<1>3. /\ Injective(clients')
      /\ \A d \in Conns : Holds(clients', d) <=> Holds(clients, d) /\ d # c
  BY <1>1, <1>2, SwapRemoveContents
<1>4. clients' \in Seq(Conns)
  BY <1>1, <1>2, SwapRemoveFacts
<1>5. /\ pc'[c] = "del"
      /\ \A d \in Conns : d # c => pc'[d] = pc[d]
  BY DEF Disconnect, Consistent, TypeOK
<1>6. \A d \in Conns : Holds(clients, d) <=> pc[d] \in Open
  BY <1>2 DEF Consistent, ClientsOpen, OpenInClients, InClients, Holds
<1>7. \A d \in Conns : Holds(clients', d) <=> pc'[d] \in Open
  BY <1>3, <1>5, <1>6 DEF Open
<1>8. QED
  BY <1>3, <1>4, <1>7
     DEF NoTwin, ClientsOpen, OpenInClients, InClients, Holds, Injective

(* What these clients never do: rename themselves, panic in a pick, or     *)
(* disconnect without being found.                                         *)
LEMMA NeverStep ==
    ASSUME Shipped, Consistent, NEW c \in Conns,
           GetTssid(c) \/ PickPanics(c) \/ DisconnectUnknown(c)
    PROVE  FALSE
<1> USE DEF Consistent
<1>1. CASE GetTssid(c)
  BY <1>1 DEF GetTssid, Shipped
<1>2. CASE PickPanics(c)
  <2>1. pc[c] = "ask" /\ Head(todo[c]) \in flag[c]
    BY <1>2 DEF PickPanics, AskFlagged
  <2>2. name[c] \in Names /\ dir[Head(todo[c])][name[c]] = c
    BY <2>1 DEF TypeOK, NamedFirst, FlagEntered, Open
  <2>3. QED
    BY <1>2, <2>2, NoConnAssumption DEF PickPanics
<1>3. CASE DisconnectUnknown(c)
  BY <1>3 DEF DisconnectUnknown, OpenInClients, InClients, Open
<1>4. QED
  BY <1>1, <1>2, <1>3

(* Every step of these clients keeps the registry consistent.              *)
LEMMA ConsistentStep ==
    ASSUME Shipped, Consistent, [Next]_vars
    PROVE  Consistent'
<1> USE DEF Consistent
<1>0. TypeOK'
  BY TypingStep
<1>1. ASSUME NEW c \in Conns, Accept(c)
      PROVE  Consistent'
  <2>1. NoTwin' /\ ClientsOpen' /\ OpenInClients'
    <3>1. /\ Len(clients') = Len(clients) + 1 /\ Len(clients) \in Nat
          /\ clients'[Len(clients) + 1] = c
          /\ \A i \in 1..Len(clients) : clients'[i] = clients[i]
      BY <1>1 DEF Accept, TypeOK
    <3>2. \A i \in 1..Len(clients) : clients[i] \in Conns /\ clients[i] # c
      BY <1>1 DEF Accept, TypeOK, Free, InClients
    <3>3. NoTwin'
      BY <3>1, <3>2 DEF NoTwin
    <3>4. pc' = [pc EXCEPT ![c] = "ready"]
      BY <1>1 DEF Accept
    <3>5. ClientsOpen'
      <4>1. ASSUME NEW i \in 1..Len(clients')
            PROVE  pc'[clients'[i]] \in Open
        <5>1. CASE i = Len(clients) + 1
          BY <5>1, <3>1, <3>4 DEF TypeOK, Open
        <5>2. CASE i \in 1..Len(clients)
          BY <5>2, <3>1, <3>2, <3>4 DEF ClientsOpen, TypeOK
        <5>3. QED
          BY <3>1, <5>1, <5>2
      <4>2. QED
        BY <4>1 DEF ClientsOpen, Open
    <3>6. ASSUME NEW d \in Conns, pc'[d] \in Open
          PROVE  \E i \in 1..Len(clients') : clients'[i] = d
      <4>1. CASE d = c
        BY <4>1, <3>1
      <4>2. CASE d # c
        <5>1. pc[d] \in Open
          BY <4>2, <3>4, <3>6 DEF TypeOK
        <5>2. PICK i \in 1..Len(clients) : clients[i] = d
          BY <5>1 DEF OpenInClients, InClients
        <5>3. QED
          BY <5>2, <3>1
      <4>3. QED
        BY <4>1, <4>2
    <3>7. QED
      BY <3>3, <3>5, <3>6 DEF OpenInClients, InClients, Open
  <2>2. OwnName' /\ NamedFirst'
    BY <1>1 DEF Accept, TypeOK, OwnName, NamedFirst
  <2>3. OwnVictim' /\ DelOrder'
    BY <1>1 DEF Accept, TypeOK, Open, OwnVictim, DelOrder, InClients, Free
  <2>4. EntryFlagged' /\ FlagEntered'
    BY <1>1 DEF Accept, TypeOK, EntryFlagged, FlagEntered, Free
  <2>5. AskFlagged' /\ AddFlagged' /\ NoStuckLock'
    BY <1>1 DEF Accept, TypeOK, AskFlagged, AddFlagged, NoStuckLock
  <2> QED
    BY <1>0, <2>1, <2>2, <2>3, <2>4, <2>5
<1>2. ASSUME NEW c \in Conns, GetTid(c)
      PROVE  Consistent'
  <2>1. NoTwin' /\ ClientsOpen' /\ OpenInClients'
    BY <1>2 DEF GetTid, Open, NoTwin, ClientsOpen, OpenInClients, InClients
  <2>2. OwnName' /\ NamedFirst'
    BY <1>2 DEF GetTid, TypeOK, OwnName, NamedFirst, Fresh, Free, Shipped
  <2>3. OwnVictim' /\ DelOrder'
    BY <1>2 DEF GetTid, TypeOK, Open, OwnVictim, DelOrder, Fresh, Free, Shipped
  <2>4. EntryFlagged' /\ FlagEntered'
    BY <1>2 DEF GetTid, EntryFlagged, FlagEntered, Shipped, NamedFirst
  <2>5. AskFlagged' /\ AddFlagged' /\ NoStuckLock'
    BY <1>2 DEF GetTid, AskFlagged, AddFlagged, NoStuckLock
  <2> QED
    BY <1>0, <2>1, <2>2, <2>3, <2>4, <2>5
<1>3. ASSUME NEW c \in Conns, Ask(c)
      PROVE  Consistent'
  <2>1. NoTwin' /\ ClientsOpen' /\ OpenInClients'
    BY <1>3 DEF Ask, Open, NoTwin, ClientsOpen, OpenInClients, InClients
  <2>2. OwnName' /\ NamedFirst'
    BY <1>3 DEF Ask, TypeOK, Open, OwnName, NamedFirst, Shipped, ClientsOpen
  <2>3. OwnVictim' /\ DelOrder'
    BY <1>3 DEF Ask, TypeOK, Open, OwnVictim, DelOrder, Shipped
  <2>4. EntryFlagged' /\ FlagEntered'
    BY <1>3 DEF Ask, Open, EntryFlagged, FlagEntered
  <2>5. AskFlagged' /\ AddFlagged' /\ NoStuckLock'
    BY <1>3 DEF Ask, TypeOK, Open, AskFlagged, AddFlagged, NoStuckLock, Shipped
  <2> QED
    BY <1>0, <2>1, <2>2, <2>3, <2>4, <2>5
<1>4. ASSUME NEW c \in Conns, Disconnect(c)
      PROVE  Consistent'
  <2>1. NoTwin' /\ ClientsOpen' /\ OpenInClients'
    BY <1>4, DisconnectClients
  <2>2. OwnName' /\ NamedFirst'
    <3>1. pc[c] = "ready" /\ name[c] # Unnamed
      BY <1>4 DEF Disconnect, Shipped
    <3>2. QED
      BY <1>4, <3>1 DEF Disconnect, TypeOK, OwnName, NamedFirst
  <2>3. OwnVictim' /\ DelOrder'
    BY <1>4, DisconnectOwn DEF Disconnect, TypeOK, Open, OwnVictim, DelOrder
  <2>4. EntryFlagged' /\ FlagEntered'
    BY <1>4, DisconnectOwn
      DEF Disconnect, TypeOK, Open, EntryFlagged, FlagEntered
  <2>5. AskFlagged' /\ AddFlagged' /\ NoStuckLock'
    BY <1>4, DisconnectOwn DEF Disconnect, AskFlagged, AddFlagged, NoStuckLock
  <2> QED
    BY <1>0, <2>1, <2>2, <2>3, <2>4, <2>5
<1>5. ASSUME NEW c \in Conns, SetFlag(c)
      PROVE  Consistent'
  <2>1. NoTwin' /\ ClientsOpen' /\ OpenInClients'
    BY <1>5 DEF SetFlag, Open, NoTwin, ClientsOpen, OpenInClients, InClients
  <2>2. OwnName' /\ NamedFirst'
    BY <1>5 DEF SetFlag, TypeOK, Open, OwnName, NamedFirst, ClientsOpen
  <2>3. OwnVictim' /\ DelOrder'
    BY <1>5 DEF SetFlag, TypeOK, Open, OwnVictim, DelOrder
  <2>4. EntryFlagged' /\ FlagEntered'
    BY <1>5 DEF SetFlag, TypeOK, Open, EntryFlagged, FlagEntered
  <2>5. AskFlagged' /\ AddFlagged' /\ NoStuckLock'
    BY <1>5 DEF SetFlag, TypeOK, Open, AskFlagged, AddFlagged, NoStuckLock
  <2> QED
    BY <1>0, <2>1, <2>2, <2>3, <2>4, <2>5
<1>6. ASSUME NEW c \in Conns, AddTo(c)
      PROVE  Consistent'
  <2>1. NoTwin' /\ ClientsOpen' /\ OpenInClients'
    BY <1>6 DEF AddTo, Open, NoTwin, ClientsOpen, OpenInClients, InClients
  <2>2. OwnName' /\ NamedFirst'
    BY <1>6 DEF AddTo, TypeOK, Open, OwnName, NamedFirst, ClientsOpen
  <2>3. OwnVictim' /\ DelOrder'
    BY <1>6 DEF AddTo, TypeOK, Open, OwnVictim, DelOrder
  <2>4. EntryFlagged' /\ FlagEntered'
    <3> DEFINE r == Head(todo[c])
    <3>1. /\ pc[c] = "add" /\ r \in Roles /\ r \in flag[c]
          /\ name[c] \in Names
      BY <1>6 DEF AddTo, TypeOK, NamedFirst, AddFlagged
    <3>2. /\ dir' = [dir EXCEPT ![r][name[c]] = c]
          /\ pc' = [pc EXCEPT ![c] = "attr"]
          /\ todo' = [todo EXCEPT ![c] = Tail(@)]
          /\ UNCHANGED <<name, flag>>
      BY <1>6 DEF AddTo
    <3> HIDE DEF r
    <3>3. /\ dir'[r][name[c]] = c
          /\ \A q \in Roles, n \in Names :
                q # r \/ n # name[c] => dir'[q][n] = dir[q][n]
      BY <3>1, <3>2 DEF TypeOK
    <3>4. EntryFlagged'
      BY <3>1, <3>2, <3>3 DEF EntryFlagged, TypeOK
    <3>5. ASSUME NEW d \in Conns, NEW q \in flag[d], pc'[d] \in Open
          PROVE  \/ dir'[q][name[d]] = d
                 \/ pc'[d] = "add" /\ q = Head(todo'[d])
      <4>1. CASE d = c
        BY <4>1, <3>1, <3>2, <3>3 DEF FlagEntered, TypeOK, Open, r
      <4>2. CASE d # c
        <5>1. name[d] \in Names /\ name[d] # name[c]
          BY <4>2, <3>1, <3>2, <3>5 DEF TypeOK, NamedFirst, OwnName, Open
        <5>2. QED
          BY <4>2, <5>1, <3>2, <3>3, <3>5 DEF FlagEntered, TypeOK
      <4>3. QED
        BY <4>1, <4>2
    <3>6. FlagEntered'
      BY <3>2, <3>5 DEF FlagEntered, Open
    <3>7. QED
      BY <3>4, <3>6
  <2>5. AskFlagged' /\ AddFlagged' /\ NoStuckLock'
    BY <1>6 DEF AddTo, TypeOK, Open, AskFlagged, AddFlagged, NoStuckLock
  <2> QED
    BY <1>0, <2>1, <2>2, <2>3, <2>4, <2>5
<1>7. ASSUME NEW c \in Conns, ReplyTid(c)
      PROVE  Consistent'
  <2>1. NoTwin' /\ ClientsOpen' /\ OpenInClients'
    BY <1>7 DEF ReplyTid, Open, NoTwin, ClientsOpen, OpenInClients, InClients
  <2>2. OwnName' /\ NamedFirst'
    BY <1>7 DEF ReplyTid, TypeOK, Open, OwnName, NamedFirst, ClientsOpen
  <2>3. OwnVictim' /\ DelOrder'
    BY <1>7 DEF ReplyTid, TypeOK, Open, OwnVictim, DelOrder
  <2>4. EntryFlagged' /\ FlagEntered'
    BY <1>7 DEF ReplyTid, Open, EntryFlagged, FlagEntered
  <2>5. AskFlagged' /\ AddFlagged' /\ NoStuckLock'
    BY <1>7 DEF ReplyTid, TypeOK, Open, AskFlagged, AddFlagged, NoStuckLock
  <2> QED
    BY <1>0, <2>1, <2>2, <2>3, <2>4, <2>5
<1>8. ASSUME NEW c \in Conns, Pick(c)
      PROVE  Consistent'
  <2>1. NoTwin' /\ ClientsOpen' /\ OpenInClients'
    BY <1>8 DEF Pick, Open, NoTwin, ClientsOpen, OpenInClients, InClients
  <2>2. OwnName' /\ NamedFirst'
    BY <1>8 DEF Pick, OwnName, NamedFirst
  <2>3. OwnVictim' /\ DelOrder'
    BY <1>8 DEF Pick, OwnVictim, DelOrder
  <2>4. EntryFlagged' /\ FlagEntered'
    BY <1>8 DEF Pick, Open, EntryFlagged, FlagEntered
  <2>5. AskFlagged' /\ AddFlagged' /\ NoStuckLock'
    BY <1>8 DEF Pick, TypeOK, AskFlagged, AddFlagged, NoStuckLock
  <2> QED
    BY <1>0, <2>1, <2>2, <2>3, <2>4, <2>5
<1>9. ASSUME NEW c \in Conns, DelFrom(c)
      PROVE  Consistent'
  <2>1. NoTwin' /\ ClientsOpen' /\ OpenInClients'
    BY <1>9 DEF DelFrom, NoTwin, ClientsOpen, OpenInClients, InClients
  <2>2. OwnName' /\ NamedFirst'
    BY <1>9 DEF DelFrom, TypeOK, Open, OwnName, NamedFirst, ClientsOpen
  <2>3. OwnVictim' /\ DelOrder'
    <3>1. /\ pc[c] = "del" /\ todo[c] \in {<<"e", "g">>, <<"g">>}
          /\ todo' = [todo EXCEPT ![c] = Tail(@)]
      BY <1>9 DEF DelFrom, DelOrder
    <3>2. /\ Tail(<<"e", "g">>) = <<"g">>
          /\ Tail(<<"g">>) = << >>
      OBVIOUS
    <3>3. todo'[c] \in {<<"g">>, << >>}
      BY <3>1, <3>2 DEF TypeOK
    <3>4. QED
      BY <1>9, <3>1, <3>3 DEF DelFrom, OwnVictim, DelOrder, TypeOK
  <2>4. EntryFlagged' /\ FlagEntered'
    <3>1. pc[c] = "del" /\ victim[c] = c /\ name[c] \in Names
      BY <1>9 DEF DelFrom, OwnVictim, TypeOK, NamedFirst
    <3>2. PICK r \in Roles :
             /\ \/ r = "e" /\ todo[c] = <<"e", "g">> /\ todo'[c] = <<"g">>
                \/ r = "g" /\ todo[c] = <<"g">> /\ todo'[c] = << >>
             /\ r = Head(todo[c])
      <4>1. /\ todo[c] \in {<<"e", "g">>, <<"g">>}
            /\ todo'[c] = Tail(todo[c])
        BY <1>9 DEF DelFrom, DelOrder, TypeOK
      <4>2. /\ Tail(<<"e", "g">>) = <<"g">> /\ Head(<<"e", "g">>) = "e"
            /\ Tail(<<"g">>) = << >> /\ Head(<<"g">>) = "g"
        OBVIOUS
      <4>3. QED
        BY <4>1, <4>2 DEF Roles
    <3>3. /\ UNCHANGED <<name, flag, pc>>
          /\ \A d \in Conns : d # c => todo'[d] = todo[d]
      BY <1>9 DEF DelFrom, TypeOK
    <3>4. /\ \A n \in Names : dir'[r][n] # c
          /\ \A q \in Roles, n \in Names :
                q # r \/ n # name[c] => dir'[q][n] = dir[q][n]
      <4>1. CASE r \in flag[c]
        <5>1. dir' = [dir EXCEPT ![r][name[c]] = NoConn]
          BY <4>1, <1>9, <3>1, <3>2 DEF DelFrom
        <5>2. \A n \in Names : n # name[c] => dir[r][n] # c
          BY NoConnAssumption DEF EntryFlagged
        <5>3. QED
          BY <5>1, <5>2, <3>1, NoConnAssumption DEF TypeOK
      <4>2. CASE r \notin flag[c]
        <5>1. dir' = dir
          BY <4>2, <1>9, <3>1, <3>2 DEF DelFrom
        <5>2. QED
          BY <4>2, <5>1, NoConnAssumption DEF EntryFlagged
      <4>3. QED
        BY <4>1, <4>2
    <3>5. ASSUME NEW q \in Roles, NEW n \in Names, dir'[q][n] # NoConn
          PROVE  /\ name[dir'[q][n]] = n /\ q \in flag[dir'[q][n]]
                 /\ pc[dir'[q][n]] # "closed"
                 /\ pc[dir'[q][n]] = "del" =>
                       todo'[dir'[q][n]] \in {<<"e", "g">>, <<q>>}
      <4>1. dir'[q][n] = dir[q][n] \/ (q = r /\ n = name[c])
        BY <3>4
      <4>2. CASE dir'[q][n] = c
        <5>1. q # r /\ dir[q][n] = c
          BY <4>1, <4>2, <3>4
        <5>2. /\ name[c] = n /\ q \in flag[c]
              /\ todo[c] = <<"e", "g">> \/ todo[c] = <<q>>
          BY <5>1, <3>1, NoConnAssumption DEF EntryFlagged
        <5>3. todo'[c] = <<q>>
          <6>1. CASE r = "e"
            BY <6>1, <5>1, <3>2 DEF Roles
          <6>2. CASE r = "g"
            <7>1. todo[c] = <<"g">> /\ q = "e"
              BY <6>2, <5>1, <3>2 DEF Roles
            <7>2. todo[c][1] = "g" /\ <<"e", "g">>[1] = "e" /\ <<q>>[1] = q
              BY <7>1
            <7>3. QED
              BY <5>2, <7>1, <7>2
          <6>3. QED
            BY <6>1, <6>2 DEF Roles
        <5>4. QED
          BY <4>2, <5>2, <5>3, <3>1
      <4>3. CASE dir'[q][n] # c /\ dir'[q][n] = dir[q][n]
        BY <4>3, <3>3, <3>5 DEF EntryFlagged, TypeOK
      <4>4. CASE dir'[q][n] # c /\ dir'[q][n] # dir[q][n]
        BY <4>4, <4>1, <1>9, <3>1, <3>2, <3>5 DEF DelFrom, TypeOK
      <4>5. QED
        BY <4>2, <4>3, <4>4
    <3>6. EntryFlagged'
      BY <3>3, <3>5 DEF EntryFlagged
    <3>7. FlagEntered'
      <4>1. ASSUME NEW d \in Conns, NEW q \in flag[d], pc[d] \in Open
            PROVE  /\ name[d] \in Names /\ name[d] # name[c] /\ d # c
                   /\ q \in Roles
        BY <4>1, <3>1 DEF TypeOK, NamedFirst, OwnName, Open
      <4>2. QED
        BY <4>1, <3>3, <3>4 DEF FlagEntered, Open
    <3>8. QED
      BY <3>6, <3>7
  <2>5. AskFlagged' /\ AddFlagged' /\ NoStuckLock'
    BY <1>9 DEF DelFrom, TypeOK, Open, AskFlagged, AddFlagged, NoStuckLock
  <2> QED
    BY <1>0, <2>1, <2>2, <2>3, <2>4, <2>5
<1>10. ASSUME NEW c \in Conns, Depart(c)
      PROVE  Consistent'
  <2>1. NoTwin' /\ ClientsOpen' /\ OpenInClients'
    BY <1>10 DEF Depart, Open, NoTwin, ClientsOpen, OpenInClients, InClients
  <2>2. OwnName' /\ NamedFirst'
    BY <1>10 DEF Depart, TypeOK, Open, OwnName, NamedFirst, ClientsOpen
  <2>3. OwnVictim' /\ DelOrder'
    BY <1>10 DEF Depart, TypeOK, Open, OwnVictim, DelOrder
  <2>4. EntryFlagged' /\ FlagEntered'
    <3>1. \A r \in Roles, n \in Names : dir[r][n] # c
      BY <1>10, NoConnAssumption DEF Depart, EntryFlagged
    <3>2. QED
      BY <1>10, <3>1 DEF Depart, EntryFlagged, FlagEntered, TypeOK, Open
  <2>5. AskFlagged' /\ AddFlagged' /\ NoStuckLock'
    BY <1>10 DEF Depart, TypeOK, Open, AskFlagged, AddFlagged, NoStuckLock
  <2> QED
    BY <1>0, <2>1, <2>2, <2>3, <2>4, <2>5
<1>11. CASE UNCHANGED vars
  BY <1>11
    DEF vars, TypeOK, NoTwin, ClientsOpen, OpenInClients, InClients, OwnName,
        NamedFirst, OwnVictim, DelOrder, EntryFlagged, FlagEntered,
        AskFlagged, AddFlagged, NoStuckLock
<1>12. ASSUME NEW c \in Conns,
              GetTssid(c) \/ PickPanics(c) \/ DisconnectUnknown(c)
       PROVE  FALSE
  BY <1>12, NeverStep
<1>13. QED
  BY <1>1, <1>2, <1>3, <1>4, <1>5, <1>6, <1>7, <1>8, <1>9, <1>10,
     <1>11, <1>12 DEF Next, Step

(* The registry starts consistent and stays so: for every set of clients,  *)
(* names and attribute lists, through every interleaving of gettid, picks  *)
(* and DeleteClientByName.                                                 *)
THEOREM RegistryConsistent ==
    ASSUME Shipped
    PROVE  Spec => []Consistent
<1>1. Init => Consistent
  <2> SUFFICES ASSUME Init
               PROVE  Consistent
    OBVIOUS
  <2>1. TypeOK
    BY DEF Init, TypeOK, Open, Roles
  <2>2. NoTwin /\ ClientsOpen /\ OpenInClients
    BY DEF Init, NoTwin, ClientsOpen, OpenInClients, Open
  <2>3. OwnName /\ NamedFirst /\ OwnVictim /\ DelOrder
    BY DEF Init, OwnName, NamedFirst, OwnVictim, DelOrder
  <2>4. EntryFlagged /\ FlagEntered /\ AskFlagged /\ AddFlagged /\ NoStuckLock
    BY DEF Init, EntryFlagged, FlagEntered, AskFlagged, AddFlagged, NoStuckLock
  <2>5. QED
    BY <2>1, <2>2, <2>3, <2>4 DEF Consistent
<1>2. Consistent /\ [Next]_vars => Consistent'
  BY ConsistentStep
<1>3. QED
  BY <1>1, <1>2, PTL DEF Spec

-----------------------------------------------------------------------------
(* What a consistent registry holds is connected, or being removed.        *)
LEMMA SoundFacts ==
    ASSUME Consistent
    PROVE  RegistrySound /\ OnlyConnected
<1>1. ASSUME NEW r \in Roles, NEW n \in Names, NEW c \in Conns,
             dir[r][n] = c
      PROVE  /\ name[c] = n /\ r \in flag[c]
             /\ pc[c] \in Open \/ Leaving(c, r)
  <2>1. /\ name[c] = n /\ r \in flag[c] /\ pc[c] # "closed"
        /\ pc[c] = "del" => todo[c] \in {<<"e", "g">>, <<r>>}
    BY <1>1, NoConnAssumption DEF Consistent, EntryFlagged
  <2>2. ASSUME pc[c] = "del"
        PROVE  Leaving(c, r)
    <3>1. victim[c] = c
      BY <2>2 DEF Consistent, OwnVictim
    <3>2. /\ Len(<<"e", "g">>) = 2 /\ Len(<<r>>) = 1
          /\ <<"e", "g">>[1] = "e" /\ <<"e", "g">>[2] = "g" /\ <<r>>[1] = r
      OBVIOUS
    <3>3. \E k \in 1..Len(todo[c]) : todo[c][k] = r
      BY <2>1, <2>2, <3>2 DEF Roles
    <3>4. QED
      BY <2>2, <3>1, <3>3 DEF Leaving
  <2>3. QED
    BY <2>1, <2>2 DEF Consistent, TypeOK
<1>2. \A r \in Roles, n \in Names : dir[r][n] # NoConn => dir[r][n] \in Conns
  BY DEF Consistent, TypeOK
<1>3. QED
  BY <1>1, <1>2
    DEF RegistrySound, OnlyConnected, Consistent, ClientsOpen

(* exits and guards never offer a client that has gone.                    *)
THEOREM Sound ==
    ASSUME Shipped
    PROVE  Spec => []RegistrySound
  BY RegistryConsistent, SoundFacts, PTL

(* Nor does clients hold one.                                              *)
THEOREM Connected ==
    ASSUME Shipped
    PROVE  Spec => []OnlyConnected
  BY RegistryConsistent, SoundFacts, PTL

(* A pick never meets an empty map: the client that asks is in it itself.  *)
THEOREM AskersListed ==
    ASSUME Shipped
    PROVE  Spec => []AskerListed
<1>1. ASSUME Consistent
      PROVE  AskerListed
  BY <1>1 DEF Consistent, AskFlagged, FlagEntered, AskerListed, Open
<1>2. QED
  BY <1>1, RegistryConsistent, PTL

-----------------------------------------------------------------------------
(* For every client, whatever it sends and whenever its websocket breaks:  *)
(* no client is in clients twice, and a map lists only who asked for it.   *)
THEOREM AnyClient == Spec => [](NoTwin /\ ListedAsked)
<1> DEFINE Inv == TypeOK /\ NoTwin /\ ListedAsked /\ AddFlagged
<1>1. Init => Inv
  BY DEF Init, TypeOK, Open, Roles, NoTwin, ListedAsked, AddFlagged
<1>2. Inv /\ [Next]_vars => Inv'
  <2> SUFFICES ASSUME Inv, [Next]_vars
               PROVE  NoTwin' /\ ListedAsked' /\ AddFlagged'
    BY TypingStep
  <2>1. ASSUME NEW c \in Conns, Accept(c)
        PROVE  NoTwin' /\ ListedAsked' /\ AddFlagged'
    <3>1. /\ Len(clients') = Len(clients) + 1 /\ Len(clients) \in Nat
          /\ clients'[Len(clients) + 1] = c
          /\ \A i \in 1..Len(clients) :
                clients'[i] = clients[i] /\ clients[i] # c
      BY <2>1 DEF Accept, TypeOK, Free, InClients
    <3>2. NoTwin'
      BY <3>1 DEF NoTwin
    <3>3. ListedAsked' /\ AddFlagged'
      BY <2>1 DEF Accept, Free, TypeOK, ListedAsked, AddFlagged
    <3>4. QED
      BY <3>2, <3>3
  <2>2. ASSUME NEW c \in Conns, Disconnect(c)
        PROVE  NoTwin' /\ ListedAsked' /\ AddFlagged'
    <3>1. PICK i \in 1..Len(clients) : clients' = SwapRemove(clients, i)
      BY <2>2 DEF Disconnect
    <3>2. clients \in Seq(Conns) /\ Injective(clients)
      BY DEF TypeOK, NoTwin, Injective
    <3>3. Injective(clients')
      BY <3>1, <3>2, SwapRemoveContents
    <3>4. ListedAsked' /\ AddFlagged'
      BY <2>2 DEF Disconnect, TypeOK, ListedAsked, AddFlagged
    <3>5. QED
      BY <3>3, <3>4 DEF NoTwin, Injective
  <2>3. ASSUME NEW c \in Conns, AddTo(c)
        PROVE  NoTwin' /\ ListedAsked' /\ AddFlagged'
    <3>1. Head(todo[c]) \in flag[c]
      BY <2>3 DEF AddTo, AddFlagged
    <3>2. QED
      BY <2>3, <3>1 DEF AddTo, TypeOK, NoTwin, ListedAsked, AddFlagged
  <2>4. ASSUME NEW c \in Conns, SetFlag(c)
        PROVE  NoTwin' /\ ListedAsked' /\ AddFlagged'
    BY <2>4 DEF SetFlag, TypeOK, NoTwin, ListedAsked, AddFlagged
  <2>5. ASSUME NEW c \in Conns, DelFrom(c)
        PROVE  NoTwin' /\ ListedAsked' /\ AddFlagged'
    <3>1. \A r \in Roles, n \in Names : dir'[r][n] \in {dir[r][n], NoConn}
      <4>1. CASE UNCHANGED dir
        BY <4>1
      <4>2. CASE dir' = [dir EXCEPT ![Head(todo[c])][name[victim[c]]] = NoConn]
        BY <4>2 DEF TypeOK
      <4>3. QED
        BY <2>5, <4>1, <4>2 DEF DelFrom
    <3>2. QED
      BY <2>5, <3>1 DEF DelFrom, TypeOK, NoTwin, ListedAsked, AddFlagged
  <2>6. ASSUME NEW c \in Conns,
               \/ GetTid(c) \/ GetTssid(c) \/ Ask(c) \/ DisconnectUnknown(c)
               \/ ReplyTid(c) \/ Pick(c) \/ PickPanics(c) \/ Depart(c)
        PROVE  NoTwin' /\ ListedAsked' /\ AddFlagged'
    BY <2>6 DEF GetTid, GetTssid, Ask, DisconnectUnknown, ReplyTid, Pick,
                PickPanics, Depart, TypeOK, NoTwin, ListedAsked, AddFlagged
  <2>7. CASE UNCHANGED vars
    BY <2>7 DEF vars, NoTwin, ListedAsked, AddFlagged
  <2>8. QED
    BY <2>1, <2>2, <2>3, <2>4, <2>5, <2>6, <2>7 DEF Next, Step
<1>3. QED
  BY <1>1, <1>2, PTL DEF Spec
=============================================================================
