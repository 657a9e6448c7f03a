---------------------------- MODULE RegistryProofs ----------------------------
(***************************************************************************)
(* What the registry of Rendezvous promises to other clients than those of *)
(* the shipped programs, and which promise needs which good behaviour.     *)
(*                                                                         *)
(*  - For every client, whatever it sends and whenever its websocket       *)
(*    breaks: a name leads to one client at most, an entry of a map to its *)
(*    own client or to nobody, and clients is not too short.               *)
(*  - When websockets break only after their gettid: a connected client is *)
(*    found under its name.                                                *)
(*  - When clients keep their name besides: it is in the maps it asked for *)
(*    and leaves them when it goes.  The registry implements Presence.     *)
(*  - When clients ask once listed besides, though they may take another   *)
(*    name: no pick panics.                                                *)
(***************************************************************************)
EXTENDS RendezvousProofs, FiniteSetTheorems

-----------------------------------------------------------------------------
(* For every client: names.                                                *)

\* A client with a flag set, or about to set one, has a name.
Named ==
    \A c \in Conns :
       pc[c] \in {"attr", "add"} \/ flag[c] # {} => name[c] # Unnamed

\* No name is borne by two clients that something still points at.
Apart ==
    \A c, d \in Conns :
       ~Free(c) /\ ~Free(d) /\ name[c] = name[d] /\ name[c] # Unnamed => c = d

\* Who bears the name of an entry of a map is the client of that entry.
EntryApart ==
    \A r \in Roles, n \in Names, d \in Conns :
       dir[r][n] # NoConn /\ ~Free(d) /\ name[d] = n => d = dir[r][n]

Bearers == TypeOK /\ Named /\ Apart /\ EntryApart

\* DelFrom takes entries out, and puts none in.
LEMMA DelFromEntries ==
    ASSUME TypeOK, NEW c \in Conns, DelFrom(c)
    PROVE  \A r \in Roles, n \in Names : dir'[r][n] \in {dir[r][n], NoConn}
<1>1. CASE UNCHANGED dir
  BY <1>1
<1>2. CASE dir' = [dir EXCEPT ![Head(todo[c])][name[victim[c]]] = NoConn]
  BY <1>2 DEF TypeOK
<1> QED
  BY <1>1, <1>2 DEF DelFrom

\* A client that nothing points at stays so until a websocket takes it.
LEMMA FreeStays ==
    ASSUME TypeOK, NEW c \in Conns, NEW d \in Conns, d # c, Free(d),
           \/ Accept(c) \/ GetTid(c) \/ GetTssid(c) \/ Ask(c)
           \/ Disconnect(c) \/ DisconnectUnknown(c) \/ Step(c)
    PROVE  Free(d)'
<1>1. pc'[d] = pc[d]
  BY DEF Accept, GetTid, GetTssid, Ask, Disconnect, DisconnectUnknown, Step,
         SetFlag, AddTo, ReplyTid, Pick, PickPanics, DelFrom, Depart, TypeOK
<1>2. ~InClients(d)'
  <2>1. CASE Accept(c)
    <3>1. /\ Len(clients') = Len(clients) + 1 /\ Len(clients) \in Nat
          /\ clients'[Len(clients) + 1] = c
          /\ \A i \in 1..Len(clients) : clients'[i] = clients[i]
      BY <2>1 DEF Accept, TypeOK
    <3>2. \A i \in 1..Len(clients') :
             i \in 1..Len(clients) \/ i = Len(clients) + 1
      BY <3>1
    <3> QED
      BY <3>1, <3>2 DEF Free, InClients
  <2>2. CASE Disconnect(c)
    <3>1. PICK i \in 1..Len(clients) : clients' = SwapRemove(clients, i)
      BY <2>2 DEF Disconnect
    <3>2. /\ Len(clients') = Len(clients) - 1 /\ Len(clients) \in Nat
          /\ \A j \in 1..(Len(clients) - 1) :
                clients'[j] = IF j = i THEN clients[Len(clients)] ELSE clients[j]
      <4> DEFINE s == SwapRemove(clients, i)
      <4>1. clients \in Seq(Conns) /\ Len(clients) \in Nat
        BY DEF TypeOK
      <4>2. /\ Len(s) = Len(clients) - 1
            /\ \A j \in 1..(Len(clients) - 1) :
                  s[j] = IF j = i THEN clients[Len(clients)] ELSE clients[j]
        BY <4>1, SwapRemoveFacts
      <4> HIDE DEF s
      <4> QED
        BY <3>1, <4>1, <4>2, Zenon DEF s
    <3> QED
      BY <3>2 DEF Free, InClients
  <2>3. CASE clients' = clients
    BY <2>3 DEF Free, InClients
  <2> QED
    BY <2>1, <2>2, <2>3
    DEF GetTid, GetTssid, Ask, DisconnectUnknown, Step, SetFlag, AddTo,
        ReplyTid, Pick, PickPanics, DelFrom, Depart
<1>3. ASSUME NEW r \in Roles, NEW n \in Names
      PROVE  dir'[r][n] # d
  <2>1. dir[r][n] # d /\ d # NoConn
    BY NoConnAssumption DEF Free
  <2>2. CASE AddTo(c)
    BY <2>1, <2>2 DEF AddTo, TypeOK
  <2>3. CASE DelFrom(c)
    BY <2>1, <2>3, DelFromEntries
  <2>4. CASE dir' = dir
    BY <2>1, <2>4
  <2> QED
    BY <2>2, <2>3, <2>4
    DEF Accept, GetTid, GetTssid, Ask, Disconnect, DisconnectUnknown, Step,
        SetFlag, ReplyTid, Pick, PickPanics, Depart
<1>4. ASSUME NEW e \in Conns
      PROVE  victim'[e] # d
  <2>1. victim[e] # d /\ d # NoConn
    BY NoConnAssumption DEF Free
  <2>2. CASE Disconnect(c)
    <3>1. PICK i \in 1..Len(clients) : victim' = [victim EXCEPT ![c] = clients[i]]
      BY <2>2 DEF Disconnect
    <3> QED
      BY <2>1, <3>1 DEF Free, InClients, TypeOK
  <2>3. CASE Depart(c)
    BY <2>1, <2>3 DEF Depart, TypeOK
  <2>4. CASE victim' = victim
    BY <2>1, <2>4
  <2> QED
    BY <2>2, <2>3, <2>4
    DEF Accept, GetTid, GetTssid, Ask, DisconnectUnknown, Step, SetFlag,
        AddTo, ReplyTid, Pick, PickPanics, DelFrom
<1> QED
  BY <1>1, <1>2, <1>3, <1>4 DEF Free

\* Who is pointed at after a step was before it, or has just been accepted.
LEMMA NoneFreed ==
    ASSUME TypeOK, NEW c \in Conns, NEW d \in Conns, ~Free(d)',
           \/ GetTid(c) \/ GetTssid(c) \/ Ask(c)
           \/ Disconnect(c) \/ DisconnectUnknown(c) \/ Step(c)
    PROVE  ~Free(d) /\ ~Free(c)
<1>1. pc[c] # "closed"
  BY DEF GetTid, GetTssid, Ask, Disconnect, DisconnectUnknown, Step,
         SetFlag, AddTo, ReplyTid, Pick, PickPanics, DelFrom, Depart
<1> QED
  BY <1>1, FreeStays DEF Free

LEMMA BearersStep ==
    ASSUME Bearers, [Next]_vars
    PROVE  Bearers'
<1> USE DEF Bearers
<1>0. TypeOK'
  BY TypingStep
<1>1. ASSUME NEW c \in Conns, Accept(c)
      PROVE  Named' /\ Apart' /\ EntryApart'
  <2>1. \A d \in Conns : d # c => name'[d] = name[d] /\ pc'[d] = pc[d]
                                  /\ flag'[d] = flag[d]
    BY <1>1 DEF Accept, TypeOK
  <2>2. name'[c] = Unnamed /\ flag'[c] = {} /\ pc'[c] = "ready" /\ dir' = dir
    BY <1>1 DEF Accept, TypeOK
  <2>3. \A d \in Conns : d # c /\ ~Free(d)' => ~Free(d)
    BY <1>1, FreeStays
  <2>4. Named'
    BY <2>1, <2>2 DEF Named
  <2>5. Apart'
    BY <2>1, <2>2, <2>3 DEF Apart
  <2>6. EntryApart'
    BY <2>1, <2>2, <2>3, UnnamedAssumption DEF EntryApart
  <2> QED
    BY <2>4, <2>5, <2>6
<1>2. ASSUME NEW c \in Conns, GetTid(c) \/ GetTssid(c)
      PROVE  Named' /\ Apart' /\ EntryApart'
  <2>1. PICK n \in Names : Fresh(n) /\ name' = [name EXCEPT ![c] = n]
    BY <1>2 DEF GetTid, GetTssid
  <2>2. name'[c] = n /\ \A d \in Conns : d # c => name'[d] = name[d]
    BY <2>1 DEF TypeOK
  <2>3. /\ \A d \in Conns : d # c => pc'[d] = pc[d]
        /\ flag' = flag /\ dir' = dir
    BY <1>2 DEF GetTid, GetTssid, TypeOK
  <2>4. \A d \in Conns : ~Free(d)' => ~Free(d)
    BY <1>2, NoneFreed
  <2>5. Named'
    BY <2>2, <2>3, UnnamedAssumption DEF Named
  <2>6. Apart'
    BY <2>1, <2>2, <2>4 DEF Apart, Fresh
  <2>7. EntryApart'
    BY <2>1, <2>2, <2>3, <2>4 DEF EntryApart, Fresh
  <2> QED
    BY <2>5, <2>6, <2>7
<1>3. ASSUME NEW c \in Conns, name' = name,
             \A d \in Conns : ~Free(d)' => ~Free(d)
      PROVE  Apart'
  BY <1>3 DEF Apart
<1>4. ASSUME NEW c \in Conns,
             \/ Ask(c) \/ Disconnect(c) \/ DisconnectUnknown(c)
             \/ ReplyTid(c) \/ Pick(c) \/ PickPanics(c) \/ Depart(c)
      PROVE  Named' /\ Apart' /\ EntryApart'
  <2>1. \A d \in Conns : ~Free(d)' => ~Free(d)
    BY <1>4, NoneFreed DEF Step
  <2>2. /\ name' = name /\ flag' = flag /\ dir' = dir
        /\ \A d \in Conns : pc'[d] = pc[d] \/ pc'[d] \notin {"attr", "add"}
    BY <1>4 DEF Ask, Disconnect, DisconnectUnknown, ReplyTid, Pick, PickPanics,
                Depart, TypeOK
  <2>3. Named'
    BY <2>2 DEF Named
  <2>4. EntryApart'
    BY <2>1, <2>2 DEF EntryApart
  <2> QED
    BY <1>3, <2>1, <2>2, <2>3, <2>4
<1>5. ASSUME NEW c \in Conns, SetFlag(c)
      PROVE  Named' /\ Apart' /\ EntryApart'
  <2>1. \A d \in Conns : ~Free(d)' => ~Free(d)
    BY <1>5, NoneFreed DEF Step
  <2>2. name' = name /\ dir' = dir
    BY <1>5 DEF SetFlag
  <2>3. Named'
    BY <1>5 DEF SetFlag, TypeOK, Named
  <2>4. EntryApart'
    BY <2>1, <2>2 DEF EntryApart
  <2> QED
    BY <1>3, <2>1, <2>2, <2>3, <2>4
<1>6. ASSUME NEW c \in Conns, AddTo(c)
      PROVE  Named' /\ Apart' /\ EntryApart'
  <2>1. \A d \in Conns : ~Free(d)' => ~Free(d) /\ ~Free(c)
    BY <1>6, NoneFreed DEF Step
  <2>2. /\ name' = name /\ flag' = flag /\ pc[c] = "add"
        /\ \A d \in Conns : pc'[d] = pc[d] \/ d = c
    BY <1>6 DEF AddTo, TypeOK
  <2>3. Named'
    BY <2>2 DEF Named
  <2>4. \A r \in Roles, n \in Names :
           dir'[r][n] = dir[r][n] \/ (dir'[r][n] = c /\ n = name[c])
    BY <1>6 DEF AddTo, TypeOK
  <2>5. name[c] # Unnamed
    BY <2>2 DEF Named
  <2>6. EntryApart'
    <3> SUFFICES ASSUME NEW r \in Roles, NEW n \in Names, NEW d \in Conns,
                        dir'[r][n] # NoConn, ~Free(d)', name'[d] = n
                 PROVE  d = dir'[r][n]
      BY DEF EntryApart
    <3>1. CASE dir'[r][n] = dir[r][n]
      BY <2>1, <2>2, <3>1 DEF EntryApart
    <3>2. CASE dir'[r][n] = c /\ n = name[c]
      BY <2>1, <2>2, <2>5, <3>2 DEF Apart
    <3> QED
      BY <2>4, <3>1, <3>2
  <2> QED
    BY <1>3, <2>1, <2>2, <2>3, <2>6
<1>7. ASSUME NEW c \in Conns, DelFrom(c)
      PROVE  Named' /\ Apart' /\ EntryApart'
  <2>1. \A d \in Conns : ~Free(d)' => ~Free(d)
    BY <1>7, NoneFreed DEF Step
  <2>2. name' = name /\ flag' = flag /\ pc' = pc
    BY <1>7 DEF DelFrom
  <2>3. \A r \in Roles, n \in Names : dir'[r][n] \in {dir[r][n], NoConn}
    BY <1>7, DelFromEntries
  <2>4. Named'
    BY <2>2 DEF Named
  <2>5. EntryApart'
    BY <2>1, <2>2, <2>3 DEF EntryApart
  <2> QED
    BY <1>3, <2>1, <2>2, <2>4, <2>5
<1>8. CASE UNCHANGED vars
  <2>1. \A d \in Conns : Free(d)' <=> Free(d)
    BY <1>8 DEF vars, Free, InClients
  <2> QED
    BY <1>0, <1>8, <2>1 DEF vars, Named, Apart, EntryApart
<1> QED
  BY <1>0, <1>1, <1>2, <1>4, <1>5, <1>6, <1>7, <1>8 DEF Next, Step

LEMMA BearersInv == Spec => []Bearers
<1>1. Init => Bearers
  BY DEF Init, Bearers, TypeOK, Open, Roles, Named, Apart, EntryApart
<1>2. Bearers /\ [Next]_vars => Bearers'
  BY BearersStep
<1> QED
  BY <1>1, <1>2, PTL DEF Spec

\* A message to a name reaches one client at most (server.go:396-407), and a
\* name that exits or guards hold reaches the client they hold under it, or
\* nobody: never another that has taken the name since.
Faithful ==
    /\ \A i, j \in 1..Len(clients) :
          name[clients[i]] = name[clients[j]] /\ name[clients[i]] # Unnamed
             => i = j
    /\ \A r \in Roles, n \in Names : \A i \in 1..Len(clients) :
          dir[r][n] # NoConn /\ name[clients[i]] = n => clients[i] = dir[r][n]

\* For every client, whatever it sends and whenever its websocket breaks, the
\* registry may forget whom a name stood for, but never mistakes another for it.
THEOREM NeverMistaken == Spec => []Faithful
<1>1. ASSUME Bearers, NoTwin
      PROVE  Faithful
  <2>1. \A i \in 1..Len(clients) : clients[i] \in Conns /\ ~Free(clients[i])
    BY <1>1 DEF Bearers, TypeOK, Free, InClients
  <2>2. ASSUME NEW i \in 1..Len(clients), NEW j \in 1..Len(clients),
               name[clients[i]] = name[clients[j]], name[clients[i]] # Unnamed
        PROVE  i = j
    BY <1>1, <2>1, <2>2 DEF Bearers, Apart, NoTwin
  <2>3. ASSUME NEW r \in Roles, NEW n \in Names, NEW i \in 1..Len(clients),
               dir[r][n] # NoConn, name[clients[i]] = n
        PROVE  clients[i] = dir[r][n]
    BY <1>1, <2>1, <2>3 DEF Bearers, EntryApart
  <2> QED
    BY <2>2, <2>3 DEF Faithful
<1> QED
  BY <1>1, BearersInv, AnyClient, PTL
-----------------------------------------------------------------------------
(* For every client: the length of clients.                                *)

Opened == {c \in Conns : pc[c] \in Open}
Enough == IsFiniteSet(Opened) /\ Cardinality(Opened) <= Len(clients)

\* One client more or less, in a finite set.
LEMMA OneMore ==
    ASSUME NEW S, IsFiniteSet(S), NEW x, x \notin S
    PROVE  /\ IsFiniteSet(S \cup {x})
           /\ Cardinality(S \cup {x}) = Cardinality(S) + 1
  BY FS_AddElement

LEMMA OneLess ==
    ASSUME NEW S, IsFiniteSet(S), NEW x \in S
    PROVE  /\ IsFiniteSet(S \ {x}) /\ Cardinality(S) \in Nat
           /\ Cardinality(S \ {x}) = Cardinality(S) - 1
  BY FS_RemoveElement, FS_CardinalityType

LEMMA EnoughStep ==
    ASSUME TypeOK, Enough, [Next]_vars
    PROVE  Enough'
<1>0. Len(clients) \in Nat /\ Cardinality(Opened) \in Nat /\ IsFiniteSet(Opened)
      /\ Cardinality(Opened) <= Len(clients)
  BY FS_CardinalityType DEF TypeOK, Enough
<1>1. ASSUME NEW c \in Conns, Accept(c)
      PROVE  Enough'
  <2>1. Opened' = Opened \cup {c} /\ c \notin Opened
    BY <1>1 DEF Accept, Free, TypeOK, Opened, Open
  <2>2. Len(clients') = Len(clients) + 1
    BY <1>1 DEF Accept, TypeOK
  <2>3. IsFiniteSet(Opened') /\ Cardinality(Opened') = Cardinality(Opened) + 1
    BY <1>0, <2>1, OneMore
  <2> QED
    BY <1>0, <2>2, <2>3 DEF Enough
<1>2. ASSUME NEW c \in Conns, Disconnect(c)
      PROVE  Enough'
  <2>1. Opened' = Opened \ {c} /\ c \in Opened
    BY <1>2 DEF Disconnect, TypeOK, Opened, Open
  <2>2. PICK i \in 1..Len(clients) : clients' = SwapRemove(clients, i)
    BY <1>2 DEF Disconnect
  <2>3. Len(clients') = Len(clients) - 1
    <3>1. clients \in Seq(Conns)
      BY DEF TypeOK
    <3> QED
      BY <2>2, <3>1, SwapRemoveFacts
  <2>4. IsFiniteSet(Opened') /\ Cardinality(Opened') = Cardinality(Opened) - 1
    BY <1>0, <2>1, OneLess
  <2> QED
    BY <1>0, <2>3, <2>4 DEF Enough
<1>3. ASSUME NEW c \in Conns, DisconnectUnknown(c) \/ PickPanics(c)
      PROVE  Enough'
  <2>1. Opened' = Opened \ {c} /\ c \in Opened /\ clients' = clients
    BY <1>3 DEF DisconnectUnknown, PickPanics, TypeOK, Opened, Open
  <2>2. IsFiniteSet(Opened') /\ Cardinality(Opened') = Cardinality(Opened) - 1
    BY <1>0, <2>1, OneLess
  <2> QED
    BY <1>0, <2>1, <2>2 DEF Enough
<1>4. ASSUME NEW c \in Conns,
             \/ GetTid(c) \/ GetTssid(c) \/ Ask(c) \/ SetFlag(c) \/ AddTo(c)
             \/ ReplyTid(c) \/ Pick(c) \/ DelFrom(c) \/ Depart(c)
      PROVE  Enough'
  <2>1. Opened' = Opened /\ clients' = clients
    BY <1>4 DEF GetTid, GetTssid, Ask, SetFlag, AddTo, ReplyTid, Pick, DelFrom,
                Depart, TypeOK, Opened, Open
  <2> QED
    BY <2>1 DEF Enough
<1>5. CASE UNCHANGED vars
  BY <1>5 DEF vars, Enough, Opened, Open
<1> QED
  BY <1>1, <1>2, <1>3, <1>4, <1>5 DEF Next, Step

\* Whatever clients send and whenever their websockets break, a deletion takes
\* one entry for one websocket (server.go:250-272): clients can hold ghosts, but
\* is never shorter than the number of open websockets.
THEOREM EnoughEntries == Spec => []NoShortfall
<1>1. Init => Enough
  <2> SUFFICES ASSUME Init
               PROVE  Enough
    OBVIOUS
  <2>1. Opened = {} /\ Len(clients) = 0
    BY DEF Init, Opened, Open
  <2> QED
    BY <2>1, FS_EmptySet DEF Enough
<1>2. TypeOK /\ Enough /\ [Next]_vars => Enough'
  BY EnoughStep
<1>3. Enough => NoShortfall
  BY DEF Enough, Opened, NoShortfall
<1> QED
  BY <1>1, <1>2, <1>3, Typing, PTL DEF Spec

-----------------------------------------------------------------------------
(* When websockets break only after their gettid.                          *)

Settled == Bearers /\ NoTwin /\ OpenInClients /\ OwnVictim

\* A client that is connected, or is in clients, is pointed at.
LEMMA PointedAt ==
    ASSUME TypeOK
    PROVE  /\ \A c \in Conns : pc[c] # "closed" => ~Free(c)
           /\ \A i \in 1..Len(clients) : clients[i] \in Conns /\ ~Free(clients[i])
  BY DEF TypeOK, Free, InClients

\* DeleteClientByName finds the client of the goroutine that calls it.
LEMMA OwnDisconnect ==
    ASSUME ~EarlyDrop, Bearers, NEW c \in Conns, Disconnect(c)
    PROVE  \E i \in 1..Len(clients) :
              /\ clients[i] = c
              /\ clients' = SwapRemove(clients, i)
              /\ victim' = [victim EXCEPT ![c] = c]
<1>1. PICK i \in 1..Len(clients) :
         /\ FirstNamed(i, name[c])
         /\ clients' = SwapRemove(clients, i)
         /\ victim' = [victim EXCEPT ![c] = clients[i]]
  BY DEF Disconnect
<1>2. clients[i] \in Conns /\ ~Free(clients[i]) /\ ~Free(c)
  BY PointedAt DEF Bearers, Disconnect
<1>3. name[c] # Unnamed /\ name[clients[i]] = name[c]
  BY <1>1 DEF Disconnect, FirstNamed
<1>4. clients[i] = c
  BY <1>2, <1>3 DEF Bearers, Apart
<1> QED
  BY <1>1, <1>4

LEMMA SettledStep ==
    ASSUME ~EarlyDrop, Settled, Bearers', NoTwin', [Next]_vars
    PROVE  Settled'
<1> USE DEF Settled
<1>0. TypeOK
  BY DEF Bearers
<1>1. ASSUME NEW c \in Conns, Accept(c)
      PROVE  OpenInClients' /\ OwnVictim'
  <2>1. /\ Len(clients') = Len(clients) + 1 /\ Len(clients) \in Nat
        /\ clients'[Len(clients) + 1] = c
        /\ \A i \in 1..Len(clients) : clients'[i] = clients[i]
    BY <1>0, <1>1 DEF Accept, TypeOK
  <2>2. pc' = [pc EXCEPT ![c] = "ready"] /\ victim' = victim /\ pc[c] = "closed"
    BY <1>1 DEF Accept, Free
  <2>3. ASSUME NEW d \in Conns, pc'[d] \in Open
        PROVE  \E i \in 1..Len(clients') : clients'[i] = d
    <3>1. CASE d = c
      BY <2>1, <3>1
    <3>2. CASE d # c
      <4>1. pc[d] \in Open
        BY <1>0, <2>2, <2>3, <3>2 DEF TypeOK
      <4>2. PICK i \in 1..Len(clients) : clients[i] = d
        BY <4>1 DEF OpenInClients, InClients
      <4> QED
        BY <2>1, <4>2
    <3> QED
      BY <3>1, <3>2
  <2>4. OwnVictim'
    BY <1>0, <2>2 DEF TypeOK, OwnVictim
  <2> QED
    BY <2>3, <2>4 DEF OpenInClients, InClients, Open
<1>2. ASSUME NEW c \in Conns, Disconnect(c)
      PROVE  OpenInClients' /\ OwnVictim'
  <2>1. PICK i \in 1..Len(clients) :
           /\ clients[i] = c
           /\ clients' = SwapRemove(clients, i)
           /\ victim' = [victim EXCEPT ![c] = c]
    BY <1>2, OwnDisconnect
  <2>2. clients \in Seq(Conns) /\ Injective(clients)
    BY <1>0 DEF TypeOK, NoTwin, Injective
  <2>3. \A d \in Conns : Holds(clients', d) <=> Holds(clients, d) /\ d # c
    BY <2>1, <2>2, SwapRemoveContents
  <2>4. pc' = [pc EXCEPT ![c] = "del"]
    BY <1>2 DEF Disconnect
  <2>5. ASSUME NEW d \in Conns, pc'[d] \in Open
        PROVE  Holds(clients', d)
    <3>1. d # c /\ pc[d] \in Open
      BY <1>0, <2>4, <2>5 DEF TypeOK, Open
    <3>2. Holds(clients, d)
      BY <3>1 DEF OpenInClients, InClients, Holds
    <3> QED
      BY <2>3, <3>1, <3>2
  <2>6. OwnVictim'
    BY <1>0, <2>1, <2>4 DEF TypeOK, OwnVictim
  <2> QED
    BY <2>5, <2>6 DEF OpenInClients, InClients, Open, Holds
<1>3. ASSUME NEW c \in Conns, Depart(c)
      PROVE  OpenInClients' /\ OwnVictim'
  BY <1>0, <1>3 DEF Depart, TypeOK, Open, OpenInClients, InClients, OwnVictim
<1>4. ASSUME NEW c \in Conns,
             \/ GetTid(c) \/ GetTssid(c) \/ Ask(c) \/ DisconnectUnknown(c)
             \/ SetFlag(c) \/ AddTo(c) \/ ReplyTid(c) \/ Pick(c)
             \/ PickPanics(c) \/ DelFrom(c)
      PROVE  OpenInClients' /\ OwnVictim'
  <2>1. clients' = clients /\ victim' = victim
    BY <1>4 DEF GetTid, GetTssid, Ask, DisconnectUnknown, SetFlag, AddTo,
                ReplyTid, Pick, PickPanics, DelFrom
  <2>2. \A d \in Conns : \/ pc'[d] = pc[d]
                         \/ pc[d] \in Open /\ pc'[d] \in Open \cup {"closed"}
    BY <1>0, <1>4 DEF GetTid, GetTssid, Ask, DisconnectUnknown, SetFlag, AddTo,
                      ReplyTid, Pick, PickPanics, DelFrom, TypeOK, Open
  <2> QED
    BY <2>1, <2>2 DEF OpenInClients, InClients, OwnVictim, Open
<1>5. CASE UNCHANGED vars
  BY <1>5 DEF vars, OpenInClients, InClients, OwnVictim, Open
<1> QED
  BY <1>1, <1>2, <1>3, <1>4, <1>5 DEF Next, Step

LEMMA SettledInv ==
    ASSUME ~EarlyDrop
    PROVE  Spec => []Settled
<1>1. Init /\ Bearers /\ NoTwin => Settled
  BY DEF Init, Settled, OpenInClients, OwnVictim, Open
<1>2. Settled /\ Bearers' /\ NoTwin' /\ [Next]_vars => Settled'
  BY SettledStep
<1> QED
  BY <1>1, <1>2, BearersInv, AnyClient, PTL DEF Spec

\* A name reaches its client and no other, if websockets break only after
\* their gettid: whatever names clients take, and whatever they ask for.
THEOREM NameReaches ==
    ASSUME ~EarlyDrop
    PROVE  Spec => []Addressed
<1>1. ASSUME Settled
      PROVE  Addressed
  <2>1. /\ \A c \in Conns : pc[c] \in Open => ~Free(c)
        /\ \A i \in 1..Len(clients) : clients[i] \in Conns /\ ~Free(clients[i])
    BY <1>1, PointedAt DEF Settled, Bearers, Open
  <2>2. ASSUME NEW c \in Conns, pc[c] \in Open, name[c] # Unnamed,
               NEW i \in 1..Len(clients), name[clients[i]] = name[c]
        PROVE  clients[i] = c
    BY <1>1, <2>1, <2>2 DEF Settled, Bearers, Apart
  <2>3. ASSUME NEW c \in Conns, pc[c] \in Open, name[c] # Unnamed
        PROVE  \E i \in 1..Len(clients) : FirstNamed(i, name[c])
    <3>1. PICK i \in 1..Len(clients) : clients[i] = c
      BY <1>1, <2>3 DEF Settled, OpenInClients, InClients
    <3>2. ASSUME NEW j \in 1..(i - 1)
          PROVE  name[clients[j]] # name[c]
      <4>1. j \in 1..Len(clients) /\ j # i
        OBVIOUS
      <4>2. clients[j] # c
        BY <1>1, <3>1, <4>1 DEF Settled, NoTwin
      <4> QED
        BY <2>2, <2>3, <4>1, <4>2
    <3> QED
      BY <3>1, <3>2 DEF FirstNamed
  <2> QED
    BY <2>2, <2>3 DEF Addressed
<1> QED
  BY <1>1, SettledInv, PTL

-----------------------------------------------------------------------------
(* When clients keep their name besides: the maps.                         *)

\* Clients that are connected, or being deleted, have names of their own.
LEMMA OwnNames ==
    ASSUME Settled, NEW c \in Conns, NEW d \in Conns,
           pc[c] # "closed", pc[d] # "closed",
           name[c] = name[d], name[c] # Unnamed
    PROVE  c = d
  BY PointedAt DEF Settled, Bearers, Apart

LEMMA EnteredStep ==
    ASSUME ~EarlyDrop, ~Rename, Settled, FlagEntered, [Next]_vars
    PROVE  FlagEntered'
<1>0. TypeOK /\ Named
  BY DEF Settled, Bearers
<1>1. ASSUME NEW c \in Conns, Accept(c)
      PROVE  FlagEntered'
  BY <1>0, <1>1 DEF Accept, TypeOK, FlagEntered, Open
<1>2. ASSUME NEW c \in Conns, GetTid(c)
      PROVE  FlagEntered'
  <2>1. flag[c] = {} /\ pc[c] = "ready"
    BY <1>0, <1>2 DEF GetTid, Named
  <2> QED
    BY <1>0, <1>2, <2>1 DEF GetTid, TypeOK, FlagEntered, Open
<1>3. ASSUME NEW c \in Conns, AddTo(c)
      PROVE  FlagEntered'
  <2> PICK r : r = Head(todo[c])
    OBVIOUS
  <2>1. /\ pc[c] = "add" /\ r \in Roles /\ name[c] \in Names
        /\ dir' = [dir EXCEPT ![r][name[c]] = c]
        /\ pc' = [pc EXCEPT ![c] = "attr"]
        /\ todo' = [todo EXCEPT ![c] = Tail(@)]
        /\ UNCHANGED <<name, flag>>
    BY <1>0, <1>3 DEF AddTo, TypeOK, Named
  <2>2. /\ dir'[r][name[c]] = c
        /\ \A q \in Roles, n \in Names :
              q # r \/ n # name[c] => dir'[q][n] = dir[q][n]
    BY <1>0, <2>1 DEF TypeOK
  <2>3. ASSUME NEW d \in Conns, NEW q \in flag[d], pc'[d] \in Open
        PROVE  \/ dir'[q][name[d]] = d
               \/ pc'[d] = "add" /\ q = Head(todo'[d])
    <3>1. q \in Roles /\ name[d] \in Names
      BY <1>0 DEF TypeOK, Named
    <3>2. CASE d = c
      BY <1>0, <2>1, <2>2, <3>1, <3>2 DEF FlagEntered, TypeOK, Open
    <3>3. CASE d # c
      <4>1. pc'[d] = pc[d] /\ todo'[d] = todo[d]
        BY <1>0, <2>1, <3>3 DEF TypeOK
      <4>2. name[d] # name[c]
        BY <2>1, <2>3, <3>1, <3>3, <4>1, OwnNames, UnnamedAssumption DEF Open
      <4> QED
        BY <2>2, <2>3, <3>1, <4>1, <4>2 DEF FlagEntered
    <3> QED
      BY <3>2, <3>3
  <2> QED
    BY <2>1, <2>3 DEF FlagEntered, Open
<1>4. ASSUME NEW c \in Conns, DelFrom(c)
      PROVE  FlagEntered'
  <2>1. /\ pc[c] = "del" /\ victim[c] = c
        /\ todo' = [todo EXCEPT ![c] = Tail(@)]
        /\ UNCHANGED <<name, flag, pc>>
    BY <1>4 DEF DelFrom, Settled, OwnVictim
  <2>2. ASSUME NEW d \in Conns, NEW q \in flag[d], pc[d] \in Open
        PROVE  /\ dir'[q][name[d]] = dir[q][name[d]]
               /\ todo'[d] = todo[d]
    <3>1. d # c /\ q \in Roles /\ name[d] \in Names
      BY <1>0, <2>1, <2>2 DEF TypeOK, Named, Open
    <3>2. name[d] # name[c]
      BY <2>1, <2>2, <3>1, OwnNames, UnnamedAssumption DEF Open
    <3>3. CASE dir' = [dir EXCEPT ![Head(todo[c])][name[c]] = NoConn]
      BY <1>0, <2>1, <3>1, <3>2, <3>3 DEF TypeOK
    <3>4. CASE dir' = dir
      BY <1>0, <2>1, <3>1, <3>4 DEF TypeOK
    <3> QED
      BY <1>4, <2>1, <3>3, <3>4 DEF DelFrom
  <2> QED
    BY <2>1, <2>2 DEF FlagEntered, Open
<1>5. ASSUME NEW c \in Conns, SetFlag(c)
      PROVE  FlagEntered'
  BY <1>0, <1>5 DEF SetFlag, TypeOK, FlagEntered, Open
<1>6. ASSUME NEW c \in Conns,
             \/ Ask(c) \/ Disconnect(c) \/ DisconnectUnknown(c)
             \/ ReplyTid(c) \/ Pick(c) \/ PickPanics(c) \/ Depart(c)
      PROVE  FlagEntered'
  <2>1. /\ UNCHANGED <<dir, name, flag>>
        /\ \A d \in Conns : \/ pc'[d] = pc[d] /\ todo'[d] = todo[d]
                            \/ pc'[d] \notin Open
                            \/ pc[d] \in Open /\ pc[d] # "add"
    BY <1>0, <1>6 DEF Ask, Disconnect, DisconnectUnknown, ReplyTid, Pick,
                      PickPanics, Depart, TypeOK, Open
  <2> QED
    BY <2>1 DEF FlagEntered, Open
<1>7. ASSUME NEW c \in Conns, GetTssid(c)
      PROVE  FlagEntered'
  BY <1>7 DEF GetTssid
<1>8. CASE UNCHANGED vars
  BY <1>8 DEF vars, FlagEntered, Open
<1> QED
  BY <1>1, <1>2, <1>3, <1>4, <1>5, <1>6, <1>7, <1>8 DEF Next, Step

\* Nobody is lost, if websockets break only after their gettid and clients keep
\* their name, though they ask for hops before they are listed: a connected
\* client is in clients once, and in the map of every role it took.
THEOREM NobodyLost ==
    ASSUME ~EarlyDrop, ~Rename
    PROVE  Spec => []RegistryComplete
<1>1. Init => FlagEntered
  BY DEF Init, FlagEntered
<1>2. Settled /\ FlagEntered /\ [Next]_vars => FlagEntered'
  BY EnteredStep
<1>3. ASSUME Settled, FlagEntered
      PROVE  RegistryComplete
  <2>1. ASSUME NEW c \in Conns, pc[c] \in Open
        PROVE  \E i \in 1..Len(clients) :
                  /\ clients[i] = c
                  /\ \A j \in 1..Len(clients) : clients[j] = c => j = i
    <3>1. PICK i \in 1..Len(clients) : clients[i] = c
      BY <1>3, <2>1 DEF Settled, OpenInClients, InClients
    <3>2. \A j \in 1..Len(clients) : clients[j] = c => j = i
      BY <1>3, <3>1 DEF Settled, NoTwin
    <3> QED
      BY <3>1, <3>2
  <2> QED
    BY <1>3, <2>1 DEF RegistryComplete, FlagEntered
<1> QED
  BY <1>1, <1>2, <1>3, SettledInv, PTL DEF Spec

-----------------------------------------------------------------------------
(* When clients ask once listed, though they may take another name.        *)

\* A connected client that has a role's flag is in the role's map, under its
\* name or under one it had, or just being entered.
FlagListed ==
    \A c \in Conns : \A r \in flag[c] :
       pc[c] \in Open => \/ \E n \in Names : dir[r][n] = c
                         \/ pc[c] = "add" /\ r = Head(todo[c])

Listing == FlagListed /\ AskFlagged /\ NoStuckLock

LEMMA ListingStep ==
    ASSUME ~EarlyDrop, ~EarlyAsk, Settled, Listing, [Next]_vars
    PROVE  Listing'
<1> USE DEF Listing
<1>0. TypeOK /\ Named /\ EntryApart
  BY DEF Settled, Bearers
<1>1. ASSUME NEW c \in Conns, Accept(c)
      PROVE  Listing'
  BY <1>0, <1>1 DEF Accept, TypeOK, FlagListed, AskFlagged, NoStuckLock, Open
<1>2. ASSUME NEW c \in Conns,
             \/ GetTid(c) \/ GetTssid(c) \/ Ask(c) \/ Disconnect(c)
             \/ DisconnectUnknown(c) \/ ReplyTid(c) \/ Pick(c) \/ Depart(c)
      PROVE  Listing'
  <2>1. /\ UNCHANGED <<dir, flag, held>>
        /\ \A d \in Conns : \/ pc'[d] = pc[d] /\ todo'[d] = todo[d]
                            \/ pc'[d] \notin Open
                            \/ pc[d] \in Open /\ pc[d] # "add"
    BY <1>0, <1>2 DEF GetTid, GetTssid, Ask, Disconnect, DisconnectUnknown,
                      ReplyTid, Pick, Depart, TypeOK, Open
  <2>2. FlagListed'
    BY <2>1 DEF FlagListed, Open
  <2>3. AskFlagged'
    BY <1>0, <1>2 DEF GetTid, GetTssid, Ask, Disconnect, DisconnectUnknown,
                      ReplyTid, Pick, Depart, TypeOK, AskFlagged
  <2>4. NoStuckLock'
    BY <2>1 DEF NoStuckLock
  <2> QED
    BY <2>2, <2>3, <2>4
<1>3. ASSUME NEW c \in Conns, SetFlag(c)
      PROVE  Listing'
  BY <1>0, <1>3 DEF SetFlag, TypeOK, FlagListed, AskFlagged, NoStuckLock, Open
<1>4. ASSUME NEW c \in Conns, AddTo(c)
      PROVE  Listing'
  <2> PICK r : r = Head(todo[c])
    OBVIOUS
  <2>1. /\ pc[c] = "add" /\ r \in Roles /\ name[c] \in Names
        /\ dir' = [dir EXCEPT ![r][name[c]] = c]
        /\ pc' = [pc EXCEPT ![c] = "attr"]
        /\ todo' = [todo EXCEPT ![c] = Tail(@)]
        /\ UNCHANGED <<name, flag, held>>
    BY <1>0, <1>4 DEF AddTo, TypeOK, Named
  <2>2. /\ dir'[r][name[c]] = c
        /\ \A q \in Roles, n \in Names :
              q # r \/ n # name[c] => dir'[q][n] = dir[q][n]
    BY <1>0, <2>1 DEF TypeOK
  <2>3. ASSUME NEW d \in Conns, NEW q \in flag[d], NEW n \in Names,
               dir[q][n] = d
        PROVE  dir'[q][n] = d
    <3>1. q \in Roles /\ d # NoConn
      BY <1>0, NoConnAssumption DEF TypeOK
    <3>2. ASSUME q = r, n = name[c]
          PROVE  d = c
      <4>1. ~Free(c)
        BY <2>1 DEF Free
      <4> QED
        BY <1>0, <2>1, <2>3, <3>1, <3>2, <4>1 DEF EntryApart
    <3> QED
      BY <2>2, <2>3, <3>1, <3>2
  <2>4. FlagListed'
    <3> SUFFICES ASSUME NEW d \in Conns, NEW q \in flag[d], pc'[d] \in Open
                 PROVE  \/ \E n \in Names : dir'[q][n] = d
                        \/ pc'[d] = "add" /\ q = Head(todo'[d])
      BY <2>1 DEF FlagListed, Open
    <3>1. CASE d = c /\ q = r
      BY <2>1, <2>2, <3>1
    <3>2. CASE ~(d = c /\ q = r)
      <4>1. pc[d] \in Open
        BY <1>0, <2>1 DEF TypeOK, Open
      <4>2. \/ \E n \in Names : dir[q][n] = d
            \/ d # c /\ pc[d] = "add" /\ q = Head(todo[d])
        BY <3>2, <4>1 DEF FlagListed
      <4>3. d # c => pc'[d] = pc[d] /\ todo'[d] = todo[d]
        BY <1>0, <2>1 DEF TypeOK
      <4> QED
        BY <2>3, <4>2, <4>3
    <3> QED
      BY <3>1, <3>2
  <2>5. AskFlagged' /\ NoStuckLock'
    BY <1>0, <2>1 DEF TypeOK, AskFlagged, NoStuckLock
  <2> QED
    BY <2>4, <2>5
<1>5. ASSUME NEW c \in Conns, DelFrom(c)
      PROVE  Listing'
  <2>1. /\ pc[c] = "del" /\ victim[c] = c
        /\ todo' = [todo EXCEPT ![c] = Tail(@)]
        /\ UNCHANGED <<name, flag, pc, held>>
    BY <1>5 DEF DelFrom, Settled, OwnVictim
  <2>2. ASSUME NEW d \in Conns, NEW q \in flag[d], NEW n \in Names,
               pc[d] \in Open, dir[q][n] = d
        PROVE  dir'[q][n] = d
    <3>1. q \in Roles /\ d # NoConn /\ d # c
      BY <1>0, <2>1, <2>2, NoConnAssumption DEF TypeOK, Open
    <3>2. n # name[c]
      <4>1. ~Free(c)
        BY <2>1 DEF Free
      <4> QED
        BY <1>0, <2>2, <3>1, <4>1 DEF EntryApart
    <3>3. CASE dir' = [dir EXCEPT ![Head(todo[c])][name[c]] = NoConn]
      BY <1>0, <2>2, <3>1, <3>2, <3>3 DEF TypeOK
    <3> QED
      BY <1>5, <2>1, <2>2, <3>3 DEF DelFrom
  <2>3. \A d \in Conns : pc[d] \in Open => todo'[d] = todo[d]
    BY <1>0, <2>1 DEF TypeOK, Open
  <2>4. FlagListed'
    BY <2>1, <2>2, <2>3 DEF FlagListed, Open
  <2>5. AskFlagged' /\ NoStuckLock'
    BY <2>1, <2>3 DEF AskFlagged, NoStuckLock, Open
  <2> QED
    BY <2>4, <2>5
<1>6. ASSUME NEW c \in Conns, PickPanics(c)
      PROVE  FALSE
  <2>1. /\ pc[c] = "ask" /\ Head(todo[c]) \in flag[c]
        /\ \A n \in Names : dir[Head(todo[c])][n] = NoConn
    BY <1>6 DEF PickPanics, AskFlagged
  <2>2. PICK n \in Names : dir[Head(todo[c])][n] = c
    BY <2>1 DEF FlagListed, Open
  <2> QED
    BY <2>1, <2>2, NoConnAssumption
<1>7. CASE UNCHANGED vars
  BY <1>7 DEF vars, FlagListed, AskFlagged, NoStuckLock, Open
<1> QED
  BY <1>1, <1>2, <1>3, <1>4, <1>5, <1>6, <1>7 DEF Next, Step

\* No pick panics and leaves its lock taken (server.go:85-117), if clients ask
\* for hops only once they are listed and websockets break only after their
\* gettid: even when clients take other names, for they stay in the maps under
\* the old ones.
THEOREM NoLockLeaks ==
    ASSUME ~EarlyDrop, ~EarlyAsk
    PROVE  Spec => []NoStuckLock
<1>1. Init => Listing
  BY DEF Init, Listing, FlagListed, AskFlagged, NoStuckLock
<1>2. Settled /\ Listing /\ [Next]_vars => Listing'
  BY ListingStep
<1>3. Listing => NoStuckLock
  BY DEF Listing
<1> QED
  BY <1>1, <1>2, <1>3, SettledInv, PTL DEF Spec

-----------------------------------------------------------------------------
(* The refinement of Presence, when clients ask for hops at any time.  One *)
(* whose request panics stays in clients, and in the maps it is in.        *)

\* An entry of a map is its client's own and is still to be taken out.
EntryKept ==
    \A r \in Roles, n \in Names : dir[r][n] # NoConn =>
       /\ name[dir[r][n]] = n /\ r \in flag[dir[r][n]]
       /\ pc[dir[r][n]] = "closed" => InClients(dir[r][n])
       /\ pc[dir[r][n]] = "del" =>
             todo[dir[r][n]] \in {<<"e", "g">>, <<r>>}

\* A client that is being deleted is out of clients.
TakenOut == \A i \in 1..Len(clients) : pc[clients[i]] # "del"

Kept == EntryKept /\ TakenOut /\ DelOrder /\ AddFlagged

\* DeleteClientByName does not come back with its error.
LEMMA NotUnknown ==
    ASSUME Settled, NEW c \in Conns, DisconnectUnknown(c)
    PROVE  FALSE
  BY DEF Settled, DisconnectUnknown, OpenInClients, InClients, Open

LEMMA KeptStep ==
    ASSUME ~EarlyDrop, ~Rename, Settled, Kept, [Next]_vars
    PROVE  Kept'
<1> USE DEF Kept
<1>0. TypeOK /\ Named /\ OpenInClients /\ OwnVictim /\ NoTwin
  BY DEF Settled, Bearers
<1>1. ASSUME NEW c \in Conns, Accept(c)
      PROVE  Kept'
  <2>1. /\ Len(clients') = Len(clients) + 1 /\ Len(clients) \in Nat
        /\ clients'[Len(clients) + 1] = c
        /\ \A i \in 1..Len(clients) : clients'[i] = clients[i]
    BY <1>0, <1>1 DEF Accept, TypeOK
  <2>2. /\ pc' = [pc EXCEPT ![c] = "ready"] /\ pc[c] = "closed"
        /\ name' = [name EXCEPT ![c] = Unnamed]
        /\ flag' = [flag EXCEPT ![c] = {}]
        /\ UNCHANGED <<dir, todo>>
        /\ \A r \in Roles, n \in Names : dir[r][n] # c
        /\ ~InClients(c)
    BY <1>1 DEF Accept, Free
  <2>3. \A d \in Conns : InClients(d) => InClients(d)'
    BY <2>1 DEF InClients
  <2>4. EntryKept'
    BY <1>0, <2>2, <2>3 DEF TypeOK, EntryKept
  <2>5. TakenOut'
    <3>1. ASSUME NEW i \in 1..Len(clients')
          PROVE  pc'[clients'[i]] # "del"
      <4>1. CASE i = Len(clients) + 1
        BY <1>0, <2>1, <2>2, <4>1 DEF TypeOK
      <4>2. CASE i \in 1..Len(clients)
        <5>1. clients[i] \in Conns /\ clients[i] # c /\ pc[clients[i]] # "del"
          BY <1>0, <2>2, <4>2 DEF TypeOK, TakenOut, InClients
        <5> QED
          BY <1>0, <2>1, <2>2, <4>2, <5>1 DEF TypeOK
      <4> QED
        BY <2>1, <4>1, <4>2
    <3> QED
      BY <3>1 DEF TakenOut
  <2> QED
    BY <1>0, <2>2, <2>4, <2>5 DEF TypeOK, DelOrder, AddFlagged
<1>2. ASSUME NEW c \in Conns, GetTid(c)
      PROVE  Kept'
  <2>1. /\ pc[c] = "ready" /\ name[c] = Unnamed
        /\ pc' = [pc EXCEPT ![c] = "attr"]
        /\ UNCHANGED <<clients, dir, flag>>
        /\ \A d \in Conns : d # c => name'[d] = name[d] /\ todo'[d] = todo[d]
    BY <1>0, <1>2 DEF GetTid, TypeOK
  <2>2. \A r \in Roles, n \in Names : dir[r][n] # c
    BY <2>1, NoConnAssumption, UnnamedAssumption DEF EntryKept
  <2>3. EntryKept'
    BY <1>0, <2>1, <2>2 DEF TypeOK, EntryKept, InClients
  <2>4. TakenOut'
    BY <1>0, <2>1 DEF TypeOK, TakenOut
  <2> QED
    BY <1>0, <2>1, <2>3, <2>4 DEF TypeOK, DelOrder, AddFlagged
<1>3. ASSUME NEW c \in Conns, AddTo(c)
      PROVE  Kept'
  <2> PICK r : r = Head(todo[c])
    OBVIOUS
  <2>1. /\ pc[c] = "add" /\ r \in flag[c] /\ name[c] \in Names
        /\ dir' = [dir EXCEPT ![r][name[c]] = c]
        /\ pc' = [pc EXCEPT ![c] = "attr"]
        /\ UNCHANGED <<clients, name, flag>>
        /\ \A d \in Conns : d # c => todo'[d] = todo[d]
    BY <1>0, <1>3 DEF AddTo, TypeOK, Named, AddFlagged
  <2>2. r \in Roles
    BY <1>0, <2>1 DEF TypeOK
  <2>3. \A q \in Roles, n \in Names :
           dir'[q][n] = dir[q][n] \/ (q = r /\ n = name[c] /\ dir'[q][n] = c)
    BY <1>0, <2>1, <2>2 DEF TypeOK
  <2>4. EntryKept'
    BY <1>0, <2>1, <2>3 DEF TypeOK, EntryKept, InClients
  <2>5. TakenOut'
    BY <1>0, <2>1 DEF TypeOK, TakenOut
  <2> QED
    BY <1>0, <2>1, <2>4, <2>5 DEF TypeOK, DelOrder, AddFlagged
<1>4. ASSUME NEW c \in Conns, Disconnect(c)
      PROVE  Kept'
  <2>1. /\ pc' = [pc EXCEPT ![c] = "del"]
        /\ todo' = [todo EXCEPT ![c] = <<"e", "g">>]
        /\ UNCHANGED <<dir, name, flag>>
    BY <1>4 DEF Disconnect
  <2>2. PICK i \in 1..Len(clients) :
           clients[i] = c /\ clients' = SwapRemove(clients, i)
    BY <1>4, OwnDisconnect DEF Settled
  <2>3. clients \in Seq(Conns) /\ Injective(clients)
    BY <1>0 DEF TypeOK, NoTwin, Injective
  <2>4. \A d \in Conns : Holds(clients', d) <=> Holds(clients, d) /\ d # c
    BY <2>2, <2>3, SwapRemoveContents
  <2>5. clients' \in Seq(Conns)
    BY <2>2, <2>3, SwapRemoveFacts
  <2>6. EntryKept'
    <3>1. \A d \in Conns : d # c => /\ InClients(d) => InClients(d)'
                                    /\ pc'[d] = pc[d] /\ todo'[d] = todo[d]
      BY <1>0, <2>1, <2>4 DEF TypeOK, InClients, Holds
    <3>2. pc'[c] = "del" /\ todo'[c] = <<"e", "g">>
      BY <1>0, <2>1 DEF TypeOK
    <3>3. ASSUME NEW q \in Roles, NEW n \in Names, dir[q][n] # NoConn
          PROVE  dir[q][n] \in Conns
      BY <1>0, <3>3 DEF TypeOK
    <3> QED
      BY <2>1, <3>1, <3>2, <3>3 DEF EntryKept
  <2>7. TakenOut'
    <3>1. ASSUME NEW j \in 1..Len(clients')
          PROVE  pc'[clients'[j]] # "del"
      <4>1. clients'[j] \in Conns /\ Holds(clients', clients'[j])
        BY <2>5 DEF Holds
      <4>2. Holds(clients, clients'[j]) /\ clients'[j] # c
        BY <2>4, <4>1
      <4> QED
        BY <1>0, <2>1, <4>1, <4>2 DEF TypeOK, TakenOut, Holds
    <3> QED
      BY <3>1 DEF TakenOut
  <2> QED
    BY <1>0, <2>1, <2>6, <2>7 DEF TypeOK, DelOrder, AddFlagged
<1>5. ASSUME NEW c \in Conns, DelFrom(c)
      PROVE  Kept'
  <2>1. /\ pc[c] = "del" /\ victim[c] = c /\ todo[c] # << >>
        /\ todo' = [todo EXCEPT ![c] = Tail(todo[c])]
        /\ UNCHANGED <<clients, name, flag, pc>>
        /\ \/ Head(todo[c]) \notin flag[c]
           \/ dir' = [dir EXCEPT ![Head(todo[c])][name[c]] = NoConn]
    BY <1>0, <1>5 DEF DelFrom, OwnVictim
  <2>2. \A q \in Roles, n \in Names : dir'[q][n] \in {dir[q][n], NoConn}
    BY <1>0, <1>5, DelFromEntries
  <2>3. ASSUME NEW q \in Roles, NEW n \in Names, dir'[q][n] # NoConn
        PROVE  /\ name'[dir'[q][n]] = n /\ q \in flag'[dir'[q][n]]
               /\ pc'[dir'[q][n]] = "closed" =>
                     \E j \in 1..Len(clients') : clients'[j] = dir'[q][n]
               /\ pc'[dir'[q][n]] = "del" =>
                     todo'[dir'[q][n]] \in {<<"e", "g">>, <<q>>}
    <3>1. /\ dir'[q][n] = dir[q][n] /\ dir[q][n] # NoConn
          /\ dir[q][n] \in Conns
      BY <1>0, <2>2, <2>3 DEF TypeOK
    <3>2. CASE dir[q][n] = c
      <4>1. name[c] = n /\ q \in flag[c] /\ todo[c] \in {<<"e", "g">>, <<q>>}
        BY <2>1, <3>1, <3>2 DEF EntryKept
      <4>2. q # Head(todo[c])
        BY <1>0, <2>1, <2>3, <4>1 DEF TypeOK
      <4>3. todo[c] = <<"e", "g">> /\ q = "g"
        BY <4>1, <4>2 DEF Roles
      <4>4. todo'[c] = <<q>>
        BY <1>0, <2>1, <4>3 DEF TypeOK
      <4> QED
        BY <2>1, <3>1, <3>2, <4>1, <4>4
    <3>3. CASE dir[q][n] # c
      <4>1. todo'[dir[q][n]] = todo[dir[q][n]]
        BY <1>0, <2>1, <3>1, <3>3 DEF TypeOK
      <4>2. /\ name[dir[q][n]] = n /\ q \in flag[dir[q][n]]
            /\ pc[dir[q][n]] = "closed" =>
                  \E j \in 1..Len(clients) : clients[j] = dir[q][n]
            /\ pc[dir[q][n]] = "del" =>
                  todo[dir[q][n]] \in {<<"e", "g">>, <<q>>}
        BY <3>1 DEF EntryKept, InClients
      <4> QED
        BY <2>1, <3>1, <4>1, <4>2
    <3> QED
      BY <3>2, <3>3
  <2>4. EntryKept'
    BY <2>3 DEF EntryKept, InClients
  <2>5. DelOrder'
    <3>1. todo[c] \in {<<"e", "g">>, <<"g">>}
      BY <2>1 DEF DelOrder
    <3>2. Tail(<<"e", "g">>) = <<"g">> /\ Tail(<<"g">>) = << >>
      OBVIOUS
    <3> QED
      BY <1>0, <2>1, <3>1, <3>2 DEF TypeOK, DelOrder
  <2> QED
    BY <1>0, <2>1, <2>4, <2>5 DEF TypeOK, TakenOut, AddFlagged
<1>6. ASSUME NEW c \in Conns, Depart(c)
      PROVE  Kept'
  <2>1. /\ pc[c] = "del" /\ todo[c] = << >>
        /\ pc' = [pc EXCEPT ![c] = "closed"]
        /\ UNCHANGED <<clients, dir, name, flag, todo>>
    BY <1>6 DEF Depart
  <2>2. \A r \in Roles, n \in Names : dir[r][n] # c
    BY <2>1, NoConnAssumption DEF EntryKept
  <2> QED
    BY <1>0, <2>1, <2>2
    DEF TypeOK, EntryKept, TakenOut, DelOrder, AddFlagged, InClients
<1>7. ASSUME NEW c \in Conns, PickPanics(c)
      PROVE  Kept'
  <2>1. /\ pc[c] = "ask" /\ pc' = [pc EXCEPT ![c] = "closed"]
        /\ UNCHANGED <<clients, dir, name, flag>>
        /\ \A d \in Conns : d # c => todo'[d] = todo[d]
    BY <1>0, <1>7 DEF PickPanics, TypeOK
  <2>2. InClients(c)
    BY <1>0, <2>1 DEF OpenInClients, Open
  <2> QED
    BY <1>0, <2>1, <2>2
    DEF TypeOK, EntryKept, TakenOut, DelOrder, AddFlagged, InClients
<1>8. ASSUME NEW c \in Conns, SetFlag(c)
      PROVE  Kept'
  BY <1>0, <1>8
  DEF SetFlag, TypeOK, EntryKept, TakenOut, DelOrder, AddFlagged, InClients
<1>9. ASSUME NEW c \in Conns, Ask(c) \/ ReplyTid(c) \/ Pick(c)
      PROVE  Kept'
  <2>1. /\ pc[c] \in Open \ {"add"} /\ pc'[c] \in Open \ {"add"}
        /\ \A d \in Conns : d # c => pc'[d] = pc[d] /\ todo'[d] = todo[d]
        /\ UNCHANGED <<clients, dir, name, flag>>
    BY <1>0, <1>9 DEF Ask, ReplyTid, Pick, TypeOK, Open
  <2>2. \A d \in Conns :
           \/ pc'[d] = pc[d] /\ todo'[d] = todo[d]
           \/ pc'[d] \notin {"add", "del", "closed"}
    BY <1>0, <2>1 DEF TypeOK, Open
  <2>3. EntryKept'
    BY <1>0, <2>1, <2>2 DEF TypeOK, EntryKept, InClients
  <2>4. TakenOut'
    BY <1>0, <2>1, <2>2 DEF TypeOK, TakenOut
  <2> QED
    BY <1>0, <2>1, <2>2, <2>3, <2>4 DEF DelOrder, AddFlagged
<1>10. ASSUME NEW c \in Conns, GetTssid(c) \/ DisconnectUnknown(c)
       PROVE  FALSE
  BY <1>10, NotUnknown DEF GetTssid
<1>11. CASE UNCHANGED vars
  BY <1>11
  DEF vars, EntryKept, TakenOut, DelOrder, AddFlagged, InClients
<1> QED
  BY <1>1, <1>2, <1>3, <1>4, <1>5, <1>6, <1>7, <1>8, <1>9, <1>10, <1>11
  DEF Next, Step

-----------------------------------------------------------------------------
(* The refinement mapping, read off the goroutine and the entry under the  *)
(* client's own name.                                                      *)
Entered(c) == {r \in Roles : name[c] \in Names /\ dir[r][name[c]] = c}

Mapping ==
    \A c \in Conns :
       /\ Phase(c) = IF InClients(c) THEN "present"
                     ELSE IF pc[c] = "del" THEN "leaving" ELSE "absent"
       /\ Offered(c) = Entered(c)

Ordered == Settled /\ Kept /\ Mapping

LEMMA MappingFacts == Settled /\ Kept => Mapping
<1> SUFFICES ASSUME Settled, Kept, NEW c \in Conns
             PROVE  /\ Phase(c) = IF InClients(c) THEN "present"
                                  ELSE IF pc[c] = "del" THEN "leaving"
                                                        ELSE "absent"
                    /\ Offered(c) = Entered(c)
  BY DEF Mapping
<1>1. (\E d \in Conns : victim[d] = c) <=> pc[c] = "del"
  BY NoConnAssumption DEF Settled, OwnVictim
<1>2. \A r \in Roles : (\E n \in Names : dir[r][n] = c)
                          <=> name[c] \in Names /\ dir[r][name[c]] = c
  BY NoConnAssumption DEF Kept, EntryKept
<1> QED
  BY <1>1, <1>2 DEF Phase, Offered, Entered

(* Every step of Rendezvous is a step of Presence, or changes nothing that *)
(* Presence sees.                                                          *)
LEMMA ImplementsStep ==
    ASSUME ~EarlyDrop, ~Rename, Ordered, Ordered', [Next]_vars
    PROVE  [P!Next]_(P!vars)
<1> DEFINE phase == [c \in Conns |-> Phase(c)]
           offered == [c \in Conns |-> Offered(c)]
<1>1. \A d \in Conns :
         /\ phase[d] = IF InClients(d) THEN "present"
                       ELSE IF pc[d] = "del" THEN "leaving" ELSE "absent"
         /\ offered[d] = Entered(d)
  BY DEF Ordered, Mapping
<1>2. \A d \in Conns :
         /\ phase'[d] = IF InClients(d)' THEN "present"
                        ELSE IF pc'[d] = "del" THEN "leaving" ELSE "absent"
         /\ offered'[d] = Entered(d)'
  BY DEF Ordered, Mapping
<1>3. TypeOK /\ TypeOK' /\ Named /\ OwnVictim /\ EntryKept
  BY DEF Ordered, Settled, Bearers, Kept
<1>4. \A d \in Conns : pc[d] \in Open => InClients(d)
  BY DEF Ordered, Settled, OpenInClients
<1>5. /\ phase = [d \in Conns |-> phase[d]] /\ phase' = [d \in Conns |-> phase'[d]]
      /\ offered = [d \in Conns |-> offered[d]]
      /\ offered' = [d \in Conns |-> offered'[d]]
  OBVIOUS
<1> HIDE DEF phase, offered
<1>6. ASSUME NEW d \in Conns, InClients(d)' <=> InClients(d),
             InClients(d) \/ pc'[d] = pc[d]
      PROVE  phase'[d] = phase[d]
  BY <1>1, <1>2, <1>6
<1>7. ASSUME UNCHANGED <<phase, offered>>
      PROVE  [P!Next]_(P!vars)
  BY <1>7 DEF P!vars, phase, offered
<1>8. ASSUME NEW d \in Conns, name'[d] = name[d],
             name[d] \in Names => \A r \in Roles :
                dir'[r][name[d]] = d <=> dir[r][name[d]] = d
      PROVE  offered'[d] = offered[d]
  <2>1. Entered(d)' = Entered(d)
    BY <1>8 DEF Entered
  <2>2. QED
    BY <1>1, <1>2, <2>1
<1>9. ASSUME NEW c \in Conns, Accept(c)
      PROVE  P!Next
  <2>1. /\ pc[c] = "closed" /\ pc' = [pc EXCEPT ![c] = "ready"]
        /\ name' = [name EXCEPT ![c] = Unnamed] /\ dir' = dir
        /\ ~InClients(c) /\ \A r \in Roles, n \in Names : dir[r][n] # c
    BY <1>9 DEF Accept, Free
  <2>2. \A d \in Conns : InClients(d)' <=> InClients(d) \/ d = c
    <3>1. /\ Len(clients') = Len(clients) + 1 /\ Len(clients) \in Nat
          /\ clients'[Len(clients) + 1] = c
          /\ \A i \in 1..Len(clients) : clients'[i] = clients[i]
      BY <1>3, <1>9 DEF Accept, TypeOK
    <3>2. \A i \in 1..Len(clients') :
             i \in 1..Len(clients) \/ i = Len(clients) + 1
      BY <3>1
    <3> QED
      BY <3>1, <3>2 DEF InClients
  <2>3. phase[c] = "absent" /\ phase'[c] = "present"
    BY <1>1, <1>2, <2>1, <2>2
  <2>4. \A d \in Conns : d # c => phase'[d] = phase[d]
    BY <1>3, <1>6, <2>1, <2>2 DEF TypeOK
  <2>5. \A d \in Conns : offered'[d] = offered[d]
    <3>1. offered'[c] = {} /\ offered[c] = {}
      BY <1>1, <1>2, <1>3, <2>1, UnnamedAssumption DEF TypeOK, Entered
    <3>2. \A d \in Conns : d # c => offered'[d] = offered[d]
      BY <1>3, <1>8, <2>1 DEF TypeOK
    <3> QED
      BY <3>1, <3>2
  <2>6. P!Join(c)
    BY <1>5, <2>3, <2>4, <2>5 DEF P!Join, phase, offered
  <2> QED
    BY <2>6 DEF P!Next
<1>10. ASSUME NEW c \in Conns, GetTid(c)
       PROVE  UNCHANGED <<phase, offered>>
  <2>1. PICK n \in Names : Fresh(n) /\ name' = [name EXCEPT ![c] = n]
    BY <1>10 DEF GetTid
  <2>2. /\ pc[c] = "ready" /\ pc' = [pc EXCEPT ![c] = "attr"]
        /\ name[c] = Unnamed /\ UNCHANGED <<clients, dir>>
    BY <1>10 DEF GetTid
  <2>3. \A d \in Conns : phase'[d] = phase[d]
    BY <1>3, <1>4, <1>6, <2>2 DEF TypeOK, Open, InClients
  <2>4. \A d \in Conns : offered'[d] = offered[d]
    <3>1. offered[c] = {}
      BY <1>1, <2>2, UnnamedAssumption DEF Entered
    <3>2. offered'[c] = {}
      BY <1>2, <1>3, <2>1, <2>2, NoConnAssumption DEF Fresh, TypeOK, Entered
    <3>3. \A d \in Conns : d # c => offered'[d] = offered[d]
      BY <1>3, <1>8, <2>1, <2>2 DEF TypeOK
    <3> QED
      BY <3>1, <3>2, <3>3
  <2> QED
    BY <1>5, <2>3, <2>4
<1>11. ASSUME NEW c \in Conns, AddTo(c)
       PROVE  P!Next
  <2> DEFINE r == Head(todo[c])
  <2>1. /\ pc[c] = "add" /\ pc' = [pc EXCEPT ![c] = "attr"]
        /\ dir' = [dir EXCEPT ![r][name[c]] = c] /\ UNCHANGED <<clients, name>>
        /\ r \in Roles /\ name[c] \in Names
    BY <1>3, <1>11 DEF AddTo, TypeOK, Named
  <2> HIDE DEF r
  <2>2. InClients(c)
    BY <1>4, <2>1 DEF Open
  <2>3. \A d \in Conns : phase'[d] = phase[d]
    BY <1>3, <1>6, <2>1, <2>2 DEF TypeOK, InClients
  <2>4. \A d \in Conns : d # c => offered'[d] = offered[d]
    <3>1. ASSUME NEW d \in Conns, d # c, name[d] = name[c]
          PROVE  dir[r][name[c]] # d
      <4>1. ~Free(c)
        BY <2>1 DEF Free
      <4>2. dir[r][name[c]] = d => ~Free(d)
        BY <2>1 DEF Free
      <4> QED
        BY <2>1, <3>1, <4>1, <4>2, UnnamedAssumption
           DEF Ordered, Settled, Bearers, Apart
    <3> QED
      BY <1>3, <1>8, <2>1, <3>1 DEF TypeOK
  <2>5. offered'[c] = offered[c] \cup {r}
    <3>1. Entered(c)' = Entered(c) \cup {r}
      BY <1>3, <2>1 DEF TypeOK, Entered
    <3> QED
      BY <1>1, <1>2, <3>1
  <2>6. phase[c] = "present"
    BY <1>1, <2>2
  <2>7. P!Offer(c, r)
    BY <1>5, <2>3, <2>4, <2>5, <2>6 DEF P!Offer, phase, offered
  <2> QED
    BY <2>1, <2>7 DEF P!Next
<1>12. ASSUME NEW c \in Conns, Disconnect(c)
       PROVE  P!Next
  <2>1. /\ pc[c] = "ready" /\ pc' = [pc EXCEPT ![c] = "del"]
        /\ UNCHANGED <<dir, name>>
    BY <1>12 DEF Disconnect
  <2>2. \A d \in Conns : InClients(d)' <=> InClients(d) /\ d # c
    <3>1. PICK i \in 1..Len(clients) :
             clients[i] = c /\ clients' = SwapRemove(clients, i)
      BY <1>12, OwnDisconnect DEF Ordered, Settled
    <3>2. clients \in Seq(Conns) /\ Injective(clients)
      BY <1>3 DEF TypeOK, Ordered, Settled, NoTwin, Injective
    <3>3. \A d \in Conns : Holds(clients', d) <=> Holds(clients, d) /\ d # c
      BY <3>1, <3>2, SwapRemoveContents
    <3> QED
      BY <3>3 DEF Holds, InClients
  <2>3. phase[c] = "present" /\ phase'[c] = "leaving"
    BY <1>1, <1>2, <1>3, <1>4, <2>1, <2>2 DEF TypeOK, Open
  <2>4. \A d \in Conns : d # c => phase'[d] = phase[d]
    BY <1>3, <1>6, <2>1, <2>2 DEF TypeOK
  <2>5. \A d \in Conns : offered'[d] = offered[d]
    BY <1>8, <2>1
  <2>6. P!Leave(c)
    BY <1>5, <2>3, <2>4, <2>5 DEF P!Leave, phase, offered
  <2> QED
    BY <2>6 DEF P!Next
<1>13. ASSUME NEW c \in Conns, pc[c] = "del"
       PROVE  phase[c] = "leaving" /\ ~InClients(c)
  BY <1>1, <1>13 DEF Ordered, Kept, TakenOut, InClients
<1>14. ASSUME NEW c \in Conns, DelFrom(c)
       PROVE  P!Next \/ UNCHANGED <<phase, offered>>
  <2> DEFINE r == Head(todo[c])
  <2>0. pc[c] = "del" /\ victim[c] = c /\ todo[c] # << >>
    BY <1>3, <1>14 DEF DelFrom, OwnVictim
  <2>1. /\ pc[c] = "del" /\ UNCHANGED <<clients, pc, name>> /\ r \in Roles
        /\ \/ r \in flag[c] /\ dir' = [dir EXCEPT ![r][name[c]] = NoConn]
           \/ UNCHANGED dir
    <3>1. r \in Roles
      BY <1>3, <2>0 DEF TypeOK
    <3> QED
      BY <1>14, <2>0, <3>1 DEF DelFrom
  <2> HIDE DEF r
  <2>2. \A d \in Conns : phase'[d] = phase[d]
    BY <1>6, <2>1 DEF InClients
  <2>3. CASE UNCHANGED dir
    BY <1>5, <1>8, <2>1, <2>2, <2>3
  <2>4. CASE r \in flag[c] /\ dir' = [dir EXCEPT ![r][name[c]] = NoConn]
    <3>1. name[c] \in Names
      BY <1>3, <2>4 DEF Named, TypeOK
    <3>2. \A d \in Conns : d # c => offered'[d] = offered[d]
      <4>1. ASSUME NEW d \in Conns, d # c, name[d] = name[c]
            PROVE  dir[r][name[c]] # d
        <5>1. ~Free(c)
          BY <2>1 DEF Free
        <5>2. dir[r][name[c]] = d => ~Free(d)
          BY <2>1, <3>1 DEF Free
        <5> QED
          BY <3>1, <4>1, <5>1, <5>2, UnnamedAssumption
             DEF Ordered, Settled, Bearers, Apart
      <4> QED
        BY <1>3, <1>8, <2>1, <2>4, <3>1, <4>1, NoConnAssumption DEF TypeOK
    <3>3. offered'[c] = offered[c] \ {r}
      <4>1. Entered(c)' = Entered(c) \ {r}
        BY <1>3, <2>1, <2>4, <3>1, NoConnAssumption DEF TypeOK, Entered
      <4> QED
        BY <1>1, <1>2, <4>1
    <3>4. P!Withdraw(c, r)
      BY <1>5, <1>13, <2>1, <2>2, <3>2, <3>3 DEF P!Withdraw, phase, offered
    <3> QED
      BY <2>1, <3>4 DEF P!Next
  <2> QED
    BY <2>1, <2>3, <2>4
<1>15. ASSUME NEW c \in Conns, Depart(c)
       PROVE  P!Next
  <2>1. /\ pc[c] = "del" /\ pc' = [pc EXCEPT ![c] = "closed"]
        /\ UNCHANGED <<clients, dir, name>> /\ todo[c] = << >>
    BY <1>15 DEF Depart
  <2>2. phase[c] = "leaving" /\ phase'[c] = "absent"
    BY <1>2, <1>3, <1>13, <2>1 DEF TypeOK, InClients
  <2>3. \A d \in Conns : d # c => phase'[d] = phase[d]
    BY <1>3, <1>6, <2>1 DEF TypeOK, InClients
  <2>4. \A d \in Conns : offered'[d] = offered[d]
    BY <1>8, <2>1
  <2>5. offered[c] = {}
    <3>1. \A r \in Roles, n \in Names : dir[r][n] # c
      BY <1>3, <2>1, NoConnAssumption DEF EntryKept
    <3> QED
      BY <1>1, <3>1 DEF Entered
  <2>6. P!Gone(c)
    BY <1>5, <2>2, <2>3, <2>4, <2>5 DEF P!Gone, phase, offered
  <2> QED
    BY <2>6 DEF P!Next
<1>16. ASSUME NEW c \in Conns,
              SetFlag(c) \/ ReplyTid(c) \/ Ask(c) \/ Pick(c) \/ PickPanics(c)
       PROVE  UNCHANGED <<phase, offered>>
  <2>1. /\ UNCHANGED <<clients, dir, name>> /\ pc[c] \in Open
        /\ \A d \in Conns : d # c => pc'[d] = pc[d]
    BY <1>3, <1>16
       DEF SetFlag, ReplyTid, Ask, Pick, PickPanics, TypeOK, Open
  <2>2. \A d \in Conns : phase'[d] = phase[d]
    BY <1>4, <1>6, <2>1 DEF InClients
  <2> QED
    BY <1>5, <1>8, <2>1, <2>2
<1>17. ASSUME NEW c \in Conns, GetTssid(c) \/ DisconnectUnknown(c)
       PROVE  FALSE
  BY <1>17, NotUnknown DEF GetTssid, Ordered
<1>18. CASE UNCHANGED vars
  <2>1. UNCHANGED <<clients, dir, name, pc>>
    BY <1>18 DEF vars
  <2>2. \A d \in Conns : phase'[d] = phase[d]
    BY <1>6, <2>1 DEF InClients
  <2> QED
    BY <1>5, <1>7, <1>8, <2>1, <2>2
<1> QED
  BY <1>7, <1>9, <1>10, <1>11, <1>12, <1>14, <1>15, <1>16, <1>17, <1>18
     DEF Next, Step

\* The registry implements Presence, if websockets break only after their
\* gettid and clients keep their name, whenever they ask for hops: a client is
\* offered (server.go:72-83, 119-129) only while it is in clients, and who took it out
\* withdraws it from both maps before its goroutine ends (server.go:250-272).
THEOREM Implements ==
    ASSUME ~EarlyDrop, ~Rename
    PROVE  Spec => ImplementsPresence
<1>1. Init => P!Init
  <2> SUFFICES ASSUME Init
               PROVE  P!Init
    OBVIOUS
  <2>1. \A c \in Conns : Phase(c) = "absent"
    BY NoConnAssumption DEF Init, Phase, InClients
  <2>2. \A c \in Conns : Offered(c) = {}
    BY NoConnAssumption DEF Init, Offered
  <2>3. QED
    BY <2>1, <2>2 DEF P!Init
<1>2. Init => Kept
  BY DEF Init, Kept, EntryKept, TakenOut, DelOrder, AddFlagged
<1>3. Settled /\ Kept /\ [Next]_vars => Kept'
  BY KeptStep
<1>4. Settled /\ Kept => Ordered
  BY MappingFacts DEF Ordered
<1>5. Ordered /\ Ordered' /\ [Next]_vars => [P!Next]_(P!vars)
  BY ImplementsStep
<1> QED
  BY <1>1, <1>2, <1>3, <1>4, <1>5, SettledInv, PTL
     DEF Spec, ImplementsPresence, P!Spec
=============================================================================
