----------------------------- MODULE Rendezvous -----------------------------
(***************************************************************************)
(* The rendezvous server's registry: the slice of connected clients and    *)
(* the two maps of exit and guard nodes that minedive/server.go keeps, and *)
(* the handlers of minedive/cmd/mined/main.go that change them.  Every     *)
(* websocket has one goroutine (MinediveAccept), which reads a message,    *)
(* dispatches it to the end and reads the next.  The goroutines interleave *)
(* at the locks: clients has a mutex, each map a readers-writer lock.      *)
(*                                                                         *)
(* A MinediveClient object is a member of Conns, taken when a websocket is *)
(* accepted and reused when nothing points at it any more.  Messages that  *)
(* leave the registry alone (ping, pubk, getk, offer, ...) are stuttering  *)
(* steps; which node a pick returns is the subject of HopSelection.        *)
(***************************************************************************)
EXTENDS Naturals, Sequences, FiniteSets

CONSTANTS
    Conns,      \* MinediveClient objects, one per open websocket
    Names,      \* what GetRandomName draws from
    Unnamed,    \* the Name of a client before its gettid: the zero value ""
    NoConn,     \* no client: a nil pointer, or a name a map does not hold
    AttrLists,  \* the attribute lists D1 that clients send with a gettid
    EarlyDrop,  \* a websocket may break before its gettid is handled
    EarlyAsk,   \* a client may ask for a hop before it is listed itself
    Rename      \* a named client may send gettssid, or gettid again

Roles == {"e", "g"}                   \* the maps exits and guards

ASSUME NoConnAssumption  == NoConn \notin Conns
ASSUME UnnamedAssumption == Unnamed \notin Names
ASSUME AttrAssumption    == AttrLists \subseteq Seq(Roles)
ASSUME FlagAssumption    == {EarlyDrop, EarlyAsk, Rename} \subseteq BOOLEAN

VARIABLES
    clients,    \* s.clients
    dir,        \* dir["e"] is s.exits and dir["g"] is s.guards: name -> client
    name,       \* cli.Name
    flag,       \* the roles r whose cli.Exit / cli.Guard is set
    pc,         \* where the goroutine of a client is
    todo,       \* the roles its current loop has still to handle
    victim,     \* the entry DeleteClientByName took out of clients
    held        \* a goroutine died holding the read lock of dir[r]

vars == <<clients, dir, name, flag, pc, todo, victim, held>>

Open == {"ready", "attr", "add", "ask"}

TypeOK ==
    /\ clients \in Seq(Conns)
    /\ dir \in [Roles -> [Names -> Conns \cup {NoConn}]]
    /\ name \in [Conns -> Names \cup {Unnamed}]
    /\ flag \in [Conns -> SUBSET Roles]
    /\ pc \in [Conns -> Open \cup {"del", "closed"}]
    /\ todo \in [Conns -> Seq(Roles)]
    /\ victim \in [Conns -> Conns \cup {NoConn}]
    /\ held \in [Roles -> BOOLEAN]
    /\ \A c \in Conns : /\ pc[c] \in {"add", "ask"} => todo[c] # << >>
                        /\ pc[c] = "del" => victim[c] \in Conns

Init ==
    /\ clients = << >>
    /\ dir = [r \in Roles |-> [n \in Names |-> NoConn]]
    /\ name = [c \in Conns |-> Unnamed]
    /\ flag = [c \in Conns |-> {}]
    /\ pc = [c \in Conns |-> "closed"]
    /\ todo = [c \in Conns |-> << >>]
    /\ victim = [c \in Conns |-> NoConn]
    /\ held = [r \in Roles |-> FALSE]

-----------------------------------------------------------------------------
InClients(c) == \E i \in 1..Len(clients) : clients[i] = c

\* Nothing reaches the object any more: the next websocket may be it.
Free(c) ==
    /\ pc[c] = "closed"
    /\ ~InClients(c)
    /\ \A r \in Roles, n \in Names : dir[r][n] # c
    /\ \A d \in Conns : victim[d] # c

\* Mutant: a name is drawn anew only against the names in the two maps.
FreshInMaps(n) == \A r \in Roles : dir[r][n] = NoConn

\* GetRandomName is taken to draw a name nobody holds: 24 random bytes.
Fresh(n) ==
    /\ \A c \in Conns : ~Free(c) => name[c] # n
    /\ \A r \in Roles : dir[r][n] = NoConn

\* The entry the loops over clients find first for a name.
FirstNamed(i, n) ==
    /\ i \in 1..Len(clients) /\ name[clients[i]] = n
    /\ \A j \in 1..(i - 1) : name[clients[j]] # n

\* Mutant: the last slot is set to nil, and the slice is not cut.
SwapRemoveUncut(s, i) ==
    [j \in 1..Len(s) |->
        IF j = Len(s) THEN NoConn ELSE IF j = i THEN s[Len(s)] ELSE s[j]]

\* Mutant: the slice is cut, and the last client not moved to the hole.
SwapRemoveUnmoved(s, i) == SubSeq(s, 1, Len(s) - 1)

\* s.clients[n] = s.clients[len-1]; s.clients = s.clients[:len-1]
SwapRemove(s, i) ==
    [j \in 1..(Len(s) - 1) |-> IF j = i THEN s[Len(s)] ELSE s[j]]

\* A goroutine is at, or about to be at, the write lock of a map.
WriterQueued(r) ==
    \E c \in Conns : /\ todo[c] # << >> /\ Head(todo[c]) = r
                     /\ \/ pc[c] = "add"
                        \/ pc[c] = "del" /\ r \in flag[victim[c]]

-----------------------------------------------------------------------------
(* A websocket is accepted: its client is appended and its loop begins.    *)
Accept(c) ==
    /\ Free(c)
    /\ clients' = Append(clients, c)
    /\ name' = [name EXCEPT ![c] = Unnamed]
    /\ flag' = [flag EXCEPT ![c] = {}]
    /\ pc' = [pc EXCEPT ![c] = "ready"]
    /\ UNCHANGED <<dir, todo, victim, held>>

\* Mutant: gettid, not the accept, is what adds the client, once more.
GetTidAppends(c) ==
    /\ pc[c] = "ready"
    /\ name[c] = Unnamed \/ Rename
    /\ clients' = Append(clients, c)
    /\ \E n \in Names : Fresh(n) /\ name' = [name EXCEPT ![c] = n]
    /\ \E attrs \in AttrLists : todo' = [todo EXCEPT ![c] = attrs]
    /\ pc' = [pc EXCEPT ![c] = "attr"]
    /\ UNCHANGED <<dir, flag, victim, held>>

(* gettid: the client is named, then the loop over its attributes starts.  *)
GetTid(c) ==
    /\ pc[c] = "ready"
    /\ name[c] = Unnamed \/ Rename
    /\ \E n \in Names : Fresh(n) /\ name' = [name EXCEPT ![c] = n]
    /\ \E attrs \in AttrLists : todo' = [todo EXCEPT ![c] = attrs]
    /\ pc' = [pc EXCEPT ![c] = "attr"]
    /\ UNCHANGED <<clients, dir, flag, victim, held>>

(* cli.Exit = true, or cli.Guard = true, outside any lock.                 *)
SetFlag(c) ==
    /\ pc[c] = "attr" /\ todo[c] # << >>
    /\ flag' = [flag EXCEPT ![c] = @ \cup {Head(todo[c])}]
    /\ pc' = [pc EXCEPT ![c] = "add"]
    /\ UNCHANGED <<clients, dir, name, todo, victim, held>>

\* Mutant: "e" only sets the flag, AddExit is not called.
AddToGuards(c) ==
    /\ pc[c] = "add" /\ ~held[Head(todo[c])]
    /\ dir' = IF Head(todo[c]) = "g"
                THEN [dir EXCEPT !["g"][name[c]] = c] ELSE dir
    /\ todo' = [todo EXCEPT ![c] = Tail(@)]
    /\ pc' = [pc EXCEPT ![c] = "attr"]
    /\ UNCHANGED <<clients, name, flag, victim, held>>

\* Mutant: the write lock is never released.
AddToUnreleased(c) ==
    /\ pc[c] = "add" /\ ~held[Head(todo[c])]
    /\ dir' = [dir EXCEPT ![Head(todo[c])][name[c]] = c]
    /\ held' = [held EXCEPT ![Head(todo[c])] = TRUE]
    /\ todo' = [todo EXCEPT ![c] = Tail(@)]
    /\ pc' = [pc EXCEPT ![c] = "attr"]
    /\ UNCHANGED <<clients, name, flag, victim>>

(* AddExit or AddGuard, under the write lock of its map.                   *)
AddTo(c) ==
    /\ pc[c] = "add" /\ ~held[Head(todo[c])]
    /\ dir' = [dir EXCEPT ![Head(todo[c])][name[c]] = c]
    /\ todo' = [todo EXCEPT ![c] = Tail(@)]
    /\ pc' = [pc EXCEPT ![c] = "attr"]
    /\ UNCHANGED <<clients, name, flag, victim, held>>

(* The tid reply ends the gettid.                                          *)
ReplyTid(c) ==
    /\ pc[c] = "attr" /\ todo[c] = << >>
    /\ pc' = [pc EXCEPT ![c] = "ready"]
    /\ UNCHANGED <<clients, dir, name, flag, todo, victim, held>>

(* gettssid: another name, with the maps left as they are.                 *)
GetTssid(c) ==
    /\ Rename /\ pc[c] = "ready"
    /\ \E n \in Names : Fresh(n) /\ name' = [name EXCEPT ![c] = n]
    /\ UNCHANGED <<clients, dir, flag, pc, todo, victim, held>>

(* getexit, getguard or getbridge reaches the server.                      *)
Ask(c) ==
    /\ pc[c] = "ready"
    /\ \E r \in Roles : /\ EarlyAsk \/ r \in flag[c]
                        /\ todo' = [todo EXCEPT ![c] = <<r>>]
    /\ pc' = [pc EXCEPT ![c] = "ask"]
    /\ UNCHANGED <<clients, dir, name, flag, victim, held>>

\* RLock: shared with a leaked read lock, but never past a waiting writer.
ReadLock(r) == ~(held[r] /\ WriterQueued(r))

(* GetExit or GetGuard over a map that is not empty.                       *)
Pick(c) ==
    /\ pc[c] = "ask" /\ ReadLock(Head(todo[c]))
    /\ \E n \in Names : dir[Head(todo[c])][n] # NoConn
    /\ todo' = [todo EXCEPT ![c] = << >>]
    /\ pc' = [pc EXCEPT ![c] = "ready"]
    /\ UNCHANGED <<clients, dir, name, flag, victim, held>>

(* Over an empty one rand.Intn(0) panics between RLock and RUnlock.  The   *)
(* http server recovers the panic and the websocket is closed; the lock    *)
(* stays taken and the client stays in clients.                            *)
PickPanics(c) ==
    /\ pc[c] = "ask" /\ ReadLock(Head(todo[c]))
    /\ \A n \in Names : dir[Head(todo[c])][n] = NoConn
    /\ held' = [held EXCEPT ![Head(todo[c])] = TRUE]
    /\ todo' = [todo EXCEPT ![c] = << >>]
    /\ pc' = [pc EXCEPT ![c] = "closed"]
    /\ UNCHANGED <<clients, dir, name, flag, victim>>

-----------------------------------------------------------------------------
\* Mutant: every client of that name is taken out, not the first alone.
DisconnectAll(c) ==
    /\ pc[c] = "ready"
    /\ name[c] # Unnamed \/ EarlyDrop
    /\ \E i \in 1..Len(clients) :
          /\ FirstNamed(i, name[c])
          /\ victim' = [victim EXCEPT ![c] = clients[i]]
    /\ clients' = SelectSeq(clients, LAMBDA d : name[d] # name[c])
    /\ todo' = [todo EXCEPT ![c] = <<"e", "g">>]
    /\ pc' = [pc EXCEPT ![c] = "del"]
    /\ UNCHANGED <<dir, name, flag, held>>

(* A read fails: DeleteClientByName(cli.Name) takes the first client with  *)
(* that name, whoever it is, out of clients ...                            *)
Disconnect(c) ==
    /\ pc[c] = "ready"
    /\ name[c] # Unnamed \/ EarlyDrop
    /\ \E i \in 1..Len(clients) :
          /\ FirstNamed(i, name[c])
          /\ clients' = SwapRemove(clients, i)
          /\ victim' = [victim EXCEPT ![c] = clients[i]]
    /\ todo' = [todo EXCEPT ![c] = <<"e", "g">>]
    /\ pc' = [pc EXCEPT ![c] = "del"]
    /\ UNCHANGED <<dir, name, flag, held>>

(* ... or finds none and returns its error.                                *)
DisconnectUnknown(c) ==
    /\ pc[c] = "ready"
    /\ name[c] # Unnamed \/ EarlyDrop
    /\ \A i \in 1..Len(clients) : name[clients[i]] # name[c]
    /\ pc' = [pc EXCEPT ![c] = "closed"]
    /\ UNCHANGED <<clients, dir, name, flag, todo, victim, held>>

\* Mutant: the Guard half of the clean-up is missing.
DelFromExits(c) ==
    /\ pc[c] = "del" /\ todo[c] # << >>
    /\ IF Head(todo[c]) = "e" /\ "e" \in flag[victim[c]]
         THEN ~held["e"] /\ dir' = [dir EXCEPT !["e"][name[victim[c]]] = NoConn]
         ELSE UNCHANGED dir
    /\ todo' = [todo EXCEPT ![c] = Tail(@)]
    /\ UNCHANGED <<clients, name, flag, pc, victim, held>>

(* After the mutex is released: if c.Exit { DelExit(c.Name) }, and then    *)
(* the same for Guard, with the victim's Name and flags of that moment.    *)
DelFrom(c) ==
    /\ pc[c] = "del" /\ todo[c] # << >>
    /\ LET r == Head(todo[c])
           v == victim[c]
       IN  \/ /\ r \in flag[v] /\ ~held[r]
              /\ dir' = [dir EXCEPT ![r][name[v]] = NoConn]
           \/ r \notin flag[v] /\ UNCHANGED dir
    /\ todo' = [todo EXCEPT ![c] = Tail(@)]
    /\ UNCHANGED <<clients, name, flag, pc, victim, held>>

\* Mutant: the goroutine ends without waiting for the maps.
DepartEarly(c) ==
    /\ pc[c] = "del"
    /\ pc' = [pc EXCEPT ![c] = "closed"]
    /\ victim' = [victim EXCEPT ![c] = NoConn]
    /\ UNCHANGED <<clients, dir, name, flag, todo, held>>

(* The goroutine of the connection ends.                                   *)
Depart(c) ==
    /\ pc[c] = "del" /\ todo[c] = << >>
    /\ pc' = [pc EXCEPT ![c] = "closed"]
    /\ victim' = [victim EXCEPT ![c] = NoConn]
    /\ UNCHANGED <<clients, dir, name, flag, todo, held>>

-----------------------------------------------------------------------------
\* What a goroutine does on its own, once a message or an error arrived.
Step(c) ==
    \/ SetFlag(c) \/ AddTo(c) \/ ReplyTid(c)
    \/ Pick(c) \/ PickPanics(c)
    \/ DelFrom(c) \/ Depart(c)

Next ==
    \E c \in Conns :
        \/ Accept(c) \/ GetTid(c) \/ GetTssid(c) \/ Ask(c)
        \/ Disconnect(c) \/ DisconnectUnknown(c)
        \/ Step(c)

Spec == Init /\ [][Next]_vars

\* The Go scheduler runs every goroutine that is not blocked on a lock.
FairSpec == Spec /\ \A c \in Conns : WF_vars(Step(c))

-----------------------------------------------------------------------------
(***************************************************************************)
(* What holds when websockets break only after their gettid, clients ask   *)
(* for hops only once they are listed, and keep the name they were given.  *)
(***************************************************************************)

\* A goroutine is taking client c out of the map of role r.
Leaving(c, r) ==
    \E d \in Conns : /\ pc[d] = "del" /\ victim[d] = c
                     /\ \E k \in 1..Len(todo[d]) : todo[d][k] = r

\* exits and guards never offer a client that has gone: a client they hold
\* under a name bears that name, has the role's flag, and either still has
\* its websocket or is just being taken out by DeleteClientByName.
RegistrySound ==
    \A r \in Roles, n \in Names :
       LET c == dir[r][n]
       IN  c # NoConn => /\ name[c] = n /\ r \in flag[c]
                         /\ pc[c] \in Open \/ Leaving(c, r)

\* Nobody is lost: a client whose websocket is open is in clients once, and
\* each flag it has set is matched by an entry under its name, except the
\* one its gettid is about to write.
RegistryComplete ==
    \A c \in Conns : pc[c] \in Open =>
       /\ \E i \in 1..Len(clients) :
             /\ clients[i] = c
             /\ \A j \in 1..Len(clients) : clients[j] = c => j = i
       /\ \A r \in flag[c] : \/ dir[r][name[c]] = c
                             \/ pc[c] = "add" /\ r = Head(todo[c])

\* "MinediveClient is the view [of] a connected client" (server.go:37):
\* whatever clients, exits or guards hold has its websocket, or is in the
\* hands of the goroutine that removes it.
OnlyConnected ==
    /\ \A i \in 1..Len(clients) : pc[clients[i]] \in Open
    /\ \A r \in Roles, n \in Names :
          dir[r][n] # NoConn => \/ pc[dir[r][n]] \in Open
                                \/ Leaving(dir[r][n], r)

\* The loops of GetClientByName and FwdToTarget, given the name of a client
\* that is connected, come to that client first, and to no other at all:
\* an offer, an answer or a key request never reaches the wrong websocket.
Addressed ==
    \A c \in Conns : pc[c] \in Open /\ name[c] # Unnamed =>
       /\ \E i \in 1..Len(clients) : FirstNamed(i, name[c])
       /\ \A i \in 1..Len(clients) : name[clients[i]] = name[c]
                                        => clients[i] = c

\* "no exits available" (server.go:114) is an answer: a pick over a map with
\* nobody in it returns its error and leaves no lock taken behind it.
NoStuckLock == \A r \in Roles : ~held[r]

\* A client that asks is itself in the map it asks for, so the pick draws
\* from a map that is not empty although the code does not test for it.
AskerListed ==
    \A c \in Conns : pc[c] = "ask" => dir[Head(todo[c])][name[c]] = c

\* A websocket that broke leaves the registry: in the end neither clients
\* nor the maps hold its client, or it is the client of a new websocket.
Departed ==
    \A c \in Conns :
       pc[c] = "del" ~> (Free(c) \/ pc[c] = "ready")

\* A gettid is answered: its loop passes every lock it needs.
Registered == \A c \in Conns : pc[c] = "attr" ~> pc[c] = "ready"

-----------------------------------------------------------------------------
(* The parts of the inductive invariant behind the properties above.       *)

\* No client is in clients twice, even after the swaps of deletions that
\* took a namesake out: FwdToTarget never sends one message twice.  (This
\* part holds for every client.)
NoTwin ==
    \A i, j \in 1..Len(clients) : clients[i] = clients[j] => i = j

\* clients holds the open websockets, and all of them.
ClientsOpen == \A i \in 1..Len(clients) : pc[clients[i]] \in Open
OpenInClients == \A c \in Conns : pc[c] \in Open => InClients(c)

\* A name belongs to one client until its goroutine has ended.
OwnName ==
    \A c, d \in Conns :
       (/\ pc[c] # "closed" /\ pc[d] # "closed"
        /\ name[c] = name[d] /\ name[c] # Unnamed) => c = d
NamedFirst ==
    \A c \in Conns :
       pc[c] \in {"attr", "add", "ask", "del"} \/ flag[c] # {}
          => name[c] # Unnamed

\* A goroutine that deletes deletes its own client, exits before guards.
OwnVictim ==
    \A c \in Conns : victim[c] = IF pc[c] = "del" THEN c ELSE NoConn
DelOrder ==
    \A c \in Conns :
       pc[c] = "del" => todo[c] \in {<<"e", "g">>, <<"g">>, << >>}

\* An entry of a map, and a flag, stand for each other.
EntryFlagged ==
    \A r \in Roles, n \in Names : dir[r][n] # NoConn =>
       /\ name[dir[r][n]] = n /\ r \in flag[dir[r][n]]
       /\ pc[dir[r][n]] # "closed"
       /\ pc[dir[r][n]] = "del" =>
             todo[dir[r][n]] \in {<<"e", "g">>, <<r>>}
FlagEntered ==
    \A c \in Conns : \A r \in flag[c] :
       pc[c] \in Open => \/ dir[r][name[c]] = c
                         \/ pc[c] = "add" /\ r = Head(todo[c])
AskFlagged == \A c \in Conns : pc[c] = "ask" => Head(todo[c]) \in flag[c]
AddFlagged == \A c \in Conns : pc[c] = "add" => Head(todo[c]) \in flag[c]

\* The registry is consistent, whoever joins and leaves in between: clients,
\* names, flags, maps and the goroutines that still work on them agree.
Consistent ==
    /\ TypeOK
    /\ NoTwin /\ ClientsOpen /\ OpenInClients
    /\ OwnName /\ NamedFirst /\ OwnVictim /\ DelOrder
    /\ EntryFlagged /\ FlagEntered /\ AskFlagged /\ AddFlagged
    /\ NoStuckLock

-----------------------------------------------------------------------------
(* What holds for every client, whatever it sends and whenever it breaks.  *)

\* A deletion takes one entry for one websocket that broke, so clients can
\* hold ghosts but is never shorter than the number of open websockets.
NoShortfall ==
    Cardinality({c \in Conns : pc[c] \in Open}) <= Len(clients)

\* exits and guards hold only clients that asked for the role.
ListedAsked ==
    \A r \in Roles, n \in Names :
       dir[r][n] # NoConn => r \in flag[dir[r][n]]

-----------------------------------------------------------------------------
\* Rendezvous as Presence sees it: clients says who is present, the running
\* deletions who is leaving, and the maps what is offered.
Phase(c) ==
    IF InClients(c) THEN "present"
    ELSE IF \E d \in Conns : victim[d] = c THEN "leaving" ELSE "absent"

Offered(c) == {r \in Roles : \E n \in Names : dir[r][n] = c}

P == INSTANCE Presence WITH Clients <- Conns,
                            phase <- [c \in Conns |-> Phase(c)],
                            offered <- [c \in Conns |-> Offered(c)]

\* The registry implements Presence: a node is offered only while it is in
\* clients, whoever disconnects meanwhile, and the goroutine that took it
\* out of clients withdraws it from both maps before the object is reused.
ImplementsPresence == P!Spec
=============================================================================
