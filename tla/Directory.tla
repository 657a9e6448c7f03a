------------------------------ MODULE Directory ------------------------------
(***************************************************************************)
(* The directory of names and keys that remined and kremined keep in redis *)
(* (cmd/remined/main.go, cmd/kremined/main.go), with the sessions of the   *)
(* clients that enter it: Dial, ws_loop and Redial of minedive/client.go.  *)
(*                                                                         *)
(* A websocket gets a fresh name at gettid, which is added to the sets     *)
(* EXITS and GUARDS; pubk puts the client's key under K_ and the name, for *)
(* an hour.  Nothing is taken out of the sets until the server starts      *)
(* anew.  A client whose websocket breaks dials again and gets another     *)
(* name.  For a circuit it asks for an exit, then a guard, then a bridge.  *)
(*                                                                         *)
(* Names are numbered as they are drawn.  A client stands for its key too. *)
(***************************************************************************)
EXTENDS Naturals, SequencesExt, FiniteSets

CONSTANTS
    Clients,
    ExitNodes,  \* those that dial with "e": they are exits and guards
    Askers,     \* those that make a circuit
    MaxNames,   \* how many names are drawn in all
    MaxLosses,  \* how often websockets break and the server ends, in all
    None        \* no name, no client

Names == 1..MaxNames

ASSUME SetsAssumption ==
    /\ ExitNodes \subseteq Clients /\ Askers \subseteq Clients
    /\ MaxNames \in Nat /\ MaxLosses \in Nat
    /\ None \notin Names /\ None \notin Clients

VARIABLES
    up,         \* the server runs
    drawn,      \* how many names have been drawn
    losses,     \* how often a websocket has broken or the server ended
    exits,      \* EXITS in redis
    guards,     \* GUARDS in redis
    keys,       \* K_<name> in redis: whose key it is
    phase,      \* what a client's program is at
    conn,       \* its websocket
    greet,      \* the clients whose Redial has yet to send gettid
    c2s,        \* cells on their way to the server
    s2c,        \* cells on their way to the client
    name,       \* cli.Name at the server, None before gettid
    tid,        \* cli.tid at the client
    hop,        \* exit, guard and bridge of its circuit, as far as known
    asked       \* how many of them it has asked for

server == <<up, drawn, losses>>
redis == <<exits, guards, keys>>
session == <<conn, greet, c2s, s2c, name>>
program == <<phase, tid, hop, asked>>
vars == <<server, redis, session, program>>

Cells ==
    [type : {"gettid", "pubk", "getexit", "getguard", "getbridge"}]
       \cup [type : {"tid", "exit", "guard", "bridge"}, D0 : Names]

TypeOK ==
    /\ up \in BOOLEAN /\ drawn \in 0..MaxNames
    /\ losses \in 0..MaxLosses
    /\ exits \subseteq Names /\ guards \subseteq Names
    /\ keys \in [Names -> Clients \cup {None}]
    /\ phase \in [Clients ->
                    {"off", "dialing", "dialed", "published", "ended"}]
    /\ conn \in [Clients -> {"none", "open", "broken"}]
    /\ greet \subseteq Clients
    /\ c2s \in [Clients -> Seq(Cells)] /\ s2c \in [Clients -> Seq(Cells)]
    /\ name \in [Clients -> Names \cup {None}]
    /\ tid \in [Clients -> Names \cup {None}]
    /\ hop \in [Clients -> Seq(Names)]
    /\ asked \in [Clients -> 0..3]

Init ==
    /\ up = TRUE /\ drawn = 0 /\ losses = 0
    /\ exits = {} /\ guards = {}
    /\ keys = [n \in Names |-> None]
    /\ phase = [c \in Clients |-> "off"] /\ conn = [c \in Clients |-> "none"]
    /\ greet = {}
    /\ c2s = [c \in Clients |-> << >>] /\ s2c = [c \in Clients |-> << >>]
    /\ name = [c \in Clients |-> None] /\ tid = [c \in Clients |-> None]
    /\ hop = [c \in Clients |-> << >>] /\ asked = [c \in Clients |-> 0]

-----------------------------------------------------------------------------
\* A websocket that is open takes a cell; on another the write fails.
Put(q, c, cell) ==
    IF conn[c] = "open" THEN [q EXCEPT ![c] = Append(@, cell)] ELSE q

Receives(q, c, types) ==
    conn[c] = "open" /\ q[c] # << >> /\ Head(q[c]).type \in types

Running(c) == phase[c] \in {"dialed", "published"}

-----------------------------------------------------------------------------
(* The client.                                                             *)

\* Dial: gettid goes out, and the next message is taken for its answer.
Dial(c) ==
    /\ phase[c] = "off" /\ up
    /\ phase' = [phase EXCEPT ![c] = "dialing"]
    /\ conn' = [conn EXCEPT ![c] = "open"]
    /\ c2s' = [c2s EXCEPT ![c] = <<[type |-> "gettid"]>>]
    /\ UNCHANGED <<server, redis, greet, s2c, name, tid, hop, asked>>

TidCome(c) ==
    /\ phase[c] = "dialing" /\ Receives(s2c, c, {"tid"})
    /\ tid' = [tid EXCEPT ![c] = Head(s2c[c]).D0]
    /\ phase' = [phase EXCEPT ![c] = "dialed"]
    /\ s2c' = [s2c EXCEPT ![c] = Tail(@)]
    /\ UNCHANGED <<server, redis, conn, greet, c2s, name, hop, asked>>

\* The exchange fails: the error is logged, and the client goes on nameless.
DialCut(c) ==
    /\ phase[c] = "dialing" /\ conn[c] = "broken"
    /\ phase' = [phase EXCEPT ![c] = "dialed"]
    /\ UNCHANGED <<server, redis, session, tid, hop, asked>>

\* The programs send pubk once, after Dial.
Publish(c) ==
    /\ phase[c] = "dialed"
    /\ phase' = [phase EXCEPT ![c] = "published"]
    /\ c2s' = Put(c2s, c, [type |-> "pubk"])
    /\ UNCHANGED <<server, redis, conn, greet, s2c, name, tid, hop, asked>>

\* NewCircuit asks for the exit, and for the guard and the bridge in turn once
\* the one before is known.
Ask(c) ==
    /\ c \in Askers /\ phase[c] = "published"
    /\ Len(hop[c]) = asked[c] /\ asked[c] < 3
    /\ asked' = [asked EXCEPT ![c] = @ + 1]
    /\ c2s' = Put(c2s, c,
                  [type |-> <<"getexit", "getguard", "getbridge">>[asked'[c]]])
    /\ UNCHANGED <<server, redis, conn, greet, s2c, name, phase, tid, hop>>

\* Mutant: ws_loop learns the name Redial is given.
TakeTid(c) ==
    /\ Running(c) /\ Receives(s2c, c, {"tid", "exit", "guard", "bridge"})
    /\ IF Head(s2c[c]).type = "tid"
       THEN tid' = [tid EXCEPT ![c] = Head(s2c[c]).D0] /\ UNCHANGED hop
       ELSE hop' = [hop EXCEPT ![c] = Append(@, Head(s2c[c]).D0)]
            /\ UNCHANGED tid
    /\ s2c' = [s2c EXCEPT ![c] = Tail(@)]
    /\ UNCHANGED <<server, redis, conn, greet, c2s, name, phase, asked>>

\* ws_loop: the answer is noted in the circuit, tid is not implemented.
Take(c) ==
    /\ Running(c) /\ Receives(s2c, c, {"tid", "exit", "guard", "bridge"})
    /\ hop' = IF Head(s2c[c]).type = "tid" THEN hop
              ELSE [hop EXCEPT ![c] = Append(@, Head(s2c[c]).D0)]
    /\ s2c' = [s2c EXCEPT ![c] = Tail(@)]
    /\ UNCHANGED <<server, redis, conn, greet, c2s, name, phase, tid, asked>>

\* ws_loop redials when the websocket breaks.  If that fails there is no
\* connection to send gettid on, and the program ends with a nil pointer.
Redial(c) ==
    /\ Running(c) /\ conn[c] = "broken"
    /\ IF up THEN /\ conn' = [conn EXCEPT ![c] = "open"]
                  /\ greet' = greet \cup {c}
                  /\ UNCHANGED phase
             ELSE /\ phase' = [phase EXCEPT ![c] = "ended"]
                  /\ UNCHANGED <<conn, greet>>
    /\ UNCHANGED <<server, redis, c2s, s2c, name, tid, hop, asked>>

\* Mutant: Redial has the key published again.
GreetKeyed(c) ==
    /\ Running(c) /\ c \in greet
    /\ greet' = greet \ {c}
    /\ c2s' = Put(c2s, c, [type |-> "gettid"])
    /\ phase' = [phase EXCEPT ![c] = "dialed"]
    /\ UNCHANGED <<server, redis, conn, s2c, name, tid, hop, asked>>

\* Its second half.  The program may have sent a cell in between.
Greet(c) ==
    /\ Running(c) /\ c \in greet
    /\ greet' = greet \ {c}
    /\ c2s' = Put(c2s, c, [type |-> "gettid"])
    /\ UNCHANGED <<server, redis, conn, s2c, name, program>>

-----------------------------------------------------------------------------
(* minediveDispatch of the server.                                         *)

\* Mutant: a name that is no longer connected is given again.
GetTidAgain(c) ==
    /\ Receives(c2s, c, {"gettid"}) /\ drawn < MaxNames
    /\ LET n == CHOOSE m \in Names : \A d \in Clients : name[d] # m
       IN  /\ drawn' = drawn + 1
           /\ name' = [name EXCEPT ![c] = n]
           /\ exits' = IF c \in ExitNodes THEN exits \cup {n} ELSE exits
           /\ guards' = guards \cup {n}
           /\ s2c' = Put(s2c, c, [type |-> "tid", D0 |-> n])
    /\ c2s' = [c2s EXCEPT ![c] = Tail(@)]
    /\ UNCHANGED <<up, losses, keys, conn, greet, program>>

\* gettid.  (The SADD to "K_" and the empty name enters no name.)
GetTid(c) ==
    /\ Receives(c2s, c, {"gettid"}) /\ drawn < MaxNames
    /\ LET n == drawn + 1
       IN  /\ drawn' = n
           /\ name' = [name EXCEPT ![c] = n]
           /\ exits' = IF c \in ExitNodes THEN exits \cup {n} ELSE exits
           /\ guards' = guards \cup {n}
           /\ s2c' = Put(s2c, c, [type |-> "tid", D0 |-> n])
    /\ c2s' = [c2s EXCEPT ![c] = Tail(@)]
    /\ UNCHANGED <<up, losses, keys, conn, greet, program>>

\* Mutant: the server that takes the key has not named the client, as kremined.
PubKNameless(c) ==
    /\ Receives(c2s, c, {"pubk"})
    /\ c2s' = [c2s EXCEPT ![c] = Tail(@)]
    /\ UNCHANGED <<server, redis, conn, greet, s2c, name, program>>

\* pubk.  Without a name the key is set for the empty one.
PubK(c) ==
    /\ Receives(c2s, c, {"pubk"})
    /\ keys' = IF name[c] = None THEN keys ELSE [keys EXCEPT ![name[c]] = c]
    /\ c2s' = [c2s EXCEPT ![c] = Tail(@)]
    /\ UNCHANGED <<server, exits, guards, conn, greet, s2c, name, program>>

\* The names that a request says to avoid, with the asker's own.
Avoid(c) == ToSet(hop[c]) \cup {name[c]}

\* SRandMemberN: that many members, or all of them if there are fewer.
Sample(set, n) ==
    {nc \in SUBSET set :
        Cardinality(nc) = IF Cardinality(set) < n THEN Cardinality(set) ELSE n}

\* The first that is not to be avoided, or else the last.
FirstAllowed(nc, avoid) == IF nc \subseteq avoid THEN nc ELSE nc \ avoid

\* What may be answered: nothing if there are fewer than least candidates.
Picks(set, avoid, least) ==
    UNION {FirstAllowed(nc, avoid) :
              nc \in {s \in Sample(set, Cardinality(avoid) + 1) :
                        Cardinality(s) >= least}}

ExitPicks(set, avoid) == Picks(set, avoid, Cardinality(avoid))

\* Mutant: guards are picked the way exits are: a candidate too few will do.
GuardPicksLoose(set, avoid) == Picks(set, avoid, Cardinality(avoid))
GuardPicks(set, avoid) == Picks(set, avoid, Cardinality(avoid) + 1)

\* Mutant: the type of the cell stays what it was.
AnswerUntyped(c, get, type, picks) ==
    /\ Receives(c2s, c, {get})
    /\ IF picks = {} THEN UNCHANGED s2c
       ELSE \E n \in picks :
               s2c' = Put(s2c, c, [type |-> get, D0 |-> n])
    /\ c2s' = [c2s EXCEPT ![c] = Tail(@)]
    /\ UNCHANGED <<server, redis, conn, greet, name, program>>

\* The cell goes back with the name picked, or there is no answer.
Answer(c, get, type, picks) ==
    /\ Receives(c2s, c, {get})
    /\ IF picks = {} THEN UNCHANGED s2c
       ELSE \E n \in picks :
               s2c' = Put(s2c, c, [type |-> type, D0 |-> n])
    /\ c2s' = [c2s EXCEPT ![c] = Tail(@)]
    /\ UNCHANGED <<server, redis, conn, greet, name, program>>

GetExit(c) == Answer(c, "getexit", "exit", ExitPicks(exits, Avoid(c)))
GetGuard(c) == Answer(c, "getguard", "guard", GuardPicks(guards, Avoid(c)))
GetBridge(c) == Answer(c, "getbridge", "bridge", GuardPicks(guards, Avoid(c)))

\* K_<name> is an hour old.
Expire(n) ==
    /\ keys[n] # None
    /\ keys' = [keys EXCEPT ![n] = None]
    /\ UNCHANGED <<server, exits, guards, session, program>>

-----------------------------------------------------------------------------
(* Ends and restarts.                                                      *)

\* The websocket breaks, for a moment or because the program is gone.  What is
\* on its way is lost, and the server deletes its client; redis is not touched.
Drop(c) ==
    /\ conn[c] = "open" /\ losses < MaxLosses
    /\ losses' = losses + 1
    /\ conn' = [conn EXCEPT ![c] = "broken"]
    /\ c2s' = [c2s EXCEPT ![c] = << >>] /\ s2c' = [s2c EXCEPT ![c] = << >>]
    /\ name' = [name EXCEPT ![c] = None]
    /\ UNCHANGED <<up, drawn, redis, greet, program>>

\* The server ends, with all its websockets; redis goes on.
Stop ==
    /\ up /\ up' = FALSE
    /\ losses < MaxLosses /\ losses' = losses + 1
    /\ conn' = [c \in Clients |->
                   IF conn[c] = "open" THEN "broken" ELSE conn[c]]
    /\ c2s' = [c \in Clients |-> << >>] /\ s2c' = [c \in Clients |-> << >>]
    /\ name' = [c \in Clients |-> None]
    /\ UNCHANGED <<drawn, redis, greet, program>>

\* runMined empties the two sets before it listens.
Start ==
    /\ ~up /\ up' = TRUE
    /\ exits' = {} /\ guards' = {}
    /\ UNCHANGED <<drawn, losses, keys, session, program>>

-----------------------------------------------------------------------------
Client(c) ==
    \/ Dial(c) \/ TidCome(c) \/ DialCut(c) \/ Publish(c) \/ Ask(c) \/ Take(c)
    \/ Redial(c) \/ Greet(c)

Dispatch(c) ==
    GetTid(c) \/ PubK(c) \/ GetExit(c) \/ GetGuard(c) \/ GetBridge(c)

Next ==
    \/ \E c \in Clients : Client(c) \/ Dispatch(c) \/ Drop(c)
    \/ \E n \in Names : Expire(n)
    \/ Stop \/ Start

Spec == Init /\ [][Next]_vars

\* The server reads what is sent to it, and a program goes on after Dial.
FairSpec ==
    Spec /\ \A c \in Clients : WF_vars(Dispatch(c)) /\ WF_vars(Publish(c))

-----------------------------------------------------------------------------
(* What the directory promises.                                            *)

Answered(c, types) == s2c[c] # << >> /\ Head(s2c[c]).type \in types

\* A guard or a bridge that is answered is neither the asker's own name nor
\* one of the circuit's earlier hops (remined/main.go:148-181): with as many
\* candidates as one more than the names to avoid, one of them is allowed.
HopsAllowed ==
    \A c \in Clients :
       Answered(c, {"guard", "bridge"}) => Head(s2c[c]).D0 \notin Avoid(c)

\* A connected client is in the sets under its name, and if there is a key
\* under that name it is its own (remined/main.go:76-111), though restarts
\* empty the sets and leave the keys and clients come back under other names.
ListedOwnKey ==
    \A c \in Clients :
       LET n == name[c]
       IN  n # None => /\ n \in guards /\ (c \in ExitNodes => n \in exits)
                       /\ keys[n] \in {c, None}

\* The program has sent its pubk, it is not under way, and there is no key
\* under the name the websocket has, if it has one.
Keyless(c) ==
    /\ phase[c] = "published" /\ [type |-> "pubk"] \notin ToSet(c2s[c])
    /\ name[c] = None \/ keys[name[c]] = None

\* pubk is sent once, by the program: neither Redial (client.go:162-173) nor
\* anything else sends it again when the name is a new one or its key has
\* expired (remined/main.go:111).  A client so left without a key has none for
\* good, listed though it is: circuits over it wait for one in GETKEYS.
KeylessForGood ==
    [][\A c \in Clients :
          Keyless(c) => Keyless(c)' \/ phase'[c] = "ended"]_vars

\* The client runs and does not know the name its websocket has, if any.
Misnamed(c) == Running(c) /\ tid[c] \notin {name[c]} \ {None}

\* ws_loop does not implement tid (client.go:555-626): a client that has
\* redialled goes on under its old name, and the answers to its offers are sent
\* nowhere, for as long as its program runs.
MisnamedForGood ==
    [][\A c \in Clients :
          Misnamed(c) => Misnamed(c)' \/ phase'[c] = "ended"]_vars

\* The key of a client that has dialled is in redis some time, unless its
\* connection breaks: circuits over it need not wait for ever.
KeyComes ==
    \A c \in Clients, n \in Names :
       phase[c] = "dialed" /\ name[c] = n ~> keys[n] = c \/ name[c] # n
=============================================================================
