------------------------------ MODULE NodeLife ------------------------------
(***************************************************************************)
(* The life of the process: main reads its configuration and its identity,  *)
(* Node.start discovers the NAT, creates and starts libp2p, and the gateway *)
(* opens last.  AppEventEmitter keeps a context (status, connections, NAT,  *)
(* id), which a timer sends to every socket.io client.  What the start does *)
(* to the tables is in Share, how the NAT is discovered in NatDiscovery.    *)
(***************************************************************************)
EXTENDS Integers, FiniteSets

CONSTANTS
    Ids,          \* peer ids PeerId.create may come up with
    Peers,        \* remote peers
    Clients,      \* browsers
    MaxConns,     \* bound: connections with one peer at a time
    MaxCrashes    \* bound: crashes of the process

ASSUME NodeLifeAssumption ==
    /\ Ids \cap {"none", "torn"} = {} /\ IsFiniteSet(Peers)
    /\ MaxConns \in Nat /\ MaxCrashes \in Nat

VARIABLES
    idFile,    \* config/id.json: "none", "torn" or an id
    pc,        \* where main is
    peerId,    \* config.libp2p.peerId, "none" before it is loaded
    conns,     \* connectionManager: peer -> number of connections
    context,   \* AppEventEmitter.context
    seen,      \* seen[b]: the last context client b got, {} before; only
               \* clients that are connected are in the domain
    known,     \* history: ids this node was ever online under
    crashes    \* number of crashes so far

vars == <<idFile, pc, peerId, conns, context, seen, known, crashes>>

NatTypes == {"FullCone", "Unknown"}
Context == [status : {"offline", "online"}, connections : Nat, nat : NatTypes,
            id : Ids \cup {"none"}]
NewContext == [status |-> "offline", connections |-> 0, nat |-> "Unknown", id |-> "none"]

Connected == {p \in Peers : conns[p] > 0}
NoClients == [b \in {} |-> b]

\* The process is not running: nothing but the id file is left of it.
Stopped ==
    /\ pc = "off" /\ peerId = "none"
    /\ conns = [p \in Peers |-> 0] /\ context = NewContext /\ seen = NoClients

Init == Stopped /\ idFile = "none" /\ known = {} /\ crashes = 0

Stop ==
    /\ pc' = "off" /\ peerId' = "none"
    /\ conns' = [p \in Peers |-> 0] /\ context' = NewContext /\ seen' = NoClients

-----------------------------------------------------------------------------
(* The start.                                                              *)

history == <<known, crashes>>

Main == pc = "off" /\ pc' = "identity"
        /\ UNCHANGED <<idFile, peerId, conns, context, seen, history>>

\* peerId(): an identity is created only if there is no file.
NoIdentity == idFile = "none"

LoadIdentity ==
    /\ pc = "identity" /\ ~NoIdentity /\ idFile # "torn"
    /\ peerId' = idFile /\ pc' = "discover"
    /\ UNCHANGED <<idFile, conns, context, seen, history>>

\* JSON.parse throws, and so does main.
LoadFails ==
    /\ pc = "identity" /\ ~NoIdentity /\ idFile = "torn"
    /\ Stop /\ UNCHANGED <<idFile, history>>

\* Mutant: the file is written behind the back of the start.
CreateIdentityAsync ==
    /\ pc = "identity" /\ NoIdentity
    /\ peerId' \in Ids /\ idFile' \in {idFile, peerId'} /\ pc' = "discover"
    /\ UNCHANGED <<conns, context, seen, history>>

CreateIdentity ==
    /\ pc = "identity" /\ NoIdentity
    /\ peerId' \in Ids /\ idFile' = peerId' /\ pc' = "discover"
    /\ UNCHANGED <<conns, context, seen, history>>

\* A crash in the middle of writeFileSync leaves part of a file.
CreateTorn ==
    /\ pc = "identity" /\ NoIdentity /\ crashes < MaxCrashes
    /\ idFile' = "torn" /\ crashes' = crashes + 1 /\ Stop /\ UNCHANGED known

\* discover() tells its verdict by an event, if it is news.  Node's own listener,
\* which would reboot, is not there yet; the one of AppEventEmitter is.
Discover(nat) ==
    /\ pc = "discover" /\ pc' = "create"
    /\ context' = [context EXCEPT !.nat = IF nat = "Unknown" THEN @ ELSE nat]
    /\ UNCHANGED <<idFile, peerId, conns, seen, history>>

\* libp2p is created, the tables are rebuilt (Share), libp2p begins to listen.
Create ==
    /\ pc = "create" /\ pc' = "listen"
    /\ UNCHANGED <<idFile, peerId, conns, context, seen, history>>

\* _startLibp2p: the node is online.
Listen ==
    /\ pc = "listen" /\ pc' = "publish"
    /\ context' = [context EXCEPT !.status = "online", !.id = peerId]
    /\ known' = known \cup {peerId}
    /\ UNCHANGED <<idFile, peerId, conns, seen, crashes>>

\* After publishFiles: the listeners and the timer are installed, the context
\* is told once more, and the gateway opens.
Open ==
    /\ pc = "publish" /\ pc' = "up"
    /\ context' = [context EXCEPT !.status = "online", !.id = peerId]
    /\ UNCHANGED <<idFile, peerId, conns, seen, history>>

\* Libp2p.create, the tables or the port: main rejects, the process ends.
StartFails ==
    /\ pc \in {"create", "listen", "publish"}
    /\ Stop /\ UNCHANGED <<idFile, history>>

-----------------------------------------------------------------------------
(* What happens to the node.                                               *)

Listening == pc \in {"listen", "publish", "up"}

\* An event reaches the listeners Node.start has installed.
Tell(connections) ==
    context' = IF pc = "up" THEN [context EXCEPT !.connections = connections] ELSE context

\* peer:connect comes before libp2p stores the connection, hence the + 1; it
\* comes for every connection, also for a second one with the same peer.
ConnOpen(p) ==
    /\ Listening /\ conns[p] < MaxConns
    /\ conns' = [conns EXCEPT ![p] = @ + 1]
    /\ Tell(Cardinality(Connected) + 1)
    /\ UNCHANGED <<idFile, pc, peerId, seen, history>>

\* Mutant: as for peer:connect.
SizeAfterPlusOne == Cardinality(Connected) + 1

\* Mutant: the number is counted down, not read from the map.
CountedDown == context.connections - 1

\* The size of the map when peer:disconnect comes: the peer is out of it.
SizeAfter == Cardinality(Connected) - 1

\* peer:disconnect comes when the last connection with a peer was removed.
ConnClose(p) ==
    /\ conns[p] > 0 /\ conns' = [conns EXCEPT ![p] = @ - 1]
    /\ IF conns[p] = 1 THEN Tell(SizeAfter) ELSE UNCHANGED context
    /\ UNCHANGED <<idFile, pc, peerId, seen, history>>

\* onSocket.
ClientConnects(b) ==
    /\ pc = "up" /\ b \notin DOMAIN seen
    /\ seen' = [a \in DOMAIN seen \cup {b} |-> IF a = b THEN {} ELSE seen[a]]
    /\ UNCHANGED <<idFile, pc, peerId, conns, context, history>>

ClientLeaves(b) ==
    /\ b \in DOMAIN seen /\ seen' = [a \in DOMAIN seen \ {b} |-> seen[a]]
    /\ UNCHANGED <<idFile, pc, peerId, conns, context, history>>

\* Mutant: the sockets there were when the timer was set.
SocketsAtStart == {}

\* The list of sockets is shared with onSocket.
Sockets == DOMAIN seen

\* The timer of AppEventEmitter.start.
Tick ==
    /\ pc = "up"
    /\ seen' = [b \in DOMAIN seen |-> IF b \in Sockets THEN {context} ELSE seen[b]]
    /\ UNCHANGED <<idFile, pc, peerId, conns, context, history>>

Crash ==
    /\ pc # "off" /\ crashes < MaxCrashes /\ crashes' = crashes + 1
    /\ Stop /\ UNCHANGED <<idFile, known>>

StartStep ==
    \/ LoadIdentity \/ LoadFails \/ CreateIdentity
    \/ \E nat \in NatTypes : Discover(nat)
    \/ Create \/ Listen \/ Open \/ StartFails

Next ==
    \/ Main \/ StartStep \/ CreateTorn \/ Tick \/ Crash
    \/ \E p \in Peers : ConnOpen(p) \/ ConnClose(p)
    \/ \E b \in Clients : ClientConnects(b) \/ ClientLeaves(b)

Spec == Init /\ [][Next]_vars

\* The timer fires.
FairSpec == Spec /\ WF_vars(Tick)

-----------------------------------------------------------------------------
(* Correctness properties.                                                 *)

\* Every variable has the shape the code gives it, and what runs has an identity.
TypeOK ==
    /\ idFile \in Ids \cup {"none", "torn"} /\ peerId \in Ids \cup {"none"}
    /\ pc \in {"off", "identity", "discover", "create", "listen", "publish", "up"}
    /\ conns \in [Peers -> 0..MaxConns] /\ context \in Context
    /\ DOMAIN seen \subseteq Clients /\ \A b \in DOMAIN seen : seen[b] \subseteq Context
    /\ known \subseteq Ids /\ crashes \in 0..MaxCrashes
    /\ Listening => peerId # "none"

\* The network knows this node under one id, over all restarts and crashes: the
\* id it was ever online under is the one the next start will load.
IdentityIsStable == \A id \in known : idFile = id

\* The number of connections the clients are shown exceeds that of the peers by
\* one at most (after a second connection with one peer), and it is back at
\* zero when all have left, whatever came before the listeners were there.
CountIsNear ==
    pc = "up" => /\ context.connections <= Cardinality(Connected) + 1
                 /\ Connected = {} => context.connections = 0

\* A client that stays is told that, and as whom, the node is online, though
\* the event that said so came before the client did.
ClientsLearn ==
    \A b \in Clients :
        b \in DOMAIN seen ~>
            \/ b \notin DOMAIN seen
            \/ \E c \in seen[b] : c.status = "online" /\ c.id = peerId
=============================================================================
