---------------------------- MODULE NatDiscovery ----------------------------
(***************************************************************************)
(* NAT discovery: the STUN client nat-discovery.py (its three procedures),  *)
(* and NatDiscovery.discover of nat.ts, which runs it once before libp2p    *)
(* starts and decides whether this node offers itself as a relay.           *)
(*                                                                         *)
(* The client talks over UDP through a NAT or a firewall to STUN servers    *)
(* with two addresses and two ports.  A datagram may be lost or delayed     *)
(* past the 3 s timeout of recvfrom: then it is still on its way while the  *)
(* client retries, or runs its next test.                                   *)
(***************************************************************************)
EXTENDS Integers, Sequences

CONSTANTS
    NumServers,   \* length of stun_servers_list
    Worlds,       \* the situations to discover, among World
    SourceGiven,  \* option -i names the host's address (default '0.0.0.0')
    FixedPort,    \* option -p is not 0: a reopened socket has the same port
    MaxFaults     \* bound: datagrams lost or late

Procedures == {"type", "mapping", "filtering"}
Dependence == {"none", "address", "port", "addressPort"}
ServerKinds == {"up",       \* two addresses, honours CHANGE-REQUEST
                "plain",    \* one address, rejects CHANGE-REQUEST
                "down",     \* never answers
                "noname"}   \* its name does not resolve

\* open: no NAT between the host and the servers.  mapping, filtering: on what
\* of the remote endpoint the NAT's (firewall's) mapping and filtering depend.
World ==
    {w \in [procedure : Procedures, open : BOOLEAN, mapping : Dependence,
            filtering : Dependence, servers : [1..NumServers -> ServerKinds]] :
        w.open => w.mapping = "none"}

ASSUME NatAssumption ==
    /\ NumServers \in Nat \ {0} /\ Worlds \subseteq World
    /\ SourceGiven \in BOOLEAN /\ FixedPort \in BOOLEAN /\ MaxFaults \in Nat

VARIABLES
    world,      \* chosen at the start, never changes
    step,       \* the test of the procedure that runs, or its verdict
    server,     \* index of the STUN server in use
    tid,        \* transaction id of the stun_test call in progress
    count,      \* tries left in stun_test
    waiting,    \* in recvfrom (else about to sendto)
    first,      \* external address that Test I found
    second,     \* external address that the mapping procedure's Test II found
    replies,    \* datagrams on their way to the client, or in its socket
    contacted,  \* remote endpoints this port has sent to
    faults,     \* datagrams lost or late so far
    natType     \* NatDiscovery._nat and config.natType once discover returns

vars == <<world, step, server, tid, count, waiting, first, second, replies,
          contacted, faults, natType>>

Tests == {"I", "IIopen", "II", "Iother", "III", "IV"}
Verdicts == {"Blocked", "Testing Error", "Open Internet", "Full Cone",
             "Symmetric UDP Firewall", "Restricted Cone", "Port Restricted Cone",
             "Symmetric", "Endpoint Independent", "Address Dependent",
             "Port Dependent", "Address-Port Dependent",
             "Traceback"}                      \* an exception nobody catches

\* A remote endpoint: ip and port are 0 (primary) or 1 (the "changed" one).
At(s, ip, port) == [server |-> s, ip |-> ip, port |-> port]
Endpoint(s) == {At(s, ip, port) : ip, port \in 0..1}
Primary == At(server, 0, 0)

-----------------------------------------------------------------------------
(* The network.                                                            *)

\* The part of an endpoint that a behaviour of this dependence looks at.
Seen(dependence, e) ==
    CASE dependence = "none" -> <<>>
      [] dependence = "address" -> <<e.server, e.ip>>
      [] dependence = "port" -> <<e.port>>
      [] dependence = "addressPort" -> <<e.server, e.ip, e.port>>

\* External address and port of what the client's socket sends to e.
External(e) == Seen(world.mapping, e)

\* The NAT or firewall lets the reply in: its mapping has sent something to an
\* endpoint that looks like the one it comes from.
Admitted(p) ==
    \E e \in contacted : /\ External(e) = p.external
                         /\ Seen(world.filtering, e) = Seen(world.filtering, p.from)

\* CHANGE-REQUEST: from which of its endpoints the server answers; one with a
\* single address answers it with an error.
Rejects(change) == world.servers[server] = "plain" /\ change # [ip |-> 0, port |-> 0]
AnswersFrom(e, change) ==
    IF Rejects(change) THEN e
    ELSE At(e.server, (e.ip + change.ip) % 2, (e.port + change.port) % 2)

Reply(e, change) ==
    [tid |-> tid, try |-> count, from |-> AnswersFrom(e, change),
     external |-> External(e),
     error |-> Rejects(change)]

-----------------------------------------------------------------------------
(* The procedures: check_nat_type, check_mapping_type, check_filtering_type *)

NoChange == [ip |-> 0, port |-> 0]
ChangeBoth == [ip |-> 1, port |-> 1]
ChangePort == [ip |-> 0, port |-> 1]
ChangeIP == [ip |-> 1, port |-> 0]

\* What the test asks of the server it talks to ...
ChangeRequest ==
    IF world.procedure = "mapping" THEN NoChange
    ELSE CASE step \in {"I", "Iother"} -> NoChange
           [] step \in {"IIopen", "II"} -> ChangeBoth
           [] step = "III" -> ChangePort
           [] step = "IV" -> ChangeIP

\* ... and where it sends the request.
Destination ==
    CASE step = "Iother" \/ (step = "III" /\ world.procedure = "mapping")
            -> At(server, 1, 1)
      [] step = "II" /\ world.procedure = "mapping" -> At(server, 1, 0)
      [] OTHER -> Primary

\* ret['ExternalIP'] == source_ip
SourceIsExternal == SourceGiven /\ world.open

\* Mutant: the server is taken to have two addresses.
OtherAddressAssumed == TRUE

OtherAddressKnown == world.servers[server] = "up"

\* After Test I succeeded.
AfterFirst ==
    CASE world.procedure = "filtering" -> "II"
      [] world.procedure = "type" -> IF SourceIsExternal THEN "IIopen" ELSE "II"
      [] world.procedure = "mapping" ->
            IF SourceIsExternal THEN "Open Internet"
            ELSE IF OtherAddressKnown THEN "II" ELSE "Testing Error"

\* Mutant: the two dependences are swapped.
MappingTypeSwapped(external) ==
    IF first = second
    THEN IF second = external THEN "Endpoint Independent" ELSE "Address Dependent"
    ELSE IF second # external THEN "Address-Port Dependent" ELSE "Port Dependent"

\* Test I and II differ in the IP, II and III in the port.
MappingType(external) ==
    IF first = second
    THEN IF second = external THEN "Endpoint Independent" ELSE "Port Dependent"
    ELSE IF second # external THEN "Address-Port Dependent" ELSE "Address Dependent"

\* What a later test's outcome leads to: another test or the verdict.
NatTypeTable(external) ==
    [IIopen |-> [ok |-> "Open Internet", timeout |-> "Symmetric UDP Firewall",
                 error |-> "Testing Error"],
     II     |-> [ok |-> "Full Cone", timeout |-> "Iother", error |-> "Testing Error"],
     Iother |-> [ok |-> IF external # first THEN "Symmetric" ELSE "III",
                 timeout |-> "Testing Error", error |-> "Testing Error"],
     III    |-> [ok |-> "Restricted Cone", timeout |-> "Port Restricted Cone",
                 error |-> "Testing Error"]]

MappingTable(external) ==
    [II  |-> [ok |-> "III", timeout |-> "Testing Error", error |-> "Testing Error"],
     III |-> [ok |-> MappingType(external),
              timeout |-> "Testing Error", error |-> "Testing Error"]]

\* Mutant: the verdicts of Test III and IV are swapped.
FilteringTableSwapped ==
    [II  |-> [ok |-> "Endpoint Independent", timeout |-> "III", error |-> "Testing Error"],
     III |-> [ok |-> "Port Dependent", timeout |-> "IV", error |-> "Testing Error"],
     IV  |-> [ok |-> "Address Dependent", timeout |-> "Address-Port Dependent",
              error |-> "Testing Error"]]

FilteringTable ==
    [II  |-> [ok |-> "Endpoint Independent", timeout |-> "III", error |-> "Testing Error"],
     III |-> [ok |-> "Address Dependent", timeout |-> "IV", error |-> "Testing Error"],
     IV  |-> [ok |-> "Port Dependent", timeout |-> "Address-Port Dependent",
              error |-> "Testing Error"]]

AfterTest(outcome, external) ==
    CASE world.procedure = "type" -> NatTypeTable(external)[step][outcome]
      [] world.procedure = "mapping" -> MappingTable(external)[step][outcome]
      [] world.procedure = "filtering" -> FilteringTable[step][outcome]

\* The tests that run on a reopened socket.
Reopens(test) ==
    \/ world.procedure = "type" /\ test = "III"
    \/ world.procedure = "filtering" /\ test \in {"II", "III", "IV"}

-----------------------------------------------------------------------------
Init ==
    /\ world \in Worlds
    /\ step = "I" /\ server = 1 /\ tid = 1 /\ count = 2 /\ waiting = FALSE
    /\ first = <<>> /\ second = <<>>
    /\ replies = {} /\ contacted = {} /\ faults = 0 /\ natType = "unset"

\* stun_test is called for the next test: a new transaction id, two tries.  A
\* reopened socket has lost what the old one had buffered, and on another port
\* everything that is still on its way.
BeginTest(test, left) ==
    /\ step' = test /\ tid' = tid + 1 /\ count' = 2 /\ waiting' = FALSE
    /\ IF test \in Tests /\ Reopens(test)
       THEN IF FixedPort
            THEN replies' \in SUBSET left /\ UNCHANGED contacted
            ELSE replies' = {} /\ contacted' = {}
       ELSE replies' = left /\ UNCHANGED contacted

\* stun_test returns without an error.
Succeed(external, left) ==
    IF step = "I"
    THEN /\ BeginTest(AfterFirst, left)
         /\ first' = external
         /\ UNCHANGED <<second, server>>
    ELSE /\ BeginTest(AfterTest("ok", external), left)
         /\ second' = IF step = "II" /\ world.procedure = "mapping"
                      THEN external ELSE second
         /\ UNCHANGED <<first, server>>

\* stun_test returns with ret['Err'] set: Test I goes on to the next server.
Fail(outcome, left) ==
    IF step = "I"
    THEN LET more == server + 1 \in DOMAIN world.servers
         IN /\ BeginTest(IF more THEN "I" ELSE "Blocked", left)
            /\ server' = IF more THEN server + 1 ELSE server
            /\ UNCHANGED <<first, second>>
    ELSE /\ BeginTest(AfterTest(outcome, <<>>), left)
         /\ UNCHANGED <<first, second, server>>

Running == step \in Tests

\* The request reaches the server, and its answer, if any, is on its way; or
\* the request is lost.
Send ==
    /\ Running /\ ~waiting
    /\ step = "I" => world.servers[server] # "noname"
    /\ step = "Iother" => OtherAddressKnown
    /\ waiting' = TRUE
    /\ \/ /\ contacted' = contacted \cup {Destination}
          /\ replies' = IF world.servers[server] = "down" THEN replies
                        ELSE replies \cup {Reply(Destination, ChangeRequest)}
          /\ UNCHANGED faults
       \/ /\ faults < MaxFaults /\ faults' = faults + 1
          /\ UNCHANGED <<contacted, replies>>
    /\ UNCHANGED <<world, step, server, tid, count, first, second, natType>>

\* socket.gaierror: 'Socket Error'.
SendUnresolved ==
    /\ step = "I" /\ ~waiting /\ world.servers[server] = "noname"
    /\ Fail("error", replies)
    /\ UNCHANGED <<world, faults, natType>>

\* sendto (None, None): the server sent no OTHER-ADDRESS.
SendNowhere ==
    /\ step = "Iother" /\ ~waiting /\ ~OtherAddressKnown
    /\ step' = "Traceback"
    /\ UNCHANGED <<world, server, tid, count, waiting, first, second, replies,
                   contacted, faults, natType>>

\* Mutant: the transaction id is not looked at.
MatchesAny(p) == TRUE

\* recvfrom takes whatever comes first: a reply to an earlier try, or to an
\* earlier test, too.
Matches(p) == p.tid = tid

Receive(p) ==
    /\ Running /\ waiting /\ p \in replies /\ Admitted(p)
    /\ IF ~p.error /\ Matches(p)
       THEN Succeed(p.external, replies \ {p})
       ELSE Fail("error", replies \ {p})
    /\ UNCHANGED <<world, faults, natType>>

\* Mutants: one try too many; the tries are not counted.
RetriesOnceMore == count > 0
TriesUncounted == count

\* stun_test has two tries.
Retries == count > 1
TriesLeft == count - 1

\* Nothing came for 3 s: what was on its way is late.  One more try, or
\* 'Timeout'.
Timeout ==
    /\ Running /\ waiting
    /\ \/ replies = {} /\ UNCHANGED faults
       \/ replies # {} /\ faults < MaxFaults /\ faults' = faults + 1
    /\ IF Retries
       THEN /\ count' = TriesLeft /\ waiting' = FALSE
            /\ UNCHANGED <<step, server, tid, first, second, replies, contacted>>
       ELSE Fail("timeout", replies)
    /\ UNCHANGED <<world, natType>>

\* The NAT or firewall discards a reply it does not admit.
Discard(p) ==
    /\ p \in replies /\ ~Admitted(p)
    /\ replies' = replies \ {p}
    /\ UNCHANGED <<world, step, server, tid, count, waiting, first, second,
                   contacted, faults, natType>>

Lose(p) ==
    /\ p \in replies /\ faults < MaxFaults /\ faults' = faults + 1
    /\ replies' = replies \ {p}
    /\ UNCHANGED <<world, step, server, tid, count, waiting, first, second,
                   contacted, natType>>

\* NatDiscovery.discover: the script's answer, or its traceback on stderr.
Discover ==
    /\ world.procedure = "type" /\ step \in Verdicts /\ natType = "unset"
    /\ natType' = IF step \in {"Full Cone", "Open Internet"}
                  THEN "FullCone" ELSE "Unknown"
    /\ UNCHANGED <<world, step, server, tid, count, waiting, first, second,
                   replies, contacted, faults>>

\* updateRelayConfig: libp2p is created to act as a relay.
RelayCapable(nat) == nat = "FullCone"

Network == \E p \in replies : Discard(p) \/ Lose(p)
Client ==
    \/ Send \/ SendUnresolved \/ SendNowhere \/ Timeout \/ Discover
    \/ \E p \in replies : Receive(p)

Next == Client \/ Network

Spec == Init /\ [][Next]_vars

\* The script runs, recvfrom times out, and a reply is not on its way for ever.
FairSpec == Spec /\ WF_vars(Client) /\ WF_vars(Network)

-----------------------------------------------------------------------------
(* Correctness properties.                                                 *)

Address == {<<>>} \cup {Seen(d, e) : d \in Dependence,
                                     e \in UNION {Endpoint(s) : s \in DOMAIN world.servers}}

\* Every variable has the shape the script gives it, and no datagram carries a
\* transaction id that was not handed out.
TypeOK ==
    /\ world \in Worlds /\ step \in Tests \cup Verdicts
    /\ server \in DOMAIN world.servers /\ tid \in Nat \ {0} /\ count \in 1..2
    /\ waiting \in BOOLEAN /\ first \in Address /\ second \in Address
    /\ \A p \in replies :
        /\ p.tid \in 1..tid /\ p.try \in 1..2 /\ p.external \in Address
        /\ \E s \in 1..server : p.from \in Endpoint(s)
    /\ \A e \in contacted : \E s \in 1..server : e \in Endpoint(s)
    /\ faults \in 0..MaxFaults /\ natType \in {"unset", "Unknown", "FullCone"}

\* A node offers itself as a relay only if strangers can reach it, whatever
\* was lost, late or received by the wrong test.
RelayIsReachable == RelayCapable(natType) => world.filtering = "none"

\* The classes that a verdict of each procedure may stand for.  Silence is read
\* as filtering, so faults may make a verdict too strict, never too lenient.
AllowedFiltering(verdict) ==
    CASE verdict \in {"Full Cone", "Endpoint Independent"} -> {"none"}
      [] verdict = "Restricted Cone" -> {"none", "address", "port"}
      [] verdict = "Address Dependent" -> {"none", "address"}
      [] verdict = "Port Dependent" -> {"none", "port"}
      [] OTHER -> Dependence

\* No verdict promises more reachability than the NAT gives.
NeverTooLenient ==
    (step \in Verdicts /\ world.procedure # "mapping") =>
        world.filtering \in AllowedFiltering(step)

Named(dependence) ==
    CASE dependence = "none" -> "Endpoint Independent"
      [] dependence = "address" -> "Address Dependent"
      [] dependence = "port" -> "Port Dependent"
      [] dependence = "addressPort" -> "Address-Port Dependent"

\* A mapping is never inferred from silence: if the mapping procedure names
\* one, or check_nat_type says Symmetric, it is the truth even when replies
\* were lost, late, or answered an earlier test.
MappingIsExact ==
    /\ (world.procedure = "mapping" /\ step \in Verdicts) =>
            step \in {"Blocked", "Testing Error", "Open Internet", Named(world.mapping)}
    /\ step = "Symmetric" => world.mapping # "none"

\* The server that answers Test I, 0 if there is none.
Answering ==
    LET usable == {s \in DOMAIN world.servers : world.servers[s] \in {"up", "plain"}}
    IN IF usable = {} THEN 0 ELSE CHOOSE s \in usable : \A u \in usable : s <= u

\* RFC 3489, section 10.2, and RFC 5780, sections 4.3 and 4.4.
Truth ==
    CASE world.procedure = "filtering" -> Named(world.filtering)
      [] world.procedure = "mapping" /\ SourceIsExternal -> "Open Internet"
      [] world.procedure = "mapping" /\ ~SourceIsExternal -> Named(world.mapping)
      [] world.procedure = "type" /\ SourceIsExternal ->
            IF world.filtering = "none" THEN "Open Internet" ELSE "Symmetric UDP Firewall"
      [] world.procedure = "type" /\ ~SourceIsExternal ->
            IF world.filtering = "none" THEN "Full Cone"
            ELSE IF world.mapping # "none" THEN "Symmetric"
            ELSE IF world.filtering = "address" THEN "Restricted Cone"
            ELSE "Port Restricted Cone"

\* Without faults every procedure finds the truth, from the first server that
\* answers; RFC 3489 has no name for a NAT that filters by port alone.
ExactWithoutFaults ==
    (faults = 0 /\ step \in Verdicts
        /\ ~(world.procedure = "type" /\ world.filtering = "port")) =>
        CASE Answering = 0 -> step = "Blocked"
          [] Answering # 0 /\ world.servers[Answering] = "up" -> step = Truth
          [] Answering # 0 /\ world.servers[Answering] = "plain" ->
                step = IF world.procedure = "mapping" /\ SourceIsExternal
                       THEN "Open Internet" ELSE "Testing Error"

\* The node starts libp2p only after discover returned: it always does.
DiscoveryEnds == <>(step \in Verdicts /\ (world.procedure = "type" => natType # "unset"))

\* A host without NAT and without firewall is told so (nat.ts expects 'Open
\* Internet (no NAT)').
OpenIsRecognised ==
    (step \in Verdicts /\ faults = 0 /\ world.procedure = "type" /\ world.open
        /\ world.filtering = "none" /\ Answering # 0
        /\ world.servers[Answering] = "up")
        => step = "Open Internet"
=============================================================================
