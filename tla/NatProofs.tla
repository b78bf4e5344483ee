------------------------------ MODULE NatProofs ------------------------------
(***************************************************************************)
(* What holds of the STUN client in every world, with any number of servers *)
(* and of lost or late datagrams.  A reply that carries the id of the        *)
(* current test answers the request of that test; and what the socket has    *)
(* sent to so far bounds what the NAT may admit.                             *)
(***************************************************************************)
EXTENDS NatDiscovery, TLAPS

-----------------------------------------------------------------------------
(* The invariant.                                                          *)

\* The tests of each procedure.
TestsOf(procedure) ==
    CASE procedure = "type" -> {"I", "IIopen", "II", "Iother", "III"}
      [] procedure = "mapping" -> {"I", "II", "III"}
      [] procedure = "filtering" -> {"I", "II", "III", "IV"}
StepsInv ==
    /\ step \in TestsOf(world.procedure) \cup Verdicts
    /\ step = "Symmetric" => world.procedure = "type"

\* A reply to the test in progress comes from where the request asked for.
RepliesInv ==
    \A p \in replies : p.tid = tid =>
        /\ Running /\ p.from = AnswersFrom(Destination, ChangeRequest)
        /\ p.external = External(Destination) /\ p.error = Rejects(ChangeRequest)
        /\ step = "Iother" => OtherAddressKnown

\* Only Test Iother, and the mapping procedure, send to a second endpoint.
ContactedInv ==
    \A e \in contacted : \E s \in 1..server : e \in Endpoint(s) /\
        (\/ e = At(s, 0, 0)
         \/ world.procedure = "mapping"
         \/ world.procedure = "type" /\ step \in {"Iother", "III"} \cup Verdicts
            /\ e = At(s, 1, 1))

\* What the tests so far have found of the mapping.
FoundInv ==
    /\ step \in Tests \ {"I"} => first = External(At(server, 0, 0))
    /\ (world.procedure = "mapping" /\ step = "III") =>
            second = External(At(server, 1, 0))

\* The verdicts that make nat.ts choose FullCone need a reply from an endpoint
\* the client never sent to.
OpenInv ==
    /\ (world.procedure = "type" /\ step = "Open Internet") => world.filtering = "none"
    /\ natType = "FullCone" => world.filtering = "none"

Inv == /\ TypeOK /\ StepsInv /\ RepliesInv /\ ContactedInv /\ FoundInv
       /\ OpenInv /\ NeverTooLenient /\ MappingIsExact

-----------------------------------------------------------------------------
(* Without faults.                                                         *)

Answers(s) == world.servers[s] \in {"up", "plain"}

\* Silence means that there is no server, or that the reply was not admitted:
\* only the reply to the last request is ever on its way.
SilenceInv ==
    \/ /\ replies = {}
       /\ (Running /\ waiting /\ Answers(server)) =>
              ~Admitted(Reply(Destination, ChangeRequest))
    \/ /\ Running /\ waiting /\ Answers(server)
       /\ replies = {Reply(Destination, ChangeRequest)}

\* Test I has gone on until a server answered.
ServerInv ==
    /\ \A s \in 1..(server - 1) : ~Answers(s)
    /\ step = "Blocked" => server = NumServers /\ ~Answers(server)
    /\ step \notin {"I", "Blocked"} => Answers(server)

\* What the tests before this one have found out, by replies and by silence.
Learnt(test) ==
    /\ world.procedure = "type" =>
        /\ test = "II" => ~SourceIsExternal
        /\ test = "IIopen" => SourceIsExternal
        /\ test \in {"Iother", "III"} =>
              ~SourceIsExternal /\ OtherAddressKnown /\ world.filtering # "none"
        /\ test = "III" => world.mapping = "none"
    /\ world.procedure = "mapping" =>
        (test \in {"II", "III"} => ~SourceIsExternal /\ OtherAddressKnown)
    /\ world.procedure = "filtering" =>
        /\ test \in {"III", "IV"} => OtherAddressKnown /\ world.filtering # "none"
        /\ test = "IV" => world.filtering # "address"

\* What the verdict has to be, when this server answers.
Exact(verdict) ==
    ~(world.procedure = "type" /\ world.filtering = "port") =>
        /\ world.servers[server] = "up" => verdict = Truth
        /\ world.servers[server] = "plain" =>
              verdict = IF world.procedure = "mapping" /\ SourceIsExternal
                        THEN "Open Internet" ELSE "Testing Error"

QuietInv ==
    faults = 0 =>
        /\ SilenceInv /\ ServerInv /\ Learnt(step)
        /\ (step \in Verdicts \ {"Blocked"}) => Exact(step)
        /\ (waiting /\ Running) => Destination \in contacted

-----------------------------------------------------------------------------
(* Endpoints, and what a dependence sees of them.                          *)

LEMMA WorldFields ==
    ASSUME world \in Worlds
    PROVE  /\ world.procedure \in Procedures /\ world.mapping \in Dependence
           /\ world.filtering \in Dependence /\ DOMAIN world.servers = 1..NumServers
           /\ \A s \in 1..NumServers : world.servers[s] \in ServerKinds
BY NatAssumption DEF World

LEMMA AtIsEndpoint ==
    ASSUME NEW s, NEW i \in 0..1, NEW j \in 0..1
    PROVE  At(s, i, j) \in Endpoint(s)
BY DEF Endpoint

LEMMA SeenEqual ==
    ASSUME NEW d \in Dependence, NEW s, NEW t,
           NEW i \in 0..1, NEW j \in 0..1, NEW k \in 0..1, NEW l \in 0..1
    PROVE  Seen(d, At(s, i, j)) = Seen(d, At(t, k, l)) <=>
               /\ d \in {"address", "addressPort"} => s = t /\ i = k
               /\ d \in {"port", "addressPort"} => j = l
<1>1. CASE d = "none"
  BY <1>1 DEF Seen
<1>2. CASE d = "address"
  BY <1>2 DEF Seen, At
<1>3. CASE d = "port"
  BY <1>3 DEF Seen, At
<1>4. CASE d = "addressPort"
  BY <1>4 DEF Seen, At
<1> QED
  BY <1>1, <1>2, <1>3, <1>4 DEF Dependence

LEMMA SeenAddress ==
    ASSUME TypeOK, NEW s \in 1..server, NEW e \in Endpoint(s)
    PROVE  External(e) \in Address
<1>1. s \in DOMAIN world.servers /\ world.mapping \in Dependence
  BY WorldFields, NatAssumption DEF TypeOK
<1>2. e \in UNION {Endpoint(u) : u \in DOMAIN world.servers}
  BY <1>1
<1> QED
  BY <1>1, <1>2 DEF External, Address

\* What each test asks, and where.
Asks(i, j, change) == Destination = At(server, i, j) /\ ChangeRequest = change

LEMMA Requests ==
    ASSUME TypeOK, StepsInv
    PROVE  /\ step \in {"I"} => Asks(0, 0, NoChange)
           /\ step = "Iother" => Asks(1, 1, NoChange)
           /\ (world.procedure = "mapping" /\ step = "II") => Asks(1, 0, NoChange)
           /\ (world.procedure = "mapping" /\ step = "III") => Asks(1, 1, NoChange)
           /\ (world.procedure # "mapping" /\ step \in {"II", "IIopen"}) =>
                  Asks(0, 0, ChangeBoth)
           /\ (world.procedure # "mapping" /\ step = "III") => Asks(0, 0, ChangePort)
           /\ step = "IV" => Asks(0, 0, ChangeIP)
<1>1. world.procedure \in Procedures
  BY WorldFields DEF TypeOK
<1>2. step = "Iother" => world.procedure = "type"
  BY <1>1 DEF StepsInv, TestsOf, Verdicts, Procedures
<1>3. step = "IV" => world.procedure = "filtering"
  BY <1>1 DEF StepsInv, TestsOf, Verdicts, Procedures
<1>4. Primary = At(server, 0, 0)
  BY DEF Primary
<1>5. /\ step = "I" => Destination = At(server, 0, 0)
      /\ step = "Iother" => Destination = At(server, 1, 1)
      /\ step \in {"I", "Iother"} => ChangeRequest = NoChange
  <2>1. CASE step = "I"
    BY <1>4, <2>1 DEF Destination, ChangeRequest
  <2>2. CASE step = "Iother"
    BY <2>2 DEF Destination, ChangeRequest
  <2> QED
    BY <2>1, <2>2
<1>6. world.procedure = "mapping" =>
        /\ ChangeRequest = NoChange
        /\ step = "II" => Destination = At(server, 1, 0)
        /\ step = "III" => Destination = At(server, 1, 1)
  BY DEF Destination, ChangeRequest
<1>7. world.procedure # "mapping" =>
        /\ step \in {"II", "IIopen"} => ChangeRequest = ChangeBoth
        /\ step = "III" => ChangeRequest = ChangePort
        /\ step \in {"II", "IIopen", "III"} => Destination = At(server, 0, 0)
  <2> SUFFICES ASSUME world.procedure # "mapping"
               PROVE  /\ step \in {"II", "IIopen"} => ChangeRequest = ChangeBoth
                      /\ step = "III" => ChangeRequest = ChangePort
                      /\ step # "Iother" => Destination = At(server, 0, 0)
    OBVIOUS
  <2>1. step # "Iother" => Destination = At(server, 0, 0)
    BY <1>4 DEF Destination
  <2>2. step \in {"II", "IIopen"} => ChangeRequest = ChangeBoth
    BY DEF ChangeRequest
  <2>3. step = "III" => ChangeRequest = ChangePort
    BY DEF ChangeRequest
  <2> QED
    BY <2>1, <2>2, <2>3
<1>8. step = "IV" => Destination = At(server, 0, 0) /\ ChangeRequest = ChangeIP
  <2> SUFFICES ASSUME step = "IV"
               PROVE  Destination = At(server, 0, 0) /\ ChangeRequest = ChangeIP
    OBVIOUS
  <2>1. world.procedure # "mapping"
    BY <1>3
  <2> QED
    BY <1>4, <2>1 DEF Destination, ChangeRequest
<1> QED
  BY <1>2, <1>3, <1>5, <1>6, <1>7, <1>8 DEF Asks

LEMMA AnsweredBy ==
    ASSUME NEW i \in 0..1, NEW j \in 0..1, 
           NEW change \in {NoChange, ChangeBoth, ChangePort, ChangeIP}, ~Rejects(change)
    PROVE  /\ change = NoChange => AnswersFrom(At(server, i, j), change) = At(server, i, j)
           /\ change = ChangeBoth =>
                  AnswersFrom(At(server, i, j), change) = At(server, 1 - i, 1 - j)
           /\ change = ChangePort =>
                  AnswersFrom(At(server, i, j), change) = At(server, i, 1 - j)
           /\ change = ChangeIP =>
                  AnswersFrom(At(server, i, j), change) = At(server, 1 - i, j)
<1> DEFINE e == At(server, i, j)
<1>1. e.server = server /\ e.ip = i /\ e.port = j
  BY DEF At
<1>2. AnswersFrom(e, change) =
        At(server, (i + change.ip) % 2, (j + change.port) % 2)
  BY <1>1 DEF AnswersFrom
<1>3. \A k \in 0..1 : (k + 0) % 2 = k /\ (k + 1) % 2 = 1 - k
  OBVIOUS
<1>5. change.ip \in 0..1 /\ change.port \in 0..1
  BY DEF NoChange, ChangeBoth, ChangePort, ChangeIP
<1> HIDE DEF e
<1>4. AnswersFrom(e, change) = At(server, IF change.ip = 0 THEN i ELSE 1 - i,
                                          IF change.port = 0 THEN j ELSE 1 - j)
  BY <1>2, <1>3, <1>5
<1> QED
  BY <1>4 DEF e, NoChange, ChangeBoth, ChangePort, ChangeIP

-----------------------------------------------------------------------------
(* What the outcome of a test leads to.                                    *)

LEMMA TypeOutcomes ==
    ASSUME world.procedure = "type", NEW x
    PROVE  /\ step = "IIopen" => /\ AfterTest("ok", x) = "Open Internet"
                                 /\ AfterTest("timeout", x) = "Symmetric UDP Firewall"
                                 /\ AfterTest("error", x) = "Testing Error"
           /\ step = "II" => /\ AfterTest("ok", x) = "Full Cone"
                             /\ AfterTest("timeout", x) = "Iother"
                             /\ AfterTest("error", x) = "Testing Error"
           /\ step = "Iother" =>
                  /\ x # first => AfterTest("ok", x) = "Symmetric"
                  /\ x = first => AfterTest("ok", x) = "III"
                  /\ AfterTest("timeout", x) = "Testing Error"
                  /\ AfterTest("error", x) = "Testing Error"
           /\ step = "III" => /\ AfterTest("ok", x) = "Restricted Cone"
                              /\ AfterTest("timeout", x) = "Port Restricted Cone"
                              /\ AfterTest("error", x) = "Testing Error"
<1>2. CASE step = "IIopen"
  BY <1>2 DEF AfterTest, NatTypeTable
<1>3. CASE step = "II"
  BY <1>3 DEF AfterTest, NatTypeTable
<1>4. CASE step = "Iother"
  BY <1>4 DEF AfterTest, NatTypeTable
<1>5. CASE step = "III"
  BY <1>5 DEF AfterTest, NatTypeTable
<1> QED
  BY <1>2, <1>3, <1>4, <1>5

LEMMA MappingOutcomes ==
    ASSUME world.procedure = "mapping", NEW x
    PROVE  /\ step = "II" => /\ AfterTest("ok", x) = "III"
                             /\ AfterTest("timeout", x) = "Testing Error"
                             /\ AfterTest("error", x) = "Testing Error"
           /\ step = "III" => /\ AfterTest("ok", x) = MappingType(x)
                              /\ AfterTest("timeout", x) = "Testing Error"
                              /\ AfterTest("error", x) = "Testing Error"
<1>2. CASE step = "II"
  BY <1>2 DEF AfterTest, MappingTable
<1>3. CASE step = "III"
  BY <1>3 DEF AfterTest, MappingTable
<1> QED
  BY <1>2, <1>3

LEMMA FilteringOutcomes ==
    ASSUME world.procedure = "filtering", NEW x
    PROVE  /\ step = "II" => /\ AfterTest("ok", x) = "Endpoint Independent"
                             /\ AfterTest("timeout", x) = "III"
                             /\ AfterTest("error", x) = "Testing Error"
           /\ step = "III" => /\ AfterTest("ok", x) = "Address Dependent"
                              /\ AfterTest("timeout", x) = "IV"
                              /\ AfterTest("error", x) = "Testing Error"
           /\ step = "IV" => /\ AfterTest("ok", x) = "Port Dependent"
                             /\ AfterTest("timeout", x) = "Address-Port Dependent"
                             /\ AfterTest("error", x) = "Testing Error"
<1>2. CASE step = "II"
  BY <1>2 DEF AfterTest, FilteringTable
<1>3. CASE step = "III"
  BY <1>3 DEF AfterTest, FilteringTable
<1>4. CASE step = "IV"
  BY <1>4 DEF AfterTest, FilteringTable
<1> QED
  BY <1>2, <1>3, <1>4

LEMMA BeginFacts ==
    ASSUME NEW test, NEW left, BeginTest(test, left)
    PROVE  /\ step' = test /\ tid' = tid + 1 /\ count' = 2 /\ waiting' = FALSE
           /\ replies' \subseteq left /\ contacted' \subseteq contacted
BY DEF BeginTest

-----------------------------------------------------------------------------
(* What a reply to the test in progress tells.                             *)

LEMMA ReplyTells ==
    ASSUME Inv, NEW p \in replies, Admitted(p), Matches(p), ~p.error
    PROVE  /\ p.external = External(Destination) /\ ~Rejects(ChangeRequest)
           /\ \E e \in contacted :
                 Seen(world.filtering, e)
                   = Seen(world.filtering, AnswersFrom(Destination, ChangeRequest))
<1>1. /\ p.from = AnswersFrom(Destination, ChangeRequest)
      /\ p.external = External(Destination) /\ p.error = Rejects(ChangeRequest)
  BY DEF Inv, RepliesInv, Matches
<1>2. \E e \in contacted : Seen(world.filtering, e) = Seen(world.filtering, p.from)
  BY DEF Admitted
<1> QED
  BY <1>1, <1>2

\* A reply from an endpoint (i, j) that the NAT admits: it does not look at what
\* no endpoint contacted so far has in common with it.
LEMMA StrangerTells ==
    ASSUME Inv, world.procedure # "mapping", NEW i \in 0..1, NEW j \in 0..1,
           NEW e \in contacted,
           Seen(world.filtering, e) = Seen(world.filtering, At(server, i, j))
    PROVE  /\ (i = 1 /\ world.filtering \in {"address", "addressPort"}) =>
                  world.procedure = "type" /\ step \in {"Iother", "III"} \cup Verdicts
           /\ (j = 1 /\ world.filtering \in {"port", "addressPort"}) =>
                  world.procedure = "type" /\ step \in {"Iother", "III"} \cup Verdicts
           /\ i # j => world.filtering # "addressPort"
<1>1. PICK s \in 1..server : e \in Endpoint(s) /\
        (\/ e = At(s, 0, 0)
         \/ world.procedure = "type" /\ step \in {"Iother", "III"} \cup Verdicts
            /\ e = At(s, 1, 1))
  BY DEF Inv, ContactedInv
<1>2. world.filtering \in Dependence
  BY WorldFields DEF Inv, TypeOK
<1>3. CASE e = At(s, 0, 0)
  BY <1>2, <1>3, SeenEqual DEF Dependence
<1>4. CASE /\ world.procedure = "type" /\ step \in {"Iother", "III"} \cup Verdicts
           /\ e = At(s, 1, 1)
  BY <1>2, <1>4, SeenEqual
<1> QED
  BY <1>1, <1>3, <1>4

-----------------------------------------------------------------------------
(* A test has ended: the next one begins, or a verdict is given.            *)

\* What the invariant says of a verdict.
Sound(verdict) ==
    /\ verdict = "Symmetric" => world.procedure = "type" /\ world.mapping # "none"
    /\ (world.procedure = "type" /\ verdict = "Open Internet") =>
            world.filtering = "none"
    /\ world.procedure # "mapping" => world.filtering \in AllowedFiltering(verdict)
    /\ world.procedure = "mapping" =>
            verdict \in {"Blocked", "Testing Error", "Open Internet",
                         Named(world.mapping)}

\* The verdicts that promise nothing.
LEMMA StrictIsSound ==
    ASSUME TypeOK, NEW verdict,
           \/ verdict \in {"Blocked", "Testing Error"}
           \/ world.procedure # "mapping" /\
              verdict \in {"Symmetric UDP Firewall", "Port Restricted Cone",
                           "Address-Port Dependent"}
    PROVE  Sound(verdict)
<1>1. world.filtering \in Dependence
  BY WorldFields DEF TypeOK
<1>2. AllowedFiltering(verdict) = Dependence
  BY DEF AllowedFiltering
<1> QED
  BY <1>1, <1>2 DEF Sound

LEMMA Moved ==
    ASSUME Inv, Running, NEW left \in SUBSET replies, NEW test, BeginTest(test, left),
           \/ test \in TestsOf(world.procedure)
           \/ test \in Verdicts /\ Sound(test),
           UNCHANGED <<world, natType>>, faults' \in 0..MaxFaults,
           server' \in {server, server + 1}, server' \in 1..NumServers,
           first' \in Address, second' \in Address, FoundInv',
           (world.procedure = "type" /\ step \in {"Iother", "III"}) =>
               test \in {"III"} \cup Verdicts
    PROVE  Inv'
<1>1. /\ step' = test /\ tid' = tid + 1 /\ count' = 2 /\ waiting' = FALSE
      /\ replies' \subseteq replies /\ contacted' \subseteq contacted
  BY BeginFacts
<1>2. /\ TypeOK /\ StepsInv /\ ContactedInv /\ OpenInv /\ world' = world
      /\ DOMAIN world.servers = 1..NumServers /\ world.procedure \in Procedures
  BY WorldFields DEF Inv, TypeOK
<1>3. \A p \in replies : p.tid \in 1..tid /\ tid \in Nat
  BY <1>2 DEF TypeOK
<1>4. server \in Nat /\ server' \in Nat /\ 1..server \subseteq 1..server'
  BY <1>2, NatAssumption DEF TypeOK
<1>5. TestsOf(world.procedure) \subseteq Tests /\ Tests \cap Verdicts = {}
  BY <1>2 DEF TestsOf, Procedures, Tests, Verdicts
<1>6. TypeOK'
  <2>1. world' \in Worlds' /\ step' \in Tests \cup Verdicts
    BY <1>1, <1>2, <1>5 DEF TypeOK
  <2>2. /\ server' \in DOMAIN world'.servers /\ tid' \in Nat \ {0} /\ count' \in 1..2
        /\ waiting' \in BOOLEAN
    <3>1. DOMAIN world'.servers = 1..NumServers
      BY <1>2
    <3>2. tid \in Nat \ {0}
      BY <1>2 DEF TypeOK
    <3>3. tid' \in Nat \ {0}
      BY <1>1, <3>2
    <3>4. count' \in 1..2
      BY <1>1
    <3>5. waiting' \in BOOLEAN
      BY <1>1, Zenon
    <3> QED
      BY <3>1, <3>3, <3>4, <3>5
  <2>3. first' \in Address' /\ second' \in Address'
    BY <1>2 DEF Address
  <2>4. ASSUME NEW p \in replies'
        PROVE  /\ p.tid \in 1..tid' /\ p.try \in 1..2 /\ p.external \in Address'
               /\ \E s \in 1..server' : p.from \in Endpoint(s)
    <3>1. /\ p \in replies /\ p.tid \in 1..tid /\ p.try \in 1..2
          /\ p.external \in Address /\ \E s \in 1..server : p.from \in Endpoint(s)
      BY <1>1, <1>2 DEF TypeOK
    <3>2. p.tid \in 1..tid'
      BY <1>1, <1>3, <3>1
    <3>3. Address' = Address
      BY <1>2 DEF Address
    <3> QED
      BY <1>4, <3>1, <3>2, <3>3
  <2>5. \A e \in contacted' : \E s \in 1..server' : e \in Endpoint(s)
    BY <1>1, <1>2, <1>4 DEF TypeOK
  <2>6. faults' \in 0..MaxFaults' /\ natType' \in {"unset", "Unknown", "FullCone"}
    BY <1>2 DEF TypeOK
  <2> QED
    BY <2>1, <2>2, <2>3, <2>4, <2>5, <2>6 DEF TypeOK
<1>7. StepsInv'
  <2>1. CASE test \in TestsOf(world.procedure)
    BY <1>1, <1>2, <1>5, <2>1 DEF StepsInv, Tests, TestsOf, Procedures
  <2>2. CASE test \in Verdicts /\ Sound(test)
    BY <1>1, <1>2, <2>2 DEF StepsInv, Sound
  <2> QED
    BY <2>1, <2>2
<1>8. RepliesInv'
  <2>1. \A p \in replies' : p.tid # tid'
    BY <1>1, <1>3
  <2> QED
    BY <2>1 DEF RepliesInv
<1>9. ContactedInv'
  <2> SUFFICES ASSUME NEW e \in contacted'
               PROVE  \E s \in 1..server' : e \in Endpoint(s) /\
                        (\/ e = At(s, 0, 0)
                         \/ world.procedure = "mapping"
                         \/ world.procedure = "type"
                            /\ test \in {"Iother", "III"} \cup Verdicts
                            /\ e = At(s, 1, 1))
    BY <1>1, <1>2 DEF ContactedInv
  <2>1. PICK s \in 1..server : e \in Endpoint(s) /\
            (\/ e = At(s, 0, 0)
             \/ world.procedure = "mapping"
             \/ world.procedure = "type" /\ step \in {"Iother", "III"} \cup Verdicts
                /\ e = At(s, 1, 1))
    BY <1>1, <1>2 DEF ContactedInv
  <2>2. step \notin Verdicts
    BY <1>5 DEF Running
  <2> QED
    BY <1>4, <2>1, <2>2
<1>10. OpenInv' /\ NeverTooLenient' /\ MappingIsExact'
  <2>1. CASE test \in TestsOf(world.procedure)
    <3>1. step' \notin Verdicts /\ step' \notin {"Open Internet", "Symmetric"}
      BY <1>1, <1>5, <2>1 DEF Tests, Verdicts
    <3> QED
      BY <1>2, <3>1 DEF OpenInv, NeverTooLenient, MappingIsExact
  <2>2. CASE test \in Verdicts /\ Sound(test)
    <3>1. OpenInv'
      BY <1>1, <1>2, <2>2 DEF OpenInv, Sound
    <3>2. NeverTooLenient'
      BY <1>1, <1>2, <2>2 DEF NeverTooLenient, Sound
    <3>3. MappingIsExact'
      BY <1>1, <1>2, <2>2 DEF MappingIsExact, Sound
    <3> QED
      BY <3>1, <3>2, <3>3
  <2> QED
    BY <2>1, <2>2
<1> QED
  BY <1>6, <1>7, <1>8, <1>9, <1>10 DEF Inv

\* The mapping procedure's verdict names the mapping.
LEMMA MappingNamed ==
    ASSUME TypeOK, NEW x,
           first = External(At(server, 0, 0)), second = External(At(server, 1, 0)),
           x = External(At(server, 1, 1))
    PROVE  MappingType(x) = Named(world.mapping)
<1>1. world.mapping \in Dependence
  BY WorldFields DEF TypeOK
<1>2. /\ (first = second) <=> world.mapping \in {"none", "port"}
      /\ (second = x) <=> world.mapping \in {"none", "address"}
  BY <1>1, SeenEqual DEF External, Dependence
<1> QED
  BY <1>1, <1>2 DEF MappingType, Named, Dependence

\* A procedure's next test after a reply to this one.
LEMMA SucceedKeeps ==
    ASSUME Inv, Running, NEW p \in replies, Admitted(p), Matches(p), ~p.error,
           Succeed(p.external, replies \ {p}), UNCHANGED <<world, faults, natType>>
    PROVE  Inv'
<1> DEFINE left == replies \ {p}
           x == p.external
<1>1. /\ TypeOK /\ StepsInv /\ FoundInv /\ world.procedure \in Procedures
      /\ DOMAIN world.servers = 1..NumServers
      /\ world.mapping \in Dependence /\ world.filtering \in Dependence
  BY WorldFields DEF Inv, TypeOK
<1>2. x = External(Destination) /\ ~Rejects(ChangeRequest)
  BY ReplyTells
<1>3. x \in Address /\ left \in SUBSET replies
  BY <1>1 DEF TypeOK
<1>4. server \in 1..NumServers /\ faults' \in 0..MaxFaults
      /\ first \in Address /\ second \in Address
  BY <1>1 DEF TypeOK
<1>5. \A s, i, j : External(At(s, i, j))' = External(At(s, i, j))
  BY DEF External
<1>6. step \notin Verdicts /\ step \in TestsOf(world.procedure)
  BY <1>1 DEF Running, Tests, Verdicts, StepsInv
<1>7. CASE step = "I"
  <2>1. /\ BeginTest(AfterFirst, left) /\ first' = x /\ second' = second
        /\ server' = server
    BY <1>7 DEF Succeed
  <2>2. x = External(At(server, 0, 0))
    BY <1>1, <1>2, <1>7, Requests DEF Asks
  <2>3. \/ AfterFirst \in TestsOf(world.procedure) /\ AfterFirst \in {"II", "IIopen"}
        \/ world.procedure = "mapping" /\ AfterFirst \in {"Open Internet", "Testing Error"}
    BY <1>1 DEF AfterFirst, TestsOf, Procedures
  <2>4. \/ AfterFirst \in TestsOf(world.procedure)
        \/ AfterFirst \in Verdicts /\ Sound(AfterFirst)
    BY <2>3 DEF Verdicts, Sound
  <2>5. FoundInv'
    BY <1>5, <2>1, <2>2, <2>3, BeginFacts DEF FoundInv, Tests
  <2> QED
    BY <1>3, <1>4, <1>7, <2>1, <2>4, <2>5, Moved
<1>8. CASE step # "I"
  <2> DEFINE test == AfterTest("ok", x)
  <2>1. /\ BeginTest(test, left) /\ UNCHANGED <<first, server>>
        /\ second' = IF step = "II" /\ world.procedure = "mapping" THEN x ELSE second
    BY <1>8 DEF Succeed
  <2>2. second' \in Address
    BY <1>3, <1>4, <2>1
  <2>3. PICK e \in contacted :
            Seen(world.filtering, e)
              = Seen(world.filtering, AnswersFrom(Destination, ChangeRequest))
    BY ReplyTells
  <2>4. CASE world.procedure = "type"
    <3>1. step \in {"IIopen", "II", "Iother", "III"}
      BY <1>6, <1>8, <2>4 DEF TestsOf
    <3>2. CASE step \in {"IIopen", "II"}
      <4>1. AnswersFrom(Destination, ChangeRequest) = At(server, 1, 1)
        BY <1>1, <1>2, <2>4, <3>2, Requests, AnsweredBy DEF Asks
      <4>2. world.filtering = "none"
        BY <1>1, <1>6, <2>3, <2>4, <3>2, <4>1, StrangerTells DEF Dependence
      <4>3. test \in {"Open Internet", "Full Cone"}
        BY <2>4, <3>2, TypeOutcomes
      <4>4. test \in Verdicts /\ Sound(test)
        BY <2>4, <4>2, <4>3 DEF Sound, Verdicts, AllowedFiltering, Dependence
      <4>5. FoundInv'
        BY <1>1, <1>5, <1>6, <1>8, <2>1, <2>4, <4>3, BeginFacts DEF FoundInv, Running
      <4> QED
        BY <1>3, <1>4, <2>1, <2>2, <3>2, <4>4, <4>5, Moved
    <3>3. CASE step = "Iother"
      <4>1. x = External(At(server, 1, 1)) /\ first = External(At(server, 0, 0))
        BY <1>1, <1>2, <3>3, Requests DEF Asks, FoundInv, Running
      <4>2. \/ test = "III"
            \/ test = "Symmetric" /\ x # first
        BY <2>4, <3>3, TypeOutcomes
      <4>3. test = "Symmetric" => world.mapping # "none"
        BY <1>1, <4>1, <4>2, SeenEqual DEF External
      <4>4. \/ test \in TestsOf(world.procedure)
            \/ test \in Verdicts /\ Sound(test)
        BY <1>1, <2>4, <4>2, <4>3
           DEF TestsOf, Sound, Verdicts, AllowedFiltering, Dependence
      <4>5. FoundInv'
        BY <1>1, <1>5, <1>6, <1>8, <2>1, <2>4, <4>2, BeginFacts DEF FoundInv, Running
      <4>6. test \in {"III"} \cup Verdicts
        BY <4>2 DEF Verdicts
      <4> QED
        BY <1>3, <1>4, <2>1, <2>2, <4>4, <4>5, <4>6, Moved
    <3>4. CASE step = "III"
      <4>1. AnswersFrom(Destination, ChangeRequest) = At(server, 0, 1)
        BY <1>1, <1>2, <2>4, <3>4, Requests, AnsweredBy DEF Asks
      <4>2. world.filtering # "addressPort"
        BY <2>3, <2>4, <4>1, StrangerTells
      <4>3. test = "Restricted Cone"
        BY <2>4, <3>4, TypeOutcomes
      <4>4. test \in Verdicts /\ Sound(test)
        BY <1>1, <2>4, <4>2, <4>3 DEF Sound, Verdicts, AllowedFiltering, Dependence
      <4>5. FoundInv'
        BY <1>1, <1>5, <1>6, <1>8, <2>1, <2>4, <4>3, BeginFacts DEF FoundInv, Running
      <4> QED
        BY <1>3, <1>4, <2>1, <2>2, <4>4, <4>5, Moved
    <3> QED
      BY <3>1, <3>2, <3>3, <3>4
  <2>5. CASE world.procedure = "mapping"
    <3>1. CASE step = "II"
      <4>1. test = "III" /\ test \in TestsOf(world.procedure)
        BY <2>5, <3>1, MappingOutcomes DEF TestsOf
      <4>2. second' = External(At(server, 1, 0))
        BY <1>1, <1>2, <2>1, <2>5, <3>1, Requests DEF Asks
      <4>3. FoundInv'
        BY <1>1, <1>5, <1>8, <2>1, <2>5, <3>1, <4>1, <4>2, BeginFacts DEF FoundInv, Running
      <4> QED
        BY <1>3, <1>4, <2>1, <2>2, <3>1, <4>1, <4>3, Moved
    <3>2. CASE step = "III"
      <4>1. test = MappingType(x)
        BY <2>5, <3>2, MappingOutcomes
      <4>2. x = External(At(server, 1, 1))
        BY <1>1, <1>2, <2>5, <3>2, Requests DEF Asks
      <4>3. test = Named(world.mapping)
        BY <1>1, <2>5, <3>2, <4>1, <4>2, MappingNamed DEF FoundInv, Running
      <4>4. test \in Verdicts /\ Sound(test) /\ test \notin {"II", "III", "Iother"}
        BY <1>1, <2>5, <4>3 DEF Sound, Verdicts, Named, Dependence
      <4>5. FoundInv'
        BY <1>1, <1>5, <1>8, <2>1, <4>4, BeginFacts DEF FoundInv, Running
      <4> QED
        BY <1>3, <1>4, <2>1, <2>2, <4>4, <4>5, Moved
    <3> QED
      BY <1>6, <1>8, <2>5, <3>1, <3>2 DEF TestsOf
  <2>6. CASE world.procedure = "filtering"
    <3>1. step \in {"II", "III", "IV"}
      BY <1>6, <1>8, <2>6 DEF TestsOf
    <3>2. /\ step = "II" => AnswersFrom(Destination, ChangeRequest) = At(server, 1, 1)
          /\ step = "III" => AnswersFrom(Destination, ChangeRequest) = At(server, 0, 1)
          /\ step = "IV" => AnswersFrom(Destination, ChangeRequest) = At(server, 1, 0)
      BY <1>1, <1>2, <2>6, Requests, AnsweredBy DEF Asks
    <3>3. /\ step = "II" => world.filtering = "none"
          /\ step = "III" => world.filtering \in {"none", "address"}
          /\ step = "IV" => world.filtering \in {"none", "port"}
      BY <1>1, <2>3, <2>6, <3>2, StrangerTells DEF Dependence
    <3>4. /\ step = "II" => test = "Endpoint Independent"
          /\ step = "III" => test = "Address Dependent"
          /\ step = "IV" => test = "Port Dependent"
      BY <2>6, FilteringOutcomes
    <3>5. test \in Verdicts /\ Sound(test) /\ test \notin {"II", "III", "Iother"}
      BY <2>6, <3>1, <3>3, <3>4 DEF Sound, Verdicts, AllowedFiltering
    <3>6. FoundInv'
      BY <1>1, <1>5, <1>8, <2>1, <3>5, BeginFacts DEF FoundInv, Running
    <3> QED
      BY <1>3, <1>4, <2>1, <2>2, <3>5, <3>6, Moved
  <2> QED
    BY <1>1, <2>4, <2>5, <2>6 DEF Procedures
<1> QED
  BY <1>7, <1>8

\* A procedure's next test, or its verdict, without a reply to this one.
LEMMA FailKeeps ==
    ASSUME Inv, Running, NEW left \in SUBSET replies,
           NEW outcome \in {"timeout", "error"}, Fail(outcome, left),
           UNCHANGED <<world, natType>>, faults' \in 0..MaxFaults
    PROVE  Inv'
<1>1. /\ TypeOK /\ StepsInv /\ FoundInv /\ world.procedure \in Procedures
      /\ DOMAIN world.servers = 1..NumServers
  BY WorldFields DEF Inv, TypeOK
<1>2. server \in 1..NumServers /\ first \in Address /\ second \in Address
  BY <1>1 DEF TypeOK
<1>3. step \notin Verdicts /\ step \in TestsOf(world.procedure)
  BY <1>1 DEF Running, Tests, Verdicts, StepsInv
<1>4. CASE step = "I"
  <2> DEFINE more == server + 1 \in DOMAIN world.servers
             test == IF more THEN "I" ELSE "Blocked"
  <2>1. /\ BeginTest(test, left) /\ UNCHANGED <<first, second>>
        /\ server' = IF more THEN server + 1 ELSE server
    BY <1>4 DEF Fail
  <2>2. server' \in {server, server + 1} /\ server' \in 1..NumServers
    BY <1>1, <1>2, <2>1
  <2>3. \/ test \in TestsOf(world.procedure)
        \/ test \in Verdicts /\ Sound(test)
    BY <1>1, StrictIsSound DEF TestsOf, Procedures, Verdicts
  <2>4. test \in {"I", "Blocked"}
    OBVIOUS
  <2> HIDE DEF test
  <2>5. FoundInv'
    BY <2>1, <2>4, BeginFacts DEF FoundInv, Tests
  <2> QED
    BY <1>2, <1>4, <2>1, <2>2, <2>3, <2>5, Moved
<1>5. CASE step # "I"
  <2> DEFINE test == AfterTest(outcome, <<>>)
  <2>1. BeginTest(test, left) /\ UNCHANGED <<first, second, server>>
    BY <1>5 DEF Fail
  <2>5. first' = External(At(server, 0, 0))'
    BY <1>1, <1>5, <2>1 DEF FoundInv, Running, External
  <2>2. CASE world.procedure = "type"
    <3>1. step \in {"IIopen", "II", "Iother", "III"}
      BY <1>3, <1>5, <2>2 DEF TestsOf
    <3>2. \/ test \in {"Testing Error", "Symmetric UDP Firewall", "Port Restricted Cone"}
          \/ test = "Iother" /\ step = "II"
      BY <2>2, <3>1, TypeOutcomes
    <3>3. \/ test \in TestsOf(world.procedure)
          \/ test \in Verdicts /\ Sound(test)
      BY <1>1, <2>2, <3>2, StrictIsSound DEF TestsOf, Verdicts
    <3>5. FoundInv'
      BY <2>1, <2>2, <3>2, <2>5, BeginFacts DEF FoundInv
    <3>6. step \in {"Iother", "III"} => test \in Verdicts
      BY <3>2 DEF Verdicts
    <3> QED
      BY <1>2, <2>1, <3>3, <3>5, <3>6, Moved
  <2>3. CASE world.procedure = "mapping"
    <3>1. step \in {"II", "III"}
      BY <1>3, <1>5, <2>3 DEF TestsOf
    <3>2. test = "Testing Error"
      BY <2>3, <3>1, MappingOutcomes
    <3>3. test \in Verdicts /\ Sound(test)
      BY <1>1, <3>2, StrictIsSound DEF Verdicts
    <3>4. FoundInv'
      BY <2>1, <3>2, <2>5, BeginFacts DEF FoundInv
    <3> QED
      BY <1>2, <2>1, <3>3, <3>4, Moved
  <2>4. CASE world.procedure = "filtering"
    <3>1. step \in {"II", "III", "IV"}
      BY <1>3, <1>5, <2>4 DEF TestsOf
    <3>2. \/ test \in {"Testing Error", "Address-Port Dependent"}
          \/ test = "III" /\ step = "II"
          \/ test = "IV" /\ step = "III"
      BY <2>4, <3>1, FilteringOutcomes
    <3>3. \/ test \in TestsOf(world.procedure)
          \/ test \in Verdicts /\ Sound(test)
      BY <1>1, <2>4, <3>2, StrictIsSound DEF TestsOf, Verdicts
    <3>4. FoundInv'
      <4>1. world'.procedure # "mapping"
        BY <2>4
      <4> QED
        BY <2>5, <4>1 DEF FoundInv
    <3> QED
      BY <1>2, <2>1, <2>4, <3>3, <3>4, Moved
  <2> QED
    BY <1>1, <2>2, <2>3, <2>4 DEF Procedures
<1> QED
  BY <1>4, <1>5

-----------------------------------------------------------------------------
(* The actions.                                                            *)

\* The test in progress asks the same.
LEMMA SameTest ==
    ASSUME UNCHANGED <<world, step, server>>
    PROVE  /\ Running' = Running /\ Rejects(ChangeRequest)' = Rejects(ChangeRequest)
           /\ External(Destination)' = External(Destination)
           /\ OtherAddressKnown' = OtherAddressKnown
           /\ AnswersFrom(Destination, ChangeRequest)'
                = AnswersFrom(Destination, ChangeRequest)
<1>1. Destination' = Destination
  BY DEF Destination, Primary
<1>2. ChangeRequest' = ChangeRequest
  BY DEF ChangeRequest
<1>3. Rejects(ChangeRequest)' = Rejects(ChangeRequest)
  BY <1>2 DEF Rejects
<1>4. External(Destination)' = External(Destination)
  BY <1>1 DEF External
<1>5. AnswersFrom(Destination, ChangeRequest)'
        = AnswersFrom(Destination, ChangeRequest)
  BY <1>1, <1>2, <1>3 DEF AnswersFrom
<1>6. Running' = Running
  BY DEF Running
<1>7. OtherAddressKnown' = OtherAddressKnown
  BY DEF OtherAddressKnown
<1> QED
  BY <1>3, <1>4, <1>5, <1>6, <1>7

\* Everything but the datagrams on their way stays as it is.
LEMMA NetworkKeeps ==
    ASSUME Inv, replies' \subseteq replies, contacted' = contacted,
           UNCHANGED <<world, step, server, tid, first, second, natType>>,
           waiting' \in BOOLEAN, count' \in 1..2, faults' \in 0..MaxFaults
    PROVE  Inv'
<1>1. /\ TypeOK /\ StepsInv /\ RepliesInv /\ ContactedInv /\ FoundInv
      /\ OpenInv /\ NeverTooLenient /\ MappingIsExact
  BY DEF Inv
<1>2. TypeOK'
  BY <1>1 DEF TypeOK, Address
<1>3. RepliesInv'
  BY <1>1, SameTest DEF RepliesInv
<1>4. StepsInv' /\ ContactedInv' /\ FoundInv' /\ OpenInv'
  BY <1>1 DEF StepsInv, ContactedInv, FoundInv, OpenInv, External
<1>5. NeverTooLenient' /\ MappingIsExact'
  BY <1>1 DEF NeverTooLenient, MappingIsExact
<1> QED
  BY <1>2, <1>3, <1>4, <1>5 DEF Inv

LEMMA SendKeeps ==
    ASSUME Inv, Send
    PROVE  Inv'
<1>1. /\ TypeOK /\ StepsInv /\ RepliesInv /\ ContactedInv /\ FoundInv
      /\ OpenInv /\ NeverTooLenient /\ MappingIsExact
  BY DEF Inv
<1>2. /\ Running /\ waiting' = TRUE
      /\ UNCHANGED <<world, step, server, tid, count, first, second, natType>>
      /\ \/ contacted' = contacted \cup {Destination} /\ UNCHANGED faults
         \/ /\ UNCHANGED <<contacted, replies>>
            /\ faults < MaxFaults /\ faults' = faults + 1
  BY DEF Send
<1>3. replies' \subseteq replies \cup {Reply(Destination, ChangeRequest)}
  BY DEF Send
<1>4. faults' \in 0..MaxFaults
  BY <1>1, <1>2, NatAssumption DEF TypeOK
<1>5. waiting' \in BOOLEAN
  BY <1>2, Zenon
<1>6. /\ server \in 1..NumServers /\ server \in 1..server /\ count \in 1..2
      /\ tid \in 1..tid
  BY <1>1, WorldFields, NatAssumption DEF TypeOK
<1>7. /\ step \notin Verdicts /\ step \in TestsOf(world.procedure)
      /\ world.procedure \in Procedures
  BY <1>1, <1>2, WorldFields DEF Running, Tests, Verdicts, StepsInv, TypeOK
<1>8. \E i, j \in 0..1 :
        /\ Destination = At(server, i, j)
        /\ (i = 1 \/ j = 1) => \/ world.procedure = "mapping"
                               \/ step = "Iother" /\ i = 1 /\ j = 1
        /\ ChangeRequest \in {NoChange, ChangeBoth, ChangePort, ChangeIP}
  <2>1. step \in {"I", "IIopen", "II", "Iother", "III", "IV"}
    BY <1>2 DEF Running, Tests
  <2>2. step \in {"II", "III"} \/ step \in {"I", "IIopen", "Iother", "IV"}
    BY <2>1
  <2>3. step = "IIopen" => world.procedure # "mapping"
    BY <1>7 DEF TestsOf
  <2>4. \/ Asks(0, 0, NoChange) \/ Asks(0, 0, ChangeBoth)
        \/ Asks(0, 0, ChangePort) \/ Asks(0, 0, ChangeIP)
        \/ step = "Iother" /\ Asks(1, 1, NoChange)
        \/ world.procedure = "mapping" /\ Asks(1, 0, NoChange)
        \/ world.procedure = "mapping" /\ Asks(1, 1, NoChange)
    BY <1>1, <2>1, <2>3, Requests
  <2> QED
    BY <2>4 DEF Asks
<1>9. Destination \in Endpoint(server)
      /\ AnswersFrom(Destination, ChangeRequest) \in Endpoint(server)
  <2>1. PICK i \in 0..1, j \in 0..1 :
          /\ Destination = At(server, i, j)
          /\ ChangeRequest \in {NoChange, ChangeBoth, ChangePort, ChangeIP}
    BY <1>8
  <2>2. CASE Rejects(ChangeRequest)
    BY <2>1, <2>2, AtIsEndpoint DEF AnswersFrom
  <2>3. CASE ~Rejects(ChangeRequest)
    <3>1. 1 - i \in 0..1 /\ 1 - j \in 0..1
      OBVIOUS
    <3> QED
      BY <2>1, <2>3, <3>1, AtIsEndpoint, AnsweredBy
  <2> QED
    BY <2>1, <2>2, <2>3, AtIsEndpoint
<1>10. LET p == Reply(Destination, ChangeRequest)
       IN /\ p.tid = tid /\ p.try = count /\ p.external = External(Destination)
          /\ p.from = AnswersFrom(Destination, ChangeRequest)
          /\ p.error = Rejects(ChangeRequest)
  BY DEF Reply
<1>11. TypeOK'
  <2>1. External(Destination) \in Address /\ Address' = Address
    BY <1>1, <1>2, <1>6, <1>9, SeenAddress DEF Address
  <2>2. ASSUME NEW p \in replies'
        PROVE  /\ p.tid \in 1..tid /\ p.try \in 1..2 /\ p.external \in Address
               /\ \E s \in 1..server : p.from \in Endpoint(s)
    <3>1. CASE p \in replies
      BY <1>1, <3>1 DEF TypeOK
    <3>2. CASE p = Reply(Destination, ChangeRequest)
      BY <1>6, <1>9, <1>10, <2>1, <3>2
    <3> QED
      BY <1>3, <3>1, <3>2
  <2>3. \A e \in contacted' : \E s \in 1..server : e \in Endpoint(s)
    BY <1>1, <1>2, <1>6, <1>9 DEF TypeOK
  <2> QED
    BY <1>1, <1>2, <1>4, <1>5, <2>1, <2>2, <2>3 DEF TypeOK
<1>12. RepliesInv'
  <2> SUFFICES ASSUME NEW p \in replies', p.tid = tid
               PROVE  /\ Running /\ p.from = AnswersFrom(Destination, ChangeRequest)
                      /\ p.external = External(Destination)
                      /\ p.error = Rejects(ChangeRequest)
                      /\ step = "Iother" => OtherAddressKnown
    BY <1>2, SameTest DEF RepliesInv
  <2>1. CASE p \in replies
    BY <1>1, <2>1 DEF RepliesInv
  <2>2. CASE p = Reply(Destination, ChangeRequest)
    <3>1. step = "Iother" => OtherAddressKnown
      BY DEF Send
    <3> QED
      BY <1>2, <1>10, <2>2, <3>1
  <2> QED
    BY <1>3, <2>1, <2>2
<1>13. ContactedInv'
  <2> SUFFICES ASSUME NEW e \in contacted'
               PROVE  \E s \in 1..server : e \in Endpoint(s) /\
                        (\/ e = At(s, 0, 0)
                         \/ world.procedure = "mapping"
                         \/ world.procedure = "type"
                            /\ step \in {"Iother", "III"} \cup Verdicts
                            /\ e = At(s, 1, 1))
    BY <1>2 DEF ContactedInv
  <2>1. CASE e \in contacted
    BY <1>1, <2>1 DEF ContactedInv
  <2>2. CASE e = Destination
    <3>1. step = "Iother" => world.procedure = "type"
      BY <1>7 DEF TestsOf, Procedures
    <3>2. PICK i \in 0..1, j \in 0..1 :
            /\ e = At(server, i, j)
            /\ (i = 1 \/ j = 1) => \/ world.procedure = "mapping"
                                   \/ step = "Iother" /\ i = 1 /\ j = 1
      BY <1>8, <2>2
    <3>3. i = 0 \/ i = 1
      OBVIOUS
    <3>4. j = 0 \/ j = 1
      OBVIOUS
    <3> QED
      BY <1>6, <1>9, <2>2, <3>1, <3>2, <3>3, <3>4
  <2> QED
    BY <1>2, <2>1, <2>2
<1>14. StepsInv' /\ FoundInv' /\ OpenInv' /\ NeverTooLenient' /\ MappingIsExact'
  BY <1>1, <1>2 DEF StepsInv, FoundInv, OpenInv, External, NeverTooLenient,
     MappingIsExact
<1> QED
  BY <1>11, <1>12, <1>13, <1>14 DEF Inv

LEMMA ReceiveKeeps ==
    ASSUME Inv, NEW p \in replies, Receive(p)
    PROVE  Inv'
<1>1. Running /\ Admitted(p) /\ UNCHANGED <<world, faults, natType>>
  BY DEF Receive
<1>2. CASE ~p.error /\ Matches(p)
  <2>1. Succeed(p.external, replies \ {p})
    BY <1>2 DEF Receive
  <2> QED
    BY <1>1, <1>2, <2>1, SucceedKeeps
<1>3. CASE ~(~p.error /\ Matches(p))
  <2>1. Fail("error", replies \ {p})
    BY <1>3 DEF Receive
  <2>2. faults' \in 0..MaxFaults /\ replies \ {p} \in SUBSET replies
    BY <1>1 DEF Inv, TypeOK
  <2> QED
    BY <1>1, <2>1, <2>2, FailKeeps
<1> QED
  BY <1>2, <1>3

LEMMA TimeoutKeeps ==
    ASSUME Inv, Timeout
    PROVE  Inv'
<1>1. Running /\ UNCHANGED <<world, natType>>
  BY DEF Timeout
<1>2. faults' \in 0..MaxFaults
  <2>1. \/ UNCHANGED faults
        \/ faults < MaxFaults /\ faults' = faults + 1
    BY DEF Timeout
  <2> QED
    BY <2>1, NatAssumption DEF Inv, TypeOK
<1>3. CASE Retries
  <2>1. /\ count' = count - 1 /\ count > 1 /\ waiting' = FALSE
        /\ UNCHANGED <<step, server, tid, first, second, replies, contacted>>
    BY <1>3 DEF Timeout, TriesLeft, Retries
  <2>2. count' \in 1..2
    BY <2>1 DEF Inv, TypeOK
  <2>3. waiting' \in BOOLEAN
    BY <2>1, Zenon
  <2> QED
    BY <1>1, <1>2, <2>1, <2>2, <2>3, NetworkKeeps
<1>4. CASE ~Retries
  <2>1. Fail("timeout", replies)
    BY <1>4 DEF Timeout
  <2> QED
    BY <1>1, <1>2, <2>1, FailKeeps
<1> QED
  BY <1>3, <1>4

LEMMA SendFailsKeeps ==
    ASSUME Inv, SendUnresolved \/ SendNowhere
    PROVE  Inv'
<1>1. CASE SendUnresolved
  <2>1. /\ Running /\ Fail("error", replies) /\ UNCHANGED <<world, faults, natType>>
    BY <1>1 DEF SendUnresolved, Running, Tests
  <2>2. faults' \in 0..MaxFaults
    BY <2>1 DEF Inv, TypeOK
  <2> QED
    BY <2>1, <2>2, FailKeeps
<1>2. CASE SendNowhere
  <2>1. /\ step = "Iother" /\ step' = "Traceback"
        /\ UNCHANGED <<world, server, tid, count, waiting, first, second, replies,
                       contacted, faults, natType, waiting>>
    BY <1>2 DEF SendNowhere
  <2>2. TypeOK'
    BY <2>1 DEF Inv, TypeOK, Address, Verdicts
  <2>3. world.procedure = "type"
    BY <2>1, WorldFields DEF Inv, TypeOK, StepsInv, TestsOf, Verdicts, Procedures
  <2>4. world.filtering \in Dependence
    BY WorldFields DEF Inv, TypeOK
  <2>5. StepsInv' /\ ContactedInv' /\ FoundInv' /\ OpenInv'
    BY <2>1, <2>3
       DEF Inv, StepsInv, ContactedInv, FoundInv, OpenInv, Verdicts, Tests
  <2>6. RepliesInv'
    <3>1. \A p \in replies : p.tid # tid
      BY <1>2 DEF SendNowhere, Inv, RepliesInv
    <3> QED
      BY <2>1, <3>1 DEF RepliesInv
  <2>7. NeverTooLenient' /\ MappingIsExact'
    BY <2>1, <2>3, <2>4 DEF NeverTooLenient, MappingIsExact, AllowedFiltering
  <2> QED
    BY <2>2, <2>5, <2>6, <2>7 DEF Inv
<1> QED
  BY <1>1, <1>2

LEMMA DiscoverKeeps ==
    ASSUME Inv, Discover
    PROVE  Inv'
<1>1. /\ world.procedure = "type" /\ step \in Verdicts
      /\ natType' = IF step \in {"Full Cone", "Open Internet"}
                    THEN "FullCone" ELSE "Unknown"
      /\ UNCHANGED <<world, step, server, tid, count, waiting, first, second,
                     replies, contacted, faults>>
  BY DEF Discover
<1>2. step = "Full Cone" => world.filtering = "none"
  BY <1>1 DEF Inv, NeverTooLenient, AllowedFiltering
<1>3. OpenInv'
  BY <1>1, <1>2 DEF Inv, OpenInv
<1>4. TypeOK'
  <2>1. natType' \in {"unset", "Unknown", "FullCone"}
    BY <1>1
  <2>2. TypeOK /\ waiting \in BOOLEAN /\ waiting' = waiting
    BY <1>1 DEF Inv, TypeOK
  <2>3. waiting' \in BOOLEAN
    BY <2>2, Zenon
  <2>4. world' = world
    BY <1>1
  <2>5. Address' = Address
    BY <2>4 DEF Address
  <2> QED
    BY <1>1, <2>1, <2>2, <2>3, <2>5 DEF TypeOK
<1>5. RepliesInv'
  <2>1. UNCHANGED <<world, step, server, tid, replies>>
    BY <1>1
  <2> QED
    BY <2>1, SameTest DEF Inv, RepliesInv
<1>6. StepsInv' /\ ContactedInv' /\ FoundInv'
  BY <1>1 DEF Inv, StepsInv, ContactedInv, FoundInv, External
<1>7. NeverTooLenient' /\ MappingIsExact'
  BY <1>1 DEF Inv, NeverTooLenient, MappingIsExact
<1> QED
  BY <1>3, <1>4, <1>5, <1>6, <1>7 DEF Inv

LEMMA LossKeeps ==
    ASSUME Inv, NEW p \in replies, Discard(p) \/ Lose(p)
    PROVE  Inv'
<1>1. /\ replies' \subseteq replies /\ contacted' = contacted
      /\ UNCHANGED <<world, step, server, tid, count, waiting, first, second, natType>>
      /\ \/ UNCHANGED faults
         \/ faults < MaxFaults /\ faults' = faults + 1
  BY DEF Discard, Lose
<1>2. faults' \in 0..MaxFaults /\ count' \in 1..2
  BY <1>1, NatAssumption DEF Inv, TypeOK
<1>3. waiting' \in BOOLEAN
  BY <1>1 DEF Inv, TypeOK
<1> QED
  BY <1>1, <1>2, <1>3, NetworkKeeps

LEMMA InitIsGood == Init => Inv
<1> SUFFICES ASSUME Init PROVE Inv
  OBVIOUS
<1>1. /\ world \in Worlds /\ step = "I" /\ server = 1 /\ tid = 1 /\ count = 2
      /\ waiting = FALSE /\ first = <<>> /\ second = <<>>
      /\ replies = {} /\ contacted = {} /\ faults = 0 /\ natType = "unset"
  BY DEF Init
<1>2. DOMAIN world.servers = 1..NumServers /\ world.procedure \in Procedures
  BY <1>1, WorldFields
<1>3. TypeOK
  <2>1. server \in DOMAIN world.servers
    BY <1>1, <1>2, NatAssumption
  <2>2. first \in Address /\ second \in Address
    BY <1>1 DEF Address
  <2>3. waiting \in BOOLEAN
    BY <1>1, Zenon
  <2>4. step \in Tests /\ tid \in Nat \ {0} /\ count \in 1..2 /\ faults \in 0..MaxFaults
    BY <1>1, NatAssumption DEF Tests
  <2> QED
    BY <1>1, <2>1, <2>2, <2>3, <2>4 DEF TypeOK
<1>4. StepsInv /\ RepliesInv /\ ContactedInv
  BY <1>1, <1>2 DEF StepsInv, RepliesInv, ContactedInv, TestsOf, Procedures
<1>5. FoundInv /\ OpenInv /\ NeverTooLenient /\ MappingIsExact
  BY <1>1 DEF FoundInv, OpenInv, NeverTooLenient, MappingIsExact, Verdicts
<1> QED
  BY <1>3, <1>4, <1>5 DEF Inv

LEMMA StepKeeps ==
    ASSUME Inv, [Next]_vars
    PROVE  Inv'
<1>1. CASE Client
  BY <1>1, SendKeeps, SendFailsKeeps, TimeoutKeeps, DiscoverKeeps, ReceiveKeeps
     DEF Client
<1>2. CASE Network
  BY <1>2, LossKeeps DEF Network
<1>3. CASE UNCHANGED vars
  <2>1. waiting' \in BOOLEAN /\ count' \in 1..2 /\ faults' \in 0..MaxFaults
    BY <1>3 DEF vars, Inv, TypeOK
  <2> QED
    BY <1>3, <2>1, NetworkKeeps DEF vars
<1> QED
  BY <1>1, <1>2, <1>3 DEF Next

LEMMA InvHolds == Spec => []Inv
<1>1. Inv /\ [Next]_vars => Inv'
  BY StepKeeps
<1> QED
  BY <1>1, InitIsGood, PTL DEF Spec

-----------------------------------------------------------------------------
(* What a verdict may say.                                                 *)

\* Every variable has the shape the script gives it, and no datagram carries a
\* transaction id that was not handed out.
THEOREM TypeCorrect == Spec => []TypeOK
<1>1. Inv => TypeOK
  BY DEF Inv
<1> QED
  BY <1>1, InvHolds, PTL

\* However many datagrams are lost, late or received by the wrong test, a node
\* acts as a relay only behind a NAT, or firewall, that lets strangers in.
THEOREM RelayCorrect == Spec => []RelayIsReachable
<1>1. Inv => RelayIsReachable
  BY DEF Inv, OpenInv, RelayIsReachable, RelayCapable
<1> QED
  BY <1>1, InvHolds, PTL

\* A verdict of check_nat_type or check_filtering_type never promises more
\* reachability than the NAT gives: silence is read as filtering only.
THEOREM NoVerdictTooLenient == Spec => []NeverTooLenient
<1>1. Inv => NeverTooLenient
  BY DEF Inv
<1> QED
  BY <1>1, InvHolds, PTL

\* The mapping that check_mapping_type names is the NAT's: a test that got no
\* reply of its own never counts as one that saw the same address.
THEOREM MappingCorrect == Spec => []MappingIsExact
<1>1. Inv => MappingIsExact
  BY DEF Inv
<1> QED
  BY <1>1, InvHolds, PTL

-----------------------------------------------------------------------------
(* Without faults, silence tells as much as a reply.                        *)

LEMMA QuietReply ==
    ASSUME SilenceInv, NEW p \in replies
    PROVE  /\ Running /\ waiting /\ Answers(server) /\ replies \ {p} = {}
           /\ p = Reply(Destination, ChangeRequest)
           /\ p.tid = tid /\ p.error = Rejects(ChangeRequest)
           /\ p.external = External(Destination)
<1>1. /\ Running /\ waiting /\ Answers(server)
      /\ replies = {Reply(Destination, ChangeRequest)}
  BY DEF SilenceInv
<1>2. p = Reply(Destination, ChangeRequest)
  BY <1>1
<1>3. replies \ {p} = {}
  BY <1>1
<1> QED
  BY <1>1, <1>2, <1>3 DEF Reply

\* Nothing came although the server answers: the NAT tells the endpoint it
\* answers from and the one the client has sent to apart.
LEMMA SilenceTells ==
    ASSUME SilenceInv, Running, waiting, replies = {}, Answers(server),
           Destination \in contacted
    PROVE  /\ ~Rejects(ChangeRequest)
           /\ Seen(world.filtering, Destination)
                # Seen(world.filtering, AnswersFrom(Destination, ChangeRequest))
<1> DEFINE p == Reply(Destination, ChangeRequest)
<1>1. ~Admitted(p)
  BY DEF SilenceInv
<1>2. /\ p.external = External(Destination)
      /\ p.from = AnswersFrom(Destination, ChangeRequest)
  BY DEF Reply
<1> HIDE DEF p
<1>3. Seen(world.filtering, Destination) # Seen(world.filtering, p.from)
  BY <1>1, <1>2 DEF Admitted
<1>4. ~Rejects(ChangeRequest)
  BY <1>2, <1>3 DEF AnswersFrom
<1> QED
  BY <1>2, <1>3, <1>4

\* A test that asks for no change is always answered.
LEMMA NoSilence ==
    ASSUME SilenceInv, Running, waiting, replies = {}, Answers(server),
           Destination \in contacted, NEW i \in 0..1, NEW j \in 0..1,
           Asks(i, j, NoChange)
    PROVE  FALSE
BY SilenceTells, AnsweredBy DEF Asks

LEMMA QuietBegin ==
    ASSUME NEW test, BeginTest(test, {})
    PROVE  step' = test /\ waiting' = FALSE /\ replies' = {}
<1>1. step' = test /\ waiting' = FALSE
  BY DEF BeginTest
<1>2. replies' = {} \/ replies' \in SUBSET {}
  BY DEF BeginTest
<1> QED
  BY <1>1, <1>2

LEMMA QuietMoved ==
    ASSUME NEW test, BeginTest(test, {}), world' = world, server' = server,
           Answers(server), \A s \in 1..(server - 1) : ~Answers(s),
           test \notin {"I", "Blocked"}, Learnt(test), test \in Verdicts => Exact(test)
    PROVE  QuietInv'
<1>1. step' = test /\ waiting' = FALSE /\ replies' = {}
  BY QuietBegin
<1>2. SilenceInv'
  BY <1>1 DEF SilenceInv
<1>3. ServerInv'
  BY <1>1 DEF ServerInv, Answers
<1>4. Learnt(step)'
  BY <1>1 DEF Learnt, SourceIsExternal, OtherAddressKnown
<1>5. (step' \in Verdicts \ {"Blocked"}) => Exact(step)'
  BY <1>1 DEF Exact, Truth, SourceIsExternal
<1> QED
  BY <1>1, <1>2, <1>3, <1>4, <1>5 DEF QuietInv

\* Test I: no server that answers is passed over.
LEMMA QuietNextServer ==
    ASSUME Inv, QuietInv, faults = 0, step = "I", ~Answers(server),
           NEW outcome, Fail(outcome, {}), world' = world
    PROVE  QuietInv'
<1> DEFINE more == server + 1 \in DOMAIN world.servers
           test == IF more THEN "I" ELSE "Blocked"
<1>1. /\ BeginTest(test, {}) /\ server' = IF more THEN server + 1 ELSE server
  BY DEF Fail
<1>2. step' = test /\ waiting' = FALSE /\ replies' = {}
  <2> HIDE DEF test
  <2> QED
    BY <1>1, QuietBegin
<1>3. DOMAIN world.servers = 1..NumServers /\ server \in 1..NumServers
  BY WorldFields DEF Inv, TypeOK
<1>4. \A s \in 1..(server - 1) : ~Answers(s)
  BY DEF QuietInv, ServerInv
<1>5. ServerInv'
  <2>1. \A s : Answers(s)' <=> Answers(s)
    BY DEF Answers
  <2>2. CASE more
    <3>1. step' = "I" /\ server' = server + 1
      BY <1>1, <1>2, <2>2
    <3>2. \A s \in 1..(server' - 1) : ~Answers(s)
      BY <1>3, <1>4, <3>1
    <3> QED
      BY <2>1, <3>1, <3>2 DEF ServerInv
  <2>3. CASE ~more
    <3>1. step' = "Blocked" /\ server' = server /\ server = NumServers
      BY <1>1, <1>2, <1>3, <2>3, NatAssumption
    <3> QED
      BY <1>4, <2>1, <3>1 DEF ServerInv
  <2> QED
    BY <2>2, <2>3
<1>6. Learnt(step)' /\ step' \notin Verdicts \ {"Blocked"}
  BY <1>2 DEF Learnt, Verdicts
<1>7. SilenceInv'
  BY <1>2 DEF SilenceInv
<1> QED
  BY <1>2, <1>5, <1>6, <1>7 DEF QuietInv

\* What is known while a procedure is past Test I.
LEMMA Context ==
    ASSUME Inv, QuietInv, faults = 0, Running
    PROVE  /\ step \in TestsOf(world.procedure) /\ world.procedure \in Procedures
           /\ world.mapping \in Dependence /\ world.filtering \in Dependence
           /\ SilenceInv /\ Learnt(step) /\ (waiting => Destination \in contacted)
           /\ \A s \in 1..(server - 1) : ~Answers(s)
           /\ step # "I" => Answers(server)
           /\ step # "I" => first = External(At(server, 0, 0))
BY WorldFields
   DEF Inv, TypeOK, StepsInv, FoundInv, QuietInv, ServerInv, Running, Tests, Verdicts

LEMMA QuietSucceed ==
    ASSUME Inv, QuietInv, faults = 0, NEW p \in replies, Admitted(p), ~p.error,
           Succeed(p.external, {}), UNCHANGED <<world, faults, natType>>
    PROVE  QuietInv'
<1> DEFINE x == p.external
<1>1. /\ Running /\ waiting /\ Answers(server) /\ replies \ {p} = {} /\ Matches(p)
      /\ x = External(Destination) /\ ~Rejects(ChangeRequest)
  BY QuietReply DEF QuietInv, Matches
<1>2. Inv'
  BY <1>1, SucceedKeeps
<1>3. /\ step \in TestsOf(world.procedure) /\ world.procedure \in Procedures
      /\ world.mapping \in Dependence /\ world.filtering \in Dependence
      /\ Learnt(step) /\ \A s \in 1..(server - 1) : ~Answers(s)
      /\ step # "I" => first = External(At(server, 0, 0))
  BY <1>1, Context
<1>4. OtherAddressKnown \/ world.servers[server] = "plain"
  BY <1>1 DEF Answers, OtherAddressKnown
<1>5. ChangeRequest # NoChange => OtherAddressKnown
  BY <1>1, <1>4 DEF Rejects, NoChange
<1>6. world' = world
  OBVIOUS
<1>7. CASE step = "I"
  <2>1. BeginTest(AfterFirst, {}) /\ server' = server
    BY <1>7 DEF Succeed
  <2>2. /\ world.procedure = "filtering" => AfterFirst = "II"
        /\ world.procedure = "type" =>
              AfterFirst = IF SourceIsExternal THEN "IIopen" ELSE "II"
        /\ world.procedure = "mapping" =>
              AfterFirst = IF SourceIsExternal THEN "Open Internet"
                           ELSE IF OtherAddressKnown THEN "II" ELSE "Testing Error"
    BY DEF AfterFirst
  <2>3. AfterFirst \notin {"I", "Blocked"} /\ Learnt(AfterFirst)
    BY <1>3, <2>2 DEF Learnt, Procedures
  <2>4. AfterFirst \in Verdicts => Exact(AfterFirst)
    BY <1>3, <2>2 DEF Exact, Truth, Verdicts, OtherAddressKnown, Procedures
  <2> QED
    BY <1>1, <1>3, <2>1, <2>3, <2>4, QuietMoved
<1>8. CASE step # "I"
  <2> DEFINE test == AfterTest("ok", x)
  <2>1. BeginTest(test, {}) /\ server' = server
    BY <1>8 DEF Succeed
  <2>2. step' = test
    <3> HIDE DEF test
    <3> QED
      BY <2>1, QuietBegin
  <2>3. /\ (test \in Verdicts /\ world.procedure # "mapping") =>
              world.filtering \in AllowedFiltering(test)
        /\ test = "Symmetric" => world.mapping # "none"
        /\ (world.procedure = "type" /\ test = "Open Internet") =>
              world.filtering = "none"
    <3> HIDE DEF test
    <3> QED
      BY <1>2, <1>6, <2>2 DEF Inv, NeverTooLenient, MappingIsExact, OpenInv
  <2>4. CASE world.procedure = "type"
    <3>1. step \in {"IIopen", "II", "Iother", "III"}
      BY <1>3, <1>8, <2>4 DEF TestsOf
    <3>2. CASE step \in {"IIopen", "II"}
      <4>1. OtherAddressKnown
        BY <1>5, <2>4, <3>2, Requests DEF Asks, Inv, NoChange, ChangeBoth
      <4>2. /\ step = "IIopen" => test = "Open Internet" /\ SourceIsExternal
            /\ step = "II" => test = "Full Cone" /\ ~SourceIsExternal
        BY <1>3, <2>4, TypeOutcomes DEF Learnt
      <4>3. world.filtering = "none"
        BY <2>3, <2>4, <3>2, <4>2 DEF AllowedFiltering, Verdicts
      <4>4. test = Truth
        BY <2>4, <3>2, <4>2, <4>3 DEF Truth
      <4>5. Learnt(test) /\ Exact(test) /\ test \notin {"I", "Blocked"}
        BY <2>4, <3>2, <4>1, <4>2, <4>4 DEF Learnt, Exact, OtherAddressKnown
      <4> QED
        BY <1>1, <1>3, <2>1, <4>5, QuietMoved
    <3>3. CASE step = "Iother"
      <4>1. x = External(At(server, 1, 1)) /\ first = External(At(server, 0, 0))
        BY <1>1, <1>3, <3>3, Requests DEF Asks, Inv
      <4>2. /\ x # first => test = "Symmetric"
            /\ x = first => test = "III" /\ world.mapping = "none"
        <5>1. x = first => world.mapping = "none"
          BY <1>3, <4>1, SeenEqual DEF External, Dependence
        <5> QED
          BY <2>4, <3>3, <5>1, TypeOutcomes
      <4>3. ~SourceIsExternal /\ OtherAddressKnown /\ world.filtering # "none"
        BY <1>3, <2>4, <3>3 DEF Learnt
      <4>4. test \in Verdicts => Exact(test)
        BY <2>3, <2>4, <4>2, <4>3 DEF Exact, Truth, OtherAddressKnown, Verdicts
      <4>5. Learnt(test) /\ test \notin {"I", "Blocked"}
        BY <2>4, <4>2, <4>3 DEF Learnt
      <4> QED
        BY <1>1, <1>3, <2>1, <4>4, <4>5, QuietMoved
    <3>4. CASE step = "III"
      <4>1. test = "Restricted Cone"
        BY <2>4, <3>4, TypeOutcomes
      <4>2. /\ ~SourceIsExternal /\ OtherAddressKnown
            /\ world.filtering # "none" /\ world.mapping = "none"
        BY <1>3, <2>4, <3>4 DEF Learnt
      <4>3. world.filtering \in {"address", "port"}
        BY <2>3, <2>4, <4>1, <4>2 DEF AllowedFiltering, Verdicts
      <4>4. Learnt(test) /\ Exact(test) /\ test \notin {"I", "Blocked"}
        BY <2>4, <4>1, <4>2, <4>3 DEF Learnt, Exact, Truth, OtherAddressKnown
      <4> QED
        BY <1>1, <1>3, <2>1, <4>4, QuietMoved
    <3> QED
      BY <3>1, <3>2, <3>3, <3>4
  <2>5. CASE world.procedure = "mapping"
    <3>1. step \in {"II", "III"} /\ ~SourceIsExternal /\ OtherAddressKnown
      BY <1>3, <1>8, <2>5 DEF TestsOf, Learnt
    <3>2. CASE step = "II"
      <4>1. test = "III"
        BY <2>5, <3>2, MappingOutcomes
      <4>2. Learnt(test) /\ test \notin Verdicts \cup {"I", "Blocked"}
        BY <2>5, <3>1, <4>1 DEF Learnt, Verdicts
      <4> QED
        BY <1>1, <1>3, <2>1, <4>2, QuietMoved
    <3>3. CASE step = "III"
      <4>1. x = External(At(server, 1, 1))
        BY <1>1, <2>5, <3>3, Requests DEF Asks, Inv
      <4>2. second = External(At(server, 1, 0))
        BY <2>5, <3>3 DEF Inv, FoundInv
      <4>3. test = Named(world.mapping)
        BY <1>3, <1>8, <2>5, <3>3, <4>1, <4>2, MappingNamed, MappingOutcomes DEF Inv
      <4>4. test \notin {"I", "Blocked", "II", "III"}
        BY <1>3, <4>3 DEF Named, Dependence
      <4>5. Learnt(test) /\ Exact(test)
        BY <2>5, <3>1, <4>3, <4>4 DEF Learnt, Exact, Truth, OtherAddressKnown
      <4> QED
        BY <1>1, <1>3, <2>1, <4>4, <4>5, QuietMoved
    <3> QED
      BY <3>1, <3>2, <3>3
  <2>6. CASE world.procedure = "filtering"
    <3>1. step \in {"II", "III", "IV"}
      BY <1>3, <1>8, <2>6 DEF TestsOf
    <3>2. OtherAddressKnown
      BY <1>5, <2>6, <3>1, Requests
         DEF Asks, Inv, NoChange, ChangeBoth, ChangePort, ChangeIP
    <3>3. /\ step = "II" => test = "Endpoint Independent"
          /\ step = "III" => test = "Address Dependent"
          /\ step = "IV" => test = "Port Dependent"
      BY <2>6, FilteringOutcomes
    <3>4. /\ step = "II" => world.filtering = "none"
          /\ step = "III" => world.filtering = "address"
          /\ step = "IV" => world.filtering = "port"
      BY <1>3, <2>3, <2>6, <3>3 DEF Learnt, AllowedFiltering, Verdicts
    <3>5. test = Named(world.filtering)
      BY <3>1, <3>3, <3>4 DEF Named
    <3>6. Learnt(test) /\ Exact(test) /\ test \notin {"I", "Blocked"}
      BY <2>6, <3>1, <3>2, <3>3, <3>5 DEF Learnt, Exact, Truth, OtherAddressKnown
    <3> QED
      BY <1>1, <1>3, <2>1, <3>6, QuietMoved
  <2> QED
    BY <1>3, <2>4, <2>5, <2>6 DEF Procedures
<1> QED
  BY <1>7, <1>8

\* A server with one address answers a CHANGE-REQUEST with an error.
LEMMA QuietReject ==
    ASSUME Inv, QuietInv, faults = 0, Running, Answers(server),
           Rejects(ChangeRequest), Fail("error", {}), world' = world
    PROVE  QuietInv'
<1> DEFINE test == AfterTest("error", <<>>)
<1>1. /\ step \in TestsOf(world.procedure) /\ world.procedure \in Procedures
      /\ \A s \in 1..(server - 1) : ~Answers(s)
  BY Context
<1>2. world.servers[server] = "plain" /\ ChangeRequest # NoChange
  BY DEF Rejects, NoChange
<1>3. step \notin {"I", "Iother"} /\ world.procedure # "mapping"
  BY <1>1, <1>2, Requests DEF Asks, Inv, TestsOf
<1>4. test = "Testing Error"
  BY <1>1, <1>3, TypeOutcomes, FilteringOutcomes DEF TestsOf, Procedures
<1>5. BeginTest(test, {}) /\ server' = server
  BY <1>3 DEF Fail
<1>6. Learnt(test) /\ Exact(test) /\ test \notin {"I", "Blocked"}
  BY <1>2, <1>3, <1>4 DEF Learnt, Exact
<1> QED
  BY <1>1, <1>5, <1>6, QuietMoved

LEMMA QuietTimeout ==
    ASSUME Inv, QuietInv, faults = 0, Running, waiting, replies = {},
           Fail("timeout", {}), world' = world
    PROVE  QuietInv'
<1> DEFINE test == AfterTest("timeout", <<>>)
<1>1. /\ step \in TestsOf(world.procedure) /\ world.procedure \in Procedures
      /\ world.filtering \in Dependence
      /\ SilenceInv /\ Learnt(step) /\ Destination \in contacted
      /\ \A s \in 1..(server - 1) : ~Answers(s)
      /\ step # "I" => Answers(server)
  BY Context
<1>2. \A i, j \in 0..1 : Answers(server) => ~Asks(i, j, NoChange)
  BY <1>1, NoSilence
<1>3. CASE step = "I"
  BY <1>2, <1>3, Requests, QuietNextServer DEF Inv
<1>4. CASE step # "I"
  <2>1. BeginTest(test, {}) /\ server' = server
    BY <1>4 DEF Fail
  <2>2. /\ Answers(server) /\ ~Rejects(ChangeRequest)
        /\ Seen(world.filtering, Destination)
             # Seen(world.filtering, AnswersFrom(Destination, ChangeRequest))
    BY <1>1, <1>4, SilenceTells
  <2>3. step # "Iother" /\ world.procedure # "mapping"
    BY <1>1, <1>2, <1>4, <2>2, Requests DEF Inv, TestsOf
  <2>4. step \in {"IIopen", "II", "III", "IV"}
    BY <1>1, <1>4, <2>3 DEF TestsOf, Procedures
  <2>5. /\ step \in {"IIopen", "II"} => Asks(0, 0, ChangeBoth)
        /\ step = "III" => Asks(0, 0, ChangePort)
        /\ step = "IV" => Asks(0, 0, ChangeIP)
    BY <2>3, Requests DEF Inv
  <2>6. OtherAddressKnown
    BY <2>2, <2>4, <2>5
       DEF Asks, Rejects, Answers, OtherAddressKnown, ChangeBoth, ChangePort, ChangeIP
  <2>7. /\ step \in {"IIopen", "II"} => world.filtering # "none"
        /\ step = "III" => world.filtering \notin {"none", "address"}
        /\ step = "IV" => world.filtering \notin {"none", "port"}
    <3>1. PICK i \in 0..1, j \in 0..1 :
            /\ AnswersFrom(Destination, ChangeRequest) = At(server, i, j)
            /\ Destination = At(server, 0, 0)
            /\ step = "III" => i = 0
            /\ step = "IV" => j = 0
      BY <2>2, <2>4, <2>5, AnsweredBy DEF Asks
    <3> QED
      BY <1>1, <2>2, <3>1, SeenEqual
  <2>8. CASE world.procedure = "type"
    <3>1. step \in {"IIopen", "II", "III"}
      BY <1>1, <2>4, <2>8 DEF TestsOf
    <3>2. /\ step = "IIopen" => test = "Symmetric UDP Firewall" /\ SourceIsExternal
          /\ step = "II" => test = "Iother" /\ ~SourceIsExternal
          /\ step = "III" => /\ test = "Port Restricted Cone" /\ ~SourceIsExternal
                             /\ world.mapping = "none"
      BY <1>1, <2>8, TypeOutcomes DEF Learnt
    <3>3. Learnt(test) /\ test \notin {"I", "Blocked"}
      BY <2>6, <2>7, <2>8, <3>1, <3>2 DEF Learnt
    <3>4. test \in Verdicts => Exact(test)
      BY <2>6, <2>7, <2>8, <3>1, <3>2
         DEF Exact, Truth, OtherAddressKnown, Verdicts
    <3> QED
      BY <1>1, <2>1, <2>2, <3>3, <3>4, QuietMoved
  <2>9. CASE world.procedure = "filtering"
    <3>1. step \in {"II", "III", "IV"}
      BY <1>1, <2>4, <2>9 DEF TestsOf
    <3>2. /\ step = "II" => test = "III"
          /\ step = "III" => test = "IV"
          /\ step = "IV" => /\ test = "Address-Port Dependent"
                            /\ world.filtering = "addressPort"
      BY <1>1, <2>7, <2>9, FilteringOutcomes DEF Learnt, Dependence
    <3>3. Learnt(test) /\ test \notin {"I", "Blocked"}
      BY <2>6, <2>7, <2>9, <3>1, <3>2 DEF Learnt
    <3>4. test \in Verdicts => Exact(test)
      BY <2>6, <2>9, <3>1, <3>2
         DEF Exact, Truth, OtherAddressKnown, Verdicts, Named
    <3> QED
      BY <1>1, <2>1, <2>2, <3>3, <3>4, QuietMoved
  <2> QED
    BY <1>1, <2>3, <2>8, <2>9 DEF Procedures
<1> QED
  BY <1>3, <1>4

\* Steps within a test: the tests' facts stay, silence has to be shown.
LEMMA QuietStays ==
    ASSUME QuietInv, faults = 0, UNCHANGED <<world, step, server>>, SilenceInv',
           (waiting' /\ Running) => Destination \in contacted'
    PROVE  QuietInv'
<1>1. ServerInv'
  BY DEF QuietInv, ServerInv, Answers
<1>2. Learnt(step)' /\ ((step' \in Verdicts \ {"Blocked"}) => Exact(step)')
  BY DEF QuietInv, Learnt, Exact, Truth, SourceIsExternal, OtherAddressKnown
<1>3. Destination' = Destination /\ Running' = Running
  BY DEF Destination, Primary, Running
<1> QED
  BY <1>1, <1>2, <1>3 DEF QuietInv

LEMMA QuietSend ==
    ASSUME Inv, QuietInv, faults = 0, Send, faults' = 0
    PROVE  QuietInv'
<1>1. /\ Running /\ ~waiting /\ waiting' = TRUE
      /\ UNCHANGED <<world, step, server, tid, count>>
      /\ step = "I" => world.servers[server] # "noname"
  BY DEF Send
<1>2. /\ contacted' = contacted \cup {Destination}
      /\ replies' = IF world.servers[server] = "down" THEN replies
                    ELSE replies \cup {Reply(Destination, ChangeRequest)}
  BY DEF Send
<1>3. replies = {} /\ (step # "I" => Answers(server))
  BY <1>1, Context DEF SilenceInv
<1>4. world.servers[server] \in ServerKinds
  BY WorldFields DEF Inv, TypeOK
<1>5. world.servers[server] = "down" <=> ~Answers(server)
  BY <1>1, <1>3, <1>4 DEF Answers, ServerKinds
<1>6. /\ Reply(Destination, ChangeRequest)' = Reply(Destination, ChangeRequest)
      /\ Running' = Running /\ (Answers(server)' <=> Answers(server))
  <2>1. Destination' = Destination /\ ChangeRequest' = ChangeRequest
    BY <1>1 DEF Destination, Primary, ChangeRequest
  <2>2. world' = world /\ server' = server /\ tid' = tid /\ count' = count
    BY <1>1
  <2> QED
    BY <1>1, <2>1, <2>2, SameTest DEF Reply, Running, Answers
<1>7. SilenceInv'
  <2>1. CASE Answers(server)
    <3>1. replies' = {Reply(Destination, ChangeRequest)}
      BY <1>2, <1>3, <1>5, <2>1
    <3>2. Running' /\ waiting' /\ Answers(server)'
      BY <1>1, <1>6, <2>1
    <3> QED
      BY <1>6, <3>1, <3>2 DEF SilenceInv
  <2>2. CASE ~Answers(server)
    BY <1>2, <1>3, <1>5, <1>6, <2>2 DEF SilenceInv
  <2> QED
    BY <2>1, <2>2
<1> QED
  BY <1>1, <1>2, <1>7, QuietStays

LEMMA QuietRetry ==
    ASSUME Inv, QuietInv, faults = 0, Timeout, faults' = 0
    PROVE  QuietInv'
<1>1. Running /\ waiting /\ replies = {} /\ world' = world
  BY DEF Timeout
<1>2. CASE Retries
  <2>1. waiting' = FALSE /\ UNCHANGED <<world, step, server, replies>>
    BY <1>1, <1>2 DEF Timeout
  <2>2. SilenceInv'
    BY <1>1, <2>1 DEF SilenceInv
  <2> QED
    BY <2>1, <2>2, QuietStays
<1>3. CASE ~Retries
  BY <1>1, <1>3, QuietTimeout DEF Timeout
<1> QED
  BY <1>2, <1>3

LEMMA QuietDiscard ==
    ASSUME Inv, QuietInv, faults = 0, NEW p \in replies, Discard(p)
    PROVE  QuietInv'
<1>1. /\ Running /\ waiting /\ replies \ {p} = {}
      /\ p = Reply(Destination, ChangeRequest)
  BY QuietReply DEF QuietInv
<1>2. /\ ~Admitted(p) /\ replies' = {}
      /\ UNCHANGED <<world, step, server, tid, count, waiting, contacted>>
  BY <1>1 DEF Discard
<1>3. Reply(Destination, ChangeRequest)' = p
  <2>1. Destination' = Destination /\ ChangeRequest' = ChangeRequest
    BY <1>2 DEF Destination, Primary, ChangeRequest
  <2> QED
    BY <1>1, <1>2, <2>1, SameTest DEF Reply
<1>4. ~Admitted(p)'
  BY <1>2 DEF Admitted, External
<1>5. ~Admitted(Reply(Destination, ChangeRequest))'
  BY <1>3, <1>4 DEF Admitted
<1>6. SilenceInv'
  BY <1>2, <1>5 DEF SilenceInv
<1>7. (waiting' /\ Running) => Destination \in contacted'
  BY <1>2 DEF QuietInv
<1> QED
  BY <1>2, <1>6, <1>7, QuietStays

LEMMA QuietStep ==
    ASSUME Inv, QuietInv, [Next]_vars
    PROVE  QuietInv'
<1> SUFFICES ASSUME faults' = 0 PROVE QuietInv'
  BY DEF QuietInv
<1>1. faults = 0
  <2>1. faults \in Nat
    BY DEF Inv, TypeOK
  <2>2. faults' = faults \/ faults' = faults + 1
    BY DEF Next, Client, Network, Send, SendUnresolved, SendNowhere, Timeout, Discover,
       Receive, Discard, Lose, vars
  <2> QED
    BY <2>1, <2>2
<1>2. CASE Send
  BY <1>1, <1>2, QuietSend
<1>3. CASE SendUnresolved
  <2>1. /\ step = "I" /\ ~waiting /\ Fail("error", replies) /\ world' = world
        /\ world.servers[server] = "noname"
    BY <1>3 DEF SendUnresolved
  <2>2. ~Answers(server) /\ replies = {}
    BY <1>1, <2>1 DEF Answers, QuietInv, SilenceInv
  <2> QED
    BY <1>1, <2>1, <2>2, QuietNextServer
<1>4. CASE SendNowhere
  <2>1. step = "Iother" /\ ~OtherAddressKnown
    BY <1>4 DEF SendNowhere
  <2>2. world.procedure = "type"
    BY <2>1, WorldFields DEF Inv, TypeOK, StepsInv, TestsOf, Verdicts, Procedures
  <2> QED
    BY <1>1, <2>1, <2>2 DEF QuietInv, Learnt
<1>5. CASE Timeout
  BY <1>1, <1>5, QuietRetry
<1>6. CASE Discover
  <2>1. UNCHANGED <<world, step, server, tid, count, waiting, replies, contacted>>
    BY <1>6 DEF Discover
  <2>2. replies = {} /\ ~Running
    <3>1. step \in Verdicts
      BY <1>6 DEF Discover
    <3> QED
      BY <1>1, <3>1 DEF QuietInv, SilenceInv, Running, Tests, Verdicts
  <2>3. SilenceInv'
    BY <2>1, <2>2 DEF SilenceInv, Running
  <2> QED
    BY <1>1, <2>1, <2>2, <2>3, QuietStays
<1>7. ASSUME NEW p \in replies, Receive(p)
      PROVE  QuietInv'
  <2>1. /\ Running /\ Answers(server) /\ replies \ {p} = {} /\ Matches(p)
        /\ p.error = Rejects(ChangeRequest)
    BY <1>1, QuietReply DEF QuietInv, Matches
  <2>2. Admitted(p) /\ UNCHANGED <<world, faults, natType>>
    BY <1>7 DEF Receive
  <2>3. CASE ~p.error
    <3>1. Succeed(p.external, {})
      BY <1>7, <2>1, <2>3 DEF Receive
    <3> QED
      BY <1>1, <2>2, <2>3, <3>1, QuietSucceed
  <2>4. CASE p.error
    <3>1. Fail("error", {}) /\ Rejects(ChangeRequest)
      BY <1>7, <2>1, <2>4 DEF Receive
    <3> QED
      BY <1>1, <2>1, <2>2, <3>1, QuietReject
  <2> QED
    BY <2>3, <2>4
<1>8. ASSUME NEW p \in replies, Discard(p)
      PROVE  QuietInv'
  BY <1>1, <1>8, QuietDiscard
<1>9. ASSUME NEW p \in replies, Lose(p)
      PROVE  FALSE
  BY <1>1, <1>9 DEF Lose
<1>10. CASE UNCHANGED vars
  <2>1. UNCHANGED <<world, step, server, tid, count, waiting, replies, contacted>>
    BY <1>10 DEF vars
  <2>2. Destination' = Destination /\ ChangeRequest' = ChangeRequest
    BY <2>1 DEF Destination, Primary, ChangeRequest
  <2>3. /\ Reply(Destination, ChangeRequest)' = Reply(Destination, ChangeRequest)
        /\ (Answers(server)' <=> Answers(server)) /\ Running' = Running
    BY <2>1, <2>2, SameTest DEF Reply, Answers, Running
  <2>4. Admitted(Reply(Destination, ChangeRequest))'
          <=> Admitted(Reply(Destination, ChangeRequest))
    BY <2>1, <2>3 DEF Admitted, External
  <2>5. SilenceInv'
    BY <1>1, <2>1, <2>3, <2>4 DEF QuietInv, SilenceInv
  <2>6. (waiting' /\ Running) => Destination \in contacted'
    BY <1>1, <2>1 DEF QuietInv
  <2> QED
    BY <1>1, <2>1, <2>5, <2>6, QuietStays
<1> QED
  BY <1>2, <1>3, <1>4, <1>5, <1>6, <1>7, <1>8, <1>9, <1>10 DEF Next, Client, Network

LEMMA QuietAtFirst == Init => QuietInv
BY DEF Init, QuietInv, SilenceInv, ServerInv, Learnt, Verdicts

\* The first server that answers is the one whose replies were used.
LEMMA AnsweringServer ==
    ASSUME Inv, ServerInv, step # "I"
    PROVE  /\ step = "Blocked" => Answering = 0
           /\ step # "Blocked" => Answering = server /\ Answers(server)
<1> DEFINE usable == {s \in DOMAIN world.servers : world.servers[s] \in {"up", "plain"}}
<1>1. Answering = IF usable = {} THEN 0
                  ELSE CHOOSE s \in usable : \A u \in usable : s <= u
  BY DEF Answering
<1>2. DOMAIN world.servers = 1..NumServers /\ server \in 1..NumServers
  BY WorldFields DEF Inv, TypeOK
<1>3. \A s \in usable : Answers(s) /\ s \in 1..NumServers
  BY <1>2 DEF Answers
<1>4. CASE step = "Blocked"
  <2>1. server = NumServers /\ \A s \in 1..server : ~Answers(s)
    BY <1>2, <1>4 DEF ServerInv
  <2>2. usable = {}
    BY <1>3, <2>1
  <2> QED
    BY <1>1, <1>4, <2>2
<1>5. CASE step # "Blocked"
  <2>1. Answers(server) /\ \A s \in 1..(server - 1) : ~Answers(s)
    BY <1>5 DEF ServerInv
  <2>2. server \in usable
    BY <1>2, <2>1 DEF Answers
  <2>3. \A u \in usable : server <= u
    BY <1>2, <1>3, <2>1
  <2>4. \A s \in usable : (\A u \in usable : s <= u) => s = server
    BY <1>2, <1>3, <2>2, <2>3
  <2> HIDE DEF usable
  <2>5. Answering = CHOOSE s \in usable : \A u \in usable : s <= u
    BY <1>1, <2>2
  <2> QED
    BY <1>5, <2>1, <2>2, <2>3, <2>4, <2>5
<1> QED
  BY <1>4, <1>5

\* If no datagram is lost or late, every procedure ends with what RFC 3489 and
\* RFC 5780 call this NAT, found with the first server that answers.
THEOREM ExactVerdicts == Spec => []ExactWithoutFaults
<1>1. ASSUME Inv, QuietInv, faults = 0, step \in Verdicts,
             ~(world.procedure = "type" /\ world.filtering = "port")
      PROVE  CASE Answering = 0 -> step = "Blocked"
               [] Answering # 0 /\ world.servers[Answering] = "up" -> step = Truth
               [] Answering # 0 /\ world.servers[Answering] = "plain" ->
                     step = IF world.procedure = "mapping" /\ SourceIsExternal
                            THEN "Open Internet" ELSE "Testing Error"
  <2>1. /\ step = "Blocked" => Answering = 0
        /\ step # "Blocked" => Answering = server /\ Answers(server) /\ Exact(step)
    BY <1>1, AnsweringServer DEF QuietInv, Verdicts
  <2>2. server # 0
    <3>1. server \in DOMAIN world.servers /\ DOMAIN world.servers = 1..NumServers
      BY <1>1, WorldFields DEF Inv, TypeOK
    <3> QED
      BY <3>1, NatAssumption
  <2>3. CASE step = "Blocked"
    BY <2>1, <2>3
  <2>4. CASE step # "Blocked"
    <3>1. Answering = server /\ Answers(server) /\ Exact(step) /\ Answering # 0
      BY <2>1, <2>2, <2>4
    <3>2. CASE world.servers[server] = "up"
      BY <1>1, <3>1, <3>2 DEF Exact
    <3>3. CASE world.servers[server] = "plain"
      BY <1>1, <3>1, <3>3 DEF Exact
    <3> QED
      BY <3>1, <3>2, <3>3 DEF Answers
  <2> QED
    BY <2>3, <2>4
<1>2. Inv /\ QuietInv => ExactWithoutFaults
  BY <1>1 DEF ExactWithoutFaults
<1>3. Inv /\ QuietInv /\ [Next]_vars => QuietInv'
  BY QuietStep
<1> QED
  BY <1>2, <1>3, QuietAtFirst, InvHolds, PTL DEF Spec

===============================================================================
