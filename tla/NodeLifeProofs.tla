---------------------------- MODULE NodeLifeProofs ----------------------------
(***************************************************************************)
(* What holds of the life of a node for any identities, peers, clients and  *)
(* bounds.  The identity that runs is the one in the file, and before the   *)
(* listeners are installed nothing has been counted: with these two facts   *)
(* the safety properties of NodeLife are inductive.                         *)
(***************************************************************************)
EXTENDS NodeLife, FiniteSetTheorems, TLAPS

Running == pc \notin {"off", "identity"}

\* What runs was loaded from the file, or is in it by now.
FromFile == Running => peerId \in Ids /\ idFile = peerId

Uncounted == pc # "up" => context.connections = 0

Inv == TypeOK /\ FromFile /\ IdentityIsStable /\ Uncounted /\ CountIsNear

-----------------------------------------------------------------------------
\* The map of connections is finite, so that its size is a number.
LEMMA Counted == Cardinality(Connected) \in Nat /\ IsFiniteSet(Connected)
<1>1. IsFiniteSet(Connected)
  BY NodeLifeAssumption, FS_Subset DEF Connected
<1> QED
  BY <1>1, FS_CardinalityType

LEMMA ContextTypes == NewContext \in Context
BY DEF NewContext, Context, NatTypes

LEMMA InitIsGood == Init => Inv
<1> SUFFICES ASSUME Init PROVE Inv
  OBVIOUS
<1>1. TypeOK
  <2>1. conns \in [Peers -> 0..MaxConns] /\ 0 \in 0..MaxCrashes
    BY NodeLifeAssumption DEF Init, Stopped
  <2> QED
    BY <2>1, ContextTypes DEF Init, Stopped, TypeOK, NoClients, Listening
<1> QED
  BY <1>1 DEF Init, Stopped, Inv, FromFile, Running, IdentityIsStable, Uncounted,
              CountIsNear, NewContext

\* However the process ends, it forgets everything but its identity.
LEMMA StopIsGood ==
    ASSUME Inv, Stop, known' = known, crashes' \in 0..MaxCrashes,
           \/ idFile' = idFile
           \/ idFile' = "torn" /\ known = {}
    PROVE  Inv'
<1>1. /\ pc' = "off" /\ peerId' = "none" /\ context' = NewContext
      /\ conns' \in [Peers -> 0..MaxConns] /\ DOMAIN seen' = {}
  BY NodeLifeAssumption DEF Stop, NoClients
<1>2. TypeOK'
  BY <1>1, ContextTypes DEF Inv, TypeOK, Listening
<1> QED
  BY <1>1, <1>2 DEF Inv, FromFile, Running, IdentityIsStable, Uncounted, CountIsNear,
                    NewContext

\* Without an identity in the file the node was never online.
LEMMA NeverOnline == ASSUME Inv, NoIdentity PROVE known = {}
BY NodeLifeAssumption DEF Inv, TypeOK, NoIdentity, IdentityIsStable

\* A step of the start that neither counts connections nor is told of any.
LEMMA StartIsGood == ASSUME Inv, StartStep PROVE Inv'
<1>1. CASE LoadIdentity
  <2>1. peerId' \in Ids /\ idFile' = peerId'
    BY <1>1 DEF LoadIdentity, NoIdentity, Inv, TypeOK
  <2> QED
    BY <1>1, <2>1, NodeLifeAssumption
       DEF LoadIdentity, Inv, TypeOK, FromFile, Running, IdentityIsStable, Uncounted,
           CountIsNear, Listening, history
<1>2. CASE LoadFails
  BY <1>2, StopIsGood DEF LoadFails, history, Inv, TypeOK
<1>3. CASE CreateIdentity
  <2>1. known = {}
    BY <1>3, NeverOnline DEF CreateIdentity
  <2> QED
    BY <1>3, <2>1
       DEF CreateIdentity, Inv, TypeOK, FromFile, Running, IdentityIsStable, Uncounted,
           CountIsNear, Listening, history
<1>4. ASSUME NEW nat \in NatTypes, Discover(nat)
      PROVE  Inv'
  <2>1. context' \in Context /\ context'.connections = context.connections
    BY <1>4 DEF Discover, Inv, TypeOK, Context
  <2> QED
    BY <1>4, <2>1
       DEF Discover, Inv, TypeOK, FromFile, Running, IdentityIsStable, Uncounted,
           CountIsNear, Listening, history
<1>5. CASE Create
  BY <1>5, NodeLifeAssumption
     DEF Create, Inv, TypeOK, FromFile, Running, IdentityIsStable, Uncounted,
         CountIsNear, Listening, history
<1>6. ASSUME pc \in {"listen", "publish"},
             context' = [context EXCEPT !.status = "online", !.id = peerId]
      PROVE  context' \in Context /\ context'.connections = 0
  BY <1>6 DEF Inv, TypeOK, Context, Uncounted
<1>7. CASE Listen
  <2>1. context' \in Context /\ context'.connections = 0
    BY <1>6, <1>7 DEF Listen
  <2>2. peerId \in Ids /\ idFile = peerId
    BY <1>7 DEF Listen, Inv, FromFile, Running
  <2> QED
    BY <1>7, <2>1, <2>2
       DEF Listen, Inv, TypeOK, FromFile, Running, IdentityIsStable, Uncounted,
           CountIsNear, Listening
<1>8. CASE Open
  <2>1. context' \in Context /\ context'.connections = 0
    BY <1>6, <1>8 DEF Open
  <2>2. Cardinality(Connected') \in Nat
    BY <1>8, Counted DEF Open, Connected
  <2>3. CountIsNear'
    BY <2>1, <2>2 DEF CountIsNear
  <2> QED
    BY <1>8, <2>1, <2>3
       DEF Open, Inv, TypeOK, FromFile, Running, IdentityIsStable, Uncounted,
           Listening, history
<1>9. CASE StartFails
  BY <1>9, StopIsGood DEF StartFails, history, Inv, TypeOK
<1> QED
  BY <1>1, <1>2, <1>3, <1>4, <1>5, <1>7, <1>8, <1>9 DEF StartStep

\* An event leaves the file and the process as they are.
LEMMA EventIsGood ==
    ASSUME Inv, UNCHANGED <<idFile, pc, peerId, seen, history>>,
           conns' \in [Peers -> 0..MaxConns],
           context' = context \/ \E n \in Nat : Tell(n),
           CountIsNear'
    PROVE  Inv'
<1>1. context' \in Context /\ (pc # "up" => context' = context)
  BY DEF Tell, Inv, TypeOK, Context
<1> QED
  BY <1>1 DEF Inv, TypeOK, FromFile, Running, IdentityIsStable, Uncounted, Listening,
              history

LEMMA ConnOpenIsGood == ASSUME Inv, NEW p \in Peers, ConnOpen(p) PROVE Inv'
<1> DEFINE n == Cardinality(Connected)
<1>1. /\ conns \in [Peers -> 0..MaxConns] /\ conns[p] < MaxConns
      /\ conns' = [conns EXCEPT ![p] = @ + 1]
  BY DEF ConnOpen, Inv, TypeOK
<1>2. conns' \in [Peers -> 0..MaxConns]
  BY <1>1, NodeLifeAssumption
<1>3. Connected' = Connected \cup {p}
  BY <1>1 DEF Connected
<1>4. n \in Nat /\ Cardinality(Connected') \in Nat /\ n <= Cardinality(Connected')
  <2>1. n \in Nat /\ IsFiniteSet(Connected)
    BY Counted
  <2>2. Cardinality(Connected \cup {p}) = IF p \in Connected THEN n ELSE n + 1
    BY <2>1, FS_AddElement
  <2> HIDE DEF n
  <2> QED
    BY <1>3, <2>1, <2>2
<1>5. pc' = pc /\ (pc = "up" => context'.connections = n + 1)
  BY DEF ConnOpen, Tell, Inv, TypeOK, Context
<1> HIDE DEF n
<1>6. CountIsNear'
  BY <1>3, <1>4, <1>5 DEF CountIsNear
<1>7. n + 1 \in Nat /\ Tell(n + 1)
  BY <1>4 DEF ConnOpen, n
<1> QED
  BY <1>2, <1>6, <1>7, EventIsGood DEF ConnOpen

LEMMA ConnCloseIsGood == ASSUME Inv, NEW p \in Peers, ConnClose(p) PROVE Inv'
<1> DEFINE n == Cardinality(Connected)
<1>1. /\ conns \in [Peers -> 0..MaxConns] /\ conns[p] > 0
      /\ conns' = [conns EXCEPT ![p] = @ - 1]
  BY DEF ConnClose, Inv, TypeOK
<1>2. conns' \in [Peers -> 0..MaxConns]
  BY <1>1, NodeLifeAssumption
<1>3. n \in Nat /\ p \in Connected
  BY <1>1, Counted DEF Connected
<1>4. CASE conns[p] = 1
  <2>1. Connected' = Connected \ {p}
    BY <1>1, <1>4 DEF Connected
  <2>2. Cardinality(Connected') = n - 1 /\ n - 1 \in Nat
    <3>1. IsFiniteSet(Connected \ {p}) /\ Cardinality(Connected \ {p}) = n - 1
      BY <1>3, Counted, FS_RemoveElement
    <3>2. n - 1 \in Nat
      BY <3>1, FS_CardinalityType
    <3> QED
      BY <2>1, <3>1, <3>2
  <2>3. pc' = pc /\ (pc = "up" => context'.connections = n - 1) /\ Tell(n - 1)
    BY <1>4 DEF ConnClose, Tell, SizeAfter, Inv, TypeOK, Context
  <2>4. Connected' = {} => n - 1 = 0
    BY <2>2, FS_EmptySet
  <2> HIDE DEF n
  <2>5. CountIsNear'
    BY <2>2, <2>3, <2>4 DEF CountIsNear
  <2> QED
    BY <1>2, <2>2, <2>3, <2>5, EventIsGood DEF ConnClose
<1>5. CASE conns[p] # 1
  <2>1. Connected' = Connected /\ context' = context /\ pc' = pc
    BY <1>1, <1>5 DEF Connected, ConnClose
  <2>2. CountIsNear'
    BY <2>1 DEF CountIsNear, Inv
  <2> QED
    BY <1>2, <2>1, <2>2, EventIsGood DEF ConnClose
<1> QED
  BY <1>4, <1>5

\* What the clients do, or are sent, changes nothing but what they have seen.
LEMMA ClientIsGood ==
    ASSUME Inv, UNCHANGED <<idFile, pc, peerId, conns, context, history>>,
           DOMAIN seen' \subseteq Clients,
           \A b \in DOMAIN seen' : seen'[b] \subseteq Context
    PROVE  Inv'
BY DEF Inv, TypeOK, FromFile, Running, IdentityIsStable, Uncounted, CountIsNear,
       Connected, Listening, history

LEMMA NextIsGood == Inv /\ [Next]_vars => Inv'
<1> SUFFICES ASSUME Inv, [Next]_vars PROVE Inv'
  OBVIOUS
<1>0. /\ DOMAIN seen \subseteq Clients /\ context \in Context
      /\ \A b \in DOMAIN seen : seen[b] \subseteq Context
  BY DEF Inv, TypeOK
<1>1. CASE Main
  BY <1>1 DEF Main, Inv, TypeOK, FromFile, Running, IdentityIsStable, Uncounted,
              CountIsNear, Listening, history
<1>2. CASE StartStep
  BY <1>2, StartIsGood
<1>3. CASE CreateTorn
  <2>1. known = {}
    BY <1>3, NeverOnline DEF CreateTorn
  <2>2. crashes' \in 0..MaxCrashes
    BY <1>3, NodeLifeAssumption DEF CreateTorn, Inv, TypeOK
  <2> QED
    BY <1>3, <2>1, <2>2, StopIsGood DEF CreateTorn
<1>4. CASE Tick
  BY <1>0, <1>4, ClientIsGood DEF Tick
<1>5. CASE Crash
  <2>1. crashes' \in 0..MaxCrashes
    BY <1>5, NodeLifeAssumption DEF Crash, Inv, TypeOK
  <2> QED
    BY <1>5, <2>1, StopIsGood DEF Crash
<1>6. CASE \E p \in Peers : ConnOpen(p) \/ ConnClose(p)
  BY <1>6, ConnOpenIsGood, ConnCloseIsGood
<1>7. CASE \E b \in Clients : ClientConnects(b) \/ ClientLeaves(b)
  BY <1>0, <1>7, ClientIsGood DEF ClientConnects, ClientLeaves
<1>8. CASE UNCHANGED vars
  BY <1>0, <1>8, ClientIsGood DEF vars, history
<1> QED
  BY <1>1, <1>2, <1>3, <1>4, <1>5, <1>6, <1>7, <1>8 DEF Next

-----------------------------------------------------------------------------
LEMMA InvHolds == Spec => []Inv
BY InitIsGood, NextIsGood, PTL DEF Spec

\* Whatever starts, crashes, connects or leaves, every variable keeps the shape
\* the code gives it, and a node that listens has an identity.
THEOREM TypeCorrect == Spec => []TypeOK
<1>1. Inv => TypeOK
  BY DEF Inv
<1> QED
  BY <1>1, InvHolds, PTL

\* The network knows a node under one id, over any number of restarts and
\* crashes: every id it was ever online under is the one in its file.
THEOREM OneIdentity == Spec => []IdentityIsStable
<1>1. Inv => IdentityIsStable
  BY DEF Inv
<1> QED
  BY <1>1, InvHolds, PTL

\* The number of connections the clients are shown is never more than one too
\* high, and is zero when the last peer has left, for any number of peers.
THEOREM CountIsRight == Spec => []CountIsNear
<1>1. Inv => CountIsNear
  BY DEF Inv
<1> QED
  BY <1>1, InvHolds, PTL
=============================================================================
