----------------------------- MODULE SearchProofs -----------------------------
(***************************************************************************)
(* What holds of any number of searches, providers and clients.  The        *)
(* invariant says which senders have been heard of a search so far: none     *)
(* before the local files, then the local files and every provider that is   *)
(* not waited for any more, in the end `done`.                               *)
(***************************************************************************)
EXTENDS Search, TLAPS

Event == [search : Searches, from : {"local", "done"} \cup Remote]

-----------------------------------------------------------------------------
(* Helpers.                                                                *)

LEMMA PutSame ==
    ASSUME NEW m, NEW k \in DOMAIN m, NEW v
    PROVE  /\ DOMAIN Put(m, k, v) = DOMAIN m /\ Put(m, k, v)[k] = v
           /\ \A x \in DOMAIN m : x # k => Put(m, k, v)[x] = m[x]
BY DEF Put

\* The fields of a search, and what an update of one leaves.
LEMMA ActiveFields ==
    ASSUME NEW x \in Active
    PROVE  /\ DOMAIN x.asked \subseteq Remote
           /\ \A p \in DOMAIN x.asked : x.asked[p] \in {"waiting", "late", "over"}
           /\ x.pc \in {"local", "remote", "done"} /\ x.http \in BOOLEAN
           /\ x.lookup \in BOOLEAN /\ x.batches \in Seq(Batch)
           /\ x.audience \in SUBSET Sockets
BY DEF Active

LEMMA ActivePc ==
    ASSUME NEW x \in Active, NEW pc \in {"local", "remote", "done"}
    PROVE  /\ [x EXCEPT !.pc = pc] \in Active /\ [x EXCEPT !.lookup = FALSE] \in Active
BY DEF Active

LEMMA ActiveBatches ==
    ASSUME NEW x \in Active, NEW batch \in Batch
    PROVE  [x EXCEPT !.batches = Append(@, batch)] \in Active
<1>1. Append(x.batches, batch) \in Seq(Batch)
  BY ActiveFields
<1> QED
  BY <1>1 DEF Active

LEMMA ActiveAsked ==
    ASSUME NEW x \in Active, NEW p \in Remote, NEW v \in {"waiting", "late", "over"}
    PROVE  /\ [x EXCEPT !.asked = Put(@, p, v)] \in Active
           /\ p \in DOMAIN x.asked => [x EXCEPT !.asked[p] = v] \in Active
<1> DEFINE V == {"waiting", "late", "over"}
           Maps == UNION {[T -> V] : T \in SUBSET Remote}
<1>1. Put(x.asked, p, v) \in Maps
  <2>1. Put(x.asked, p, v) \in [DOMAIN x.asked \cup {p} -> V]
    BY ActiveFields DEF Put
  <2> QED
    BY <2>1, ActiveFields
<1>2. [x.asked EXCEPT ![p] = v] \in Maps
  <2>1. x.asked \in Maps
    BY DEF Active
  <2> QED
    BY <2>1
<1>3. \A m \in Maps : [x EXCEPT !.asked = m] \in Active
  BY DEF Active
<1> HIDE DEF Maps, V
<1> QED
  BY <1>1, <1>2, <1>3

\* One element more, from a sender that is new.
LEMMA OnceMore ==
    ASSUME NEW S, NEW seq \in Seq(S), NEW I \in SUBSET (1..Len(seq)), NEW senders,
           EachOnce(seq, I, senders), NEW e \in S, e.from \notin senders
    PROVE  EachOnce(Append(seq, e), I \cup {Len(seq) + 1}, senders \cup {e.from})
<1> DEFINE new == Append(seq, e)
           n == Len(seq) + 1
<1>1. new[n] = e /\ n \notin I /\ \A i \in I : new[i] = seq[i]
  OBVIOUS
<1> HIDE DEF new, n
<1>2. {new[i].from : i \in I \cup {n}} = senders \cup {e.from}
  <2>1. {new[i].from : i \in I} = senders
    <3>1. senders = {seq[i].from : i \in I}
      BY DEF EachOnce
    <3>2. \A i \in I : new[i].from = seq[i].from
      BY <1>1
    <3> QED
      BY <3>1, <3>2
  <2>2. {new[i].from : i \in I \cup {n}} = {new[i].from : i \in I} \cup {new[n].from}
    OBVIOUS
  <2> QED
    BY <1>1, <2>1, <2>2
<1>3. ASSUME NEW i \in I \cup {n}, NEW j \in I \cup {n}, new[i].from = new[j].from
      PROVE  i = j
  BY <1>1, <1>3 DEF EachOnce
<1>4. EachOnce(new, I \cup {n}, senders \cup {e.from})
  BY <1>2, <1>3 DEF EachOnce
<1> QED
  BY <1>4 DEF new, n

-----------------------------------------------------------------------------
(* The invariant.                                                          *)

\* The senders whose batch search x has yielded, and those of its events.
Heard(x) ==
    IF x.pc = "local" THEN {}
    ELSE {"local"} \cup {p \in DOMAIN x.asked : x.asked[p] # "waiting"}
Told(x) == Heard(x) \cup IF x.pc = "done" THEN {"done"} ELSE {}

\* What is known of a search: what it has yielded, and that it ends only when it
\* waits for nobody, with the response made of what it has yielded.
SearchOK(x, response) ==
    /\ x.pc = "local" => DOMAIN x.asked = {} /\ x.batches = <<>>
    /\ EachOnce(x.batches, 1..Len(x.batches), Heard(x))
    /\ x.pc = "done" => \A p \in DOMAIN x.asked : x.asked[p] # "waiting"
    /\ (x.http /\ x.pc = "done") => response = x.batches
SearchInv ==
    \A s \in DOMAIN search :
        SearchOK(search[s], answer[s]) /\ search[s].audience \subseteq sockets

\* No event comes before the local files, and none says `done` before the end.
Timely ==
    \A c \in Sockets : \A i \in 1..Len(view[c]) :
        LET e == view[c][i]
        IN /\ e.search \in DOMAIN search /\ search[e.search].pc # "local"
           /\ e.from = "done" => search[e.search].pc = "done"

\* A client that was there from the beginning was told of all senders so far.
InOrder(c, s) ==
    \A i, j \in Events(c, s) :
        (view[c][i].from = "local" \/ view[c][j].from = "done") => i <= j
CaughtUp ==
    \A s \in DOMAIN search : \A c \in live :
        (c \in search[s].audience /\ ~search[s].http) =>
            EachOnce(view[c], Events(c, s), Told(search[s])) /\ InOrder(c, s)

ViewInv == view \in [Sockets -> Seq(Event)] /\ Timely /\ DoneIsLast /\ CaughtUp
OthersOK ==
    /\ live \subseteq sockets /\ sockets \subseteq Sockets
    /\ DOMAIN search \subseteq Searches /\ answer \in [Searches -> Seq(Batch)]
    /\ \A s \in DOMAIN search : search[s] \in Active
Inv == OthersOK /\ SearchInv /\ ViewInv

LEMMA InitIsGood == Init => Inv
<1> SUFFICES ASSUME Init PROVE Inv
  OBVIOUS
<1>1. DOMAIN search = {} /\ view = [c \in Sockets |-> <<>>]
  BY DEF Init, NoMap
<1>2. OthersOK
  BY <1>1 DEF Init, OthersOK
<1>3. ViewInv
  BY <1>1 DEF ViewInv, Timely, DoneIsLast, CaughtUp
<1> QED
  BY <1>1, <1>2, <1>3 DEF Inv, SearchInv

-----------------------------------------------------------------------------
(* Steps of one search s, which leave it as y.                              *)

Becomes(s, y) ==
    /\ DOMAIN search' = DOMAIN search /\ search'[s] = y
    /\ \A r \in DOMAIN search : r # s => search'[r] = search[r]

\* A step that tells the clients nothing keeps the views in order, if there is
\* nothing to be told, or if this is an HTTP request.
LEMMA SilentViews ==
    ASSUME Inv, NEW s \in DOMAIN search, NEW y,
           Becomes(s, y), UNCHANGED <<sockets, live, view>>,
           y.http = search[s].http, y.audience = search[s].audience,
           y.pc = "local" => search[s].pc = "local",
           search[s].pc = "done" => y.pc = "done",
           y.http \/ Told(y) = Told(search[s])
    PROVE  ViewInv'
<1>1. /\ DOMAIN search' = DOMAIN search /\ search'[s] = y
      /\ \A r \in DOMAIN search : r # s => search'[r] = search[r]
  BY DEF Becomes
<1>2. Timely'
  BY <1>1 DEF Inv, ViewInv, Timely
<1>3. CaughtUp'
  <2> SUFFICES ASSUME NEW r \in DOMAIN search, NEW c \in live,
                      c \in search'[r].audience, ~search'[r].http
               PROVE  (EachOnce(view[c], Events(c, r), Told(search[r]))
                        /\ InOrder(c, r))'
    BY <1>1 DEF CaughtUp
  <2>1. EachOnce(view[c], Events(c, r), Told(search[r])) /\ InOrder(c, r)
    BY <1>1 DEF Inv, ViewInv, CaughtUp
  <2>2. Told(search'[r]) = Told(search[r])
    BY <1>1
  <2> QED
    BY <2>1, <2>2 DEF EachOnce, InOrder, Events
<1> QED
  BY <1>2, <1>3 DEF Inv, ViewInv, DoneIsLast

\* A step that emits an event to all clients: its sender is new, the local files
\* are the first and `done` is the last.
LEMMA EmitViews ==
    ASSUME Inv, NEW s \in DOMAIN search, NEW y, NEW e \in Event, EmitOnEach(e),
           Becomes(s, y), UNCHANGED <<sockets, live>>, e.search = s,
           y.http = search[s].http, y.audience = search[s].audience,
           search[s].pc # "done", y.pc # "local",
           e.from = "local" <=> search[s].pc = "local",
           e.from = "done" <=> y.pc = "done",
           e.from \notin Told(search[s]), Told(y) = Told(search[s]) \cup {e.from}
    PROVE  ViewInv'
<1>1. /\ DOMAIN search' = DOMAIN search /\ search'[s] = y
      /\ \A r \in DOMAIN search : r # s => search'[r] = search[r]
  BY DEF Becomes
<1>2. /\ view \in [Sockets -> Seq(Event)] /\ live \subseteq sockets
      /\ sockets \subseteq Sockets
  BY DEF Inv, ViewInv, OthersOK
<1>3. view' = [c \in Sockets |->
                 IF c \in live THEN Append(view[c], e) ELSE view[c]]
  BY <1>2 DEF EmitOnEach
<1>4. view' \in [Sockets -> Seq(Event)]
  <2>1. ASSUME NEW c \in Sockets
        PROVE  view[c] \in Seq(Event) /\ Append(view[c], e) \in Seq(Event)
    BY <1>2
  <2> QED
    BY <1>3, <2>1
<1>5. ASSUME NEW c \in Sockets
      PROVE  /\ Len(view[c]) \in Nat /\ Len(view[c]) <= Len(view'[c])
             /\ Len(view'[c]) <= Len(view[c]) + 1
             /\ \A i \in 1..Len(view[c]) : view'[c][i] = view[c][i]
             /\ \A i \in 1..Len(view'[c]) :
                    i \in 1..Len(view[c]) \/ (i = Len(view[c]) + 1 /\ view'[c][i] = e)
  <2>1. view[c] \in Seq(Event)
    BY <1>2
  <2>2. view'[c] = view[c] \/ view'[c] = Append(view[c], e)
    BY <1>3
  <2> QED
    BY <2>1, <2>2
<1>6. Timely'
  <2> SUFFICES ASSUME NEW c \in Sockets, NEW i \in 1..Len(view'[c])
               PROVE  LET z == view'[c][i]
                      IN /\ z.search \in DOMAIN search' /\ search'[z.search].pc # "local"
                         /\ z.from = "done" => search'[z.search].pc = "done"
    BY DEF Timely
  <2>1. CASE view'[c][i] = e
    BY <1>1, <2>1
  <2>2. CASE i \in 1..Len(view[c]) /\ view'[c][i] = view[c][i]
    BY <1>1, <2>2 DEF Inv, ViewInv, Timely
  <2> QED
    BY <1>5, <2>1, <2>2
<1>7. DoneIsLast'
  <2> SUFFICES ASSUME NEW c \in Sockets, NEW i \in 1..Len(view'[c]),
                      NEW j \in 1..Len(view'[c]), view'[c][i].from = "done",
                      view'[c][j].search = view'[c][i].search
               PROVE  j <= i
    BY DEF DoneIsLast
  <2>1. CASE i \in 1..Len(view[c]) /\ j \in 1..Len(view[c])
    BY <1>5, <2>1 DEF Inv, ViewInv, DoneIsLast
  <2>2. CASE i \notin 1..Len(view[c])
    BY <1>5, <2>2
  <2>3. CASE i \in 1..Len(view[c]) /\ j \notin 1..Len(view[c])
    <3>1. view[c][i].from = "done" /\ view[c][i].search = s
      BY <1>5, <2>3
    <3> QED
      BY <2>3, <3>1 DEF Inv, ViewInv, Timely
  <2> QED
    BY <2>1, <2>2, <2>3
<1>8. CaughtUp'
  <2> SUFFICES ASSUME NEW r \in DOMAIN search, NEW c \in live,
                      c \in search'[r].audience, ~search'[r].http
               PROVE  (EachOnce(view[c], Events(c, r), Told(search[r]))
                        /\ InOrder(c, r))'
    BY <1>1 DEF CaughtUp
  <2> DEFINE n == Len(view[c])
  <2>1. /\ c \in Sockets /\ view[c] \in Seq(Event) /\ n \in Nat
        /\ view'[c] = Append(view[c], e) /\ Len(view'[c]) = n + 1
        /\ view'[c][n + 1] = e /\ \A i \in 1..n : view'[c][i] = view[c][i]
    BY <1>2, <1>3
  <2>2. EachOnce(view[c], Events(c, r), Told(search[r])) /\ InOrder(c, r)
    BY <1>1 DEF Inv, ViewInv, CaughtUp
  <2>3. Events(c, r) \in SUBSET (1..n)
    BY DEF Events
  <2>4. CASE r # s
    <3>1. Events(c, r)' = Events(c, r)
      BY <2>1, <2>4 DEF Events
    <3> QED
      BY <1>1, <2>1, <2>2, <2>3, <2>4, <3>1 DEF EachOnce, InOrder
  <2>5. CASE r = s
    <3>1. Events(c, r)' = Events(c, r) \cup {n + 1}
      BY <2>1, <2>5 DEF Events
    <3>2. EachOnce(view'[c], Events(c, r)', Told(search'[r]))
      BY <1>1, <2>1, <2>2, <2>3, <2>5, <3>1, OnceMore
    <3>3. \A i \in Events(c, r) : search[s].pc # "local" /\ view[c][i].from # "done"
      BY <2>1, <2>5 DEF Events, Inv, ViewInv, Timely
    <3> HIDE DEF n
    <3>4. InOrder(c, r)'
      BY <2>1, <2>2, <2>3, <3>1, <3>3 DEF InOrder
    <3> QED
      BY <3>2, <3>4
  <2> QED
    BY <2>4, <2>5
<1> QED
  BY <1>4, <1>6, <1>7, <1>8 DEF ViewInv

\* What is left to show of a step of one search.
LEMMA OneSearch ==
    ASSUME Inv, NEW s \in DOMAIN search, NEW y \in Active,
           Becomes(s, y), UNCHANGED <<sockets, live>>,
           y.audience = search[s].audience, answer' \in [Searches -> Seq(Batch)],
           \A r \in DOMAIN search : r # s => answer'[r] = answer[r],
           SearchOK(y, answer'[s]), ViewInv'
    PROVE  Inv'
<1>1. /\ DOMAIN search' = DOMAIN search /\ search'[s] = y
      /\ \A r \in DOMAIN search : r # s => search'[r] = search[r]
  BY DEF Becomes
<1>2. OthersOK'
  BY <1>1 DEF Inv, OthersOK
<1>3. SearchInv'
  <2> SUFFICES ASSUME NEW r \in DOMAIN search
               PROVE  SearchOK(search'[r], answer'[r])
                      /\ search'[r].audience \subseteq sockets
    BY <1>1 DEF SearchInv
  <2>1. CASE r = s
    BY <1>1, <2>1 DEF Inv, SearchInv
  <2>2. CASE r # s
    BY <1>1, <2>2 DEF Inv, SearchInv
  <2> QED
    BY <2>1, <2>2
<1> QED
  BY <1>2, <1>3 DEF Inv

\* A batch from a sender not heard of before keeps the invariant.
LEMMA YieldKeeps ==
    ASSUME Inv, NEW s \in DOMAIN search, NEW rest \in Active, NEW batch \in Batch,
           Yield(s, rest, batch), UNCHANGED <<sockets, live, answer>>,
           rest.http = search[s].http, rest.audience = search[s].audience,
           rest.batches = search[s].batches,
           search[s].pc # "done", rest.pc = "remote",
           batch.from = "local" <=> search[s].pc = "local",
           batch.from \notin Heard(search[s]),
           Heard(rest) = Heard(search[s]) \cup {batch.from}
    PROVE  Inv'
<1> DEFINE x == search[s]
           y == [rest EXCEPT !.batches = Append(@, batch)]
           e == [search |-> s, from |-> batch.from]
<1>1. x \in Active /\ x.batches \in Seq(Batch) /\ rest.batches \in Seq(Batch)
  BY ActiveFields DEF Inv, OthersOK
<1>2. y \in Active
  BY ActiveBatches
<1>3. /\ y.pc = "remote" /\ y.http = x.http /\ y.audience = x.audience
      /\ y.asked = rest.asked /\ y.batches = Append(x.batches, batch)
  BY DEF Active
<1>4. Becomes(s, y)
  BY PutSame DEF Yield, Becomes
<1>5. e \in Event /\ e.search = s /\ e.from = batch.from
  BY DEF Event, Batch, Inv, OthersOK
<1>6. batch.from # "done"
  BY SearchAssumption DEF Batch, Remote
<1>7. Heard(y) = Heard(x) \cup {batch.from}
  BY <1>3 DEF Heard
<1>8. SearchOK(x, answer[s])
  BY DEF Inv, SearchInv
<1>9. x.http => UNCHANGED view
  BY DEF Yield
<1>10. ~x.http => EmitOnEach(e)
  BY DEF Yield
<1> HIDE DEF y, e
<1>11. SearchOK(y, answer'[s])
  <2>1. EachOnce(x.batches, 1..Len(x.batches), Heard(x))
    BY <1>8 DEF SearchOK
  <2>2. /\ 1..Len(y.batches) = 1..Len(x.batches) \cup {Len(x.batches) + 1}
        /\ 1..Len(x.batches) \in SUBSET (1..Len(x.batches))
    BY <1>1, <1>3
  <2>3. EachOnce(y.batches, 1..Len(y.batches), Heard(y))
    <3> DEFINE n == Len(x.batches)
    <3>1. EachOnce(Append(x.batches, batch), 1..n \cup {n + 1},
                   Heard(x) \cup {batch.from})
      BY <1>1, <2>1, <2>2, OnceMore
    <3> QED
      BY <1>3, <1>7, <2>2, <3>1
  <2> QED
    BY <1>3, <2>3 DEF SearchOK
<1>12. ViewInv'
  <2>1. CASE x.http
    BY <1>3, <1>4, <1>9, <2>1, SilentViews
  <2>2. CASE ~x.http
    <3>1. Told(x) = Heard(x) /\ Told(y) = Heard(y)
      BY <1>3 DEF Told
    <3> QED
      BY <1>3, <1>4, <1>5, <1>6, <1>7, <1>10, <2>2, <3>1, EmitViews
  <2> QED
    BY <2>1, <2>2
<1>13. answer' \in [Searches -> Seq(Batch)]
  BY DEF Inv, OthersOK
<1> QED
  BY <1>2, <1>3, <1>4, <1>11, <1>12, <1>13, OneSearch

-----------------------------------------------------------------------------
(* The actions.                                                            *)

LEMMA LocalKeeps ==
    ASSUME Inv, NEW s, NEW result \in {"files", "empty"}, Local(s, result)
    PROVE  Inv'
<1> DEFINE x == search[s]
           rest == [x EXCEPT !.pc = "remote"]
           batch == [from |-> "local", result |-> result]
<1>1. s \in DOMAIN search /\ x.pc = "local" /\ x \in Active
  BY DEF Local, At, Inv, OthersOK
<1>2. rest \in Active
  BY <1>1, ActivePc
<1>3. /\ rest.pc = "remote" /\ rest.http = x.http /\ rest.audience = x.audience
      /\ rest.batches = x.batches /\ rest.asked = x.asked
  BY <1>1 DEF Active
<1>4. batch \in Batch /\ batch.from = "local"
  BY DEF Batch, Results
<1>5. DOMAIN x.asked = {}
  BY <1>1 DEF Inv, SearchInv, SearchOK
<1>6. Heard(x) = {} /\ Heard(rest) = {"local"}
  BY <1>1, <1>3, <1>5 DEF Heard
<1>7. Yield(s, rest, batch) /\ UNCHANGED <<sockets, live, answer>>
  BY DEF Local
<1> HIDE DEF rest, batch
<1> QED
  BY <1>1, <1>2, <1>3, <1>4, <1>6, <1>7, YieldKeeps

\* Respond and GiveUp: a provider waited for is accounted for.
LEMMA AnswerKeeps ==
    ASSUME Inv, NEW s, At(s, "remote"), NEW p \in DOMAIN search[s].asked,
           search[s].asked[p] = "waiting", NEW v \in {"late", "over"},
           NEW result \in Results,
           Yield(s, [search[s] EXCEPT !.asked[p] = v], [from |-> p, result |-> result]),
           UNCHANGED <<sockets, live, answer>>
    PROVE  Inv'
<1> DEFINE x == search[s]
           rest == [x EXCEPT !.asked[p] = v]
           batch == [from |-> p, result |-> result]
<1>1. s \in DOMAIN search /\ x.pc = "remote" /\ x \in Active
  BY DEF At, Inv, OthersOK
<1>2. p \in Remote
  BY <1>1, ActiveFields
<1>3. rest \in Active
  BY <1>1, <1>2, ActiveAsked
<1>4. /\ rest.pc = "remote" /\ rest.http = x.http /\ rest.audience = x.audience
      /\ rest.batches = x.batches /\ rest.asked = [x.asked EXCEPT ![p] = v]
  BY <1>1 DEF Active
<1>5. batch \in Batch /\ batch.from = p
  BY <1>2 DEF Batch
<1>6. p # "local"
  BY <1>2, SearchAssumption DEF Remote
<1>7. p \notin Heard(x)
  BY <1>1, <1>6 DEF Heard
<1>8. Heard(rest) = Heard(x) \cup {p}
  <2>1. {q \in DOMAIN rest.asked : rest.asked[q] # "waiting"}
          = {q \in DOMAIN x.asked : x.asked[q] # "waiting"} \cup {p}
    BY <1>4
  <2> QED
    BY <1>1, <1>4, <2>1 DEF Heard
<1>9. Yield(s, rest, batch)
  OBVIOUS
<1> HIDE DEF rest, batch
<1> QED
  BY <1>1, <1>3, <1>4, <1>5, <1>6, <1>7, <1>8, <1>9, YieldKeeps

\* Provider, LookupEnds and RespondLate: nothing is yielded.
LEMMA QuietKeeps ==
    ASSUME Inv, NEW s \in DOMAIN search, NEW y \in Active, Becomes(s, y),
           UNCHANGED <<sockets, live, view, answer>>,
           y.pc = search[s].pc, y.http = search[s].http,
           y.audience = search[s].audience, y.batches = search[s].batches,
           search[s].pc # "local", Heard(y) = Heard(search[s]),
           y.pc = "done" => \A p \in DOMAIN y.asked : y.asked[p] # "waiting"
    PROVE  Inv'
<1>1. SearchOK(search[s], answer[s])
  BY DEF Inv, SearchInv
<1>2. SearchOK(y, answer'[s])
  BY <1>1 DEF SearchOK
<1>3. Told(y) = Told(search[s])
  BY DEF Told
<1>4. ViewInv'
  BY <1>3, SilentViews
<1>5. answer' \in [Searches -> Seq(Batch)]
  BY DEF Inv, OthersOK
<1> QED
  BY <1>2, <1>4, <1>5, OneSearch

LEMMA ProviderKeeps ==
    ASSUME Inv, NEW s, NEW p \in Peers, Provider(s, p)
    PROVE  Inv'
<1> DEFINE x == search[s]
           y == [x EXCEPT !.asked = Put(@, p, "waiting")]
<1>1. /\ s \in DOMAIN search /\ x.pc = "remote" /\ x \in Active
      /\ p \in Remote /\ p \notin DOMAIN x.asked
  BY DEF Provider, At, IsRemote, Remote, Inv, OthersOK
<1>2. y \in Active
  BY <1>1, ActiveAsked
<1>3. /\ y.pc = "remote" /\ y.http = x.http /\ y.audience = x.audience
      /\ y.batches = x.batches /\ y.asked = Put(x.asked, p, "waiting")
  BY <1>1 DEF Active
<1>4. Becomes(s, y)
  BY <1>1 DEF Provider, Becomes
<1>5. Heard(y) = Heard(x)
  <2>1. /\ DOMAIN y.asked = DOMAIN x.asked \cup {p} /\ y.asked[p] = "waiting"
        /\ \A q \in DOMAIN x.asked : q # p => y.asked[q] = x.asked[q]
    <3> HIDE DEF y
    <3> QED
      BY <1>3 DEF Put
  <2>2. {q \in DOMAIN y.asked : y.asked[q] # "waiting"}
          = {q \in DOMAIN x.asked : x.asked[q] # "waiting"}
    BY <1>1, <2>1
  <2> QED
    BY <1>1, <1>3, <2>2 DEF Heard
<1>6. UNCHANGED <<sockets, live, view, answer>>
  BY DEF Provider
<1> HIDE DEF y
<1> QED
  BY <1>1, <1>2, <1>3, <1>4, <1>5, <1>6, QuietKeeps

LEMMA LookupEndsKeeps ==
    ASSUME Inv, NEW s, LookupEnds(s)
    PROVE  Inv'
<1> DEFINE x == search[s]
           y == [x EXCEPT !.lookup = FALSE]
<1>1. s \in DOMAIN search /\ x.pc = "remote" /\ x \in Active
  BY DEF LookupEnds, At, Inv, OthersOK
<1>2. y \in Active
  BY <1>1, ActivePc
<1>3. /\ y.pc = "remote" /\ y.http = x.http /\ y.audience = x.audience
      /\ y.batches = x.batches /\ y.asked = x.asked
  BY <1>1 DEF Active
<1>4. Becomes(s, y)
  BY <1>1 DEF LookupEnds, Becomes
<1>5. Heard(y) = Heard(x)
  BY <1>1, <1>3 DEF Heard
<1>6. UNCHANGED <<sockets, live, view, answer>>
  BY DEF LookupEnds
<1> HIDE DEF y
<1> QED
  BY <1>1, <1>2, <1>3, <1>4, <1>5, <1>6, QuietKeeps

LEMMA RespondLateKeeps ==
    ASSUME Inv, NEW s, NEW p \in Peers, RespondLate(s, p)
    PROVE  Inv'
<1> DEFINE x == search[s]
           y == [x EXCEPT !.asked[p] = "over"]
<1>1. /\ s \in DOMAIN search /\ x \in Active
      /\ p \in DOMAIN x.asked /\ x.asked[p] = "late"
  BY DEF RespondLate, Inv, OthersOK
<1>2. p \in Remote
  BY <1>1, ActiveFields
<1>3. y \in Active
  BY <1>1, <1>2, ActiveAsked
<1>4. /\ y.pc = x.pc /\ y.http = x.http /\ y.audience = x.audience
      /\ y.batches = x.batches /\ y.asked = [x.asked EXCEPT ![p] = "over"]
  BY <1>1 DEF Active
<1>5. Becomes(s, y)
  BY <1>1 DEF RespondLate, Becomes
<1>6. Heard(y) = Heard(x)
  <2>1. {q \in DOMAIN y.asked : y.asked[q] # "waiting"}
          = {q \in DOMAIN x.asked : x.asked[q] # "waiting"}
    BY <1>1, <1>4
  <2> QED
    BY <1>4, <2>1 DEF Heard
<1>7. SearchOK(x, answer[s])
  BY <1>1 DEF Inv, SearchInv
<1>8. x.pc # "local"
  BY <1>1, <1>7 DEF SearchOK
<1>9. y.pc = "done" => \A q \in DOMAIN y.asked : y.asked[q] # "waiting"
  BY <1>1, <1>4, <1>7 DEF SearchOK
<1>10. UNCHANGED <<sockets, live, view, answer>>
  BY DEF RespondLate
<1> HIDE DEF y
<1> QED
  BY <1>1, <1>3, <1>4, <1>5, <1>6, <1>8, <1>9, <1>10, QuietKeeps

LEMMA FinishKeeps ==
    ASSUME Inv, NEW s, Finish(s)
    PROVE  Inv'
<1> DEFINE x == search[s]
           y == [x EXCEPT !.pc = "done"]
           e == [search |-> s, from |-> "done"]
<1>1. /\ s \in DOMAIN search /\ x.pc = "remote" /\ x \in Active
      /\ s \in Searches /\ \A p \in DOMAIN x.asked : x.asked[p] # "waiting"
  BY DEF Finish, At, AllAnswered, Waiting, Inv, OthersOK
<1>2. y \in Active
  BY <1>1, ActivePc
<1>3. /\ y.pc = "done" /\ y.http = x.http /\ y.audience = x.audience
      /\ y.batches = x.batches /\ y.asked = x.asked
  BY <1>1 DEF Active
<1>4. Becomes(s, y) /\ UNCHANGED <<sockets, live>>
  BY <1>1 DEF Finish, Becomes
<1>5. Heard(y) = Heard(x)
  BY <1>1, <1>3 DEF Heard
<1>6. "done" \notin Heard(x)
  <2>1. DOMAIN x.asked \subseteq Peers
    BY <1>1, ActiveFields DEF Remote
  <2> QED
    BY <1>1, <2>1, SearchAssumption DEF Heard
<1>7. Told(x) = Heard(x) /\ Told(y) = Heard(x) \cup {"done"}
  BY <1>1, <1>3, <1>5 DEF Told
<1>8. /\ answer' \in [Searches -> Seq(Batch)]
      /\ \A r \in DOMAIN search : r # s => answer'[r] = answer[r]
      /\ x.http => answer'[s] = x.batches
  <2>1. answer \in [Searches -> Seq(Batch)] /\ x.batches \in Seq(Batch)
    BY <1>1, ActiveFields DEF Inv, OthersOK
  <2>2. CASE x.http
    <3>1. answer' = [answer EXCEPT ![s] = x.batches]
      BY <2>2 DEF Finish
    <3> HIDE DEF x
    <3> QED
      BY <1>1, <2>1, <3>1
  <2>3. CASE ~x.http
    <3>1. UNCHANGED answer
      BY <2>3 DEF Finish
    <3> QED
      BY <2>1, <2>3, <3>1
  <2> QED
    BY <2>2, <2>3
<1>9. SearchOK(y, answer'[s])
  <2>1. SearchOK(x, answer[s])
    BY <1>1 DEF Inv, SearchInv
  <2> QED
    BY <1>1, <1>3, <1>5, <1>8, <2>1 DEF SearchOK
<1>10. ViewInv'
  <2>1. CASE x.http
    <3>1. UNCHANGED view
      BY <2>1 DEF Finish
    <3> HIDE DEF y
    <3> QED
      BY <1>1, <1>3, <1>4, <2>1, <3>1, SilentViews
  <2>2. CASE ~x.http
    <3>1. EmitOnEach(e)
      BY <2>2 DEF Finish
    <3>2. e \in Event /\ e.search = s /\ e.from = "done"
      BY <1>1 DEF Event
    <3> HIDE DEF y, e
    <3> QED
      BY <1>1, <1>3, <1>4, <1>6, <1>7, <3>1, <3>2, EmitViews
  <2> QED
    BY <2>1, <2>2
<1> HIDE DEF y
<1> QED
  BY <1>1, <1>2, <1>3, <1>4, <1>8, <1>9, <1>10, OneSearch

LEMMA BeginKeeps ==
    ASSUME Inv, NEW s \in Searches, NEW http \in BOOLEAN, Begin(s, http)
    PROVE  Inv'
<1> DEFINE y == [pc |-> "local", http |-> http, lookup |-> TRUE,
                 asked |-> NoMap, batches |-> <<>>, audience |-> live]
<1>1. /\ s \notin DOMAIN search /\ search' = Put(search, s, y)
      /\ UNCHANGED <<sockets, live, view, answer>>
  BY DEF Begin
<1>2. OthersOK /\ SearchInv /\ ViewInv
  BY DEF Inv
<1>3. /\ y.pc = "local" /\ y.asked = NoMap /\ DOMAIN NoMap = {}
      /\ y.batches = <<>> /\ y.audience = live
  BY DEF NoMap
<1>4. y \in Active
  <2> DEFINE Maps == UNION {[S -> {"waiting", "late", "over"}] : S \in SUBSET Remote}
  <2>1. NoMap \in [{} -> {"waiting", "late", "over"}]
    BY DEF NoMap
  <2>2. NoMap \in Maps
    BY <2>1
  <2>3. live \in SUBSET Sockets /\ <<>> \in Seq(Batch)
    BY <1>2 DEF OthersOK
  <2> HIDE DEF Maps
  <2>4. y \in [pc : {"local", "remote", "done"}, http : BOOLEAN, lookup : BOOLEAN,
               asked : Maps, batches : Seq(Batch), audience : SUBSET Sockets]
    BY <2>2, <2>3
  <2> QED
    BY <2>4 DEF Maps, Active
<1> HIDE DEF y
<1>5. /\ DOMAIN search' = DOMAIN search \cup {s} /\ search'[s] = y
      /\ \A r \in DOMAIN search : search'[r] = search[r]
  BY <1>1 DEF Put
<1>6. OthersOK'
  BY <1>1, <1>2, <1>4, <1>5 DEF OthersOK
<1>7. SearchInv'
  <2>1. EachOnce(y.batches, 1..Len(y.batches), Heard(y))
    BY <1>3 DEF EachOnce, Heard
  <2>2. SearchOK(y, answer[s]) /\ y.audience \subseteq sockets
    BY <1>2, <1>3, <2>1 DEF SearchOK, OthersOK
  <2> QED
    BY <1>1, <1>2, <1>5, <2>2 DEF SearchInv
<1>8. Timely'
  BY <1>1, <1>2, <1>5 DEF ViewInv, Timely
<1>9. CaughtUp'
  <2> SUFFICES ASSUME NEW r \in DOMAIN search', NEW c \in live,
                      c \in search'[r].audience, ~search'[r].http
               PROVE  (EachOnce(view[c], Events(c, r), Told(search[r]))
                        /\ InOrder(c, r))'
    BY <1>1 DEF CaughtUp
  <2>1. Events(c, r)' = Events(c, r) /\ view' = view
    BY <1>1 DEF Events
  <2>2. CASE r \in DOMAIN search
    BY <1>2, <1>5, <2>1, <2>2 DEF ViewInv, CaughtUp, EachOnce, InOrder
  <2>3. CASE r = s
    <3>1. Events(c, s) = {}
      BY <1>1, <1>2 DEF ViewInv, Timely, Events, OthersOK
    <3>2. Told(search'[s]) = {}
      BY <1>3, <1>5 DEF Told, Heard
    <3> QED
      BY <2>1, <2>3, <3>1, <3>2 DEF EachOnce, InOrder
  <2> QED
    BY <1>5, <2>2, <2>3
<1> QED
  BY <1>1, <1>2, <1>6, <1>7, <1>8, <1>9 DEF Inv, ViewInv, DoneIsLast

\* A new client belongs to the audience of no search that has begun.
LEMMA ConnectKeeps ==
    ASSUME Inv, NEW c \in Sockets, Connect(c) \/ Disconnect(c)
    PROVE  Inv'
<1>1. /\ UNCHANGED <<search, view, answer>> /\ sockets \subseteq sockets'
      /\ sockets' \subseteq Sockets /\ live' \subseteq sockets'
      /\ \A d \in live' : d \in live \/ d \notin sockets
  BY DEF Connect, Disconnect, Inv, OthersOK
<1>2. OthersOK' /\ SearchInv'
  BY <1>1 DEF Inv, OthersOK, SearchInv
<1>3. CaughtUp'
  <2> SUFFICES ASSUME NEW s \in DOMAIN search, NEW d \in live',
                      d \in search[s].audience, ~search[s].http
               PROVE  (EachOnce(view[d], Events(d, s), Told(search[s]))
                        /\ InOrder(d, s))'
    BY <1>1 DEF CaughtUp
  <2>1. d \in live
    BY <1>1 DEF Inv, SearchInv
  <2>2. Events(d, s)' = Events(d, s)
    BY <1>1 DEF Events
  <2>3. EachOnce(view[d], Events(d, s), Told(search[s])) /\ InOrder(d, s)
    BY <2>1 DEF Inv, ViewInv, CaughtUp
  <2> QED
    BY <1>1, <2>2, <2>3 DEF EachOnce, InOrder
<1>4. ViewInv'
  BY <1>1, <1>3 DEF Inv, ViewInv, Timely, DoneIsLast
<1> QED
  BY <1>2, <1>4 DEF Inv

LEMMA StepKeeps ==
    ASSUME Inv, [Next]_vars
    PROVE  Inv'
<1>1. ASSUME NEW c \in Sockets, Connect(c) \/ Disconnect(c)
      PROVE  Inv'
  BY <1>1, ConnectKeeps
<1>2. ASSUME NEW s \in Searches, SearchStep(s)
      PROVE  Inv'
  <2>1. ASSUME NEW result \in {"files", "empty"}, Local(s, result)
        PROVE  Inv'
    BY <2>1, LocalKeeps
  <2>2. CASE LookupEnds(s)
    BY <2>2, LookupEndsKeeps
  <2>3. CASE Finish(s)
    BY <2>3, FinishKeeps
  <2>4. ASSUME NEW p \in Remote, GiveUp(s, p)
        PROVE  Inv'
    BY <2>4, AnswerKeeps DEF GiveUp, Results
  <2> QED
    BY <1>2, <2>1, <2>2, <2>3, <2>4 DEF SearchStep
<1>3. ASSUME NEW s \in Searches, PeerStep(s)
      PROVE  Inv'
  <2>1. PICK p \in Peers : \/ Provider(s, p) \/ RespondLate(s, p)
                           \/ \E result \in Results : Respond(s, p, result)
    BY <1>3 DEF PeerStep
  <2>2. CASE Provider(s, p)
    BY <2>2, ProviderKeeps
  <2>3. CASE RespondLate(s, p)
    BY <2>3, RespondLateKeeps
  <2>4. ASSUME NEW result \in Results, Respond(s, p, result)
        PROVE  Inv'
    BY <2>4, AnswerKeeps DEF Respond
  <2> QED
    BY <2>1, <2>2, <2>3, <2>4
<1>4. ASSUME NEW s \in Searches, NEW http \in BOOLEAN, Begin(s, http)
      PROVE  Inv'
  BY <1>4, BeginKeeps
<1>5. CASE UNCHANGED vars
  BY <1>5 DEF vars, Inv, OthersOK, SearchInv, ViewInv, Timely, DoneIsLast, CaughtUp,
     Events, EachOnce, InOrder
<1> QED
  BY <1>1, <1>2, <1>3, <1>4, <1>5 DEF Next

LEMMA InvHolds == Spec => []Inv
<1>1. Inv /\ [Next]_vars => Inv'
  BY StepKeeps
<1> QED
  BY <1>1, InitIsGood, PTL DEF Spec

-----------------------------------------------------------------------------
(* What the clients are promised.                                          *)

\* Every variable has the shape the code gives it, whatever peers, clients and
\* searches there are.
THEOREM TypeCorrect == Spec => []TypeOK
<1>1. Inv => TypeOK
  BY DEF Inv, OthersOK, ViewInv, TypeOK, Event
<1> QED
  BY <1>1, InvHolds, PTL

\* No client ever gets a batch of a search after its `done`: emitOnEach is only
\* called by a search that is not over, and an answer that comes after its
\* timeout is dropped.
THEOREM DoneEndsASearch == Spec => []DoneIsLast
<1>1. Inv => DoneIsLast
  BY DEF Inv, ViewInv
<1> QED
  BY <1>1, InvHolds, PTL

\* A client connected when a search begins that is still connected when it ends
\* has got the local files, one batch for every provider asked, and `done`, in
\* this order, whoever connects, disconnects or answers late meanwhile.
THEOREM ClientsSeeAll == Spec => []ClientSeesAll
<1>1. ASSUME Inv, NEW s \in DOMAIN search, NEW c \in live,
             c \in search[s].audience, search[s].pc = "done", ~search[s].http
      PROVE  /\ EachOnce(view[c], Events(c, s),
                         {"local", "done"} \cup DOMAIN search[s].asked)
             /\ InOrder(c, s)
  <2>1. EachOnce(view[c], Events(c, s), Told(search[s])) /\ InOrder(c, s)
    BY <1>1 DEF Inv, ViewInv, CaughtUp
  <2>2. \A p \in DOMAIN search[s].asked : search[s].asked[p] # "waiting"
    BY <1>1 DEF Inv, SearchInv, SearchOK
  <2>3. Told(search[s]) = {"local", "done"} \cup DOMAIN search[s].asked
    BY <1>1, <2>2 DEF Told, Heard
  <2> QED
    BY <2>1, <2>3
<1>2. Inv => ClientSeesAll
  BY <1>1 DEF ClientSeesAll, InOrder
<1> QED
  BY <1>2, InvHolds, PTL

\* The response of GET /api/search/:query has the local files and one entry for
\* every provider asked, and this peer never asks itself.
THEOREM ResponseCorrect == Spec => []ResponseIsComplete
<1>1. ASSUME Inv, NEW s \in DOMAIN search, search[s].http, search[s].pc = "done"
      PROVE  /\ EachOnce(answer[s], 1..Len(answer[s]),
                         {"local"} \cup DOMAIN search[s].asked)
             /\ Self \notin DOMAIN search[s].asked
  <2>1. SearchOK(search[s], answer[s]) /\ search[s] \in Active
    BY <1>1 DEF Inv, SearchInv, OthersOK
  <2>2. /\ answer[s] = search[s].batches
        /\ \A p \in DOMAIN search[s].asked : search[s].asked[p] # "waiting"
        /\ EachOnce(search[s].batches, 1..Len(search[s].batches), Heard(search[s]))
    BY <1>1, <2>1 DEF SearchOK
  <2>3. Heard(search[s]) = {"local"} \cup DOMAIN search[s].asked
    BY <1>1, <2>2 DEF Heard
  <2>4. Self \notin DOMAIN search[s].asked
    BY <2>1, ActiveFields DEF Remote
  <2> QED
    BY <2>2, <2>3, <2>4
<1>2. Inv => ResponseIsComplete
  BY <1>1 DEF ResponseIsComplete
<1> QED
  BY <1>2, InvHolds, PTL

===============================================================================
