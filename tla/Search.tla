------------------------------- MODULE Search -------------------------------
(***************************************************************************)
(* A search: FindFilesUsecase.execute yields the local files of a key, then *)
(* one batch per remote provider the DHT finds, in the order they answer.   *)
(* Over HTTP the batches are collected and answered at once; over socket.io *)
(* each batch, and in the end a `done`, is emitted to every socket there is.*)
(*                                                                         *)
(* Every provider is asked concurrently (ProtocolClient.findFilesOnPeer),   *)
(* with a timeout of 2 s that does not cancel the request: its answer may   *)
(* come later.                                                              *)
(***************************************************************************)
EXTENDS Integers, Sequences

CONSTANTS
    Peers,      \* the peers the DHT may name as providers
    Self,       \* this peer, which may be among them
    Sockets,    \* socket.io connections, each connected at most once
    Searches    \* searches started, over socket.io or HTTP

ASSUME SearchAssumption == Peers \cap {"local", "done"} = {}

VARIABLES
    sockets,    \* `Socket[]`: every socket ever connected
    live,       \* those of them still connected
    search,     \* state of the searches
    view,       \* view[c]: the search events client c has received
    answer      \* answer[s]: batches in the HTTP response, <<>> before

vars == <<sockets, live, search, view, answer>>

Remote == Peers \ {Self}
Results == {"files", "empty", "unreachable"}
Batch == [from : {"local"} \cup Remote, result : Results]

\* asked[p]: "waiting" inside pTimeout, "late" when it timed out while
\* sendMessage goes on, "over".  batches: what the use case has yielded.
\* audience: history, the clients connected when the search began.
Active ==
    [pc : {"local", "remote", "done"}, http : BOOLEAN, lookup : BOOLEAN,
     asked : UNION {[S -> {"waiting", "late", "over"}] : S \in SUBSET Remote},
     batches : Seq(Batch), audience : SUBSET Sockets]

Put(m, k, v) == [x \in DOMAIN m \cup {k} |-> IF x = k THEN v ELSE m[x]]
NoMap == [x \in {} |-> x]
At(s, pc) == s \in DOMAIN search /\ search[s].pc = pc
Waiting(s) == {p \in DOMAIN search[s].asked : search[s].asked[p] = "waiting"}

-----------------------------------------------------------------------------
Init ==
    /\ sockets = {} /\ live = {} /\ search = NoMap
    /\ view = [c \in Sockets |-> <<>>] /\ answer = [s \in Searches |-> <<>>]

\* onSocket.  Nothing removes a socket from the list when it disconnects.
Connect(c) ==
    /\ c \notin sockets
    /\ sockets' = sockets \cup {c} /\ live' = live \cup {c}
    /\ UNCHANGED <<search, view, answer>>

Disconnect(c) ==
    /\ c \in live /\ live' = live \ {c}
    /\ UNCHANGED <<sockets, search, view, answer>>

\* emitOnEach; emitting on a closed socket does nothing.
EmitOnEach(event) ==
    view' = [c \in Sockets |->
                IF c \in sockets \cap live THEN Append(view[c], event) ELSE view[c]]

\* The use case yields a batch: SearchIoHandler emits it, `collect` keeps it.
Yield(s, rest, batch) ==
    /\ search' = Put(search, s, [rest EXCEPT !.batches = Append(@, batch)])
    /\ IF rest.http THEN UNCHANGED view
       ELSE EmitOnEach([search |-> s, from |-> batch.from])

-----------------------------------------------------------------------------
\* A `search:details` event of a client, or GET /api/search/:query.
Begin(s, http) ==
    /\ s \notin DOMAIN search
    /\ http \/ live # {}
    /\ search' = Put(search, s, [pc |-> "local", http |-> http, lookup |-> TRUE,
                                 asked |-> NoMap, batches |-> <<>>, audience |-> live])
    /\ UNCHANGED <<sockets, live, view, answer>>

\* FileService.find answered.
Local(s, result) ==
    /\ At(s, "local")
    /\ Yield(s, [search[s] EXCEPT !.pc = "remote"], [from |-> "local", result |-> result])
    /\ UNCHANGED <<sockets, live, answer>>

\* Mutant: this peer asks itself too.
IsAnyone(p) == TRUE

\* The DHT names a provider; onlyRemote drops this peer itself, and any other
\* is asked at once (transform runs up to 1000 requests).
IsRemote(p) == p # Self

Provider(s, p) ==
    /\ At(s, "remote") /\ search[s].lookup
    /\ p \notin DOMAIN search[s].asked /\ IsRemote(p)
    /\ search' = [search EXCEPT ![s].asked = Put(@, p, "waiting")]
    /\ UNCHANGED <<sockets, live, view, answer>>

\* The lookup ends, times out (10 s) or throws: no more providers.
LookupEnds(s) ==
    /\ At(s, "remote") /\ search[s].lookup
    /\ search' = [search EXCEPT ![s].lookup = FALSE]
    /\ UNCHANGED <<sockets, live, view, answer>>

\* The provider answered in time (an error message has no files), or the dial
\* or the exchange failed.
Respond(s, p, result) ==
    /\ At(s, "remote") /\ p \in DOMAIN search[s].asked
    /\ search[s].asked[p] = "waiting"
    /\ Yield(s, [search[s] EXCEPT !.asked[p] = "over"], [from |-> p, result |-> result])
    /\ UNCHANGED <<sockets, live, answer>>

\* Mutant: there is no timeout.
GiveUpNever(s, p) == FALSE

\* pTimeout gives up after 2 s: the provider is listed as unreachable.
GiveUp(s, p) ==
    /\ At(s, "remote") /\ p \in DOMAIN search[s].asked
    /\ search[s].asked[p] = "waiting"
    /\ Yield(s, [search[s] EXCEPT !.asked[p] = "late"],
             [from |-> p, result |-> "unreachable"])
    /\ UNCHANGED <<sockets, live, answer>>

\* Mutant: an answer is worth a batch whenever it comes.
RespondLateYields(s, p) ==
    /\ s \in DOMAIN search /\ p \in DOMAIN search[s].asked
    /\ search[s].asked[p] = "late"
    /\ Yield(s, [search[s] EXCEPT !.asked[p] = "over"], [from |-> p, result |-> "files"])
    /\ UNCHANGED <<sockets, live, answer>>

\* What sendMessage returns or throws after that is dropped: the promise of
\* pTimeout is settled.
RespondLate(s, p) ==
    /\ s \in DOMAIN search /\ p \in DOMAIN search[s].asked
    /\ search[s].asked[p] = "late"
    /\ search' = [search EXCEPT ![s].asked[p] = "over"]
    /\ UNCHANGED <<sockets, live, view, answer>>

\* Mutant: the end of the lookup is the end of the search.
LookupEnded(s) == ~search[s].lookup

\* The lookup has ended and every provider asked is accounted for.
AllAnswered(s) == ~search[s].lookup /\ Waiting(s) = {}

Finish(s) ==
    /\ At(s, "remote") /\ AllAnswered(s)
    /\ search' = [search EXCEPT ![s].pc = "done"]
    /\ IF search[s].http
       THEN /\ answer' = [answer EXCEPT ![s] = search[s].batches]
            /\ UNCHANGED view
       ELSE /\ EmitOnEach([search |-> s, from |-> "done"])
            /\ UNCHANGED answer
    /\ UNCHANGED <<sockets, live>>

-----------------------------------------------------------------------------
SearchStep(s) ==
    \/ \E result \in {"files", "empty"} : Local(s, result)
    \/ LookupEnds(s) \/ Finish(s)
    \/ \E p \in Remote : GiveUp(s, p)

PeerStep(s) ==
    \E p \in Peers :
        \/ Provider(s, p) \/ RespondLate(s, p)
        \/ \E result \in Results : Respond(s, p, result)

Next ==
    \/ \E c \in Sockets : Connect(c) \/ Disconnect(c)
    \/ \E s \in Searches : SearchStep(s) \/ PeerStep(s)
    \/ \E s \in Searches, http \in BOOLEAN : Begin(s, http)

Spec == Init /\ [][Next]_vars

\* The local database answers and the timers fire; remote peers owe nothing.
FairSpec == Spec /\ \A s \in Searches : WF_vars(SearchStep(s))

-----------------------------------------------------------------------------
(* Correctness properties.                                                 *)

\* Every variable has the shape the code gives it.
TypeOK ==
    /\ live \subseteq sockets /\ sockets \subseteq Sockets
    /\ DOMAIN search \subseteq Searches
    /\ \A s \in DOMAIN search : search[s] \in Active
    /\ view \in [Sockets -> Seq([search : Searches,
                                 from : {"local", "done"} \cup Remote])]
    /\ answer \in [Searches -> Seq(Batch)]

\* Where the events of search s are among those client c has received.
Events(c, s) == {i \in 1..Len(view[c]) : view[c][i].search = s}

\* The elements of seq at these positions come from exactly these senders, one
\* from each.
EachOnce(seq, positions, senders) ==
    /\ {seq[i].from : i \in positions} = senders
    /\ \A i, j \in positions : seq[i].from = seq[j].from => i = j

\* A client that stays connected gets, per search, the local files first, one
\* batch for every provider found (never two, though an answer may follow its
\* own timeout), and `done` at the end and only then.
ClientSeesAll ==
    \A s \in DOMAIN search, c \in live :
        (c \in search[s].audience /\ search[s].pc = "done" /\ ~search[s].http) =>
            /\ EachOnce(view[c], Events(c, s),
                        {"local", "done"} \cup DOMAIN search[s].asked)
            /\ \A i, j \in Events(c, s) :
                  (view[c][i].from = "local" \/ view[c][j].from = "done") => i <= j

\* No batch of a search follows its `done`, whichever client looks.
DoneIsLast ==
    \A c \in Sockets : \A i, j \in 1..Len(view[c]) :
        (view[c][i].from = "done" /\ view[c][j].search = view[c][i].search) => j <= i

\* The HTTP response holds one entry per provider, and never this peer itself.
ResponseIsComplete ==
    \A s \in DOMAIN search :
        (search[s].http /\ search[s].pc = "done") =>
            /\ EachOnce(answer[s], 1..Len(answer[s]),
                        {"local"} \cup DOMAIN search[s].asked)
            /\ Self \notin DOMAIN search[s].asked

\* Every search ends, also when no remote peer ever answers.
SearchEnds == \A s \in Searches : (s \in DOMAIN search) ~> At(s, "done")
=============================================================================
