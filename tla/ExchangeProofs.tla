--------------------------- MODULE ExchangeProofs ---------------------------
(***************************************************************************)
(* Theorems about Exchange, for any files, calls, versions and faults: its   *)
(* types, and that the calls implement ContentStream.  The invariant behind  *)
(* the second follows a chunk from the provider's file to the download:      *)
(* what the provider has read is what the download has, plus what is on its  *)
(* way.                                                                      *)
(***************************************************************************)
EXTENDS Exchange, TLAPS

Types == {"FIND_FILE", "GET_FILE", "GET_FILE_CONTENT"}
Results == {"none", "error", "unreachable", "end", "stopped", "undefined", "files"}

-----------------------------------------------------------------------------
(* Messages.                                                               *)

\* A new message and an error message are messages.
LEMMA FreshMessages ==
    ASSUME NEW type \in Types
    PROVE  /\ NewMessage(type) \in Messages
           /\ \A what \in Errors : ErrorMessage(type, what) \in Messages
BY DEF Types, NewMessage, ErrorMessage, Messages, Message

\* What a caller sends about a file is a message.
LEMMA RequestMessages ==
    ASSUME NEW f \in Files, NEW n \in Nat
    PROVE  /\ FindFiles(Key[f]) \in Messages
           /\ GetFile(f) \in Messages
           /\ GetFileContent(f, n) \in Messages
BY ExchangeAssumption
   DEF FindFiles, GetFile, GetFileContent, NewMessage, Messages, Message, Queries

\* The round trip of a message: serialize and deserialize keep its type, files,
\* content and error, and its offset, which a message that had none gets as 0.
LEMMA RoundTrip ==
    ASSUME NEW m \in Messages
    PROVE  /\ Serialize(m) \in Messages /\ Deserialize(m) \in Messages
           /\ Deserialize(Serialize(m)) \in Messages
           /\ Serialize(m).content = m.content /\ Serialize(m).error = m.error
           /\ Deserialize(m).content = m.content /\ Deserialize(m).error = m.error
           /\ Serialize(m).files = m.files /\ Deserialize(m).files = m.files
           /\ Deserialize(Serialize(m)).type = m.type
           /\ Deserialize(Serialize(m)).offset =
                   IF m.offset = {} THEN {0} ELSE m.offset
<1> DEFINE infos == Files \X Contents
           M == Message(Queries, Nat, infos, Chunks, Errors)
<1>1. "" \notin Errors /\ Messages = M
  BY DEF Errors, Messages
<1> HIDE DEF infos
<1>2. ASSUME NEW n \in M
      PROVE  /\ Serialize(n) \in M
             /\ Serialize(n).type = n.type /\ Serialize(n).offset = n.offset
             /\ Serialize(n).content = n.content /\ Serialize(n).error = n.error
             /\ Serialize(n).files = n.files
  <2>1. Serialize(n) \in M
    BY <1>1 DEF Message, Serialize
  <2>2. /\ Serialize(n).type = n.type /\ Serialize(n).offset = n.offset
        /\ Serialize(n).content = n.content /\ Serialize(n).error = n.error
        /\ Serialize(n).files = n.files
    BY <1>1 DEF Message, Serialize
  <2> QED
    BY <2>1, <2>2
<1>3. ASSUME NEW n \in M
      PROVE  /\ Deserialize(n) \in M /\ Deserialize(n).type = n.type
             /\ Deserialize(n).content = n.content /\ Deserialize(n).error = n.error
             /\ Deserialize(n).files = n.files
             /\ Deserialize(n).offset = IF n.offset = {} THEN {0} ELSE n.offset
  <2> DEFINE offset == IF n.offset = {} THEN {0} ELSE n.offset
             fileId == IF n.fileId = {} THEN {0} ELSE n.fileId
  <2>1. offset \in SUBSET Nat /\ fileId \in SUBSET Nat
    BY DEF Message
  <2>2. Decode(n) = [n EXCEPT !.fileId = fileId, !.offset = offset]
    BY DEF Decode
  <2> HIDE DEF offset, fileId
  <2>3. /\ Decode(n) \in M /\ Decode(n).type = n.type
        /\ Decode(n).content = n.content /\ Decode(n).error = n.error
        /\ Decode(n).files = n.files
        /\ Decode(n).offset = offset
    BY <2>1, <2>2 DEF Message
  <2>4. /\ Deserialize(n) \in M /\ Deserialize(n).type = n.type
        /\ Deserialize(n).content = n.content /\ Deserialize(n).error = n.error
        /\ Deserialize(n).files = n.files
        /\ Deserialize(n).offset = offset
    BY <2>3 DEF Message, Deserialize
  <2> QED
    BY <2>4 DEF offset
<1> HIDE DEF M
<1> DEFINE s == Serialize(m)
<1>4. /\ s \in M /\ s.type = m.type /\ s.offset = m.offset
      /\ s.content = m.content /\ s.error = m.error /\ s.files = m.files
  BY <1>1, <1>2
<1> HIDE DEF s
<1>5. /\ Deserialize(s) \in M /\ Deserialize(s).type = m.type
      /\ Deserialize(s).offset = IF m.offset = {} THEN {0} ELSE m.offset
  BY <1>3, <1>4
<1>6. /\ Deserialize(m) \in M
      /\ Deserialize(m).content = m.content /\ Deserialize(m).error = m.error
      /\ Deserialize(m).files = m.files
  BY <1>1, <1>3
<1> QED
  BY <1>1, <1>4, <1>5, <1>6 DEF s

-----------------------------------------------------------------------------
(* What the helpers make of a call.                                        *)

\* A new call, and one the caller has left.
LEMMA NewCallTypes ==
    ASSUME NEW f \in Files, NEW m \in Messages
    PROVE  /\ NewCall(f, m) \in CallState
           /\ \A x \in CallState, r \in Results :
                 /\ Leave(x, r) \in CallState
                 /\ Leave(x, r).file = x.file /\ Leave(x, r).request = x.request
                 /\ Leave(x, r).pc = "done"
<1>1. \A g \in Files, n \in Messages : NewCall(g, n) \in CallState
  BY ExchangeAssumption DEF NewCall, CallState
<1>2. ASSUME NEW x \in CallState, NEW r \in Results
      PROVE  /\ Leave(x, r) \in CallState
             /\ Leave(x, r).file = x.file /\ Leave(x, r).request = x.request
             /\ Leave(x, r).pc = "done"
  <2> DEFINE result == IF x.result = "none" THEN r ELSE x.result
  <2>1. result \in Results /\ x.file \in Files /\ x.request \in Messages
    BY DEF CallState, Results
  <2>2. Leave(x, r) = [NewCall(x.file, x.request) EXCEPT !.pc = "done", !.result = result]
    BY DEF Leave
  <2>3. NewCall(x.file, x.request) \in CallState
    BY <1>1, <2>1
  <2> HIDE DEF result
  <2>4. Leave(x, r) \in CallState /\ Leave(x, r).pc = "done"
    <3> DEFINE y == NewCall(x.file, x.request)
    <3> HIDE DEF y
    <3>1. y \in CallState => [y EXCEPT !.pc = "done", !.result = result] \in CallState
      BY <2>1 DEF CallState, Results
    <3>2. y \in CallState => [y EXCEPT !.pc = "done", !.result = result].pc = "done"
      BY DEF CallState
    <3> QED
      BY <2>2, <2>3, <3>1, <3>2 DEF y
  <2>5. Leave(x, r).file = x.file /\ Leave(x, r).request = x.request
    BY <2>2 DEF NewCall
  <2> QED
    BY <2>4, <2>5
<1> QED
  BY <1>1, <1>2

\* A frame sent, and an answer.
LEMMA SendTypes ==
    ASSUME NEW x \in CallState, NEW m \in Messages
    PROVE  /\ SendFrame(x, m) \in CallState /\ Answer(x, m) \in CallState
           /\ SendFrame(x, m).file = x.file /\ SendFrame(x, m).request = x.request
           /\ SendFrame(x, m).pc = x.pc /\ SendFrame(x, m).server = x.server
           /\ SendFrame(x, m).pos = x.pos /\ SendFrame(x, m).response = x.response
           /\ x.pc = "read" => SendFrame(x, m).down = Append(x.down, Serialize(m))
           /\ Answer(x, m) = [SendFrame(x, m) EXCEPT !.server = "end"]
<1>1. Serialize(m) \in Messages
  BY RoundTrip
<1>2. /\ SendFrame(x, m) \in CallState
      /\ SendFrame(x, m).file = x.file /\ SendFrame(x, m).request = x.request
      /\ SendFrame(x, m).pc = x.pc /\ SendFrame(x, m).server = x.server
      /\ SendFrame(x, m).pos = x.pos /\ SendFrame(x, m).response = x.response
      /\ x.pc = "read" => SendFrame(x, m).down = Append(x.down, Serialize(m))
  <2>1. CASE x.pc = "read"
    <3>1. Append(x.down, Serialize(m)) \in Seq(Messages)
      BY <1>1 DEF CallState
    <3>2. SendFrame(x, m) = [x EXCEPT !.down = Append(x.down, Serialize(m))]
      BY <2>1 DEF SendFrame
    <3> QED
      BY <3>1, <3>2 DEF CallState
  <2>2. CASE x.pc # "read"
    BY <2>2 DEF SendFrame
  <2> QED
    BY <2>1, <2>2
<1>3. Answer(x, m) = [SendFrame(x, m) EXCEPT !.server = "end"]
  BY DEF Answer
<1>4. Answer(x, m) \in CallState
  BY <1>2, <1>3 DEF CallState
<1> QED
  BY <1>2, <1>3, <1>4

-----------------------------------------------------------------------------
(* The invariant.                                                          *)

OthersOK ==
    /\ peer \in {"up", "silent", "down"} /\ linked \in BOOLEAN
    /\ DOMAIN disk \subseteq Files /\ \A f \in DOMAIN disk : disk[f] \in Contents
    /\ DOMAIN rows \subseteq Files /\ \A f \in DOMAIN rows : rows[f] \in Contents
    /\ got \in [Files -> Seq(Chunks)] /\ faults \in 0..MaxFaults

\* A content call under way, and one whose stream is open.
Active(x) == x.request.type = "GET_FILE_CONTENT" /\ x.pc \in {"dial", "read"}
Reading(x) == x.request.type = "GET_FILE_CONTENT" /\ x.pc = "read"

\* Frame i brings the chunk that comes i after the n kept, or an error.
FramesFrom(down, n) ==
    \A i \in 1..Len(down) :
        \/ down[i].error # {}
        \/ \E v \in Versions : down[i].content = {<<v, n + i>>}

\* Where the provider is when the download has kept n chunks.
PipeFrom(x, n) ==
    /\ x.pc = "dial" => x.server = "off"
    /\ x.server \in {"off", "request"} => x.request.offset = {n} /\ x.down = <<>>
    /\ x.server = "open" => x.pos = n /\ x.down = <<>>
    /\ x.server = "read" => x.pos = n + Len(x.down)
    /\ x.server = "wait" =>
            /\ x.pos = n + Len(x.down) + 1
            /\ \E v \in Versions : x.response.content = {<<v, x.pos>>}
    /\ x.server \in {"open", "read", "wait"} => x.response.error = {}
    /\ FramesFrom(x.down, n)

\* One content call per file is under way, and its pipe is in order.
OnePipe ==
    \A c, d \in DOMAIN call :
        (Active(call[c]) /\ Active(call[d]) /\ call[c].file = call[d].file) => c = d
PipesOK ==
    \A c \in DOMAIN call : Active(call[c]) => PipeFrom(call[c], Len(got[call[c].file]))

StreamInv == TypeOK /\ OnePipe /\ PipesOK

\* What a step of call c to y has to show: the call keeps its file and its
\* request, is not taken up again, and its pipe stays in order.
Moves(c, y) ==
    /\ c \in DOMAIN call /\ y \in CallState /\ call' = [call EXCEPT ![c] = y]
    /\ y.file = call[c].file /\ y.request = call[c].request
    /\ Active(y) => Active(call[c]) /\ PipeFrom(y, Len(got'[y.file]))

\* Such a step keeps the invariant, if it touches the chunks of its file only.
LEMMA MoveKeepsInv ==
    ASSUME StreamInv, NEW c, NEW y, Moves(c, y), OthersOK',
           got' = got \/ (Active(y) /\ \A f \in Files \ {y.file} : got'[f] = got[f])
    PROVE  StreamInv'
<1>1. TypeOK'
  BY DEF StreamInv, TypeOK, OthersOK, Moves
<1>2. OnePipe'
  BY DEF StreamInv, OnePipe, Moves, Active
<1>3. ASSUME NEW d \in DOMAIN call', Active(call'[d])
      PROVE  PipeFrom(call'[d], Len(got'[call'[d].file]))
  <2>1. CASE d = c
    BY <1>3, <2>1 DEF Moves
  <2>2. CASE d # c
    <3>1. call'[d] = call[d] /\ d \in DOMAIN call /\ call[d].file \in Files
      BY <2>2 DEF Moves, StreamInv, TypeOK, CallState
    <3>2. got'[call[d].file] = got[call[d].file]
      BY <1>3, <2>2, <3>1 DEF StreamInv, OnePipe, Moves
    <3> QED
      BY <1>3, <3>1, <3>2 DEF StreamInv, PipesOK
  <2> QED
    BY <2>1, <2>2
<1>4. PipesOK'
  BY <1>3 DEF PipesOK, Active, PipeFrom, FramesFrom
<1> QED
  BY <1>1, <1>2, <1>4 DEF StreamInv

\* The streams that are open after such a step.
LEMMA MoveStreams ==
    ASSUME StreamInv, NEW c, NEW y, Moves(c, y)
    PROVE  /\ (Reading(y) <=> Reading(call[c])) => Streams' = Streams
           /\ (Reading(call[c]) /\ ~Reading(y)) =>
                    y.file \in Streams /\ Streams' = Streams \ {y.file}
           /\ (Reading(y) /\ ~Reading(call[c])) =>
                    y.file \notin Streams /\ Streams' = Streams \cup {y.file}
<1>1. /\ Streams = {call[d].file : d \in {e \in DOMAIN call : Reading(call[e])}}
      /\ Streams' = {call'[d].file : d \in {e \in DOMAIN call' : Reading(call'[e])}}
  BY DEF Streams, Reading, Kind
<1>2. /\ DOMAIN call' = DOMAIN call /\ call'[c] = y /\ c \in DOMAIN call
      /\ \A d \in DOMAIN call : d # c => call'[d] = call[d]
      /\ y.file = call[c].file /\ y.request = call[c].request
  BY DEF Moves
<1>3. (Reading(y) \/ Reading(call[c])) =>
          \A d \in DOMAIN call :
              (d # c /\ Reading(call[d])) => call[d].file # y.file
  BY <1>2 DEF StreamInv, OnePipe, Active, Reading, Moves
<1> QED
  BY <1>1, <1>2, <1>3

-----------------------------------------------------------------------------
(* The steps of the caller.                                                *)

\* What a step of the abstract specification is.
AbstractStep == [Abstract!Next]_<<got, Streams>>
Good == StreamInv' /\ AbstractStep

\* A step of one call that is not seen in ContentStream, and one that stops it.
LEMMA QuietMove ==
    ASSUME StreamInv, NEW c, NEW y, Moves(c, y), OthersOK', got' = got,
           ~Reading(y) \/ Reading(call[c])
    PROVE  Good
<1>1. StreamInv'
  BY MoveKeepsInv
<1>2. CASE Reading(y) <=> Reading(call[c])
  BY <1>1, <1>2, MoveStreams DEF Good, AbstractStep
<1>3. CASE Reading(call[c]) /\ ~Reading(y)
  <2>1. y.file \in Files
    BY DEF Moves, CallState
  <2>2. Abstract!Stop(y.file)
    BY <1>3, MoveStreams DEF Abstract!Stop
  <2>3. AbstractStep
    BY <2>1, <2>2 DEF AbstractStep, Abstract!Next
  <2> QED
    BY <1>1, <2>3 DEF Good
<1> QED
  BY <1>2, <1>3

LEMMA InCallState == ASSUME StreamInv, NEW c \in DOMAIN call PROVE call[c] \in CallState
BY DEF StreamInv, TypeOK

LEMMA OthersKept ==
    ASSUME StreamInv, UNCHANGED <<peer, linked, disk, rows, faults, got>>
    PROVE  OthersOK'
BY DEF StreamInv, TypeOK, OthersOK

\* A call that is left.
LEMMA LeaveIsGood ==
    ASSUME StreamInv, NEW c \in DOMAIN call, NEW r \in Results,
           call' = [call EXCEPT ![c] = Leave(@, r)], UNCHANGED <<got, client>>
    PROVE  Good
<1> DEFINE y == Leave(call[c], r)
<1>1. /\ call[c] \in CallState /\ call[c].file \in Files
      /\ call[c].request \in Messages
  BY InCallState DEF CallState
<1>2. /\ y \in CallState /\ y.file = call[c].file /\ y.request = call[c].request
      /\ y.pc = "done"
  BY <1>1, NewCallTypes
<1>3. call' = [call EXCEPT ![c] = y]
  OBVIOUS
<1> HIDE DEF y
<1>4. Moves(c, y) /\ ~Reading(y)
  BY <1>2, <1>3 DEF Moves, Active, Reading
<1> QED
  BY <1>4, QuietMove, OthersKept DEF client

LEMMA DialIsGood == ASSUME StreamInv, NEW c, Dial(c) PROVE Good
<1> DEFINE y == [call[c] EXCEPT !.pc = "read", !.server = "request"]
<1>1. c \in DOMAIN call /\ call[c] \in CallState /\ call[c].pc = "dial"
  BY InCallState DEF Dial, At
<1>2. call' = [call EXCEPT ![c] = y] /\ got' = got
  BY DEF Dial
<1>3. /\ y \in CallState /\ y.file = call[c].file /\ y.request = call[c].request
      /\ y.pc = "read" /\ y.server = "request" /\ y.down = call[c].down
  BY <1>1 DEF CallState
<1>4. OthersOK'
  BY DEF Dial, StreamInv, TypeOK, OthersOK
<1> HIDE DEF y
<1>5. ASSUME Active(y)
      PROVE  Active(call[c]) /\ PipeFrom(y, Len(got[y.file]))
  <2>1. Active(call[c])
    BY <1>1, <1>3, <1>5 DEF Active
  <2>2. PipeFrom(call[c], Len(got[y.file]))
    BY <1>1, <1>3, <2>1 DEF StreamInv, PipesOK
  <2> QED
    BY <1>1, <1>3, <2>1, <2>2 DEF PipeFrom, FramesFrom
<1>6. Moves(c, y)
  BY <1>1, <1>2, <1>3, <1>5 DEF Moves
<1>7. StreamInv'
  BY <1>2, <1>4, <1>6, MoveKeepsInv
<1>8. CASE ~Reading(y)
  BY <1>2, <1>4, <1>6, <1>8, QuietMove
<1>9. CASE Reading(y)
  <2>1. ~Reading(call[c]) /\ y.file \in Files
    BY <1>1, <1>3 DEF Reading, CallState
  <2>2. Abstract!Open(y.file)
    BY <1>2, <1>6, <1>9, <2>1, MoveStreams DEF Abstract!Open
  <2>3. AbstractStep
    BY <2>1, <2>2 DEF AbstractStep, Abstract!Next
  <2> QED
    BY <1>7, <2>3 DEF Good
<1> QED
  BY <1>8, <1>9

LEMMA CollectIsGood == ASSUME StreamInv, NEW c, Collect(c) PROVE Good
<1> DEFINE y == [call[c] EXCEPT !.down = Tail(@), !.inbox = Append(@, Received(c))]
<1>1. /\ c \in DOMAIN call /\ call[c] \in CallState /\ call[c].down # <<>>
      /\ Kind(c) # "GET_FILE_CONTENT"
  BY InCallState DEF Collect, Arrives, At
<1>2. call' = [call EXCEPT ![c] = y] /\ got' = got
  BY DEF Collect
<1>3. Head(call[c].down) \in Messages /\ Tail(call[c].down) \in Seq(Messages)
  BY <1>1 DEF CallState
<1>4. Received(c) \in Messages
  BY <1>3, RoundTrip DEF Received
<1>5. Append(call[c].inbox, Received(c)) \in Seq(Messages)
  BY <1>1, <1>4 DEF CallState
<1>6. y \in CallState /\ y.file = call[c].file /\ y.request = call[c].request
  BY <1>1, <1>3, <1>5 DEF CallState
<1> HIDE DEF y
<1>7. Moves(c, y) /\ ~Reading(y)
  BY <1>1, <1>2, <1>6 DEF Moves, Active, Reading, Kind
<1> QED
  BY <1>2, <1>7, QuietMove, OthersKept DEF Collect, client

LEMMA TimeoutIsGood == ASSUME StreamInv, NEW c, Timeout(c) PROVE Good
<1> DEFINE y == [call[c] EXCEPT !.result = "unreachable"]
<1>1. /\ c \in DOMAIN call /\ call[c] \in CallState
      /\ call[c].request.type # "GET_FILE_CONTENT"
  BY InCallState DEF Timeout, TimesOut
<1>2. call' = [call EXCEPT ![c] = y] /\ got' = got
  BY DEF Timeout
<1>3. y \in CallState /\ y.file = call[c].file /\ y.request = call[c].request
  BY <1>1 DEF CallState
<1> HIDE DEF y
<1>4. Moves(c, y) /\ ~Reading(y)
  BY <1>1, <1>2, <1>3 DEF Moves, Active, Reading
<1> QED
  BY <1>2, <1>4, QuietMove, OthersKept DEF Timeout, client

\* The chunk that is kept is the one after the last.
LEMMA TakeIsGood == ASSUME StreamInv, NEW c, Take(c) PROVE Good
<1> DEFINE x == call[c]
           y == [call[c] EXCEPT !.down = Tail(@)]
           n == Len(got[x.file])
<1>1. /\ c \in DOMAIN call /\ x \in CallState /\ x.down # <<>> /\ x.pc = "read"
      /\ x.request.type = "GET_FILE_CONTENT" /\ Received(c).error = {}
      /\ call' = [call EXCEPT ![c] = y]
  BY InCallState DEF Take, Arrives, At, Kind
<1>2. /\ x.file \in Files /\ x.down \in Seq(Messages) /\ Len(x.down) \in Nat
      /\ got[x.file] \in Seq(Chunks) /\ n \in Nat
  BY <1>1 DEF CallState, StreamInv, TypeOK
<1>3. /\ Head(x.down) \in Messages /\ Head(x.down) = x.down[1] /\ 1 \in 1..Len(x.down)
      /\ Tail(x.down) \in Seq(Messages) /\ Len(Tail(x.down)) = Len(x.down) - 1
      /\ \A i \in 1..Len(Tail(x.down)) : i + 1 \in 1..Len(x.down) /\ Tail(x.down)[i] = x.down[i + 1]
  BY <1>1, <1>2
<1>4. PipeFrom(x, n) /\ Active(x) /\ Reading(x)
  BY <1>1 DEF StreamInv, PipesOK, Active, Reading
<1>5. PICK v \in Versions : x.down[1].content = {<<v, n + 1>>}
  <2>1. Received(c).error = x.down[1].error
    BY <1>3, RoundTrip DEF Received
  <2> QED
    BY <1>1, <1>3, <1>4, <2>1 DEF PipeFrom, FramesFrom
<1>6. got' = [got EXCEPT ![x.file] = Append(@, <<v, n + 1>>)]
  <2>1. Received(c).content = {<<v, n + 1>>}
    BY <1>3, <1>5, RoundTrip DEF Received
  <2> QED
    BY <2>1 DEF Take
<1>7. /\ got'[x.file] = Append(got[x.file], <<v, n + 1>>) /\ Len(got'[x.file]) = n + 1
      /\ <<v, n + 1>> \in Chunks /\ Append(got[x.file], <<v, n + 1>>) \in Seq(Chunks)
      /\ \A f \in Files \ {x.file} : got'[f] = got[f]
      /\ got' \in [Files -> Seq(Chunks)]
  <2>1. got \in [Files -> Seq(Chunks)]
    BY DEF StreamInv, TypeOK
  <2>2. <<v, n + 1>> \in Chunks
    BY <1>2 DEF Chunks
  <2>3. /\ Append(got[x.file], <<v, n + 1>>) \in Seq(Chunks)
        /\ Len(Append(got[x.file], <<v, n + 1>>)) = n + 1
    BY <1>2, <2>2
  <2> QED
    BY <1>2, <1>6, <2>1, <2>2, <2>3
<1>8. OthersOK'
  BY <1>7 DEF Take, client, StreamInv, TypeOK, OthersOK
<1>9. /\ y \in CallState /\ y.file = x.file /\ y.request = x.request
      /\ y.pc = x.pc /\ y.server = x.server /\ y.pos = x.pos
      /\ y.response = x.response /\ y.down = Tail(x.down)
  BY <1>1, <1>3 DEF CallState
<1> HIDE DEF y, n
<1>10. FramesFrom(y.down, n + 1)
  <2> SUFFICES ASSUME NEW i \in 1..Len(Tail(x.down))
               PROVE  \/ Tail(x.down)[i].error # {}
                      \/ \E w \in Versions : Tail(x.down)[i].content = {<<w, n + 1 + i>>}
    BY <1>9 DEF FramesFrom
  <2>1. \/ x.down[i + 1].error # {}
        \/ \E w \in Versions : x.down[i + 1].content = {<<w, n + (i + 1)>>}
    BY <1>3, <1>4 DEF PipeFrom, FramesFrom
  <2>2. n + (i + 1) = n + 1 + i
    BY <1>2, <1>3
  <2> QED
    BY <1>3, <2>1, <2>2
<1>11. PipeFrom(y, n + 1)
  <2>1. y.pc # "dial" /\ y.server \notin {"off", "request", "open"}
    BY <1>1, <1>4, <1>9 DEF PipeFrom
  <2>2. /\ n + 1 + Len(Tail(x.down)) = n + Len(x.down)
        /\ n + 1 + Len(Tail(x.down)) + 1 = n + Len(x.down) + 1
    <3> DEFINE q == Len(x.down)
               t == Len(Tail(x.down))
    <3>1. n \in Nat /\ q \in Nat /\ t = q - 1
      BY <1>2, <1>3
    <3> SUFFICES n + 1 + t = n + q /\ n + 1 + t + 1 = n + q + 1
      OBVIOUS
    <3> HIDE DEF q, t
    <3> QED
      BY <3>1
  <2>3. y.server = "read" => y.pos = n + 1 + Len(y.down)
    BY <1>4, <1>9, <2>2, Zenon DEF PipeFrom
  <2>4. y.server = "wait" => y.pos = n + 1 + Len(y.down) + 1
    BY <1>4, <1>9, <2>2, Zenon DEF PipeFrom
  <2>5. /\ y.server = "wait" => \E w \in Versions : y.response.content = {<<w, y.pos>>}
        /\ y.server \in {"open", "read", "wait"} => y.response.error = {}
    BY <1>4, <1>9 DEF PipeFrom
  <2> QED
    BY <1>10, <2>1, <2>3, <2>4, <2>5 DEF PipeFrom
<1>12. Moves(c, y) /\ Active(y) /\ Reading(y)
  BY <1>1, <1>4, <1>7, <1>9, <1>11 DEF Moves, Active, Reading
<1>13. StreamInv'
  BY <1>7, <1>8, <1>9, <1>12, MoveKeepsInv
<1>14. Streams' = Streams /\ x.file \in Streams
  <2>1. Streams' = Streams
    BY <1>4, <1>12, MoveStreams
  <2>2. x.file \in Streams
    BY <1>1 DEF Streams, Kind
  <2> QED
    BY <2>1, <2>2
<1>15. Abstract!Deliver(x.file)
  BY <1>2, <1>6, <1>14 DEF Abstract!Deliver, n
<1>16. AbstractStep
  BY <1>2, <1>15 DEF AbstractStep, Abstract!Next
<1> QED
  BY <1>13, <1>16 DEF Good

LEMMA ClientIsGood == ASSUME StreamInv, NEW c, ClientStep(c) PROVE Good
<1> USE LeaveIsGood DEF Results
<1>1. CASE Dial(c)
  BY <1>1, DialIsGood
<1>2. CASE DialFails(c)
  <2>1. c \in DOMAIN call /\ Thrown(call[c]) \in Results
    BY <1>2 DEF DialFails, At, Thrown
  <2>2. call' = [call EXCEPT ![c] = Leave(@, Thrown(call[c]))] /\ UNCHANGED <<got, client>>
    BY <1>2 DEF DialFails
  <2> QED
    BY <2>1, <2>2
<1>3. CASE Collect(c)
  BY <1>3, CollectIsGood
<1>4. CASE Take(c)
  BY <1>4, TakeIsGood
<1>5. CASE TakePaused(c)
  BY <1>5 DEF TakePaused, Arrives, At
<1>6. CASE Throw(c)
  BY <1>6 DEF Throw, Arrives, At
<1>7. CASE ContentEnds(c)
  BY <1>7 DEF ContentEnds, At
<1>8. CASE ResponseEnds(c)
  <2>1. c \in DOMAIN call /\ Outcome(call[c]) \in Results
    BY <1>8 DEF ResponseEnds, At, Outcome, Thrown
  <2>2. call' = [call EXCEPT ![c] = Leave(@, Outcome(call[c]))] /\ UNCHANGED <<got, client>>
    BY <1>8 DEF ResponseEnds
  <2> QED
    BY <2>1, <2>2
<1> QED
  BY <1>1, <1>2, <1>3, <1>4, <1>5, <1>6, <1>7, <1>8 DEF ClientStep

-----------------------------------------------------------------------------
(* The steps of the provider.                                              *)

\* One frame more.
LEMMA OneFrameMore ==
    ASSUME NEW down \in Seq(Messages), NEW n \in Nat, FramesFrom(down, n),
           NEW m \in Messages,
           \/ m.error # {}
           \/ \E v \in Versions : m.content = {<<v, n + (Len(down) + 1)>>}
    PROVE  FramesFrom(Append(down, Serialize(m)), n)
<1> DEFINE s == Serialize(m)
           new == Append(down, s)
<1>1. s \in Messages /\ s.error = m.error /\ s.content = m.content
  BY RoundTrip
<1> HIDE DEF s
<1>2. /\ Len(down) \in Nat /\ Len(new) = Len(down) + 1 /\ new[Len(down) + 1] = s
      /\ \A i \in 1..Len(down) : new[i] = down[i]
  BY <1>1
<1> HIDE DEF new
<1>3. ASSUME NEW i \in 1..Len(new)
      PROVE  new[i].error # {} \/ \E v \in Versions : new[i].content = {<<v, n + i>>}
  <2>1. CASE i \in 1..Len(down)
    BY <1>2, <2>1 DEF FramesFrom
  <2>2. CASE i = Len(down) + 1
    BY <1>1, <1>2, <2>2
  <2> QED
    BY <1>2, <2>1, <2>2
<1> QED
  BY <1>3 DEF FramesFrom, new, s

\* What the invariant says of a content call the provider serves.
LEMMA ServedPipe ==
    ASSUME StreamInv, NEW c \in DOMAIN call, Active(call[c]), call[c].server # "off"
    PROVE  /\ call[c].pc = "read" /\ Len(got[call[c].file]) \in Nat
           /\ PipeFrom(call[c], Len(got[call[c].file]))
<1>1. PipeFrom(call[c], Len(got[call[c].file])) /\ call[c].file \in Files
  BY InCallState DEF StreamInv, PipesOK, CallState
<1>2. got[call[c].file] \in Seq(Chunks)
  BY <1>1 DEF StreamInv, TypeOK
<1>3. Len(got[call[c].file]) \in Nat
  BY <1>2
<1>4. call[c].pc = "read"
  BY <1>1 DEF PipeFrom, Active
<1> QED
  BY <1>1, <1>3, <1>4

\* The last frame, which for a content call is an error.
LEMMA AnswerIsGood ==
    ASSUME StreamInv, NEW c \in DOMAIN call, NEW m \in Messages,
           call[c].server # "off", Kind(c) = "GET_FILE_CONTENT" => m.error # {},
           call' = [call EXCEPT ![c] = Answer(@, m)], OthersOK', got' = got
    PROVE  Good
<1> DEFINE x == call[c]
           y == Answer(x, m)
<1>1. x \in CallState /\ x.down \in Seq(Messages)
  BY InCallState DEF CallState
<1>2. /\ y \in CallState /\ y.file = x.file /\ y.request = x.request /\ y.pc = x.pc
      /\ y.server = "end"
      /\ x.pc = "read" => y.down = Append(x.down, Serialize(m))
  <2>1. /\ y \in CallState /\ SendFrame(x, m) \in CallState
        /\ y = [SendFrame(x, m) EXCEPT !.server = "end"]
    BY <1>1, SendTypes
  <2>2. /\ y.file = SendFrame(x, m).file /\ y.request = SendFrame(x, m).request
        /\ y.pc = SendFrame(x, m).pc /\ y.down = SendFrame(x, m).down
        /\ y.server = "end"
    BY <2>1 DEF CallState
  <2> QED
    BY <1>1, <2>1, <2>2, SendTypes
<1>3. call' = [call EXCEPT ![c] = y]
  OBVIOUS
<1> HIDE DEF y
<1>4. ASSUME Active(y)
      PROVE  Active(x) /\ PipeFrom(y, Len(got[y.file]))
  <2>1. Active(x)
    BY <1>2, <1>4 DEF Active
  <2>2. /\ x.pc = "read" /\ Len(got[x.file]) \in Nat
        /\ PipeFrom(x, Len(got[x.file]))
    BY <2>1, ServedPipe
  <2>3. m.error # {}
    BY <2>1 DEF Active, Kind
  <2>4. FramesFrom(y.down, Len(got[x.file]))
    <3>1. FramesFrom(x.down, Len(got[x.file]))
      BY <2>2 DEF PipeFrom
    <3> QED
      BY <1>1, <1>2, <2>2, <2>3, <3>1, OneFrameMore
  <2> QED
    BY <1>2, <2>1, <2>2, <2>4 DEF PipeFrom
<1>5. Moves(c, y) /\ (Reading(y) <=> Reading(x))
  BY <1>2, <1>3, <1>4 DEF Moves, Reading
<1> QED
  BY <1>5, QuietMove

\* What the table says about files is a message.
LEMMA FileAnswers ==
    ASSUME StreamInv, NEW m \in Messages
    PROVE  /\ FindFile(m) \in Messages
           /\ m.fileId \subseteq DOMAIN rows => GetFileInfo(m) \in Messages
<1>1. /\ NewMessage(m.type) \in Messages
      /\ ErrorMessage(m.type, "notFound") \in Messages
  <2>1. m.type \in Types
    BY DEF Messages, Message, Types
  <2> QED
    BY <2>1, FreshMessages DEF Errors
<1>2. \A files \in SUBSET (Files \X Contents) :
          [NewMessage(m.type) EXCEPT !.files = files] \in Messages
  BY <1>1 DEF Messages, Message
<1>3. {<<f, rows[f]>> : f \in Found(m) \cap DOMAIN disk} \subseteq Files \X Contents
  BY DEF Found, StreamInv, TypeOK
<1>4. m.fileId \subseteq DOMAIN rows =>
          {<<f, rows[f]>> : f \in m.fileId} \subseteq Files \X Contents
  BY DEF StreamInv, TypeOK
<1>5. FindFile(m) \in Messages
  BY <1>1, <1>2, <1>3 DEF FindFile
<1>6. m.fileId \subseteq DOMAIN rows => GetFileInfo(m) \in Messages
  BY <1>2, <1>4 DEF GetFileInfo
<1> QED
  BY <1>5, <1>6

LEMMA LookupIsGood == ASSUME StreamInv, NEW c, Lookup(c) PROVE Good
<1> DEFINE x == call[c]
           m == Deserialize(Serialize(x.request))
<1>1. /\ c \in DOMAIN call /\ x \in CallState /\ x.server = "request"
      /\ x.request \in Messages
  <2>1. c \in DOMAIN call /\ x.server = "request"
    BY DEF Lookup, Serves
  <2> QED
    BY <2>1, InCallState DEF CallState
<1>2. /\ m \in Messages /\ m.type = x.request.type
      /\ m.offset = IF x.request.offset = {} THEN {0} ELSE x.request.offset
  BY <1>1, RoundTrip
<1>3. m.type \in Types /\ m.fileId \subseteq Nat /\ m.offset \subseteq Nat
  BY <1>2 DEF Messages, Message, Types
<1>4. OthersOK' /\ got' = got
  BY OthersKept DEF Lookup, provider
<1>5. \A what \in Errors : /\ ErrorMessage(m.type, what) \in Messages
                           /\ ErrorMessage(m.type, what).error # {}
  BY <1>3, FreshMessages DEF ErrorMessage, NewMessage
<1>6. CASE Invalid(m)
  <2>1. call' = [call EXCEPT ![c] = Answer(@, ErrorMessage(m.type, "invalid"))]
    BY <1>6 DEF Lookup
  <2> QED
    BY <1>1, <1>4, <1>5, <2>1, AnswerIsGood DEF Errors
<1>7. CASE ~Invalid(m) /\ m.type = "FIND_FILE"
  <2>1. call' = [call EXCEPT ![c] = Answer(@, FindFile(m))]
    BY <1>7 DEF Lookup
  <2>2. FindFile(m) \in Messages
    BY <1>2, FileAnswers
  <2> QED
    BY <1>1, <1>2, <1>4, <1>7, <2>1, <2>2, AnswerIsGood DEF Kind
<1>8. CASE ~Invalid(m) /\ m.type # "FIND_FILE" /\ ~(m.fileId \subseteq DOMAIN rows)
  <2>1. call' = [call EXCEPT ![c] = Answer(@, ErrorMessage(m.type, "notFound"))]
    BY <1>8 DEF Lookup
  <2> QED
    BY <1>1, <1>4, <1>5, <2>1, AnswerIsGood DEF Errors
<1>9. CASE ~Invalid(m) /\ m.type = "GET_FILE" /\ m.fileId \subseteq DOMAIN rows
  <2>1. call' = [call EXCEPT ![c] = Answer(@, GetFileInfo(m))]
    BY <1>9 DEF Lookup
  <2>2. GetFileInfo(m) \in Messages
    BY <1>2, <1>9, FileAnswers
  <2> QED
    BY <1>1, <1>2, <1>4, <1>9, <2>1, <2>2, AnswerIsGood DEF Kind
<1>10. CASE ~Invalid(m) /\ m.type = "GET_FILE_CONTENT" /\ m.fileId \subseteq DOMAIN rows
  <2> DEFINE response == NewMessage(m.type)
             pos == CHOOSE n \in m.offset : TRUE
             y == [x EXCEPT !.server = "open", !.response = response, !.pos = pos]
  <2>1. call' = [call EXCEPT ![c] = y]
    BY <1>10 DEF Lookup
  <2>2. response \in Messages /\ response.error = {}
    BY <1>3, FreshMessages DEF NewMessage
  <2>3. pos \in m.offset /\ pos \in Nat
    BY <1>3, <1>10 DEF Invalid
  <2> HIDE DEF response, pos
  <2>4. /\ y \in CallState /\ y.file = x.file /\ y.request = x.request /\ y.pc = x.pc
        /\ y.server = "open" /\ y.pos = pos /\ y.response = response /\ y.down = x.down
    BY <1>1, <2>2, <2>3 DEF CallState
  <2> HIDE DEF y
  <2>5. ASSUME Active(y)
        PROVE  Active(x) /\ PipeFrom(y, Len(got[y.file]))
    <3>1. Active(x)
      BY <2>4, <2>5 DEF Active
    <3>2. x.pc = "read" /\ PipeFrom(x, Len(got[x.file]))
      BY <1>1, <3>1, ServedPipe
    <3>3. x.request.offset = {Len(got[x.file])} /\ x.down = <<>>
      BY <1>1, <3>2 DEF PipeFrom
    <3>4. pos = Len(got[x.file])
      BY <1>2, <2>3, <3>3
    <3> QED
      BY <2>2, <2>4, <3>1, <3>2, <3>3, <3>4 DEF PipeFrom
  <2>6. Moves(c, y) /\ (Reading(y) <=> Reading(x))
    BY <1>1, <1>4, <2>1, <2>4, <2>5 DEF Moves, Reading
  <2> QED
    BY <1>4, <2>6, QuietMove
<1> QED
  BY <1>3, <1>6, <1>7, <1>8, <1>9, <1>10 DEF Types

\* A step of the provider on a stream it serves, whose call stays where it is.
LEMMA ServerMove ==
    ASSUME StreamInv, NEW c \in DOMAIN call, NEW y, y \in CallState,
           call' = [call EXCEPT ![c] = y], OthersOK', got' = got,
           y.file = call[c].file, y.request = call[c].request, y.pc = call[c].pc,
           call[c].server # "off",
           (call[c].pc = "read" /\ PipeFrom(call[c], Len(got[call[c].file]))
               /\ Len(got[call[c].file]) \in Nat)
             => PipeFrom(y, Len(got[call[c].file]))
    PROVE  Good
<1>1. Active(y) => Active(call[c]) /\ PipeFrom(y, Len(got[y.file]))
  BY ServedPipe DEF Active
<1>2. Moves(c, y) /\ (Reading(y) <=> Reading(call[c]))
  BY <1>1 DEF Moves, Reading
<1> QED
  BY <1>2, QuietMove

LEMMA OpenIsGood == ASSUME StreamInv, NEW c, Open(c) PROVE Good
<1> DEFINE x == call[c]
           y == [x EXCEPT !.server = "read", !.view = disk[x.file]]
<1>1. c \in DOMAIN call /\ x \in CallState /\ x.server = "open"
  BY InCallState DEF Open, Serves
<1>2. OthersOK' /\ got' = got
  BY OthersKept DEF Open, provider
<1>3. CASE x.file \in DOMAIN disk
  <2>1. call' = [call EXCEPT ![c] = y]
    BY <1>3 DEF Open
  <2>2. disk[x.file] \in Contents
    BY <1>3 DEF StreamInv, TypeOK
  <2>3. /\ y \in CallState /\ y.file = x.file /\ y.request = x.request /\ y.pc = x.pc
        /\ y.server = "read" /\ y.pos = x.pos /\ y.response = x.response
        /\ y.down = x.down
    BY <1>1, <2>2 DEF CallState
  <2> HIDE DEF y
  <2>4. ASSUME x.pc = "read", NEW n \in Nat, PipeFrom(x, n)
        PROVE  PipeFrom(y, n)
    <3>1. x.pos = n /\ x.down = <<>> /\ x.response.error = {} /\ FramesFrom(x.down, n)
      BY <1>1, <2>4 DEF PipeFrom
    <3>2. x.pos = n + Len(x.down)
      BY <3>1
    <3> QED
      BY <2>3, <2>4, <3>1, <3>2 DEF PipeFrom
  <2> QED
    BY <1>1, <1>2, <2>1, <2>3, <2>4, ServerMove
<1>4. CASE x.file \notin DOMAIN disk
  <2> DEFINE m == ErrorMessage("GET_FILE_CONTENT", "fs")
  <2>1. call' = [call EXCEPT ![c] = Answer(@, m)]
    BY <1>4 DEF Open
  <2>2. m \in Messages /\ m.error # {}
    BY FreshMessages DEF Types, Errors, ErrorMessage, NewMessage
  <2> HIDE DEF m
  <2> QED
    BY <1>1, <1>2, <2>1, <2>2, AnswerIsGood
<1> QED
  BY <1>3, <1>4

LEMMA ReadFailsIsGood == ASSUME StreamInv, NEW c, ReadFails(c) PROVE Good
<1> DEFINE m == ErrorMessage("GET_FILE_CONTENT", "fs")
<1>1. /\ c \in DOMAIN call /\ call[c].server = "read" /\ got' = got
      /\ call' = [call EXCEPT ![c] = Answer(@, m)]
  BY DEF ReadFails, Serves
<1>2. m \in Messages /\ m.error # {}
  BY FreshMessages DEF Types, Errors, ErrorMessage, NewMessage
<1>3. OthersOK'
  BY ExchangeAssumption DEF ReadFails, StreamInv, TypeOK, OthersOK
<1> HIDE DEF m
<1> QED
  BY <1>1, <1>2, <1>3, AnswerIsGood

LEMMA ReadChunkIsGood == ASSUME StreamInv, NEW c, ReadChunk(c) PROVE Good
<1> DEFINE x == call[c]
           chunk == <<x.view[1], x.pos + 1>>
           response == [x.response EXCEPT !.content = {chunk}]
           y == [x EXCEPT !.server = "wait", !.pos = @ + 1, !.response = response]
<1>1. c \in DOMAIN call /\ x \in CallState /\ x.server = "read"
  BY InCallState DEF ReadChunk, MayRead
<1>2. OthersOK' /\ got' = got /\ call' = [call EXCEPT ![c] = y]
  BY OthersKept DEF ReadChunk, provider
<1>3. x.view[1] \in Versions /\ x.pos \in Nat /\ chunk \in Chunks
  <2>1. x.view \in Contents /\ x.pos \in Nat
    BY <1>1 DEF CallState
  <2>2. x.view[1] \in Versions
    BY <2>1 DEF Contents
  <2> QED
    BY <2>1, <2>2 DEF Chunks
<1>4. response \in Messages /\ response.content = {chunk} /\ response.error = x.response.error
  <2>1. x.response \in Messages
    BY <1>1 DEF CallState
  <2> HIDE DEF chunk
  <2> QED
    BY <1>3, <2>1 DEF Messages, Message
<1> HIDE DEF response
<1>5. /\ y \in CallState /\ y.file = x.file /\ y.request = x.request /\ y.pc = x.pc
      /\ y.server = "wait" /\ y.pos = x.pos + 1 /\ y.response = response
      /\ y.down = x.down
  <2>1. x.pos + 1 \in Nat /\ response \in Messages /\ x \in CallState
    BY <1>1, <1>3, <1>4
  <2> QED
    BY <2>1 DEF CallState
<1> HIDE DEF y
<1>6. ASSUME x.pc = "read", NEW n \in Nat, PipeFrom(x, n)
      PROVE  PipeFrom(y, n)
  <2>1. x.pos = n + Len(x.down) /\ x.response.error = {} /\ FramesFrom(x.down, n)
    BY <1>1, <1>6 DEF PipeFrom
  <2>2. y.response.content = {<<x.view[1], y.pos>>} /\ y.response.error = {}
    BY <1>4, <1>5, <2>1
  <2> QED
    BY <1>3, <1>5, <1>6, <2>1, <2>2 DEF PipeFrom
<1> QED
  BY <1>1, <1>2, <1>5, <1>6, ServerMove

LEMMA SendChunkIsGood == ASSUME StreamInv, NEW c, SendChunk(c) PROVE Good
<1> DEFINE x == call[c]
           s == SendFrame(x, x.response)
           y == [s EXCEPT !.server = "read"]
<1>1. /\ c \in DOMAIN call /\ x \in CallState /\ x.server = "wait"
      /\ x.response \in Messages /\ x.down \in Seq(Messages) /\ x.pos \in Nat
  <2>1. c \in DOMAIN call /\ x.server = "wait"
    BY DEF SendChunk, Serves
  <2> QED
    BY <2>1, InCallState DEF CallState
<1>2. OthersOK' /\ got' = got /\ call' = [call EXCEPT ![c] = y]
  BY OthersKept DEF SendChunk, provider
<1>3. /\ s \in CallState /\ s.file = x.file /\ s.request = x.request /\ s.pc = x.pc
      /\ s.pos = x.pos /\ s.response = x.response
      /\ x.pc = "read" => s.down = Append(x.down, Serialize(x.response))
  BY <1>1, SendTypes
<1> HIDE DEF s
<1>4. /\ y \in CallState /\ y.file = x.file /\ y.request = x.request /\ y.pc = x.pc
      /\ y.server = "read" /\ y.pos = x.pos /\ y.response = x.response
      /\ y.down = s.down
  BY <1>3 DEF CallState
<1> HIDE DEF y
<1>5. ASSUME x.pc = "read", NEW n \in Nat, PipeFrom(x, n)
      PROVE  PipeFrom(y, n)
  <2>1. /\ x.pos = n + Len(x.down) + 1 /\ x.response.error = {} /\ FramesFrom(x.down, n)
        /\ \E v \in Versions : x.response.content = {<<v, x.pos>>}
    BY <1>1, <1>5 DEF PipeFrom
  <2>2. Len(x.down) \in Nat /\ n + Len(x.down) + 1 = n + (Len(x.down) + 1)
    BY <1>1
  <2>3. FramesFrom(Append(x.down, Serialize(x.response)), n)
    BY <1>1, <2>1, <2>2, OneFrameMore
  <2>4. Len(Append(x.down, Serialize(x.response))) = Len(x.down) + 1
    BY <1>1, RoundTrip
  <2> QED
    BY <1>3, <1>4, <1>5, <2>1, <2>2, <2>3, <2>4 DEF PipeFrom
<1> QED
  BY <1>1, <1>2, <1>4, <1>5, ServerMove

LEMMA EndOfFileIsGood == ASSUME StreamInv, NEW c, EndOfFile(c) PROVE Good
<1> DEFINE x == call[c]
           y == [x EXCEPT !.server = "end"]
<1>1. c \in DOMAIN call /\ x \in CallState /\ x.server = "read"
  BY InCallState DEF EndOfFile, Serves
<1>2. OthersOK' /\ got' = got /\ call' = [call EXCEPT ![c] = y]
  BY OthersKept DEF EndOfFile, provider
<1>3. /\ y \in CallState /\ y.file = x.file /\ y.request = x.request /\ y.pc = x.pc
      /\ y.server = "end" /\ y.down = x.down
  BY <1>1 DEF CallState
<1> HIDE DEF y
<1>4. ASSUME x.pc = "read", NEW n \in Nat, PipeFrom(x, n)
      PROVE  PipeFrom(y, n)
  BY <1>3, <1>4 DEF PipeFrom
<1> QED
  BY <1>1, <1>2, <1>3, <1>4, ServerMove

LEMMA ServerIsGood == ASSUME StreamInv, NEW c, ServerStep(c) PROVE Good
BY LookupIsGood, OpenIsGood, ReadChunkIsGood, SendChunkIsGood, EndOfFileIsGood
   DEF ServerStep

-----------------------------------------------------------------------------
(* New calls and faults.                                                   *)

LEMMA BeginIsGood == ASSUME StreamInv, NEW c \in Calls, Begin(c) PROVE Good
<1>0. PICK f \in Files : \E request \in Requests(f) : call' = Put(call, c, NewCall(f, request))
  BY DEF Begin
<1>1. PICK request \in Requests(f) : call' = Put(call, c, NewCall(f, request))
  BY <1>0
<1> DEFINE y == NewCall(f, request)
           n == Len(got[f])
<1>2. c \notin DOMAIN call /\ got' = got /\ OthersOK'
  BY OthersKept DEF Begin, client
<1>3. n \in Nat
  BY DEF StreamInv, TypeOK
<1>4. request \in Messages
  BY <1>3, RequestMessages DEF Requests
<1>5. y \in CallState
  BY <1>4, NewCallTypes
<1>6. /\ y.file = f /\ y.request = request /\ y.pc = "dial" /\ y.server = "off"
      /\ y.down = <<>>
  BY DEF NewCall
<1>7. request.type = "GET_FILE_CONTENT" => request.offset = {n} /\ ~Fetching(f)
  BY DEF Requests, FindFiles, GetFile, GetFileContent, NewMessage
<1> HIDE DEF y, n
<1>8. /\ DOMAIN call' = DOMAIN call \cup {c} /\ call'[c] = y
      /\ \A d \in DOMAIN call : d # c /\ call'[d] = call[d]
  BY <1>1, <1>2 DEF Put, y
<1>9. TypeOK'
  BY <1>2, <1>5, <1>8 DEF StreamInv, TypeOK, OthersOK
<1>10. Active(y) => PipeFrom(y, n) /\ \A d \in DOMAIN call : Active(call[d]) => call[d].file # f
  BY <1>6, <1>7 DEF Active, PipeFrom, FramesFrom, Fetching, Kind
<1>11. OnePipe'
  BY <1>6, <1>8, <1>10 DEF StreamInv, OnePipe, Active
<1>12. ASSUME NEW d \in DOMAIN call', Active(call'[d])
       PROVE  PipeFrom(call'[d], Len(got'[call'[d].file]))
  BY <1>2, <1>6, <1>8, <1>10, <1>12 DEF StreamInv, PipesOK, n
<1>13. PipesOK'
  BY <1>12 DEF PipesOK, Active, PipeFrom, FramesFrom
<1>14. Streams' = Streams
  <2>1. ~Reading(y)
    BY <1>6 DEF Reading
  <2>2. /\ Streams = {call[d].file : d \in {e \in DOMAIN call : Reading(call[e])}}
        /\ Streams' = {call'[d].file : d \in {e \in DOMAIN call' : Reading(call'[e])}}
    BY DEF Streams, Reading, Kind
  <2> QED
    BY <1>2, <1>8, <2>1, <2>2
<1> QED
  BY <1>2, <1>9, <1>11, <1>13, <1>14 DEF Good, StreamInv, AbstractStep

\* A fault leaves every call where it is for its caller, and its pipe in order.
LEMMA FaultMove ==
    ASSUME StreamInv, OthersOK', got' = got, DOMAIN call' = DOMAIN call,
           \A c \in DOMAIN call :
               /\ call'[c] \in CallState /\ call'[c].file = call[c].file
               /\ call'[c].request = call[c].request /\ call'[c].pc = call[c].pc
               /\ \A n \in Nat : PipeFrom(call[c], n) => PipeFrom(call'[c], n)
    PROVE  Good
<1>1. TypeOK'
  BY DEF StreamInv, TypeOK, OthersOK
<1>2. OnePipe'
  BY DEF StreamInv, OnePipe, Active
<1>3. ASSUME NEW d \in DOMAIN call', Active(call'[d])
      PROVE  PipeFrom(call'[d], Len(got'[call'[d].file]))
  <2>1. Active(call[d])
    BY <1>3 DEF Active
  <2>2. got[call[d].file] \in Seq(Chunks)
    BY InCallState DEF StreamInv, TypeOK, CallState
  <2>3. Len(got[call[d].file]) \in Nat
    BY <2>2
  <2> QED
    BY <2>1, <2>3 DEF StreamInv, PipesOK
<1>4. PipesOK'
  BY <1>3 DEF PipesOK, Active, PipeFrom, FramesFrom
<1>5. Streams' = Streams
  BY DEF Streams, Kind
<1> QED
  BY <1>1, <1>2, <1>4, <1>5 DEF Good, StreamInv, AbstractStep

\* The frames that are not lost.
LEMMA CutTypes ==
    ASSUME NEW x \in CallState, NEW k \in Nat, k <= Len(x.down),
           NEW how \in {"clean", "error"}
    PROVE  /\ Cut(x, k, how) \in CallState
           /\ Cut(x, k, how).file = x.file /\ Cut(x, k, how).request = x.request
           /\ Cut(x, k, how).pc = x.pc
           /\ \A n \in Nat : PipeFrom(x, n) => PipeFrom(Cut(x, k, how), n)
<1>1. CASE x.server = "off"
  BY <1>1 DEF Cut
<1>2. CASE x.server # "off"
  <2> DEFINE down == SubSeq(x.down, 1, k)
             cut == IF x.server = "end" /\ k = Len(x.down) THEN x.cut ELSE how
             y == [x EXCEPT !.server = "gone", !.down = down, !.cut = cut]
  <2>1. Cut(x, k, how) = y
    BY <1>2 DEF Cut
  <2>2. cut \in {"no", "clean", "error"} /\ x.down \in Seq(Messages)
    BY DEF CallState
  <2>3. /\ down \in Seq(Messages) /\ Len(down) = k
        /\ \A i \in 1..Len(down) : i \in 1..Len(x.down) /\ down[i] = x.down[i]
    BY <2>2
  <2> HIDE DEF down, cut
  <2>4. /\ y \in CallState /\ y.file = x.file /\ y.request = x.request
        /\ y.pc = x.pc /\ y.server = "gone" /\ y.down = down
    BY <2>2, <2>3 DEF CallState
  <2> HIDE DEF y
  <2>5. ASSUME NEW n \in Nat, PipeFrom(x, n)
        PROVE  PipeFrom(y, n)
    <3>1. FramesFrom(down, n) /\ x.pc # "dial"
      BY <1>2, <2>3, <2>5 DEF PipeFrom, FramesFrom
    <3> QED
      BY <2>4, <3>1 DEF PipeFrom
  <2> QED
    BY <2>1, <2>4, <2>5
<1> QED
  BY <1>1, <1>2

LEMMA CutAllIsGood ==
    ASSUME StreamInv, CutAll, OthersOK', got' = got
    PROVE  Good
<1>1. PICK keep \in [DOMAIN call -> 0..MaxLength + 1], how \in {"clean", "error"} :
          /\ \A c \in DOMAIN call : keep[c] <= Len(call[c].down)
          /\ call' = [c \in DOMAIN call |-> Cut(call[c], keep[c], how)]
  BY DEF CutAll
<1>2. \A c \in DOMAIN call : keep[c] \in Nat
  BY ExchangeAssumption
<1>3. ASSUME NEW c \in DOMAIN call
      PROVE  /\ call'[c] \in CallState /\ call'[c].file = call[c].file
             /\ call'[c].request = call[c].request /\ call'[c].pc = call[c].pc
             /\ \A n \in Nat : PipeFrom(call[c], n) => PipeFrom(call'[c], n)
  <2>1. call'[c] = Cut(call[c], keep[c], how)
    BY <1>1
  <2> QED
    BY <1>1, <1>2, <2>1, InCallState, CutTypes
<1> QED
  BY <1>1, <1>3, FaultMove

\* The owner writes into a file: only views change.
LEMMA OverwriteIsGood ==
    ASSUME StreamInv, NEW f \in Files, NEW content \in Contents, Overwrite(f, content)
    PROVE  Good
<1>1. OthersOK' /\ got' = got
  BY ExchangeAssumption DEF Overwrite, Fault, Put, StreamInv, TypeOK, OthersOK
<1>2. ASSUME NEW c \in DOMAIN call
      PROVE  /\ call'[c] \in CallState /\ call'[c].file = call[c].file
             /\ call'[c].request = call[c].request /\ call'[c].pc = call[c].pc
             /\ \A n \in Nat : PipeFrom(call[c], n) => PipeFrom(call'[c], n)
  <2> DEFINE y == [call[c] EXCEPT !.view = content]
  <2>1. call[c] \in CallState
    BY InCallState
  <2>2. call'[c] = call[c] \/ call'[c] = y
    BY DEF Overwrite
  <2>3. /\ y \in CallState /\ y.file = call[c].file /\ y.request = call[c].request
        /\ y.pc = call[c].pc /\ y.server = call[c].server /\ y.pos = call[c].pos
        /\ y.response = call[c].response /\ y.down = call[c].down
    BY <2>1 DEF CallState
  <2> HIDE DEF y
  <2>4. \A n \in Nat : PipeFrom(call[c], n) => PipeFrom(y, n)
    BY <2>3 DEF PipeFrom
  <2> QED
    BY <2>1, <2>2, <2>3, <2>4
<1>3. DOMAIN call' = DOMAIN call
  BY DEF Overwrite
<1> QED
  BY <1>1, <1>2, <1>3, FaultMove

LEMMA Counted == ASSUME StreamInv, Fault PROVE faults' \in 0..MaxFaults /\ got' = got
BY ExchangeAssumption DEF Fault, StreamInv, TypeOK

LEMMA FaultsAreGood == ASSUME StreamInv, Faults PROVE Good
<1>1. ASSUME OthersOK', UNCHANGED <<got, call>>
      PROVE  Good
  BY <1>1, InCallState, FaultMove
<1>2. CASE \E f \in Files : Remove(f)
  BY <1>1, <1>2, Counted DEF Remove, StreamInv, TypeOK, OthersOK
<1>3. CASE \E f \in Files, content \in Contents : Replace(f, content)
  BY <1>1, <1>3, Counted DEF Replace, Put, StreamInv, TypeOK, OthersOK
<1>4. CASE \E f \in Files, content \in Contents : Overwrite(f, content)
  BY <1>4, OverwriteIsGood
<1>5. CASE \E c \in Calls : ReadFails(c)
  BY <1>5, ReadFailsIsGood
<1>6. CASE Break
  <2>1. CutAll /\ OthersOK' /\ got' = got
    BY <1>6, Counted DEF Break, CutAll, StreamInv, TypeOK, OthersOK
  <2> QED
    BY <2>1, CutAllIsGood
<1>7. CASE Silence
  BY <1>1, <1>7, Counted DEF Silence, StreamInv, TypeOK, OthersOK
<1>8. CASE Die
  <2>1. CutAll /\ OthersOK' /\ got' = got
    BY <1>8, Counted DEF Die, CutAll, StreamInv, TypeOK, OthersOK
  <2> QED
    BY <2>1, CutAllIsGood
<1>9. CASE Restart
  BY <1>1, <1>9 DEF Restart, StreamInv, TypeOK, OthersOK
<1> QED
  BY <1>2, <1>3, <1>4, <1>5, <1>6, <1>7, <1>8, <1>9 DEF Faults

-----------------------------------------------------------------------------
(* The theorems.                                                           *)

LEMMA InitIsGood == Init => StreamInv /\ Abstract!Init
<1> SUFFICES ASSUME Init PROVE StreamInv /\ Abstract!Init
  OBVIOUS
<1>1. DOMAIN call = {} /\ got = [f \in Files |-> <<>>]
  BY DEF Init
<1>2. TypeOK
  <2>1. \A f \in Files : Disk0[f] \in Contents
    BY ExchangeAssumption
  <2>2. DOMAIN disk = Files /\ DOMAIN rows = Files
    BY ExchangeAssumption DEF Init
  <2>3. got \in [Files -> Seq(Chunks)]
    BY <1>1
  <2>4. faults \in 0..MaxFaults
    BY ExchangeAssumption DEF Init
  <2> QED
    BY <1>1, <2>1, <2>2, <2>3, <2>4 DEF Init, TypeOK
<1>3. OnePipe /\ PipesOK
  BY <1>1 DEF OnePipe, PipesOK
<1>4. Streams = {}
  BY <1>1 DEF Streams
<1> QED
  BY <1>1, <1>2, <1>3, <1>4 DEF StreamInv, Abstract!Init

LEMMA NextIsGood == StreamInv /\ [Next]_vars => Good
<1> SUFFICES ASSUME StreamInv, [Next]_vars PROVE Good
  OBVIOUS
<1>1. CASE Next
  BY <1>1, BeginIsGood, ClientIsGood, TimeoutIsGood, ServerIsGood, FaultsAreGood DEF Next
<1>2. CASE UNCHANGED vars
  BY <1>2, InCallState, OthersKept, FaultMove DEF vars
<1> QED
  BY <1>1, <1>2

\* Every variable has its type, and every content stream is in order: what its
\* provider has read is what the download has kept plus what is on its way.
THEOREM TypeCorrect == Spec => []TypeOK
<1>1. StreamInv => TypeOK
  BY DEF StreamInv
<1>2. StreamInv /\ [Next]_vars => StreamInv'
  BY NextIsGood DEF Good
<1> QED
  BY <1>1, <1>2, InitIsGood, PTL DEF Spec

\* The calls implement ContentStream: a download is given the chunks of a file
\* in order, none twice and none left out, whatever becomes of the provider,
\* the connection and the file.
THEOREM ImplementsContentStream == Spec => ContentInOrder
<1>1. StreamInv /\ [Next]_vars => StreamInv'
  BY NextIsGood DEF Good
<1>2. StreamInv /\ [Next]_vars => [Abstract!Next]_<<got, Streams>>
  BY NextIsGood DEF Good, AbstractStep
<1> QED
  BY <1>1, <1>2, InitIsGood, PTL DEF Spec, ContentInOrder, Abstract!Spec
=============================================================================
