------------------------- MODULE ExchangeSafetyProofs -------------------------
(***************************************************************************)
(* A provider understands what a client of this code sends: no message that *)
(* is on its way refuses a request as invalid, for any files, calls and     *)
(* faults.  The invariant is about requests: serialized and deserialized,   *)
(* they still have the fields their handler asks for.                       *)
(*                                                                         *)
(* What the end of a stream means to the caller: an unbroken content stream *)
(* ends behind the last chunk or behind an error.                           *)
(*                                                                         *)
(* And what getFile comes to.  The invariant follows its answer from the    *)
(* table to the caller: whatever is on its way or has come is an error      *)
(* message, or names the one file asked for.                                *)
(***************************************************************************)
EXTENDS ExchangeProofs

Polite(m) == "invalid" \notin m.error

\* A request a handler accepts, and no refusal on its way back.
Fine(x) ==
    /\ ~Invalid(Deserialize(Serialize(x.request))) /\ Polite(x.request)
    /\ Polite(x.response)
    /\ \A i \in 1..Len(x.down) : Polite(x.down[i])

Understood == \A c \in DOMAIN call : Fine(call[c])

-----------------------------------------------------------------------------
(* Messages and calls.                                                     *)

\* What the three constructors of Message make survives the way to the provider.
LEMMA RequestsAreFine ==
    ASSUME NEW f \in Files, NEW n \in Nat,
           NEW m \in {FindFiles(Key[f]), GetFile(f), GetFileContent(f, n)}
    PROVE  m \in Messages /\ ~Invalid(Deserialize(Serialize(m))) /\ Polite(m)
<1>1. f # 0 /\ f \in Nat /\ Key[f] # ""
  BY ExchangeAssumption, KeyAssumption
<1>2. m \in Messages
  BY RequestMessages
<1>3. Polite(m)
  BY DEF FindFiles, GetFile, GetFileContent, NewMessage, Polite
<1> DEFINE d == Deserialize(Serialize(m))
<1>4. CASE m = FindFiles(Key[f])
  <2>1. d.type = "FIND_FILE" /\ d.query = {Key[f]} \ {""}
    BY <1>4 DEF FindFiles, NewMessage, Serialize, Deserialize, Decode
  <2> HIDE DEF d
  <2> QED
    BY <1>1, <1>2, <1>3, <2>1 DEF Invalid, d
<1>5. CASE m = GetFile(f)
  <2>1. d.type = "GET_FILE" /\ d.fileId = {f}
    BY <1>1, <1>5 DEF GetFile, NewMessage, Serialize, Deserialize, Decode
  <2> HIDE DEF d
  <2> QED
    BY <1>2, <1>3, <2>1 DEF Invalid, d
<1>6. CASE m = GetFileContent(f, n)
  <2>1. d.type = "GET_FILE_CONTENT" /\ d.fileId = {f} /\ d.offset = {n}
    BY <1>1, <1>6 DEF GetFileContent, NewMessage, Serialize, Deserialize, Decode
  <2> HIDE DEF d
  <2> QED
    BY <1>2, <1>3, <2>1 DEF Invalid, d
<1> QED
  BY <1>4, <1>5, <1>6

\* What a provider says otherwise.
LEMMA AnswersArePolite ==
    ASSUME NEW type
    PROVE  /\ Polite(NewMessage(type))
           /\ Polite(ErrorMessage(type, "notFound")) /\ Polite(ErrorMessage(type, "fs"))
           /\ \A m : m.type = type => Polite(FindFile(m)) /\ Polite(GetFileInfo(m))
BY DEF Polite, NewMessage, ErrorMessage, FindFile, GetFileInfo

LEMMA FineLeave ==
    ASSUME NEW x \in CallState, Fine(x), NEW r
    PROVE  Fine(Leave(x, r))
BY DEF Fine, Leave, NewCall

LEMMA FineSend ==
    ASSUME NEW x \in CallState, Fine(x), NEW m \in Messages, Polite(m)
    PROVE  Fine(SendFrame(x, m)) /\ Fine(Answer(x, m))
<1> DEFINE s == SendFrame(x, m)
<1>1. s.request = x.request /\ s.response = x.response /\ s \in CallState
  BY SendTypes
<1>2. \A i \in 1..Len(s.down) : Polite(s.down[i])
  <2>1. CASE x.pc = "read"
    <3>1. s.down = Append(x.down, Serialize(m)) /\ x.down \in Seq(Messages)
      BY <2>1, SendTypes DEF CallState
    <3>2. Polite(Serialize(m)) /\ Serialize(m) \in Messages
      BY RoundTrip DEF Polite
    <3> HIDE DEF s
    <3> QED
      BY <3>1, <3>2 DEF Fine
  <2>2. CASE x.pc # "read"
    BY <2>2 DEF SendFrame, Fine
  <2> QED
    BY <2>1, <2>2
<1>3. Answer(x, m) = [s EXCEPT !.server = "end"]
  BY SendTypes
<1> HIDE DEF s
<1>4. Fine(s)
  BY <1>1, <1>2 DEF Fine
<1>5. Fine([s EXCEPT !.server = "end"])
  BY <1>1, <1>4 DEF Fine, CallState
<1> QED
  BY <1>3, <1>4, <1>5 DEF s

LEMMA FineCut ==
    ASSUME NEW x \in CallState, Fine(x), NEW k \in Nat, k <= Len(x.down), NEW how
    PROVE  Fine(Cut(x, k, how))
<1>1. x.down \in Seq(Messages)
  BY DEF CallState
<1>2. /\ Len(SubSeq(x.down, 1, k)) = k
      /\ \A i \in 1..k : i \in 1..Len(x.down) /\ SubSeq(x.down, 1, k)[i] = x.down[i]
  BY <1>1
<1>3. CASE x.server = "off"
  BY <1>3 DEF Cut
<1>4. CASE x.server # "off"
  <2> DEFINE y == Cut(x, k, how)
  <2>1. /\ y.request = x.request /\ y.response = x.response
        /\ y.down = SubSeq(x.down, 1, k)
    BY <1>4 DEF Cut, CallState
  <2> HIDE DEF y
  <2>2. Fine(y)
    BY <1>2, <2>1 DEF Fine
  <2> QED
    BY <2>2 DEF y
<1> QED
  BY <1>3, <1>4

\* A step of one call.
LEMMA FineMove ==
    ASSUME Understood, NEW c, NEW y, c \in DOMAIN call, Fine(y),
           call' = [call EXCEPT ![c] = y]
    PROVE  Understood'
BY DEF Understood, Fine, Polite

-----------------------------------------------------------------------------
(* The steps.                                                              *)

LEMMA BeginUnderstood ==
    ASSUME StreamInv, Understood, NEW c \in Calls, Begin(c)
    PROVE  Understood'
<1>1. PICK f \in Files : \E m \in Requests(f) : call' = Put(call, c, NewCall(f, m))
  BY DEF Begin
<1>2. PICK m \in Requests(f) : call' = Put(call, c, NewCall(f, m))
  BY <1>1
<1>3. Len(got[f]) \in Nat
  BY DEF StreamInv, TypeOK
<1>4. ~Invalid(Deserialize(Serialize(m))) /\ Polite(m)
  BY <1>3, RequestsAreFine DEF Requests
<1> DEFINE y == NewCall(f, m)
<1>5. Fine(y)
  BY <1>4 DEF Fine, NewCall
<1>6. /\ DOMAIN call' = DOMAIN call \cup {c}
      /\ \A d \in DOMAIN call' : call'[d] = IF d = c THEN y ELSE call[d]
  BY <1>2 DEF Put
<1> HIDE DEF y
<1> QED
  BY <1>5, <1>6 DEF Understood

LEMMA ClientUnderstood ==
    ASSUME StreamInv, Understood, NEW c, ClientStep(c) \/ Timeout(c)
    PROVE  Understood'
<1> DEFINE x == call[c]
<1>1. c \in DOMAIN call /\ x \in CallState /\ Fine(x) /\ x.down \in Seq(Messages)
  <2>1. c \in DOMAIN call
    BY DEF ClientStep, Timeout, Dial, DialFails, Collect, Take, TakePaused, Throw,
           ContentEnds, ResponseEnds, Arrives, At
  <2> QED
    BY <2>1, InCallState DEF Understood, CallState
<1>2. ASSUME NEW r, call' = [call EXCEPT ![c] = Leave(@, r)]
      PROVE  Understood'
  BY <1>1, <1>2, FineLeave, FineMove
<1>3. CASE Dial(c)
  <2> DEFINE y == [x EXCEPT !.pc = "read", !.server = "request"]
  <2>1. Fine(y) /\ call' = [call EXCEPT ![c] = y]
    BY <1>1, <1>3 DEF Dial, Fine, CallState
  <2> QED
    BY <1>1, <2>1, FineMove
<1>4. ASSUME x.down # <<>>
      PROVE  \A i \in 1..Len(Tail(x.down)) : Polite(Tail(x.down)[i])
  <2>1. \A i \in 1..Len(Tail(x.down)) :
            i + 1 \in 1..Len(x.down) /\ Tail(x.down)[i] = x.down[i + 1]
    BY <1>1, <1>4
  <2> QED
    BY <1>1, <2>1 DEF Fine
<1>5. CASE Collect(c)
  <2> DEFINE y == [x EXCEPT !.down = Tail(@), !.inbox = Append(@, Received(c))]
  <2>1. call' = [call EXCEPT ![c] = y] /\ x.down # <<>>
    BY <1>5 DEF Collect, Arrives
  <2>2. y.request = x.request /\ y.response = x.response /\ y.down = Tail(x.down)
    BY <1>1 DEF CallState
  <2> HIDE DEF y
  <2>3. Fine(y)
    BY <1>1, <1>4, <2>1, <2>2 DEF Fine
  <2> QED
    BY <1>1, <2>1, <2>3, FineMove
<1>6. CASE Take(c)
  <2> DEFINE y == [x EXCEPT !.down = Tail(@)]
  <2>1. call' = [call EXCEPT ![c] = y] /\ x.down # <<>>
    BY <1>6 DEF Take, Arrives
  <2>2. y.request = x.request /\ y.response = x.response /\ y.down = Tail(x.down)
    BY <1>1 DEF CallState
  <2> HIDE DEF y
  <2>3. Fine(y)
    BY <1>1, <1>4, <2>1, <2>2 DEF Fine
  <2> QED
    BY <1>1, <2>1, <2>3, FineMove
<1>7. CASE Timeout(c)
  <2> DEFINE y == [x EXCEPT !.result = "unreachable"]
  <2>1. Fine(y) /\ call' = [call EXCEPT ![c] = y]
    BY <1>1, <1>7 DEF Timeout, Fine, CallState
  <2> QED
    BY <1>1, <2>1, FineMove
<1>8. CASE DialFails(c) \/ TakePaused(c) \/ Throw(c)
  <2>1. \E r : call' = [call EXCEPT ![c] = Leave(@, r)]
    BY <1>8 DEF DialFails, TakePaused, Throw
  <2> QED
    BY <1>2, <2>1
<1>9. CASE ContentEnds(c)
  <2>1. call' = [call EXCEPT ![c] = Leave(@, IF x.cut = "error" THEN "error" ELSE "end")]
    BY <1>9 DEF ContentEnds
  <2> QED
    BY <1>2, <2>1
<1>10. CASE ResponseEnds(c)
  <2>1. call' = [call EXCEPT ![c] = Leave(@, Outcome(x))]
    BY <1>10 DEF ResponseEnds
  <2> QED
    BY <1>2, <2>1
<1> QED
  BY <1>3, <1>5, <1>6, <1>7, <1>8, <1>9, <1>10 DEF ClientStep

LEMMA ServerUnderstood ==
    ASSUME StreamInv, Understood, NEW c, ServerStep(c) \/ ReadFails(c)
    PROVE  Understood'
<1> DEFINE x == call[c]
           m == Deserialize(Serialize(x.request))
<1>1. c \in DOMAIN call /\ x \in CallState /\ Fine(x) /\ x.request \in Messages
  <2>1. c \in DOMAIN call
    BY DEF ServerStep, Lookup, Open, ReadChunk, SendChunk, EndOfFile, ReadFails, Serves
  <2> QED
    BY <2>1, InCallState DEF Understood, CallState
<1>2. m \in Messages /\ ~Invalid(m)
  BY <1>1, RoundTrip DEF Fine
<1>3. /\ NewMessage(m.type) \in Messages
      /\ ErrorMessage(m.type, "notFound") \in Messages
      /\ ErrorMessage("GET_FILE_CONTENT", "fs") \in Messages
  <2>1. m.type \in Types
    BY <1>2 DEF Messages, Message, Types
  <2> QED
    BY <2>1, FreshMessages DEF Errors, Types
<1>4. ASSUME NEW a \in Messages, Polite(a), call' = [call EXCEPT ![c] = Answer(@, a)]
      PROVE  Understood'
  BY <1>1, <1>4, FineSend, FineMove
<1> HIDE DEF m
<1>5. CASE Lookup(c)
  <2> DEFINE y == [x EXCEPT !.server = "open", !.response = NewMessage(m.type),
                            !.pos = CHOOSE n \in m.offset : TRUE]
  <2>1. CASE m.type = "FIND_FILE"
    <3>1. call' = [call EXCEPT ![c] = Answer(@, FindFile(m))]
      BY <1>2, <1>5, <2>1 DEF Lookup, m
    <3> QED
      BY <1>2, <1>4, <3>1, FileAnswers, AnswersArePolite
  <2>2. CASE m.type # "FIND_FILE" /\ ~(m.fileId \subseteq DOMAIN rows)
    <3>1. call' = [call EXCEPT ![c] = Answer(@, ErrorMessage(m.type, "notFound"))]
      BY <1>2, <1>5, <2>2 DEF Lookup, m
    <3> QED
      BY <1>3, <1>4, <3>1, AnswersArePolite
  <2>3. CASE m.type = "GET_FILE" /\ m.fileId \subseteq DOMAIN rows
    <3>1. call' = [call EXCEPT ![c] = Answer(@, GetFileInfo(m))]
      BY <1>2, <1>5, <2>3 DEF Lookup, m
    <3> QED
      BY <1>2, <1>4, <2>3, <3>1, FileAnswers, AnswersArePolite
  <2>4. CASE m.type \notin {"FIND_FILE", "GET_FILE"} /\ m.fileId \subseteq DOMAIN rows
    <3>1. call' = [call EXCEPT ![c] = y]
      BY <1>2, <1>5, <2>4 DEF Lookup, m
    <3>2. /\ y.request = x.request /\ y.down = x.down
          /\ y.response = NewMessage(m.type)
      BY <1>1 DEF CallState
    <3>3. Polite(NewMessage(m.type))
      BY AnswersArePolite
    <3> HIDE DEF y
    <3>4. Fine(y)
      BY <1>1, <3>2, <3>3 DEF Fine
    <3> QED
      BY <1>1, <3>1, <3>4, FineMove
  <2> QED
    BY <2>1, <2>2, <2>3, <2>4
<1>6. CASE Open(c)
  <2> DEFINE y == [x EXCEPT !.server = "read", !.view = disk[x.file]]
  <2>1. CASE x.file \in DOMAIN disk
    <3>1. Fine(y) /\ call' = [call EXCEPT ![c] = y]
      BY <1>1, <1>6, <2>1 DEF Open, Fine, CallState
    <3> QED
      BY <1>1, <3>1, FineMove
  <2>2. CASE x.file \notin DOMAIN disk
    <3>1. call' = [call EXCEPT ![c] = Answer(@, ErrorMessage("GET_FILE_CONTENT", "fs"))]
      BY <1>6, <2>2 DEF Open
    <3> QED
      BY <1>3, <1>4, <3>1, AnswersArePolite
  <2> QED
    BY <2>1, <2>2
<1>7. CASE ReadChunk(c)
  <2> DEFINE response == [x.response EXCEPT !.content = {<<x.view[1], x.pos + 1>>}]
             y == [x EXCEPT !.server = "wait", !.pos = @ + 1, !.response = response]
  <2>1. call' = [call EXCEPT ![c] = y]
    BY <1>1, <1>7 DEF ReadChunk
  <2>2. Polite(response)
    BY <1>1 DEF Fine, Polite, CallState, Messages, Message
  <2> HIDE DEF response
  <2>3. y.request = x.request /\ y.down = x.down /\ y.response = response
    BY <1>1 DEF CallState
  <2> HIDE DEF y
  <2>4. Fine(y)
    BY <1>1, <2>2, <2>3 DEF Fine
  <2> QED
    BY <1>1, <2>1, <2>4, FineMove
<1>8. CASE SendChunk(c)
  <2> DEFINE s == SendFrame(x, x.response)
             y == [s EXCEPT !.server = "read"]
  <2>1. call' = [call EXCEPT ![c] = y]
    BY <1>8 DEF SendChunk
  <2>2. s \in CallState /\ Fine(s)
    <3>1. x.response \in Messages /\ Polite(x.response)
      BY <1>1 DEF CallState, Fine
    <3> QED
      BY <1>1, <3>1, SendTypes, FineSend
  <2> HIDE DEF s
  <2>3. Fine(y)
    BY <2>2 DEF Fine, CallState
  <2> QED
    BY <1>1, <2>1, <2>3, FineMove
<1>9. CASE EndOfFile(c)
  <2> DEFINE y == [x EXCEPT !.server = "end"]
  <2>1. Fine(y) /\ call' = [call EXCEPT ![c] = y]
    BY <1>1, <1>9 DEF EndOfFile, Fine, CallState
  <2> QED
    BY <1>1, <2>1, FineMove
<1>10. CASE ReadFails(c)
  <2>1. call' = [call EXCEPT ![c] = Answer(@, ErrorMessage("GET_FILE_CONTENT", "fs"))]
    BY <1>10 DEF ReadFails
  <2> QED
    BY <1>3, <1>4, <2>1, AnswersArePolite
<1> QED
  BY <1>5, <1>6, <1>7, <1>8, <1>9, <1>10 DEF ServerStep

LEMMA CutAllUnderstood ==
    ASSUME StreamInv, Understood, CutAll
    PROVE  Understood'
<1>1. PICK keep \in [DOMAIN call -> 0..MaxLength + 1], how \in {"clean", "error"} :
          /\ \A c \in DOMAIN call : keep[c] <= Len(call[c].down)
          /\ call' = [c \in DOMAIN call |-> Cut(call[c], keep[c], how)]
  BY DEF CutAll
<1>2. ASSUME NEW c \in DOMAIN call
      PROVE  Fine(Cut(call[c], keep[c], how))
  <2>1. keep[c] \in Nat /\ keep[c] <= Len(call[c].down)
    BY <1>1, ExchangeAssumption
  <2>2. call[c] \in CallState /\ Fine(call[c])
    BY InCallState DEF Understood
  <2> QED
    BY <2>1, <2>2, FineCut
<1>3. /\ DOMAIN call' = DOMAIN call
      /\ \A c \in DOMAIN call : call'[c] = Cut(call[c], keep[c], how)
  BY <1>1
<1> QED
  BY <1>2, <1>3 DEF Understood

LEMMA FaultsUnderstood ==
    ASSUME StreamInv, Understood, Faults
    PROVE  Understood'
<1>1. ASSUME call' = call
      PROVE  Understood'
  BY <1>1 DEF Understood
<1>2. CASE \E f \in Files : \/ Remove(f)
                           \/ \E content \in Contents : Replace(f, content)
  BY <1>1, <1>2 DEF Remove, Replace
<1>3. CASE \E f \in Files, content \in Contents : Overwrite(f, content)
  <2>1. PICK f \in Files, content \in Contents : Overwrite(f, content)
    BY <1>3
  <2>2. ASSUME NEW c \in DOMAIN call
        PROVE  Fine(call'[c])
    <3> DEFINE y == [call[c] EXCEPT !.view = content]
    <3>1. call'[c] = call[c] \/ call'[c] = y
      BY <2>1 DEF Overwrite
    <3>2. Fine(y) /\ Fine(call[c])
      BY InCallState DEF Understood, Fine, CallState
    <3> QED
      BY <3>1, <3>2
  <2>3. DOMAIN call' = DOMAIN call
    BY <2>1 DEF Overwrite
  <2> QED
    BY <2>2, <2>3 DEF Understood
<1>4. CASE \E c \in Calls : ReadFails(c)
  BY <1>4, ServerUnderstood
<1>5. CASE Break \/ Die
  BY <1>5, CutAllUnderstood DEF Break, Die
<1>6. CASE Silence \/ Restart
  BY <1>1, <1>6 DEF Silence, Restart
<1> QED
  BY <1>2, <1>3, <1>4, <1>5, <1>6 DEF Faults

-----------------------------------------------------------------------------
(* The theorem.                                                            *)

SafeInv == StreamInv /\ Understood

LEMMA NextUnderstood == SafeInv /\ [Next]_vars => SafeInv'
<1> SUFFICES ASSUME StreamInv, Understood, [Next]_vars PROVE SafeInv'
  BY DEF SafeInv
<1>1. StreamInv'
  BY NextIsGood DEF Good
<1>2. Understood'
  <2>1. CASE Next
    BY <2>1, BeginUnderstood, ClientUnderstood, ServerUnderstood, FaultsUnderstood
       DEF Next
  <2>2. CASE UNCHANGED vars
    BY <2>2 DEF vars, Understood
  <2> QED
    BY <2>1, <2>2
<1> QED
  BY <1>1, <1>2 DEF SafeInv

\* A provider never refuses as invalid what this client sends: the id and the
\* offset, 0 included, survive serialize and deserialize.
THEOREM ProviderUnderstands == Spec => []RequestsAreUnderstood
<1>1. Init => SafeInv
  <2>1. Init => Understood
    BY DEF Init, Understood
  <2> QED
    BY <2>1, InitIsGood DEF SafeInv
<1>2. SafeInv => RequestsAreUnderstood
  BY DEF SafeInv, Understood, Fine, Polite, RequestsAreUnderstood
<1> QED
  BY <1>1, <1>2, NextUnderstood, PTL DEF Spec

-----------------------------------------------------------------------------
(* The end of a stream.                                                    *)

Over == {"end", "gone"}

\* A stream that is over and was not broken brings an error at last, or all that
\* is left of the file behind it, when n chunks are kept.
Fails(down) == down # <<>> /\ down[Len(down)].error # {}
EndOK(x, n) ==
    (x.server \in Over /\ x.cut = "no") =>
        Fails(x.down) \/ n + Len(x.down) >= x.view[2]

EndsOK ==
    \A c \in DOMAIN call : Active(call[c]) => EndOK(call[c], Len(got[call[c].file]))

\* A step of one call that does not end its stream, and one that may.
LEMMA EndMove ==
    ASSUME EndsOK, NEW c \in DOMAIN call, NEW y, call' = [call EXCEPT ![c] = y],
           got' = got, Active(y) => EndOK(y, Len(got[y.file]))
    PROVE  EndsOK'
<1> SUFFICES ASSUME NEW d \in DOMAIN call, Active(call'[d])
             PROVE  EndOK(call'[d], Len(got[call'[d].file]))
  BY DEF EndsOK, Active, EndOK, Fails
<1>1. CASE d = c
  BY <1>1
<1>2. CASE d # c
  BY <1>2 DEF EndsOK
<1> QED
  BY <1>1, <1>2

LEMMA NoEndMove ==
    ASSUME EndsOK, NEW c \in DOMAIN call, NEW y, call' = [call EXCEPT ![c] = y],
           got' = got, ~Active(y) \/ y.server \notin Over
    PROVE  EndsOK'
BY EndMove DEF EndOK

\* What is answered to a content call is an error.
LEMMA AnswerEnds ==
    ASSUME StreamInv, EndsOK, NEW c \in DOMAIN call, NEW m \in Messages,
           call[c].server # "off", Kind(c) = "GET_FILE_CONTENT" => m.error # {},
           call' = [call EXCEPT ![c] = Answer(@, m)], got' = got
    PROVE  EndsOK'
<1> DEFINE x == call[c]
           y == Answer(x, m)
           s == SendFrame(x, m)
<1>1. x \in CallState /\ x.down \in Seq(Messages)
  BY InCallState DEF CallState
<1>2. /\ s \in CallState /\ s.request = x.request /\ s.pc = x.pc
      /\ x.pc = "read" => s.down = Append(x.down, Serialize(m))
      /\ y = [s EXCEPT !.server = "end"]
  BY <1>1, SendTypes
<1> HIDE DEF s
<1>3. y.request = x.request /\ y.pc = x.pc /\ y.down = s.down
  BY <1>2 DEF CallState
<1>4. call' = [call EXCEPT ![c] = y]
  OBVIOUS
<1> HIDE DEF y
<1>5. ASSUME Active(y)
      PROVE  Fails(y.down)
  <2>1. Active(x)
    BY <1>3, <1>5 DEF Active
  <2>2. y.down = Append(x.down, Serialize(m)) /\ m.error # {}
    BY <1>2, <1>3, <2>1, ServedPipe DEF Active, Kind
  <2>3. Serialize(m) \in Messages /\ Serialize(m).error # {}
    BY <2>2, RoundTrip
  <2>4. /\ Append(x.down, Serialize(m)) # <<>>
        /\ Append(x.down, Serialize(m))[Len(Append(x.down, Serialize(m)))] = Serialize(m)
    BY <1>1, <2>3
  <2> QED
    BY <2>2, <2>3, <2>4 DEF Fails
<1> QED
  BY <1>4, <1>5, EndMove DEF EndOK

\* A chunk that is kept is one frame less to come.
LEMMA TakeEnds == ASSUME StreamInv, EndsOK, NEW c, Take(c) PROVE EndsOK'
<1> DEFINE x == call[c]
           y == [x EXCEPT !.down = Tail(@)]
           n == Len(got[x.file])
<1>1. /\ c \in DOMAIN call /\ x \in CallState /\ x.down # <<>> /\ x.pc = "read"
      /\ x.request.type = "GET_FILE_CONTENT" /\ Received(c).error = {}
      /\ call' = [call EXCEPT ![c] = y]
  BY InCallState DEF Take, Arrives, At, Kind
<1>2. /\ x.file \in Files /\ x.down \in Seq(Messages) /\ Len(x.down) \in Nat
      /\ got[x.file] \in Seq(Chunks) /\ n \in Nat /\ x.view[2] \in Nat
      /\ got \in [Files -> Seq(Chunks)]
  <2>1. x.view \in Versions \X (0..MaxLength)
    BY <1>1 DEF CallState, Contents
  <2>2. x.view[2] \in Nat
    BY <2>1, ExchangeAssumption
  <2>3. /\ x.file \in Files /\ x.down \in Seq(Messages) /\ got \in [Files -> Seq(Chunks)]
    BY <1>1 DEF CallState, StreamInv, TypeOK
  <2> QED
    BY <2>2, <2>3
<1>3. /\ Head(x.down) \in Messages /\ Head(x.down) = x.down[1]
      /\ Len(Tail(x.down)) = Len(x.down) - 1
      /\ Len(x.down) # 1 => /\ Tail(x.down) # <<>>
                            /\ Tail(x.down)[Len(Tail(x.down))] = x.down[Len(x.down)]
  <2>1. /\ Head(x.down) \in Messages /\ Head(x.down) = x.down[1]
        /\ Len(x.down) >= 1 /\ Len(Tail(x.down)) = Len(x.down) - 1
        /\ \A i \in 1..Len(Tail(x.down)) : Tail(x.down)[i] = x.down[i + 1]
    BY <1>1, <1>2
  <2>2. ASSUME Len(x.down) # 1
        PROVE  /\ Tail(x.down) # <<>>
               /\ Tail(x.down)[Len(Tail(x.down))] = x.down[Len(x.down)]
    <3> DEFINE q == Len(x.down)
               t == Tail(x.down)
    <3>1. Len(t) = q - 1 /\ \A i \in 1..Len(t) : t[i] = x.down[i + 1]
      BY <2>1
    <3>2. q \in Nat /\ q >= 1 /\ q # 1 /\ t \in Seq(Messages)
      BY <1>1, <1>2, <2>1, <2>2
    <3> HIDE DEF q, t
    <3>3. Len(t) \in 1..Len(t) /\ Len(t) + 1 = q /\ Len(t) # 0
      BY <3>1, <3>2
    <3>4. t[Len(t)] = x.down[q]
      BY <3>1, <3>3
    <3>5. t # <<>>
      BY <3>2, <3>3
    <3> QED
      BY <3>4, <3>5 DEF q, t
  <2> QED
    BY <2>1, <2>2
<1>4. Active(x) /\ EndOK(x, n)
  BY <1>1 DEF EndsOK, Active
<1>5. x.down[1].error = {}
  BY <1>1, <1>3, RoundTrip DEF Received
<1>6. PICK chunk : got' = [got EXCEPT ![x.file] = Append(@, chunk)]
  BY DEF Take
<1>7. /\ Len(got'[x.file]) = n + 1
      /\ \A f \in Files \ {x.file} : got'[f] = got[f]
  <2>1. Len(Append(got[x.file], chunk)) = n + 1
    BY <1>2
  <2> QED
    BY <1>2, <1>6, <2>1
<1>8. /\ y.file = x.file /\ y.request = x.request /\ y.pc = x.pc
      /\ y.server = x.server /\ y.cut = x.cut /\ y.view = x.view
      /\ y.down = Tail(x.down)
  BY <1>1 DEF CallState
<1> HIDE DEF y, n
<1>9. EndOK(y, n + 1)
  <2> SUFFICES ASSUME y.server \in Over, y.cut = "no", ~Fails(y.down)
               PROVE  n + 1 + Len(y.down) >= y.view[2]
    BY DEF EndOK
  <2>1. ~Fails(x.down)
    BY <1>3, <1>5, <1>8 DEF Fails
  <2>2. n + Len(x.down) >= x.view[2]
    BY <1>4, <1>8, <2>1 DEF EndOK
  <2>3. n + 1 + Len(Tail(x.down)) = n + Len(x.down)
    <3> DEFINE q == Len(x.down)
               t == Len(Tail(x.down))
    <3>1. q \in Nat /\ t = q - 1 /\ n \in Nat
      BY <1>2, <1>3 DEF n
    <3> HIDE DEF q, t
    <3>2. n + 1 + t = n + q
      BY <3>1
    <3> QED
      BY <3>2 DEF q, t
  <2> QED
    BY <1>8, <2>2, <2>3
<1> SUFFICES ASSUME NEW d \in DOMAIN call, Active(call'[d])
             PROVE  EndOK(call'[d], Len(got'[call'[d].file]))
  BY <1>1 DEF EndsOK, Active, EndOK, Fails
<1>10. CASE d = c
  BY <1>1, <1>7, <1>8, <1>9, <1>10
<1>11. CASE d # c
  <2>1. call'[d] = call[d] /\ call[d].file \in Files
    BY <1>1, <1>11, InCallState DEF CallState
  <2>2. call[d].file # x.file
    BY <1>1, <1>4, <1>11, <2>1 DEF StreamInv, OnePipe
  <2> QED
    BY <1>7, <2>1, <2>2 DEF EndsOK
<1> QED
  BY <1>10, <1>11

LEMMA ClientEnds ==
    ASSUME StreamInv, EndsOK, NEW c, ClientStep(c) \/ Timeout(c)
    PROVE  EndsOK'
<1> DEFINE x == call[c]
<1>1. c \in DOMAIN call /\ x \in CallState /\ x.file \in Files /\ x.request \in Messages
  <2>1. c \in DOMAIN call
    BY DEF ClientStep, Timeout, Dial, DialFails, Collect, Take, TakePaused, Throw,
           ContentEnds, ResponseEnds, Arrives, At
  <2> QED
    BY <2>1, InCallState DEF CallState
<1>2. ASSUME NEW r, call' = [call EXCEPT ![c] = Leave(@, r)], got' = got
      PROVE  EndsOK'
  <2>1. Leave(x, r).pc = "done"
    BY DEF Leave, NewCall
  <2> QED
    BY <1>1, <1>2, <2>1, NoEndMove DEF Active
<1>3. CASE Dial(c)
  <2> DEFINE y == [x EXCEPT !.pc = "read", !.server = "request"]
  <2>1. call' = [call EXCEPT ![c] = y] /\ got' = got /\ y.server = "request"
    BY <1>1, <1>3 DEF Dial, CallState
  <2> HIDE DEF y
  <2> QED
    BY <1>1, <2>1, NoEndMove DEF Over
<1>4. CASE Collect(c)
  <2> DEFINE y == [x EXCEPT !.down = Tail(@), !.inbox = Append(@, Received(c))]
  <2>1. call' = [call EXCEPT ![c] = y] /\ got' = got
    BY <1>4 DEF Collect
  <2>2. y.request = x.request /\ x.request.type # "GET_FILE_CONTENT"
    BY <1>1, <1>4 DEF Collect, Kind, CallState
  <2> HIDE DEF y
  <2> QED
    BY <1>1, <2>1, <2>2, NoEndMove DEF Active
<1>5. CASE Timeout(c)
  <2> DEFINE y == [x EXCEPT !.result = "unreachable"]
  <2>1. call' = [call EXCEPT ![c] = y] /\ got' = got
    BY <1>5 DEF Timeout
  <2>2. y.request = x.request /\ x.request.type # "GET_FILE_CONTENT"
    BY <1>1, <1>5 DEF Timeout, TimesOut, CallState
  <2> HIDE DEF y
  <2> QED
    BY <1>1, <2>1, <2>2, NoEndMove DEF Active
<1>6. CASE DialFails(c) \/ TakePaused(c) \/ Throw(c)
  <2>1. (\E r : call' = [call EXCEPT ![c] = Leave(@, r)]) /\ got' = got
    BY <1>6 DEF DialFails, TakePaused, Throw
  <2> QED
    BY <1>2, <2>1
<1>7. CASE ContentEnds(c)
  <2>1. call' = [call EXCEPT ![c] = Leave(@, IF x.cut = "error" THEN "error" ELSE "end")]
    BY <1>7 DEF ContentEnds
  <2> QED
    BY <1>2, <1>7, <2>1 DEF ContentEnds
<1>8. CASE ResponseEnds(c)
  <2>1. call' = [call EXCEPT ![c] = Leave(@, Outcome(x))]
    BY <1>8 DEF ResponseEnds
  <2> QED
    BY <1>2, <1>8, <2>1 DEF ResponseEnds
<1> QED
  BY <1>3, <1>4, <1>5, <1>6, <1>7, <1>8, TakeEnds DEF ClientStep

LEMMA ServerEnds ==
    ASSUME StreamInv, EndsOK, NEW c, ServerStep(c) \/ ReadFails(c)
    PROVE  EndsOK'
<1> DEFINE x == call[c]
           m == Deserialize(Serialize(x.request))
<1>1. /\ c \in DOMAIN call /\ x \in CallState /\ x.request \in Messages
      /\ x.server # "off" /\ got' = got
  <2>1. c \in DOMAIN call /\ x.server # "off"
    BY DEF ServerStep, Lookup, Open, ReadChunk, SendChunk, EndOfFile, ReadFails, Serves,
           MayRead
  <2>2. got' = got
    BY DEF ServerStep, Lookup, Open, ReadChunk, SendChunk, EndOfFile, ReadFails, provider
  <2> QED
    BY <2>1, <2>2, InCallState DEF CallState
<1>2. /\ m \in Messages /\ m.type = x.request.type /\ m.type \in Types
  <2>1. m \in Messages /\ m.type = x.request.type
    BY <1>1, RoundTrip
  <2> QED
    BY <2>1 DEF Messages, Message, Types
<1> HIDE DEF m
<1>3. \A what \in Errors : /\ ErrorMessage(m.type, what) \in Messages
                           /\ ErrorMessage(m.type, what).error # {}
  BY <1>2, FreshMessages DEF ErrorMessage, NewMessage
<1>4. /\ ErrorMessage("GET_FILE_CONTENT", "fs") \in Messages
      /\ ErrorMessage("GET_FILE_CONTENT", "fs").error # {}
  BY FreshMessages DEF Types, Errors, ErrorMessage, NewMessage
<1>5. CASE Lookup(c)
  <2> DEFINE y == [x EXCEPT !.server = "open", !.response = NewMessage(m.type),
                            !.pos = CHOOSE n \in m.offset : TRUE]
  <2>1. CASE Invalid(m)
    <3>1. call' = [call EXCEPT ![c] = Answer(@, ErrorMessage(m.type, "invalid"))]
      BY <1>5, <2>1 DEF Lookup, m
    <3> QED
      BY <1>1, <1>3, <3>1, AnswerEnds DEF Errors
  <2>2. CASE ~Invalid(m) /\ m.type = "FIND_FILE"
    <3>1. call' = [call EXCEPT ![c] = Answer(@, FindFile(m))]
      BY <1>5, <2>2 DEF Lookup, m
    <3>2. FindFile(m) \in Messages /\ Kind(c) # "GET_FILE_CONTENT"
      BY <1>2, <2>2, FileAnswers DEF Kind
    <3> QED
      BY <1>1, <3>1, <3>2, AnswerEnds
  <2>3. CASE ~Invalid(m) /\ m.type # "FIND_FILE" /\ ~(m.fileId \subseteq DOMAIN rows)
    <3>1. call' = [call EXCEPT ![c] = Answer(@, ErrorMessage(m.type, "notFound"))]
      BY <1>5, <2>3 DEF Lookup, m
    <3> QED
      BY <1>1, <1>3, <3>1, AnswerEnds DEF Errors
  <2>4. CASE ~Invalid(m) /\ m.type = "GET_FILE" /\ m.fileId \subseteq DOMAIN rows
    <3>1. call' = [call EXCEPT ![c] = Answer(@, GetFileInfo(m))]
      BY <1>5, <2>4 DEF Lookup, m
    <3>2. GetFileInfo(m) \in Messages /\ Kind(c) # "GET_FILE_CONTENT"
      BY <1>2, <2>4, FileAnswers DEF Kind
    <3> QED
      BY <1>1, <3>1, <3>2, AnswerEnds
  <2>5. CASE ~Invalid(m) /\ m.type = "GET_FILE_CONTENT" /\ m.fileId \subseteq DOMAIN rows
    <3>1. call' = [call EXCEPT ![c] = y]
      BY <1>5, <2>5 DEF Lookup, m
    <3>2. y.server = "open"
      BY <1>1 DEF CallState
    <3> HIDE DEF y
    <3> QED
      BY <1>1, <3>1, <3>2, NoEndMove DEF Over
  <2> QED
    BY <1>2, <2>1, <2>2, <2>3, <2>4, <2>5 DEF Types
<1>6. CASE Open(c)
  <2> DEFINE y == [x EXCEPT !.server = "read", !.view = disk[x.file]]
  <2>1. CASE x.file \in DOMAIN disk
    <3>1. call' = [call EXCEPT ![c] = y] /\ y.server = "read"
      BY <1>1, <1>6, <2>1 DEF Open, CallState
    <3> HIDE DEF y
    <3> QED
      BY <1>1, <3>1, NoEndMove DEF Over
  <2>2. CASE x.file \notin DOMAIN disk
    <3>1. call' = [call EXCEPT ![c] = Answer(@, ErrorMessage("GET_FILE_CONTENT", "fs"))]
      BY <1>6, <2>2 DEF Open
    <3> QED
      BY <1>1, <1>4, <3>1, AnswerEnds
  <2> QED
    BY <2>1, <2>2
<1>7. CASE ReadChunk(c)
  <2> DEFINE response == [x.response EXCEPT !.content = {<<x.view[1], x.pos + 1>>}]
             y == [x EXCEPT !.server = "wait", !.pos = @ + 1, !.response = response]
  <2>1. call' = [call EXCEPT ![c] = y]
    BY <1>1, <1>7 DEF ReadChunk
  <2> HIDE DEF response
  <2>2. y.server = "wait"
    BY <1>1 DEF CallState
  <2> HIDE DEF y
  <2> QED
    BY <1>1, <2>1, <2>2, NoEndMove DEF Over
<1>8. CASE SendChunk(c)
  <2> DEFINE s == SendFrame(x, x.response)
             y == [s EXCEPT !.server = "read"]
  <2>1. call' = [call EXCEPT ![c] = y]
    BY <1>8 DEF SendChunk
  <2>2. s \in CallState
    BY <1>1, SendTypes DEF CallState
  <2> HIDE DEF s
  <2>3. y.server = "read"
    BY <2>2 DEF CallState
  <2> HIDE DEF y
  <2> QED
    BY <1>1, <2>1, <2>3, NoEndMove DEF Over
<1>9. CASE EndOfFile(c)
  <2> DEFINE y == [x EXCEPT !.server = "end"]
             n == Len(got[x.file])
  <2>1. /\ call' = [call EXCEPT ![c] = y] /\ x.server = "read"
        /\ x.pos >= x.view[2]
    BY <1>9 DEF EndOfFile, Serves
  <2>2. /\ y.request = x.request /\ y.pc = x.pc /\ y.down = x.down
        /\ y.view = x.view /\ y.file = x.file
    BY <1>1 DEF CallState
  <2> HIDE DEF y
  <2>3. ASSUME Active(y)
        PROVE  n + Len(y.down) >= y.view[2]
    <3>1. PipeFrom(x, n)
      BY <1>1, <2>2, <2>3, ServedPipe DEF Active
    <3>2. x.pos = n + Len(x.down)
      BY <2>1, <3>1 DEF PipeFrom
    <3> QED
      BY <2>1, <2>2, <3>2
  <2> QED
    BY <1>1, <2>1, <2>2, <2>3, EndMove DEF EndOK
<1>10. CASE ReadFails(c)
  <2>1. call' = [call EXCEPT ![c] = Answer(@, ErrorMessage("GET_FILE_CONTENT", "fs"))]
    BY <1>10 DEF ReadFails
  <2> QED
    BY <1>1, <1>4, <2>1, AnswerEnds
<1> QED
  BY <1>5, <1>6, <1>7, <1>8, <1>9, <1>10 DEF ServerStep

LEMMA BeginEnds == ASSUME StreamInv, EndsOK, NEW c \in Calls, Begin(c) PROVE EndsOK'
<1>1. PICK f \in Files : \E m \in Requests(f) : call' = Put(call, c, NewCall(f, m))
  BY DEF Begin
<1>2. PICK m \in Requests(f) : call' = Put(call, c, NewCall(f, m))
  BY <1>1
<1> DEFINE y == NewCall(f, m)
<1>3. y.server = "off" /\ got' = got
  BY DEF NewCall, Begin
<1>4. /\ DOMAIN call' = DOMAIN call \cup {c}
      /\ \A d \in DOMAIN call' : call'[d] = IF d = c THEN y ELSE call[d]
  BY <1>2 DEF Put
<1> HIDE DEF y
<1> SUFFICES ASSUME NEW d \in DOMAIN call', Active(call'[d])
             PROVE  EndOK(call'[d], Len(got[call'[d].file]))
  BY <1>3 DEF EndsOK, Active, EndOK, Fails
<1>5. CASE d = c
  BY <1>3, <1>4, <1>5 DEF EndOK, Over
<1>6. CASE d # c
  BY <1>4, <1>6 DEF EndsOK
<1> QED
  BY <1>5, <1>6

\* A stream that a break leaves whole had ended before.
LEMMA CutEnds ==
    ASSUME NEW x \in CallState, NEW k \in Nat, k <= Len(x.down), NEW how,
           how # "no", NEW n, EndOK(x, n)
    PROVE  /\ EndOK(Cut(x, k, how), n) /\ Cut(x, k, how).file = x.file
           /\ Cut(x, k, how).pc = x.pc /\ Cut(x, k, how).request = x.request
           /\ Cut(x, k, how).result = x.result
<1>1. CASE x.server = "off"
  BY <1>1 DEF Cut
<1>2. CASE x.server # "off"
  <2> DEFINE y == Cut(x, k, how)
  <2>1. /\ y.file = x.file /\ y.pc = x.pc /\ y.request = x.request /\ y.view = x.view
        /\ y.down = SubSeq(x.down, 1, k) /\ y.result = x.result
        /\ y.cut = IF x.server = "end" /\ k = Len(x.down) THEN x.cut ELSE how
    BY <1>2 DEF Cut, CallState
  <2> HIDE DEF y
  <2>2. x.down \in Seq(Messages)
    BY DEF CallState
  <2>3. ASSUME y.cut = "no"
        PROVE  x.server = "end" /\ x.cut = "no" /\ y.down = x.down
    <3>1. x.server = "end" /\ k = Len(x.down) /\ x.cut = "no"
      BY <2>1, <2>3
    <3> QED
      BY <2>1, <2>2, <3>1
  <2>4. EndOK(y, n)
    BY <2>1, <2>3 DEF EndOK, Over
  <2> QED
    BY <2>1, <2>4 DEF y
<1> QED
  BY <1>1, <1>2

LEMMA CutAllEnds == ASSUME StreamInv, EndsOK, CutAll, got' = got PROVE EndsOK'
<1>1. PICK keep \in [DOMAIN call -> 0..MaxLength + 1], how \in {"clean", "error"} :
          /\ \A c \in DOMAIN call : keep[c] <= Len(call[c].down)
          /\ call' = [c \in DOMAIN call |-> Cut(call[c], keep[c], how)]
  BY DEF CutAll
<1>2. ASSUME NEW c \in DOMAIN call, Active(call'[c])
      PROVE  EndOK(call'[c], Len(got[call'[c].file]))
  <2>1. keep[c] \in Nat /\ keep[c] <= Len(call[c].down) /\ how # "no"
    BY <1>1, ExchangeAssumption
  <2>2. call'[c] = Cut(call[c], keep[c], how) /\ call[c] \in CallState
    BY <1>1, InCallState
  <2>3. call'[c].request = call[c].request /\ call'[c].pc = call[c].pc
    BY <2>1, <2>2, CutTypes
  <2>4. EndOK(call[c], Len(got[call[c].file]))
    BY <1>2, <2>3 DEF EndsOK, Active
  <2> QED
    BY <2>1, <2>2, <2>4, CutEnds
<1>3. DOMAIN call' = DOMAIN call
  BY <1>1
<1> QED
  BY <1>2, <1>3 DEF EndsOK, Active, EndOK, Fails

LEMMA FaultsEnds == ASSUME StreamInv, EndsOK, Faults PROVE EndsOK'
<1>1. ASSUME call' = call, got' = got
      PROVE  EndsOK'
  BY <1>1 DEF EndsOK, Active, EndOK, Fails
<1>2. CASE \E f \in Files : \/ Remove(f)
                           \/ \E content \in Contents : Replace(f, content)
  BY <1>1, <1>2 DEF Remove, Replace, Fault
<1>3. CASE \E f \in Files, content \in Contents : Overwrite(f, content)
  <2>1. PICK f \in Files, content \in Contents : Overwrite(f, content)
    BY <1>3
  <2>2. got' = got /\ DOMAIN call' = DOMAIN call
    BY <2>1 DEF Overwrite, Fault
  <2>3. ASSUME NEW c \in DOMAIN call, Active(call'[c])
        PROVE  EndOK(call'[c], Len(got[call'[c].file]))
    <3> DEFINE y == [call[c] EXCEPT !.view = content]
    <3>1. \/ call'[c] = call[c]
          \/ call'[c] = y /\ call[c].server \in {"read", "wait"}
      BY <2>1 DEF Overwrite
    <3>2. y.server = call[c].server
      BY InCallState DEF CallState
    <3> HIDE DEF y
    <3>3. CASE call'[c] = call[c]
      BY <2>3, <3>3 DEF EndsOK
    <3>4. CASE call'[c] # call[c]
      BY <3>1, <3>2, <3>4 DEF EndOK, Over
    <3> QED
      BY <3>3, <3>4
  <2> QED
    BY <2>2, <2>3 DEF EndsOK, Active, EndOK, Fails
<1>4. CASE \E c \in Calls : ReadFails(c)
  BY <1>4, ServerEnds
<1>5. CASE Break \/ Die
  BY <1>5, CutAllEnds DEF Break, Die, Fault
<1>6. CASE Silence \/ Restart
  BY <1>1, <1>6 DEF Silence, Restart, Fault
<1> QED
  BY <1>2, <1>3, <1>4, <1>5, <1>6 DEF Faults

EndInv == StreamInv /\ EndsOK

LEMMA NextEnds == EndInv /\ [Next]_vars => EndInv'
<1> SUFFICES ASSUME StreamInv, EndsOK, [Next]_vars PROVE EndInv'
  BY DEF EndInv
<1>1. StreamInv'
  BY NextIsGood DEF Good
<1>2. EndsOK'
  <2>1. CASE Next
    BY <2>1, BeginEnds, ClientEnds, ServerEnds, FaultsEnds DEF Next
  <2>2. CASE UNCHANGED vars
    BY <2>2 DEF vars, EndsOK, Active, EndOK, Fails
  <2> QED
    BY <2>1, <2>2
<1> QED
  BY <1>1, <1>2 DEF EndInv

\* The result of a call is given once, by what the caller does.
LEMMA NewResult ==
    ASSUME StreamInv, [Next]_vars, NEW c \in DOMAIN call,
           call'[c].result # call[c].result
    PROVE  \/ ContentEnds(c)
           \/ ResponseEnds(c) /\ call'[c].result = Outcome(call[c])
           \/ call'[c].result \in {"error", "stopped", "unreachable"}
<1> DEFINE x == call[c]
<1>1. x \in CallState /\ x.request \in Messages
  BY InCallState DEF CallState
<1>2. ASSUME NEW r, call' = [call EXCEPT ![c] = Leave(@, r)]
      PROVE  call'[c].result = r
  <2>1. call'[c] = Leave(x, r)
    BY <1>2
  <2>2. Leave(x, r).result = IF x.result = "none" THEN r ELSE x.result
    BY DEF Leave, NewCall
  <2> QED
    BY <2>1, <2>2
<1>3. ASSUME NEW m \in Messages
      PROVE  SendFrame(x, m).result = x.result /\ Answer(x, m).result = x.result
  <2>1. SendFrame(x, m) \in CallState
    BY <1>1, SendTypes
  <2>2. SendFrame(x, m).result = x.result
    BY <1>1 DEF SendFrame, CallState
  <2> QED
    BY <2>1, <2>2 DEF Answer, CallState
<1>4. ASSUME NEW m \in Messages, call' = [call EXCEPT ![c] = Answer(@, m)]
      PROVE  FALSE
  BY <1>3, <1>4
<1>5. ASSUME NEW d, ClientStep(d) \/ Timeout(d)
      PROVE  \/ ContentEnds(c)
             \/ ResponseEnds(c) /\ call'[c].result = Outcome(call[c])
             \/ call'[c].result \in {"error", "stopped", "unreachable"}
  <2>1. d = c
    BY <1>5 DEF ClientStep, Timeout, Dial, DialFails, Collect, Take, TakePaused, Throw,
                ContentEnds, ResponseEnds
  <2>2. ~Dial(c) /\ ~Collect(c) /\ ~Take(c)
    BY <1>1 DEF Dial, Collect, Take, CallState
  <2>3. DialFails(c) \/ TakePaused(c) \/ Throw(c) =>
            call'[c].result \in {"error", "stopped", "unreachable"}
    <3>1. TakePaused(c) \/ Throw(c) => call'[c].result \in {"error", "stopped"}
      BY <1>2 DEF TakePaused, Throw
    <3>2. ASSUME DialFails(c)
          PROVE  call'[c].result \in {"error", "unreachable"}
      <4>1. call' = [call EXCEPT ![c] = Leave(@, Thrown(x))]
        BY <3>2 DEF DialFails
      <4> QED
        BY <1>2, <4>1 DEF Thrown
    <3> QED
      BY <3>1, <3>2
  <2>4. Timeout(c) => call'[c].result = "unreachable"
    BY <1>1 DEF Timeout, CallState
  <2>5. ResponseEnds(c) => call'[c].result = Outcome(x)
    <3> SUFFICES ASSUME ResponseEnds(c) PROVE call'[c].result = Outcome(x)
      OBVIOUS
    <3>1. call' = [call EXCEPT ![c] = Leave(@, Outcome(x))]
      BY DEF ResponseEnds
    <3> QED
      BY <1>2, <3>1
  <2> QED
    BY <1>5, <2>1, <2>2, <2>3, <2>4, <2>5 DEF ClientStep
<1>6. ASSUME NEW d, ServerStep(d) \/ ReadFails(d)
      PROVE  FALSE
  <2> DEFINE m == Deserialize(Serialize(x.request))
  <2>1. d = c
    BY <1>6 DEF ServerStep, Lookup, Open, ReadChunk, SendChunk, EndOfFile, ReadFails
  <2>2. m \in Messages /\ m.type \in Types
    <3>1. m \in Messages
      BY <1>1, RoundTrip
    <3> QED
      BY <3>1 DEF Messages, Message, Types
  <2> HIDE DEF m
  <2>3. /\ ErrorMessage("GET_FILE_CONTENT", "fs") \in Messages
        /\ ErrorMessage(m.type, "invalid") \in Messages
        /\ ErrorMessage(m.type, "notFound") \in Messages
    BY <2>2, FreshMessages DEF Types, Errors
  <2>4. ~Lookup(c)
    <3> SUFFICES ASSUME Lookup(c) PROVE FALSE
      OBVIOUS
    <3> DEFINE y == [x EXCEPT !.server = "open", !.response = NewMessage(m.type),
                              !.pos = CHOOSE n \in m.offset : TRUE]
    <3>1. y.result = x.result
      BY <1>1 DEF CallState
    <3>2. call' # [call EXCEPT ![c] = y]
      BY <3>1
    <3> HIDE DEF y
    <3>3. /\ FindFile(m) \in Messages
          /\ m.fileId \subseteq DOMAIN rows => GetFileInfo(m) \in Messages
      BY <2>2, FileAnswers
    <3> QED
      BY <1>4, <2>3, <3>2, <3>3 DEF Lookup, y, m
  <2>5. ~Open(c)
    <3> SUFFICES ASSUME Open(c) PROVE FALSE
      OBVIOUS
    <3> DEFINE y == [x EXCEPT !.server = "read", !.view = disk[x.file]]
    <3>1. y.result = x.result
      BY <1>1 DEF CallState
    <3>2. \/ call' = [call EXCEPT ![c] = y]
          \/ call' = [call EXCEPT ![c] = Answer(@, ErrorMessage("GET_FILE_CONTENT", "fs"))]
      BY DEF Open
    <3> QED
      BY <1>4, <2>3, <3>1, <3>2
  <2>6. ~ReadChunk(c)
    <3> SUFFICES ASSUME ReadChunk(c) PROVE FALSE
      OBVIOUS
    <3> DEFINE response == [x.response EXCEPT !.content = {<<x.view[1], x.pos + 1>>}]
               y == [x EXCEPT !.server = "wait", !.pos = @ + 1, !.response = response]
    <3>1. call' = [call EXCEPT ![c] = y]
      BY <1>1 DEF ReadChunk
    <3> HIDE DEF response
    <3>2. y.result = x.result
      BY <1>1 DEF CallState
    <3> QED
      BY <3>1, <3>2
  <2>7. ~SendChunk(c)
    <3> DEFINE s == SendFrame(x, x.response)
    <3>1. s \in CallState /\ s.result = x.result
      BY <1>1, <1>3, SendTypes DEF CallState
    <3> HIDE DEF s
    <3>2. [s EXCEPT !.server = "read"].result = x.result
      BY <3>1 DEF CallState
    <3> QED
      BY <3>2 DEF SendChunk, s
  <2>8. ~EndOfFile(c)
    BY <1>1 DEF EndOfFile, CallState
  <2>9. ~ReadFails(c)
    BY <1>4, <2>3 DEF ReadFails
  <2> QED
    BY <1>6, <2>1, <2>4, <2>5, <2>6, <2>7, <2>8, <2>9 DEF ServerStep
<1>7. ~CutAll
  <2> SUFFICES ASSUME CutAll PROVE FALSE
    OBVIOUS
  <2>1. PICK keep, how : call' = [d \in DOMAIN call |-> Cut(call[d], keep[d], how)]
    BY DEF CutAll
  <2>2. Cut(x, keep[c], how).result = x.result
    BY <1>1 DEF Cut, CallState
  <2> QED
    BY <2>1, <2>2
<1>8. ~Faults
  <2>1. call' # call
    OBVIOUS
  <2>2. \A f \in Files, content \in Contents : ~Overwrite(f, content)
    BY <1>1 DEF Overwrite, CallState
  <2> QED
    BY <1>6, <1>7, <2>1, <2>2 DEF Faults, Remove, Replace, Break, Die, Silence, Restart
<1>9. ASSUME NEW d \in Calls, Begin(d)
      PROVE  FALSE
  BY <1>9 DEF Begin, Put
<1>10. call' # call
  OBVIOUS
<1> QED
  BY <1>5, <1>6, <1>8, <1>9, <1>10 DEF Next, vars

\* A stream that ends by itself has brought all that the provider could read.
\* A broken one may look the same: the download has to compare the offset.
THEOREM CleanEndCorrect == Spec => CleanEndIsWhole
<1> DEFINE A == \A c \in DOMAIN call :
                   (Becomes(c, "end") /\ call[c].cut = "no")
                       => Len(got[call[c].file]) >= call[c].view[2]
<1>1. Init => EndInv
  <2>1. Init => EndsOK
    BY DEF Init, EndsOK
  <2> QED
    BY <2>1, InitIsGood DEF EndInv
<1>2. EndInv /\ [Next]_vars => A
  <2> SUFFICES ASSUME StreamInv, EndsOK, [Next]_vars,
                      NEW c \in DOMAIN call, Becomes(c, "end"), call[c].cut = "no"
               PROVE  Len(got[call[c].file]) >= call[c].view[2]
    BY DEF EndInv
  <2>1. Outcome(call[c]) # "end"
    BY DEF Outcome, Thrown
  <2>2. ContentEnds(c)
    BY <2>1, NewResult DEF Becomes
  <2>3. /\ call[c].down = <<>> /\ call[c].server \in Over /\ Active(call[c])
    BY <2>2 DEF ContentEnds, StreamOver, Over, At, Active, Kind
  <2>4. EndOK(call[c], Len(got[call[c].file]))
    BY <2>3 DEF EndsOK
  <2>5. Len(got[call[c].file]) + 0 >= call[c].view[2]
    BY <2>3, <2>4 DEF EndOK, Fails
  <2>6. Len(got[call[c].file]) \in Nat
    BY InCallState DEF CallState, StreamInv, TypeOK
  <2> QED
    BY <2>5, <2>6
<1> QED
  BY <1>1, <1>2, NextEnds, PTL DEF Spec, CleanEndIsWhole

-----------------------------------------------------------------------------
(* What getFile comes to.                                                  *)

\* A message that is an error and brings no file, or names file f and no other.
Exact(m, f) ==
    (m.error # {} /\ m.files = {}) \/ \E info \in Contents : m.files = {<<f, info>>}

\* A GET_FILE call asks for its file, is never streamed to, and whatever is on
\* its way back or has come is exact.
Named(x) ==
    x.request.type = "GET_FILE" =>
        /\ x.request = GetFile(x.file) /\ x.server \notin {"open", "read", "wait"}
        /\ \A i \in 1..Len(x.down) : Exact(x.down[i], x.file)
        /\ \A i \in 1..Len(x.inbox) : Exact(x.inbox[i], x.file)

AllNamed == \A c \in DOMAIN call : Named(call[c])

\* The request names its file when it has come to the provider.
LEMMA FileIdArrives ==
    ASSUME NEW f \in Files
    PROVE  Deserialize(Serialize(GetFile(f))).fileId = {f}
<1>1. f # 0
  BY ExchangeAssumption
<1> QED
  BY <1>1 DEF GetFile, NewMessage, Serialize, Deserialize, Decode

\* One message more keeps a sequence exact.
LEMMA ExactAppend ==
    ASSUME NEW s \in Seq(Messages), NEW m \in Messages, NEW f, Exact(m, f),
           \A i \in 1..Len(s) : Exact(s[i], f)
    PROVE  \A i \in 1..Len(Append(s, m)) : Exact(Append(s, m)[i], f)
<1>1. /\ \A i \in 1..Len(Append(s, m)) : i \in 1..Len(s) \/ i = Len(s) + 1
      /\ Append(s, m)[Len(s) + 1] = m
      /\ \A i \in 1..Len(s) : Append(s, m)[i] = s[i]
  OBVIOUS
<1> QED
  BY <1>1

LEMMA NamedLeave ==
    ASSUME NEW x \in CallState, Named(x), NEW r
    PROVE  Named(Leave(x, r))
<1> DEFINE y == Leave(x, r)
<1>1. /\ y.request = x.request /\ y.file = x.file /\ y.server = "off"
      /\ y.down = <<>> /\ y.inbox = <<>>
  BY DEF Leave, NewCall
<1> HIDE DEF y
<1>2. Named(y)
  BY <1>1 DEF Named
<1> QED
  BY <1>2 DEF y

\* What serialize and deserialize keep of an exact message.
LEMMA ExactRoundTrip ==
    ASSUME NEW m \in Messages, NEW f, Exact(m, f)
    PROVE  Exact(Serialize(m), f) /\ Exact(Deserialize(m), f)
BY RoundTrip DEF Exact

LEMMA NamedAnswer ==
    ASSUME NEW x \in CallState, Named(x), NEW m \in Messages,
           x.request.type = "GET_FILE" => Exact(m, x.file)
    PROVE  Named(Answer(x, m))
<1> DEFINE s == SendFrame(x, m)
           y == Answer(x, m)
<1>1. s \in CallState /\ s.request = x.request /\ s.file = x.file /\ s.inbox = x.inbox
  <2>1. s \in CallState /\ s.request = x.request /\ s.file = x.file
    BY SendTypes
  <2>2. s.inbox = x.inbox
    BY DEF SendFrame, CallState
  <2> QED
    BY <2>1, <2>2
<1>2. s.down = x.down \/ s.down = Append(x.down, Serialize(m))
  BY SendTypes DEF SendFrame
<1>3. y = [s EXCEPT !.server = "end"]
  BY SendTypes
<1> HIDE DEF s
<1>4. /\ y.request = x.request /\ y.file = x.file /\ y.inbox = x.inbox
      /\ y.down = s.down /\ y.server = "end"
  BY <1>1, <1>3 DEF CallState
<1> HIDE DEF y
<1> SUFFICES ASSUME y.request.type = "GET_FILE"
             PROVE  \A i \in 1..Len(y.down) : Exact(y.down[i], x.file)
  BY <1>4 DEF Named, y
<1>5. Exact(m, x.file) /\ \A i \in 1..Len(x.down) : Exact(x.down[i], x.file)
  BY <1>4 DEF Named
<1>6. /\ Serialize(m) \in Messages /\ Exact(Serialize(m), x.file)
      /\ x.down \in Seq(Messages)
  BY <1>5, RoundTrip, ExactRoundTrip DEF CallState
<1>7. \A i \in 1..Len(Append(x.down, Serialize(m))) :
          Exact(Append(x.down, Serialize(m))[i], x.file)
  BY <1>5, <1>6, ExactAppend
<1> QED
  BY <1>2, <1>4, <1>5, <1>7

LEMMA NamedCut ==
    ASSUME NEW x \in CallState, Named(x), NEW k \in Nat, k <= Len(x.down), NEW how
    PROVE  Named(Cut(x, k, how))
<1>1. x.down \in Seq(Messages)
  BY DEF CallState
<1>2. /\ Len(SubSeq(x.down, 1, k)) = k
      /\ \A i \in 1..k : i \in 1..Len(x.down) /\ SubSeq(x.down, 1, k)[i] = x.down[i]
  BY <1>1
<1>3. CASE x.server = "off"
  BY <1>3 DEF Cut
<1>4. CASE x.server # "off"
  <2> DEFINE y == Cut(x, k, how)
  <2>1. /\ y.request = x.request /\ y.file = x.file /\ y.inbox = x.inbox
        /\ y.down = SubSeq(x.down, 1, k) /\ y.server = "gone"
    BY <1>4 DEF Cut, CallState
  <2> HIDE DEF y
  <2>2. Named(y)
    BY <1>2, <2>1 DEF Named
  <2> QED
    BY <2>2 DEF y
<1> QED
  BY <1>3, <1>4

\* A step of one call.
LEMMA NamedMove ==
    ASSUME AllNamed, NEW c, NEW y, c \in DOMAIN call, Named(y),
           call' = [call EXCEPT ![c] = y]
    PROVE  AllNamed'
<1>1. /\ DOMAIN call' = DOMAIN call
      /\ \A d \in DOMAIN call : call'[d] = IF d = c THEN y ELSE call[d]
  OBVIOUS
<1>2. \A d \in DOMAIN call' : Named(call'[d])
  BY <1>1 DEF AllNamed
<1> QED
  BY <1>2 DEF AllNamed, Named, Exact

LEMMA BeginNamed ==
    ASSUME StreamInv, AllNamed, NEW c \in Calls, Begin(c)
    PROVE  AllNamed'
<1>1. PICK f \in Files : \E m \in Requests(f) : call' = Put(call, c, NewCall(f, m))
  BY DEF Begin
<1>2. PICK m \in Requests(f) : call' = Put(call, c, NewCall(f, m))
  BY <1>1
<1>3. m.type = "GET_FILE" => m = GetFile(f)
  BY DEF Requests, FindFiles, GetFile, GetFileContent, NewMessage
<1> DEFINE y == NewCall(f, m)
<1>4. /\ y.request = m /\ y.file = f /\ y.server = "off"
      /\ y.down = <<>> /\ y.inbox = <<>>
  BY DEF NewCall
<1>5. /\ DOMAIN call' = DOMAIN call \cup {c}
      /\ \A d \in DOMAIN call' : call'[d] = IF d = c THEN y ELSE call[d]
  BY <1>2 DEF Put
<1> HIDE DEF y
<1>6. Named(y)
  BY <1>3, <1>4 DEF Named
<1>7. \A d \in DOMAIN call' : Named(call'[d])
  BY <1>5, <1>6 DEF AllNamed
<1> QED
  BY <1>7 DEF AllNamed, Named, Exact

LEMMA ClientNamed ==
    ASSUME StreamInv, AllNamed, NEW c, ClientStep(c) \/ Timeout(c)
    PROVE  AllNamed'
<1> DEFINE x == call[c]
<1>1. /\ c \in DOMAIN call /\ x \in CallState /\ Named(x)
      /\ x.down \in Seq(Messages) /\ x.inbox \in Seq(Messages)
  <2>1. c \in DOMAIN call
    BY DEF ClientStep, Timeout, Dial, DialFails, Collect, Take, TakePaused, Throw,
           ContentEnds, ResponseEnds, Arrives, At
  <2> QED
    BY <2>1, InCallState DEF AllNamed, CallState
<1>2. ASSUME NEW r, call' = [call EXCEPT ![c] = Leave(@, r)]
      PROVE  AllNamed'
  BY <1>1, <1>2, NamedLeave, NamedMove
<1>3. CASE Dial(c)
  <2> DEFINE y == [x EXCEPT !.pc = "read", !.server = "request"]
  <2>1. call' = [call EXCEPT ![c] = y]
    BY <1>3 DEF Dial
  <2>2. /\ y.request = x.request /\ y.file = x.file /\ y.server = "request"
        /\ y.down = x.down /\ y.inbox = x.inbox
    BY <1>1 DEF CallState
  <2> HIDE DEF y
  <2>3. Named(y)
    BY <1>1, <2>2 DEF Named
  <2> QED
    BY <1>1, <2>1, <2>3, NamedMove
<1>4. CASE Collect(c)
  <2> DEFINE y == [x EXCEPT !.down = Tail(@), !.inbox = Append(@, Received(c))]
  <2>1. call' = [call EXCEPT ![c] = y] /\ x.down # <<>>
    BY <1>4 DEF Collect, Arrives
  <2>2. /\ y.request = x.request /\ y.file = x.file /\ y.server = x.server
        /\ y.down = Tail(x.down) /\ y.inbox = Append(x.inbox, Received(c))
    BY <1>1 DEF CallState
  <2> HIDE DEF y
  <2>3. /\ Head(x.down) \in Messages /\ Head(x.down) = x.down[1] /\ 1 \in 1..Len(x.down)
        /\ \A i \in 1..Len(Tail(x.down)) :
               i + 1 \in 1..Len(x.down) /\ Tail(x.down)[i] = x.down[i + 1]
    BY <1>1, <2>1
  <2>4. ASSUME x.request.type = "GET_FILE"
        PROVE  /\ \A i \in 1..Len(Tail(x.down)) : Exact(Tail(x.down)[i], x.file)
               /\ \A i \in 1..Len(Append(x.inbox, Received(c))) :
                      Exact(Append(x.inbox, Received(c))[i], x.file)
    <3>1. /\ \A i \in 1..Len(x.down) : Exact(x.down[i], x.file)
          /\ \A i \in 1..Len(x.inbox) : Exact(x.inbox[i], x.file)
      BY <1>1, <2>4 DEF Named
    <3>2. Received(c) \in Messages /\ Exact(Received(c), x.file)
      <4>1. Received(c) = Deserialize(Head(x.down)) /\ Exact(Head(x.down), x.file)
        BY <2>3, <3>1 DEF Received
      <4> QED
        BY <2>3, <4>1, RoundTrip, ExactRoundTrip
    <3> QED
      BY <1>1, <2>3, <3>1, <3>2, ExactAppend
  <2>5. Named(y)
    BY <1>1, <2>2, <2>4 DEF Named
  <2> QED
    BY <1>1, <2>1, <2>5, NamedMove
<1>5. CASE Take(c)
  <2> DEFINE y == [x EXCEPT !.down = Tail(@)]
  <2>1. call' = [call EXCEPT ![c] = y] /\ x.request.type # "GET_FILE"
    BY <1>5 DEF Take, Kind
  <2>2. y.request = x.request
    BY <1>1 DEF CallState
  <2> HIDE DEF y
  <2>3. Named(y)
    BY <2>1, <2>2 DEF Named
  <2> QED
    BY <1>1, <2>1, <2>3, NamedMove
<1>6. CASE Timeout(c)
  <2> DEFINE y == [x EXCEPT !.result = "unreachable"]
  <2>1. call' = [call EXCEPT ![c] = y] /\ x.request.type # "GET_FILE"
    BY <1>6 DEF Timeout, TimesOut
  <2>2. y.request = x.request
    BY <1>1 DEF CallState
  <2> HIDE DEF y
  <2>3. Named(y)
    BY <2>1, <2>2 DEF Named
  <2> QED
    BY <1>1, <2>1, <2>3, NamedMove
<1>7. CASE DialFails(c) \/ TakePaused(c) \/ Throw(c)
  <2>1. \E r : call' = [call EXCEPT ![c] = Leave(@, r)]
    BY <1>7 DEF DialFails, TakePaused, Throw
  <2> QED
    BY <1>2, <2>1
<1>8. CASE ContentEnds(c)
  <2>1. call' = [call EXCEPT ![c] = Leave(@, IF x.cut = "error" THEN "error" ELSE "end")]
    BY <1>8 DEF ContentEnds
  <2> QED
    BY <1>2, <2>1
<1>9. CASE ResponseEnds(c)
  <2>1. call' = [call EXCEPT ![c] = Leave(@, Outcome(x))]
    BY <1>9 DEF ResponseEnds
  <2> QED
    BY <1>2, <2>1
<1> QED
  BY <1>3, <1>4, <1>5, <1>6, <1>7, <1>8, <1>9 DEF ClientStep

LEMMA ServerNamed ==
    ASSUME StreamInv, AllNamed, NEW c, ServerStep(c) \/ ReadFails(c)
    PROVE  AllNamed'
<1> DEFINE x == call[c]
           m == Deserialize(Serialize(x.request))
<1>1. c \in DOMAIN call /\ x \in CallState /\ Named(x) /\ x.request \in Messages
  <2>1. c \in DOMAIN call
    BY DEF ServerStep, Lookup, Open, ReadChunk, SendChunk, EndOfFile, ReadFails, Serves
  <2> QED
    BY <2>1, InCallState DEF AllNamed, CallState
<1>2. /\ m \in Messages /\ m.type = x.request.type /\ m.type \in Types
  <2>1. m \in Messages /\ m.type = x.request.type
    BY <1>1, RoundTrip
  <2> QED
    BY <2>1 DEF Messages, Message, Types
<1>3. x.request.type = "GET_FILE" => m.fileId = {x.file} /\ x.file \in Files
  <2>1. x.file \in Files /\ (x.request.type = "GET_FILE" => x.request = GetFile(x.file))
    BY <1>1 DEF Named, CallState
  <2> QED
    BY <2>1, FileIdArrives
<1> HIDE DEF m
<1>4. ASSUME NEW a \in Messages, call' = [call EXCEPT ![c] = Answer(@, a)],
             x.request.type = "GET_FILE" => Exact(a, x.file)
      PROVE  AllNamed'
  <2>1. Named(Answer(x, a))
    BY <1>1, <1>4, NamedAnswer
  <2> QED
    BY <1>1, <1>4, <2>1, NamedMove
<1>5. \A type \in Types, what \in Errors :
          /\ ErrorMessage(type, what) \in Messages
          /\ Exact(ErrorMessage(type, what), x.file)
  BY FreshMessages DEF Exact, ErrorMessage, NewMessage
<1>6. ASSUME NEW y, call' = [call EXCEPT ![c] = y], y.request = x.request,
             x.request.type # "GET_FILE"
      PROVE  AllNamed'
  <2>1. Named(y)
    BY <1>6 DEF Named
  <2> QED
    BY <1>1, <1>6, <2>1, NamedMove
<1>7. x.server \in {"open", "read", "wait"} => x.request.type # "GET_FILE"
  BY <1>1 DEF Named
<1>8. CASE Lookup(c)
  <2> DEFINE y == [x EXCEPT !.server = "open", !.response = NewMessage(m.type),
                            !.pos = CHOOSE n \in m.offset : TRUE]
  <2>1. CASE Invalid(m)
    <3>1. call' = [call EXCEPT ![c] = Answer(@, ErrorMessage(m.type, "invalid"))]
      BY <1>8, <2>1 DEF Lookup, m
    <3> QED
      BY <1>2, <1>4, <1>5, <3>1 DEF Errors
  <2>2. CASE ~Invalid(m) /\ m.type = "FIND_FILE"
    <3>1. call' = [call EXCEPT ![c] = Answer(@, FindFile(m))]
      BY <1>8, <2>2 DEF Lookup, m
    <3> QED
      BY <1>2, <1>4, <2>2, <3>1, FileAnswers
  <2>3. CASE ~Invalid(m) /\ m.type # "FIND_FILE" /\ ~(m.fileId \subseteq DOMAIN rows)
    <3>1. call' = [call EXCEPT ![c] = Answer(@, ErrorMessage(m.type, "notFound"))]
      BY <1>8, <2>3 DEF Lookup, m
    <3> QED
      BY <1>2, <1>4, <1>5, <3>1 DEF Errors
  <2>4. CASE ~Invalid(m) /\ m.type = "GET_FILE" /\ m.fileId \subseteq DOMAIN rows
    <3>1. call' = [call EXCEPT ![c] = Answer(@, GetFileInfo(m))]
      BY <1>8, <2>4 DEF Lookup, m
    <3>2. m.fileId = {x.file} /\ rows[x.file] \in Contents
      BY <1>2, <1>3, <2>4 DEF StreamInv, TypeOK
    <3>3. GetFileInfo(m).files = {<<x.file, rows[x.file]>>}
      BY <3>2 DEF GetFileInfo, NewMessage
    <3>4. GetFileInfo(m) \in Messages /\ Exact(GetFileInfo(m), x.file)
      BY <1>2, <2>4, <3>2, <3>3, FileAnswers DEF Exact
    <3> QED
      BY <1>4, <3>1, <3>4
  <2>5. CASE ~Invalid(m) /\ m.type = "GET_FILE_CONTENT" /\ m.fileId \subseteq DOMAIN rows
    <3>1. call' = [call EXCEPT ![c] = y]
      BY <1>8, <2>5 DEF Lookup, m
    <3>2. y.request = x.request
      BY <1>1 DEF CallState
    <3> HIDE DEF y
    <3> QED
      BY <1>2, <1>6, <2>5, <3>1, <3>2
  <2> QED
    BY <1>2, <2>1, <2>2, <2>3, <2>4, <2>5 DEF Types
<1>9. CASE Open(c)
  <2> DEFINE y == [x EXCEPT !.server = "read", !.view = disk[x.file]]
  <2>1. x.request.type # "GET_FILE"
    BY <1>7, <1>9 DEF Open, Serves
  <2>2. CASE x.file \in DOMAIN disk
    <3>1. call' = [call EXCEPT ![c] = y] /\ y.request = x.request
      BY <1>1, <1>9, <2>2 DEF Open, CallState
    <3> QED
      BY <1>6, <2>1, <3>1
  <2>3. CASE x.file \notin DOMAIN disk
    <3>1. call' = [call EXCEPT ![c] = Answer(@, ErrorMessage("GET_FILE_CONTENT", "fs"))]
      BY <1>9, <2>3 DEF Open
    <3> QED
      BY <1>4, <1>5, <3>1 DEF Types, Errors
  <2> QED
    BY <2>2, <2>3
<1>10. CASE ReadChunk(c)
  <2> DEFINE response == [x.response EXCEPT !.content = {<<x.view[1], x.pos + 1>>}]
             y == [x EXCEPT !.server = "wait", !.pos = @ + 1, !.response = response]
  <2>1. call' = [call EXCEPT ![c] = y] /\ x.request.type # "GET_FILE"
    BY <1>1, <1>7, <1>10 DEF ReadChunk, MayRead
  <2> HIDE DEF response
  <2>2. y.request = x.request
    BY <1>1 DEF CallState
  <2> HIDE DEF y
  <2> QED
    BY <1>6, <2>1, <2>2
<1>11. CASE SendChunk(c)
  <2> DEFINE s == SendFrame(x, x.response)
             y == [s EXCEPT !.server = "read"]
  <2>1. call' = [call EXCEPT ![c] = y] /\ x.request.type # "GET_FILE"
    BY <1>7, <1>11 DEF SendChunk, Serves
  <2>2. s \in CallState /\ s.request = x.request
    BY <1>1, SendTypes DEF CallState
  <2> HIDE DEF s
  <2>3. y.request = x.request
    BY <2>2 DEF CallState
  <2> HIDE DEF y
  <2> QED
    BY <1>6, <2>1, <2>3
<1>12. CASE EndOfFile(c)
  <2> DEFINE y == [x EXCEPT !.server = "end"]
  <2>1. /\ call' = [call EXCEPT ![c] = y] /\ x.request.type # "GET_FILE"
        /\ y.request = x.request
    BY <1>1, <1>7, <1>12 DEF EndOfFile, Serves, CallState
  <2> HIDE DEF y
  <2> QED
    BY <1>6, <2>1
<1>13. CASE ReadFails(c)
  <2>1. call' = [call EXCEPT ![c] = Answer(@, ErrorMessage("GET_FILE_CONTENT", "fs"))]
    BY <1>13 DEF ReadFails
  <2> QED
    BY <1>4, <1>5, <2>1 DEF Types, Errors
<1> QED
  BY <1>8, <1>9, <1>10, <1>11, <1>12, <1>13 DEF ServerStep

LEMMA CutAllNamed ==
    ASSUME StreamInv, AllNamed, CutAll
    PROVE  AllNamed'
<1>1. PICK keep \in [DOMAIN call -> 0..MaxLength + 1], how \in {"clean", "error"} :
          /\ \A c \in DOMAIN call : keep[c] <= Len(call[c].down)
          /\ call' = [c \in DOMAIN call |-> Cut(call[c], keep[c], how)]
  BY DEF CutAll
<1>2. ASSUME NEW c \in DOMAIN call
      PROVE  Named(Cut(call[c], keep[c], how))
  <2>1. keep[c] \in Nat /\ keep[c] <= Len(call[c].down)
    BY <1>1, ExchangeAssumption
  <2>2. call[c] \in CallState /\ Named(call[c])
    BY InCallState DEF AllNamed
  <2> QED
    BY <2>1, <2>2, NamedCut
<1>3. /\ DOMAIN call' = DOMAIN call
      /\ \A c \in DOMAIN call : call'[c] = Cut(call[c], keep[c], how)
  BY <1>1
<1> QED
  BY <1>2, <1>3 DEF AllNamed

LEMMA FaultsNamed ==
    ASSUME StreamInv, AllNamed, Faults
    PROVE  AllNamed'
<1>1. ASSUME call' = call
      PROVE  AllNamed'
  BY <1>1 DEF AllNamed
<1>2. CASE \E f \in Files : \/ Remove(f)
                           \/ \E content \in Contents : Replace(f, content)
  BY <1>1, <1>2 DEF Remove, Replace
<1>3. CASE \E f \in Files, content \in Contents : Overwrite(f, content)
  <2>1. PICK f \in Files, content \in Contents : Overwrite(f, content)
    BY <1>3
  <2>2. ASSUME NEW c \in DOMAIN call
        PROVE  Named(call'[c])
    <3> DEFINE y == [call[c] EXCEPT !.view = content]
    <3>1. call'[c] = call[c] \/ call'[c] = y
      BY <2>1 DEF Overwrite
    <3>2. /\ y.request = call[c].request /\ y.file = call[c].file
          /\ y.server = call[c].server /\ y.down = call[c].down /\ y.inbox = call[c].inbox
      BY InCallState DEF CallState
    <3> HIDE DEF y
    <3>3. Named(y) /\ Named(call[c])
      BY <3>2 DEF AllNamed, Named
    <3> QED
      BY <3>1, <3>3
  <2>3. DOMAIN call' = DOMAIN call
    BY <2>1 DEF Overwrite
  <2> QED
    BY <2>2, <2>3 DEF AllNamed
<1>4. CASE \E c \in Calls : ReadFails(c)
  BY <1>4, ServerNamed
<1>5. CASE Break \/ Die
  BY <1>5, CutAllNamed DEF Break, Die
<1>6. CASE Silence \/ Restart
  BY <1>1, <1>6 DEF Silence, Restart
<1> QED
  BY <1>2, <1>3, <1>4, <1>5, <1>6 DEF Faults

FileInv == StreamInv /\ AllNamed

LEMMA NextNamed == FileInv /\ [Next]_vars => FileInv'
<1> SUFFICES ASSUME StreamInv, AllNamed, [Next]_vars PROVE FileInv'
  BY DEF FileInv
<1>1. StreamInv'
  BY NextIsGood DEF Good
<1>2. AllNamed'
  <2>1. CASE Next
    BY <2>1, BeginNamed, ClientNamed, ServerNamed, FaultsNamed DEF Next
  <2>2. CASE UNCHANGED vars
    BY <2>2 DEF vars, AllNamed
  <2> QED
    BY <2>1, <2>2
<1> QED
  BY <1>1, <1>2 DEF FileInv

\* The result of a content call is none of getFile's.
LEMMA ContentResult ==
    ASSUME NEW c \in DOMAIN call, ContentEnds(c), call'[c].result # call[c].result
    PROVE  call'[c].result \in {"error", "end"}
<1> DEFINE r == IF call[c].cut = "error" THEN "error" ELSE "end"
<1>1. call'[c] = Leave(call[c], r)
  BY DEF ContentEnds
<1>2. Leave(call[c], r).result = IF call[c].result = "none" THEN r ELSE call[c].result
  BY DEF Leave, NewCall
<1> QED
  BY <1>1, <1>2

\* getFile comes to the one file it asked for, or to undefined because the
\* provider answered with an error message: no loss, break, restart or change of
\* the disk leaves it with an empty answer or with another file.
THEOREM GetFileCorrect == Spec => GetFileIsAnswered
<1> DEFINE A == \A c \in DOMAIN call : Kind(c) = "GET_FILE" =>
                  /\ Becomes(c, "undefined") => call[c].inbox[1].error # {}
                  /\ Becomes(c, "files") =>
                        \E info \in Contents :
                            call[c].inbox[1].files = {<<call[c].file, info>>}
<1>1. Init => FileInv
  <2>1. Init => AllNamed
    BY DEF Init, AllNamed
  <2> QED
    BY <2>1, InitIsGood DEF FileInv
<1>2. FileInv /\ [Next]_vars => A
  <2> SUFFICES ASSUME StreamInv, AllNamed, [Next]_vars,
                      NEW c \in DOMAIN call, Kind(c) = "GET_FILE",
                      Becomes(c, "undefined") \/ Becomes(c, "files")
               PROVE  /\ Becomes(c, "undefined") => call[c].inbox[1].error # {}
                      /\ Becomes(c, "files") =>
                            \E info \in Contents :
                                call[c].inbox[1].files = {<<call[c].file, info>>}
    BY DEF FileInv
  <2>1. call'[c].result = Outcome(call[c])
    BY NewResult, ContentResult DEF Becomes
  <2>2. OneOnly(call[c])
    BY <2>1 DEF Outcome, Thrown, Becomes, Kind
  <2>3. Exact(call[c].inbox[1], call[c].file)
    <3>1. 1 \in 1..Len(call[c].inbox)
      BY <2>2 DEF OneOnly
    <3> QED
      BY <3>1 DEF AllNamed, Named, Kind
  <2>4. Becomes(c, "undefined") <=> call[c].inbox[1].files = {}
    BY <2>1, <2>2 DEF Outcome, Becomes, Kind
  <2>5. \A info \in Contents : {<<call[c].file, info>>} # {}
    OBVIOUS
  <2>6. CASE call[c].inbox[1].files = {}
    <3>1. call[c].inbox[1].error # {}
      BY <2>3, <2>5, <2>6 DEF Exact
    <3>2. ~Becomes(c, "files")
      BY <2>1, <2>2, <2>6 DEF Outcome, Becomes, Kind
    <3> QED
      BY <3>1, <3>2
  <2>7. CASE call[c].inbox[1].files # {}
    <3>1. \E info \in Contents : call[c].inbox[1].files = {<<call[c].file, info>>}
      BY <2>3, <2>7 DEF Exact
    <3>2. ~Becomes(c, "undefined")
      BY <2>4, <2>7
    <3> QED
      BY <3>1, <3>2
  <2> QED
    BY <2>6, <2>7
<1> QED
  BY <1>1, <1>2, NextNamed, PTL DEF Spec, GetFileIsAnswered
=============================================================================
