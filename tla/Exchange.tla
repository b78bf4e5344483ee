------------------------------ MODULE Exchange ------------------------------
(***************************************************************************)
(* The calls one peer makes to a provider: ProtocolClient.findFilesOnPeer,  *)
(* getFile and getFileContent, Rpc.sendMessage under them, and on the other *)
(* side handleIncoming, Rpc.handleMessage and the three handlers.  A call   *)
(* opens a stream of its own on the connection the peers share, sends one   *)
(* message on it, and reads what comes back until the stream ends.          *)
(*                                                                         *)
(* The connection may break, the provider may fall silent, die and start    *)
(* again, and its owner may change or remove a file while it is being sent. *)
(***************************************************************************)
EXTENDS Codec, Sequences

CONSTANTS
    Files,        \* ids of the provider's files
    Key,          \* Key[f]: the search key of f
    Calls,        \* calls made, each once
    Versions,     \* contents a file may have
    Disk0,        \* the provider's disk at the beginning
    MaxLength,    \* bound: chunks in a file
    MaxFaults     \* bound: changes of the disk, breaks, silences, deaths

VARIABLES
    peer,     \* the provider's process: "up", "silent" or "down"
    linked,   \* whether there is a connection to it
    disk,     \* its files: id -> <<version, number of chunks>>
    rows,     \* its table `file`: id -> what the file was at the last start
    call,     \* the calls made so far
    got,      \* got[f]: the chunks of f a download has kept
    faults    \* number of faults so far

vars == <<peer, linked, disk, rows, call, got, faults>>

Contents == Versions \X (0..MaxLength)
Chunks == Versions \X Nat

ASSUME ExchangeAssumption ==
    /\ Files \subseteq Nat \ {0} /\ Disk0 \in [Files -> Contents]
    /\ MaxLength \in Nat /\ MaxFaults \in Nat

\* A file has a name, hence a key.
ASSUME KeyAssumption == \A f \in Files : Key[f] # ""

Queries == {Key[f] : f \in Files}
Errors == {"invalid", "notFound", "fs"}
Messages == Message(Queries, Nat, Files \X Contents, Chunks, Errors)

\* pc: the caller is dialling, reading the stream or done.  server: nothing is
\* sent yet, the request is under way, its row is found and the file to be
\* opened, the next chunk is to be read or waits 500 ms, the stream is ended, or
\* the provider's end is gone.  pos: chunks read from view, the content behind
\* the read stream.  response: the one message object the handler uses for all
\* chunks.  down: frames on their way back.  cut: how the connection broke.
\* inbox: what oneOnly has collected.
CallState ==
    [pc : {"dial", "read", "done"},
     file : Files, request : Messages,
     server : {"off", "request", "open", "read", "wait", "end", "gone"},
     view : Contents, pos : Nat, response : Messages,
     down : Seq(Messages), cut : {"no", "clean", "error"},
     inbox : Seq(Messages), result : {"none", "error", "unreachable", "end",
                                      "stopped", "undefined", "files"}]

Put(m, k, v) == [x \in DOMAIN m \cup {k} |-> IF x = k THEN v ELSE m[x]]
At(c, pc) == c \in DOMAIN call /\ call[c].pc = pc
Kind(c) == call[c].request.type
Serves(c, pc) == peer = "up" /\ c \in DOMAIN call /\ call[c].server = pc

\* A download is being fetched: at most one generator per download.
Fetching(f) ==
    \E c \in DOMAIN call : /\ call[c].file = f /\ Kind(c) = "GET_FILE_CONTENT"
                           /\ call[c].pc \in {"dial", "read"}

-----------------------------------------------------------------------------
Init ==
    /\ peer = "up" /\ linked = FALSE
    /\ disk = Disk0 /\ rows = Disk0
    /\ call = [c \in {} |-> c]
    /\ got = [f \in Files |-> <<>>] /\ faults = 0

-----------------------------------------------------------------------------
(* The caller.                                                             *)

client == <<peer, linked, disk, rows, faults>>

NewCall(f, request) ==
    [pc |-> "dial", file |-> f, request |-> request, server |-> "off",
     view |-> Disk0[f], pos |-> 0, response |-> request,
     down |-> <<>>, cut |-> "no", inbox |-> <<>>, result |-> "none"]

\* Mutant: a download asks again for the last chunk it has.
RequestsOverlap(f) ==
    {FindFiles(Key[f]), GetFile(f)}
        \cup IF Fetching(f) THEN {} ELSE {GetFileContent(f, Len(got[f]) - 1)}

\* What a peer asks about a file: a download resumes at the offset it reached.
Requests(f) ==
    {FindFiles(Key[f]), GetFile(f)}
        \cup IF Fetching(f) THEN {} ELSE {GetFileContent(f, Len(got[f]))}

Begin(c) ==
    /\ c \notin DOMAIN call
    /\ \E f \in Files : \E request \in Requests(f) :
          call' = Put(call, c, NewCall(f, request))
    /\ UNCHANGED <<got, client>>

\* dialProtocol opens a stream, over a new connection if there is none.
Dial(c) ==
    /\ At(c, "dial") /\ peer = "up"
    /\ linked' = TRUE
    /\ call' = [call EXCEPT ![c].pc = "read", ![c].server = "request"]
    /\ UNCHANGED <<peer, disk, rows, got, faults>>

\* The caller is given a result, unless a timeout gave it one before, and has
\* done with the stream: what the provider may still send on it is dropped.
Leave(x, result) ==
    [NewCall(x.file, x.request) EXCEPT !.pc = "done",
         !.result = IF x.result = "none" THEN result ELSE x.result]

\* An exception: findFilesOnPeer lists the provider as unreachable instead.
Thrown(x) == IF x.request.type = "FIND_FILE" THEN "unreachable" ELSE "error"

\* A dial may fail for any reason, and times out after 5 s.  On an existing
\* connection a silent peer is waited for.
DialFails(c) ==
    /\ At(c, "dial") /\ (peer = "silent" => ~linked)
    /\ call' = [call EXCEPT ![c] = Leave(@, Thrown(@))]
    /\ UNCHANGED <<got, client>>

\* The next frame that came, as Rpc.sendMessage yields it.
Arrives(c) == At(c, "read") /\ call[c].down # <<>>
Received(c) == Deserialize(Head(call[c].down))

\* oneOnly collects all the messages of a response.
Collect(c) ==
    /\ Arrives(c) /\ Kind(c) # "GET_FILE_CONTENT"
    /\ call' = [call EXCEPT ![c].down = Tail(@), ![c].inbox = Append(@, Received(c))]
    /\ UNCHANGED <<got, client>>

\* getFileContent yields a chunk, which the download writes and counts.
Take(c) ==
    /\ Arrives(c) /\ Kind(c) = "GET_FILE_CONTENT" /\ Received(c).error = {}
    /\ \E chunk \in Received(c).content :
          got' = [got EXCEPT ![call[c].file] = Append(@, chunk)]
    /\ call' = [call EXCEPT ![c].down = Tail(@)]
    /\ UNCHANGED client

\* The download was paused: it drops the chunk and leaves the loop, whose
\* finally block closes the stream.
TakePaused(c) ==
    /\ Arrives(c) /\ Kind(c) = "GET_FILE_CONTENT" /\ Received(c).error = {}
    /\ call' = [call EXCEPT ![c] = Leave(@, "stopped")]
    /\ UNCHANGED <<got, client>>

\* throwIfErrorResponse.
Throw(c) ==
    /\ Arrives(c) /\ Kind(c) = "GET_FILE_CONTENT" /\ Received(c).error # {}
    /\ call' = [call EXCEPT ![c] = Leave(@, "error")]
    /\ UNCHANGED <<got, client>>

\* Mutant: the end of the provider is the end of the stream.
NothingComes(x) == x.server \in {"end", "gone"}

\* All frames are read and there will be no other.
StreamOver(x) == x.down = <<>> /\ x.server \in {"end", "gone"}

\* The loop over the chunks ends; a broken connection may look like the end.
ContentEnds(c) ==
    /\ At(c, "read") /\ Kind(c) = "GET_FILE_CONTENT" /\ StreamOver(call[c])
    /\ call' = [call EXCEPT ![c] = Leave(@, IF @.cut = "error" THEN "error" ELSE "end")]
    /\ UNCHANGED <<got, client>>

\* oneOnly and sendMessage: more than one message is an illegal state, none is
\* a TypeError at response.error.
OneOnly(x) == x.cut # "error" /\ Len(x.inbox) = 1

\* Of the one message, an error message or not, findFilesOnPeer takes the files,
\* if there are any, and getFile the first of them: it may be undefined.
Outcome(x) ==
    IF ~OneOnly(x) THEN Thrown(x)
    ELSE IF x.request.type = "GET_FILE" /\ x.inbox[1].files = {} THEN "undefined"
    ELSE "files"

ResponseEnds(c) ==
    /\ At(c, "read") /\ Kind(c) # "GET_FILE_CONTENT" /\ StreamOver(call[c])
    /\ call' = [call EXCEPT ![c] = Leave(@, Outcome(@))]
    /\ UNCHANGED <<got, client>>

\* Mutant: findFilesOnPeer waits like getFile.
PatientWith(x) == FALSE

\* Only findFilesOnPeer has a timeout.
TimesOut(x) == x.request.type = "FIND_FILE" /\ x.pc # "done" /\ x.result = "none"

\* pTimeout settles the caller, the request goes on.
Timeout(c) ==
    /\ c \in DOMAIN call /\ TimesOut(call[c])
    /\ call' = [call EXCEPT ![c].result = "unreachable"]
    /\ UNCHANGED <<got, client>>

-----------------------------------------------------------------------------
(* The provider.                                                           *)

provider == <<peer, linked, disk, rows, got, faults>>

\* A frame to a stream the caller has left is dropped.
SendFrame(x, message) ==
    IF x.pc = "read" THEN [x EXCEPT !.down = Append(@, Serialize(message))] ELSE x

\* The frame of an answer, after which handleIncoming ends the stream.
Answer(x, message) == [SendFrame(x, message) EXCEPT !.server = "end"]

\* What a handler refuses before it looks anything up.
Invalid(m) ==
    \/ m.type = "FIND_FILE" /\ m.query = {}
    \/ m.type # "FIND_FILE" /\ m.fileId = {}
    \/ m.type = "GET_FILE_CONTENT" /\ m.offset = {}

\* FIND_FILE: the files of the key, those left out that are not there any more.
Found(m) == {f \in DOMAIN rows : Key[f] \in m.query}
FindFile(m) ==
    IF Found(m) = {} THEN ErrorMessage(m.type, "notFound")
    ELSE [NewMessage(m.type) EXCEPT
              !.files = {<<f, rows[f]>> : f \in Found(m) \cap DOMAIN disk}]

\* Mutant: the check for the file on the disk, which GetFileHandler makes without
\* using it, filters as the one of FindFileHandler does.
GetFileInfoOnDisk(m) ==
    [NewMessage(m.type) EXCEPT
        !.files = {<<f, rows[f]>> : f \in m.fileId \cap DOMAIN disk}]

\* GET_FILE: what the table says, whatever the disk has now.
GetFileInfo(m) ==
    [NewMessage(m.type) EXCEPT !.files = {<<f, rows[f]>> : f \in m.fileId}]

\* handleIncoming decodes the request, and the handler has found its rows.
Lookup(c) ==
    /\ Serves(c, "request")
    /\ LET m == Deserialize(Serialize(call[c].request))
       IN call' = [call EXCEPT ![c] =
            IF Invalid(m) THEN Answer(@, ErrorMessage(m.type, "invalid"))
            ELSE IF m.type = "FIND_FILE" THEN Answer(@, FindFile(m))
            ELSE IF ~(m.fileId \subseteq DOMAIN rows)
                 THEN Answer(@, ErrorMessage(m.type, "notFound"))
            ELSE IF m.type = "GET_FILE" THEN Answer(@, GetFileInfo(m))
            ELSE [@ EXCEPT !.server = "open", !.response = NewMessage(m.type),
                           !.pos = CHOOSE n \in m.offset : TRUE]]
    /\ UNCHANGED provider

\* createReadStream opens the file, if it is there, at the offset asked for.
Open(c) ==
    /\ Serves(c, "open")
    /\ call' = [call EXCEPT ![c] =
            IF @.file \in DOMAIN disk
            THEN [@ EXCEPT !.server = "read", !.view = disk[call[c].file]]
            ELSE Answer(@, ErrorMessage("GET_FILE_CONTENT", "fs"))]
    /\ UNCHANGED provider

\* Mutant: the handler reads ahead while a chunk waits.
MayReadAhead(x) == x.server \in {"read", "wait"}

\* The generator is resumed, and reads on, when its chunk was taken.
MayRead(x) == x.server = "read"

\* The next chunk is put in the one response object.
ReadChunk(c) ==
    /\ peer = "up" /\ c \in DOMAIN call /\ MayRead(call[c])
    /\ call[c].pos < call[c].view[2]
    /\ call' = [call EXCEPT ![c].server = "wait", ![c].pos = @ + 1,
                            ![c].response.content = {<<call[c].view[1], call[c].pos + 1>>}]
    /\ UNCHANGED provider

\* 500 ms later it is yielded, serialized and sent.
SendChunk(c) ==
    /\ Serves(c, "wait")
    /\ call' = [call EXCEPT ![c] = [SendFrame(@, @.response) EXCEPT !.server = "read"]]
    /\ UNCHANGED provider

\* The end of the file, also when the offset is beyond it: the stream ends.
EndOfFile(c) ==
    /\ Serves(c, "read") /\ call[c].pos >= call[c].view[2]
    /\ call' = [call EXCEPT ![c].server = "end"]
    /\ UNCHANGED provider

\* A read fails; handleMessage answers what was thrown, after the chunks.
ReadFails(c) ==
    /\ Serves(c, "read") /\ faults < MaxFaults /\ faults' = faults + 1
    /\ call' = [call EXCEPT ![c] = Answer(@, ErrorMessage("GET_FILE_CONTENT", "fs"))]
    /\ UNCHANGED <<peer, linked, disk, rows, got>>

-----------------------------------------------------------------------------
(* Faults.                                                                 *)

Fault == faults < MaxFaults /\ faults' = faults + 1 /\ UNCHANGED got

\* The owner writes a new file in the place of an old one, or into the old one,
\* under the read streams that have it open.
Replace(f, content) ==
    Fault /\ disk' = Put(disk, f, content) /\ UNCHANGED <<peer, linked, rows, call>>

Overwrite(f, content) ==
    /\ Fault /\ f \in DOMAIN disk /\ disk' = Put(disk, f, content)
    /\ call' = [c \in DOMAIN call |->
          IF /\ call[c].file = f /\ call[c].server \in {"read", "wait"}
             /\ call[c].view = disk[f]
          THEN [call[c] EXCEPT !.view = content] ELSE call[c]]
    /\ UNCHANGED <<peer, linked, rows>>

\* Or unlinks it; read streams that are open keep it.
Remove(f) ==
    /\ Fault /\ disk' = [x \in DOMAIN disk \ {f} |-> disk[x]]
    /\ UNCHANGED <<peer, linked, rows, call>>

\* All streams of the connection end where they are: some of the frames on
\* their way are lost, and the reader sees an error or just the end.
Cut(x, n, how) ==
    IF x.server = "off" THEN x
    ELSE [x EXCEPT !.server = "gone", !.down = SubSeq(@, 1, n),
                   !.cut = IF x.server = "end" /\ n = Len(x.down) THEN @ ELSE how]

CutAll ==
    /\ linked' = FALSE
    /\ \E keep \in [DOMAIN call -> 0..MaxLength + 1], how \in {"clean", "error"} :
          /\ \A c \in DOMAIN call : keep[c] <= Len(call[c].down)
          /\ call' = [c \in DOMAIN call |-> Cut(call[c], keep[c], how)]

Break == Fault /\ linked /\ CutAll /\ UNCHANGED <<peer, disk, rows>>

\* The provider hangs, or its host is gone without a word.
Silence == Fault /\ peer = "up" /\ peer' = "silent" /\ UNCHANGED <<linked, disk, rows, call>>

Die == Fault /\ peer # "down" /\ peer' = "down" /\ CutAll /\ UNCHANGED <<disk, rows>>

\* A start fills the table from the disk before it listens (see Share).
Restart ==
    /\ peer = "down" /\ peer' = "up" /\ rows' = disk
    /\ UNCHANGED <<linked, disk, call, got, faults>>

-----------------------------------------------------------------------------
ClientStep(c) ==
    \/ Dial(c) \/ DialFails(c) \/ Collect(c) \/ Take(c) \/ TakePaused(c) \/ Throw(c)
    \/ ContentEnds(c) \/ ResponseEnds(c)

ServerStep(c) ==
    Lookup(c) \/ Open(c) \/ ReadChunk(c) \/ SendChunk(c) \/ EndOfFile(c)

Faults ==
    \/ \E f \in Files : \/ Remove(f)
                      \/ \E content \in Contents : Replace(f, content) \/ Overwrite(f, content)
    \/ \E c \in Calls : ReadFails(c)
    \/ Break \/ Silence \/ Die \/ Restart

Next ==
    \/ \E c \in Calls : Begin(c) \/ ClientStep(c) \/ Timeout(c) \/ ServerStep(c)
    \/ Faults

Spec == Init /\ [][Next]_vars

\* Both event loops run and timers fire; users, owners and hosts owe nothing.
FairSpec ==
    Spec /\ \A c \in Calls : WF_vars(ClientStep(c)) /\ WF_vars(ServerStep(c))
                            /\ WF_vars(Timeout(c))

-----------------------------------------------------------------------------
(* Correctness properties.                                                 *)

\* Every variable has the shape the code gives it.
TypeOK ==
    /\ peer \in {"up", "silent", "down"} /\ linked \in BOOLEAN
    /\ DOMAIN disk \subseteq Files /\ \A f \in DOMAIN disk : disk[f] \in Contents
    /\ DOMAIN rows \subseteq Files /\ \A f \in DOMAIN rows : rows[f] \in Contents
    /\ DOMAIN call \subseteq Calls /\ \A c \in DOMAIN call : call[c] \in CallState
    /\ got \in [Files -> Seq(Chunks)] /\ faults \in 0..MaxFaults

Streams == {call[c].file : c \in {d \in DOMAIN call :
                Kind(d) = "GET_FILE_CONTENT" /\ call[d].pc = "read"}}

\* A download is given the chunks of a file in order, none twice and none left
\* out, across pauses and resumes, whatever becomes of the provider and of the
\* file: the calls implement ContentStream.
Abstract == INSTANCE ContentStream WITH reading <- Streams
ContentInOrder == Abstract!Spec

\* A provider never refuses as invalid what this client sends: the id and the
\* offset, 0 included, survive serialize and deserialize.
RequestsAreUnderstood ==
    \A c \in DOMAIN call : \A i \in 1..Len(call[c].down) :
        call[c].down[i].error # {"invalid"}

Becomes(c, result) == call[c].result # result /\ call'[c].result = result

\* A stream that ends by itself has brought all that the provider could read.
\* A broken one may look the same: the download has to compare the offset.
CleanEndIsWhole ==
    [][\A c \in DOMAIN call :
          (Becomes(c, "end") /\ call[c].cut = "no")
              => Len(got[call[c].file]) >= call[c].view[2]]_vars

\* getFile comes to the one file it asked for, or, if the provider said in an
\* error message that it has none, to undefined: neither a file that has gone from
\* the disk nor a stream that broke or a provider that died looks like that, and
\* a download is never queued for another file.
GetFileIsAnswered ==
    [][\A c \in DOMAIN call : Kind(c) = "GET_FILE" =>
          /\ Becomes(c, "undefined") => call[c].inbox[1].error # {}
          /\ Becomes(c, "files") =>
                \E info \in Contents : call[c].inbox[1].files = {<<call[c].file, info>>}]_vars

\* Every call comes to a result, findFilesOnPeer even if nobody ever answers.
\* getFile and getFileContent have no timeout: they may wait for ever, but only
\* for a provider that is silent for ever on an open connection.
Begun(c) == c \in DOMAIN call
Settled(c) == Begun(c) /\ call[c].result # "none"
Stuck(c) == peer = "silent" /\ Begun(c) /\ Kind(c) # "FIND_FILE"
CallsEnd == \A c \in Calls : <>[]Stuck(c) \/ (Begun(c) ~> Settled(c))
=============================================================================
