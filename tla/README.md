# Verification of libp2p-hello-world

TLA+ models of the peer-to-peer file sharing node in this repository, checked
with TLC and, for the properties that matter most, proved with TLAPS. Source
paths below are relative to the repository root (`src/service/...`).

## 1. The system

One Node.js process per peer. JavaScript between two `await`s is atomic; every
`await` (a SQLite statement, a system call, a chunk from a remote peer, a timer)
lets any other coroutine run. What survives a crash is the SQLite database and
the file system.

| Component | State | Operations | Talks to |
|---|---|---|---|
| Download service (`service/download.service.ts`, `usecase/download-file.ts`, `download.controller.ts`) | table `download`; `activeDownloads` (id -> state object); running generators; files and write streams in the download directory | queue (with override), pause, resume, delete; the generator `download(id)` | protocol client (getFile, getFileContent), file service, `DOWNLOAD_RESUMED` event |
| Share catalogue (`service/file.service.ts`, `node/index.ts`) | tables `directory`, `file`, `hash` | addShareDir, syncSharedDirs, publishFiles at every start | file system, DHT |
| Protocol client (`protocol/protocol.client.ts`, `utils.ts`) | streams in flight | provide, findProviders, findFilesOnPeer, getFile, getFileContent, handleIncoming | libp2p connections, RPC handlers of the other peer |
| RPC handlers (`protocol/rpc/`) | none of their own; a read stream per GET_FILE_CONTENT | FIND_FILE, GET_FILE, GET_FILE_CONTENT | tables of the catalogue, file system, remote peers |
| Search (`usecase/find-files.usecase.ts`, `protocol/protocol.client.ts`, `gateway/io`, `search.controller.ts`) | list of sockets; searches in flight | connect, `search:details`, `GET /api/search/:query` | DHT lookup, remote FIND_FILE with a 2 s timeout |
| NAT discovery (`nat-discovery.py`, `nat.ts`) | one run of the STUN client; `NatDiscovery._nat` | discover, before libp2p is created | STUN servers over UDP |
| Message codec (`protocol/proto/proto.ts`) | none | serialize, deserialize | - |
| Node lifecycle (`index.ts`, `config.ts`, `node/index.ts`, `app-event.emitter.ts`) | `id.json`, libp2p instance, context, sockets | start, connection events, timer, reboot | all of the above |
| HTTP gateway, configuration, database bootstrap, file type, logger, cli | none, or fixed at the start | - | - |

What makes each of them correct:

- **Download.** At most one generator per download; a pause reaches the
  generator that streams; status and offset of a row agree; a COMPLETED file is
  whole; an unfinished file is listed once; generators end and settle their row.
  Hard because a handler reads a row, awaits, and writes the row it read;
  because the map and the generator may hold different state objects; because
  write streams open and flush when they like; because a crash leaves rows that
  nobody looks at.
- **Catalogue.** The ids remote peers hold never change their meaning although
  the tables are cleared and refilled at each start without a transaction;
  whatever a crash left, the next start repairs, and does not trip over.
- **Search.** Each provider is reported once although its answer may come after
  its timeout; `done` is last; a search ends though nobody answers.
- **NAT discovery.** No verdict promises more reachability than there is,
  whatever is lost, late, or received by the wrong test; the discovery ends,
  because the node does not start before.
- **Protocol.** A download gets the chunks of a file in order over any number
  of streams that stop, break or are resumed; every call comes to a result; the
  end of a stream means that the file was read to its end; getFile names the
  file asked for, or was refused. Hard because the
  provider, its disk and the connection change under a stream, because one
  response object carries all chunks, and because most fields of a message are
  dropped when they are falsy.
- **Node lifecycle.** The identity survives every crash; clients learn of the
  node's status although they come after the events that tell it.

All the hazards, at their lines, are in `PROJECT.json` under `hazards`.

## 2. Modules

| Module | Models | Source |
|---|---|---|
| `Download` | download service, generator, rows, files, write streams, crashes | `service/download.service.ts`, `service/file.service.ts`, `usecase/download-file.ts`, `db/model/download.model.ts` |
| `DownloadLifecycle` | abstract: what a row of the download list promises | same |
| `NatDiscovery` | STUN client and NAT world | `nat-discovery.py`, `nat.ts` |
| `Share` | start-up, catalogue, RPC answers, owner of the disk | `service/file.service.ts`, `node/index.ts`, `protocol/rpc/handlers/` |
| `Search` | search over HTTP and socket.io | `usecase/find-files.usecase.ts`, `protocol/protocol.client.ts`, `gateway/io/` |
| `Codec` | what serialize and deserialize keep of a message | `protocol/proto/proto.ts` |
| `Exchange` | the three calls of a peer to a provider, both ends of their streams, the faults between them | `protocol/protocol.client.ts`, `protocol/rpc/`, `utils.ts` |
| `ContentStream` | abstract: what getFileContent promises to a download | `protocol/protocol.client.ts` |
| `NodeLife` | start of the process, identity, context, connection events, timer | `index.ts`, `config.ts`, `node/index.ts`, `service/app-event.emitter.ts`, `gateway/io/index.ts` |
| `MC*` | instances for TLC | |
| `*Proofs` | theorems | |

### Download

`rows` is the table, `disk` the directory (a file is a sequence of chunks
`<<file, index>>`; index 0 is a chunk the file never had), `active` is
`activeDownloads`, `task` the local variables of each running generator, `out`
the write streams, `call` the local variables of each HTTP handler between two
awaits. A state object that a generator mutates is *named by its worker* in
`active`; any other object in the map is represented by its status. That keeps
the aliasing of the code: `pause` mutates whatever object the map holds, the
generator asks the map whether to stop, and both may or may not be the same
object.

One action per awaited effect and the synchronous code after it:

- queue: `QueueLookup` (getFile answered, table searched, override or refuse),
  `QueueDropRow`, `QueueDropFile`, `QueueReserve` (uniquePath creates an empty
  file), `QueueInsert` (save, start of the generator);
- `Pause` is one action, as the code has no await in it; resume is `ResumeFind`,
  `ResumeMark` (check of the status read, new object in the map), `ResumeSave`
  (row written, generator started by the event); delete is `DeleteFind`,
  `DeleteRemove`, `DeleteUnlink`;
- the generator: `Find`, `Unlink`, `Begin`, `Receive`, `ReceivePaused`,
  `StreamStop` (end of the stream, broken connection, error message of the
  peer), then the finally block: `Finally` up to its first await, `Finish`,
  `Checksum`, `Complete`;
- the thread pool: `Open` and `Flush`. A stream is never closed by the code; one
  that is open and empty has no further effect and is dropped with its
  generator. Unlink leaves an open descriptor on an orphan.
- `Crash` forgets `active`, `task`, `out` and `call`.

`Ops` says what may happen in an instance. `"alter"` lets a remote file change
after it was queued, `"slowDisk"` lets a user resume before the stream of the
paused generator came to rest.

### NatDiscovery

`world` is the situation to be discovered: the procedure (`check_nat_type`,
which `nat.ts` runs, `check_mapping_type`, `check_filtering_type`), whether there
is a NAT, on which part of the remote endpoint its mapping and its filtering
depend, and the list of servers. The procedures are tables from a test and its
outcome to the next test or the verdict. `Send`, `Receive` and `Timeout` are
`stun_test`: two tries under one transaction id; a datagram that answers another
test is an error, not skipped. Datagrams are a set of replies on their way,
which may be lost, or stay until a later test reads them; a reopened socket
drops what the old one had buffered.

### Share

`node` is where `Node.start` is and its locals; `fs` and `tree` the disk,
`files`, `directories`, `nextId` the tables; `told` is what remote peers ever
learned, `touched` (history) what changed on the disk since the start. Size and
checksum of a row are separate fields because the code reads the disk once for
each. `Crash` is enabled in every state of a start. `Configure` and the actions
on the disk are the owner's.

`config` and `directories` map a directory to its advertised path. Both columns
of the table are UNIQUE, but `addShareDir` looks for new directories by path
only, and a directory taken out of the configuration keeps its row: so a start
fails on an untouched disk, and so does every later one, when a new directory is
to be shown under a path that an old row has (`config.ts:41` has one default, `/`).
That is a failure of `AddShareDir`, and `AdvertisedTwice` the condition for it.
The configuration lists a path once.

### Search

`search[s]` holds a search in flight: which providers were asked and whether
they are waiting, late (timed out, the request goes on) or over. `view[c]` is
what client `c` received. The socket list only grows, as in the code.

### Codec and Exchange

A message is a record whose optional fields are sets of at most one value;
`Serialize` and `Deserialize` say which values a field loses on the way (a
`fileId` of 0 and an empty text, but not an offset of 0).

`call[c]` holds one call: where the caller is (`pc`, `inbox` of `oneOnly`,
`result`), where the handler is (`server`, the read stream as `view` and `pos`,
the one `response` object), and the frames in between (`down`, already
serialized). The caller's actions are `Dial`, `DialFails`, `Collect` (oneOnly),
`Take`, `TakePaused`, `Throw` (the loop over the chunks), `ContentEnds`,
`ResponseEnds`, and `Timeout`, which settles findFilesOnPeer while its request
goes on. What the end of a response comes to is `Outcome`: an exception
(`Thrown`, which findFilesOnPeer turns into an unreachable provider) unless
exactly one message came; else the files in it, error message or not, of which
getFile takes the first, `undefined` if there is none. The provider's are `Lookup` (decode, guards, table), `Open`,
`ReadChunk` (fill the response object), `SendChunk` (500 ms later), `EndOfFile`
and `ReadFails`. A file is `<<version, chunks>>`; a chunk carries the version it
was read from, so that a download may mix versions, as in the code, where only
the checksum finds out. `got[f]` is what a download has kept: its length is the
offset the next request asks for.

Faults: `Break` and `Die` end all streams of the connection, lose any suffix of
the frames of each, and let the reader see an error or just an end (mplex may
report either); `Silence` is a provider that hangs; `Restart` fills its table
from the disk, as `Share` shows. `Replace` puts a new file under the name,
`Overwrite` changes the one that is open, `Remove` unlinks it.

### NodeLife

`pc` is where `main` and `Node.start` are, `idFile` what is left of the process
when it ends, `conns` libp2p's connection map, `context` the object of
AppEventEmitter, `seen` the last context each connected client got. `peer:connect`
comes once per connection and before libp2p stores it (contrary to the comment
at `node/index.ts:48`, which the `+ 1` beside it makes up for);
`peer:disconnect` once per peer, after its last connection is out of the map.
Events before the listeners are installed reach nobody.

## 3. Runs

All twelve together take a few minutes with two workers.

| Run | Question | Bounds |
|---|---|---|
| `DownloadSequential` | Can any order of one user's requests, the awaits of the generators and lagging write streams break types, single writer, pause, or the safety of a resume? | 1 file of 1 chunk, 2 generators, 2 downloads |
| `DownloadIntegrity` | Is a COMPLETED file whole, a file unfinished once, a row never set back, its status true to its offset, its life that of `DownloadLifecycle`, with an altered remote file and a crash? No override or delete: see below. | 1 file of 3 chunks, 2 downloads, 1 crash |
| `DownloadLiveness` | Do generators end, rows settle, pauses take effect? | 1 file of 2 chunks, 1 download |
| `DownloadRace` | *violation*: two queues at once | 2 requests, 2 downloads |
| `NatFaults` | Verdicts under lost, late and misrouted replies, for each of the three procedures in each world | 2 servers of 4 kinds, all NATs, 3 faults |
| `NatLiveness` | Does discovery end, also with `-i` and fresh ports? | 2 faults |
| `NatOpen` | *violation*: is a host without NAT recognised? | hosts without NAT |
| `ShareRestart` | Ids, healing, causes of failure over crashing starts while the disk and the configuration change | 2 directories, 2 advertised paths, 2 files of one name, 2 contents per file, 3 starts, 3 rows ever inserted |
| `ShareLiveness` | Do starts end, are files announced while the DHT accepts them? | 1 directory, 2 files |
| `SearchClients` | What clients and the HTTP caller receive, and that the search ends though nobody answers | 1 search, 2 sockets, 2 remote peers and this one |
| `ExchangeCalls` | Does a provider understand every request, is content in order over several streams, does a clean end mean a whole file, is getFile's answer exact, does every call settle? | 2 calls of any kind, 1 file of at most 2 chunks (a changed file differs in its length), 2 faults |
| `NodeLife` | Is the identity stable, is the connection count never more than one too high, do clients learn what they missed? | 2 ids, 2 peers with 2 connections, 2 clients, 2 crashes |

Why the bounds are enough to meet the interesting cases: two generators are the
least for a second writer, and a third adds nothing a pair does not show, because
every conflict is between two; the conflicts over a row (`DownloadSequential`) do not depend on the size, and
where the offset matters two or three chunks put it strictly inside the file, so
that a resume has something to keep; two downloads let an override
replace a row that still has a generator; three starts let a remote peer hold an
id over a failed start and a repaired one (three rows are a start that shares one file, one
that crashes before it inserts any, and one that shares both); three faults let both tries of a test
be lost and a late reply meet the next test; two calls are a download and its
resumption, or a download and a question beside it, and two faults a provider
that dies after its disk has changed (with one file, getFile cannot be given
another: that part of `GetFileIsAnswered` is shown by the theorem only); searches share nothing but the list of
sockets, so one search with two clients and two remote providers shows what each
of them gets. `MaxIndex` and `MaxLength` limit
the name suffix and the length of a file on disk; the guards that use them block
only steps beyond the lengths the instance can need.

`DownloadIntegrity` leaves out override and delete on purpose. Neither stops the
generator of the row it removes, and the generator's next save inserts the row
again, as a second unfinished row of the file, or as one whose file is gone:
`UniqueUnfinished`, `CompletedIsWhole` and `RowsFollowLifecycle` (whose rows never
go away) do not hold then,
nor does `CompletedIsWhole` on a disk so slow that the write stream of a paused
generator is still writing when the resumed one opens its own. These are listed
as hazards. The single writer and the status of a row do survive override and
delete (`DownloadSequential` checks the one, `DownloadIntegrity` the other, and both are
proved for any instance with all operations).

`CHECK_DEADLOCK FALSE`: the user may stop asking, the searches end, the
discovery is over; each of these is a legitimate final state.

Two runs show where the program departs from what its own text says
(`findings` in `PROJECT.json`): the refusal *There is already download in
progress* can be raced, and *Open Internet (no NAT)* can never be reported.

## 4. Fairness

- `Download`: the event loop runs what is runnable (`TaskStep`, `CallStep`) and
  the thread pool finishes what it was given (`StreamStep`). For a streaming
  generator this includes that the remote peer sends the next chunk, ends the
  stream, or the connection breaks. The code has no timeout there; the peer that
  is silent on an open connection for ever is in `Exchange`. Users owe nothing.
- `Exchange`: both event loops run what is runnable and timers fire. Users,
  owners, hosts and the network owe nothing: faults are never fair, a dead
  provider need not restart, and `CallsEnd` excepts only the provider that hangs
  for ever on an open connection.
- `NodeLife`: the timer fires. Nothing obliges a start to succeed.
- `Share`: what `Node.start` awaits is answered; the loop of `publishFiles` runs.
- `Search`: the local database answers and the timers (2 s, 10 s) fire. Remote
  peers owe nothing.
- `NatDiscovery`: the script runs, `recvfrom` times out after 3 s, and a
  datagram is not under way for ever.

## 5. Proofs

`tlapm` checks every leaf; no constant is bounded in the theorems. The
assumptions are `DownloadAssumption`, `ShareAssumption`, `ExchangeAssumption` and
`NodeLifeAssumption`, which type the constants, and `KeyAssumption` (a file has a
name). What a theorem needs beside them is a hypothesis in its statement, and a
run satisfies it:

| Hypothesis | Means | Without it | Run |
|---|---|---|---|
| `OneUser` | one request is in flight at a time | two resumes read one PAUSED row and start two generators | `DownloadSequential`, `DownloadIntegrity` |
| `NoRemoval` | no delete, no override | a generator whose row is removed inserts it again when it saves | `DownloadIntegrity` |
| `OwnNames` | files of different names | between a generator's unlink and its stream's open, `uniquePath` gives the name to another download | `DownloadIntegrity` (one file) |
| `DiskKeepsUp` | a paused stream is at rest before it is resumed | two streams write to one path | `DownloadIntegrity` |
| `DirsDisjoint` | no shared directory lies in another | a path is inserted twice and the start fails | `ShareRestart` |

### Download

- `TypeCorrect`: `TypeOK` is inductive, because it includes the links between the
  variables that each action needs: the map names only running generators past
  their first save, an open stream that is no orphan has its file, ids in use are
  below the counter. One lemma per action.
- `StatusCorrect`, for any number of users. The strengthening `FinalFits` says
  the same of generators past their finally block, since their record is what
  they will save.
- `OneWriterPerDownload`, `PauseIsSeen` and `ResumeCorrect`, for `OneUser`. A
  second generator is kept out only by the PAUSED check of `resume`, on a row read
  before an await. The invariant `WriterInv` adds that a PAUSED row has no
  generator (`PausedIsQuiet`), that the row a resume in flight has read is still
  PAUSED (`ResumeIsFresh`), and that a resume past its check read a PAUSED row.
- `NothingIsUndone`: `RowsAdvance`, for `OneUser`. A generator and a resume save
  the whole entity they once read, so the invariant `TrackInv` relates each to the
  row it will overwrite: same file and path, and an offset no smaller. For a
  resume past its check the row is exactly the one it read.
- `ActiveCorrect`: `ActiveIsLive`, for any number of users and `NoRemoval`. An
  entry of the map that names a generator names one of that download
  (`OwnerInv`); one that is a bare IN_PROGRESS has a resume between its map.set
  and its save, or a generator before its own map.set, and the row exists for it
  to go on.
- `ImplementsLifecycle`, for `OneUser` and `NoRemoval`: `Spec =>
  RowsFollowLifecycle`. A step that changes the table is an insertion, a resume's
  save, or one of a generator's three saves (`Begin`, `Finish`, `Complete`), and
  each is a step of `DownloadLifecycle` on that row; everything else, a crash
  included, stutters. Which step a save is follows from what the invariant says of
  the row that the generator will overwrite.
- `UniqueCorrect`, for the same. The table is searched two awaits before the row
  is inserted; in between no row of the file may become unfinished again. The
  invariant says that a queue past its lookup has only COMPLETED rows of its file,
  and that holds because nothing else inserts and COMPLETED is final.
- `CompletedCorrect`, for the first four hypotheses. `FileInv` has four parts.
  `PathInv`: no two rows share a path, and one that is reserved is no row's.
  `StreamInv`: a write stream belongs to one row, no two write to one path, and
  what it holds and what is on disk together are no more than is counted, by its
  generator while that runs and by the row when it is gone; a stream that is to
  create its file finds none. `QuietInv`: a PAUSED row has no more on disk than it
  counts, and the path of a download about to be started or continued has no
  stream. `WholeInv`: a row that is COMPLETED, or whose generator has compared the
  checksum, has its whole file on disk. A crash drops what the streams hold, and
  leaves less on disk than was counted, never more. A whole file stays whole
  because it has as many chunks as its row counts, so that no stream has one left
  for it.

### Exchange

- `TypeCorrect` and `ImplementsContentStream`: `Spec => ContentInOrder`, the
  specification of `ContentStream` under the mapping that reads a file as open
  while a content call for it reads. The order of chunks is not inductive: nothing
  in `Take` says which chunk comes. The invariant `StreamInv` adds where every
  chunk is: at most one content call of a file is active (`OnePipe`, the caller's
  side of the single writer of `Download`), and its pipe goes on from what was
  kept (`PipesOK`): the frames in flight carry the chunks `Len(got[f]) + 1, ...`
  in order, and the handler's `pos` is the last of them, plus one if the response
  object holds a chunk that is not sent yet. Each action keeps that, or (the
  faults) cuts a suffix off after which nothing follows.
- `ProviderUnderstands`: `Spec => []RequestsAreUnderstood`. The invariant
  `Understood` says of every call that its request, serialized and deserialized,
  has the fields its handler asks for; it needs that ids are not 0 and names not
  empty, since both would be dropped on the way.
- `CleanEndCorrect`: `Spec => CleanEndIsWhole`. The invariant `EndsOK`: a content
  stream that is over and not broken has an error as its last frame, or its
  frames and what was kept reach the end of the file behind it. An error at the end
  cannot be taken as a chunk, so a caller that sees just the end has it all.
- `GetFileCorrect`: `Spec => GetFileIsAnswered`. The invariant `AllNamed` follows
  the answer from the table to the caller: the request of a GET_FILE call is still
  `GetFile` of its file, no chunk is streamed to it, and each message on its way or
  in the inbox is an error without files, or names that file alone; serialize,
  deserialize and a cut stream keep that. The lemma `NewResult` says which steps
  give a call its result.

### Share, Search, NatDiscovery, NodeLife

- `ShareProofs!IdsKeepTheirMeaning`: the counter is ahead of all ids in the table
  and all ids ever told (SQLite keeps it when the table is cleared), and the rows
  agree with what was told. `TypeCorrect` adds that a queued announcement has a
  row.
- `ShareProofs!StartCorrect`: `[]StartHeals`. `HealInv` follows the walk: the
  tables are empty until it begins (`Cleared`); in a directory, the paths that are
  not to do any more have their one row or were touched (`WalkInv`, `Filled`); no path
  is inserted twice (`PathsUnique`). `FailuresExplained`: `[]FailsForCause`.
  Of the places where a start throws, `AddShareDir` is the one excused by
  `AdvertisedTwice`; at the others the tables are as the walk left them, so that
  no foreign key and no unique path is in the way (for the latter `DirsDisjoint` is
  needed), and a directory or file that is not there was touched.
- `SearchProofs`: `TypeCorrect`, `DoneEndsASearch`, `ClientsSeeAll`,
  `ResponseCorrect`. The invariant says who has been heard of a search so far:
  nobody before the local files, then the local files and every provider that is
  not waited for any more, `done` in the end; and that each client connected
  since the beginning has the events of exactly those, in this order
  (`CaughtUp`), and none is after `done`.
- `NatProofs`: `TypeCorrect`, `RelayCorrect`, `NoVerdictTooLenient`,
  `MappingCorrect`, `ExactVerdicts`. A reply under the current transaction id
  answers the request of the current test (`RepliesInv`), and every endpoint the
  socket has sent to belongs to a server tried, and to the tests so far
  (`ContactedInv`): so a reply from elsewhere proves that the filter let a
  stranger in. `FoundInv` says what the tests have learnt of the mapping. Without
  faults (`QuietInv`) silence is proof as well: a reply that is admitted is never
  missed.
- `NodeLifeProofs`: `OneIdentity`, `CountIsRight`, `TypeCorrect`. A process past
  its identity has the one in the file (so that an empty or torn file means it was
  never online), and nothing is counted before the listeners are there.

Two of these proofs corrected the model. `ChangeRequest` of `NatDiscovery` was a
CASE whose arms overlapped (Test II of the mapping procedure changes no request,
as `check_mapping_type` has it; TLC took the first arm that held), and the
events of `Search` are compared by position, which says the same and can be
reasoned about.

Only model-checked:

- Liveness (`EveryTaskEnds`, `InProgressSettles`, `PauseTakesEffect`,
  `DiscoveryEnds`, `StartEnds`, `AllAnnounced`, `SearchEnds`, `CallsEnd`,
  `ClientsLearn`): fairness and ENABLED are beyond the prover. Every invariant,
  action property and refinement that a run checks is also proved.
- That the hypotheses of the table above are needed: TLC finds the
  counterexamples when an instance is given the operation they exclude.

## 6. Not modelled, and why

- HTTP routing, error formatting, listings: no state. Configuration file,
  environment, database bootstrap, logger, cli, MIME detection: pure I/O.
- `Node.reboot`: the NAT event is emitted before its listener is installed and
  never again, so `reboot` is unreachable. `Node.stop` has no caller. Monitor
  messages are forwarded, never decided upon.
- Percentages and the progress events of a download: shown, never decided upon.
- Messages that are not a client's of this version (`getHandler` refuses an
  unknown type). Back-pressure on a stream: a provider goes on sending to a
  caller that has left, and the frames are dropped. Bytes of a chunk's boundary:
  the offset of a request falls between two chunks, as it does when the provider
  reads files in chunks of one size.
- An undeletable file, a full disk,
  a failing database statement.
- Shared directories inside one another: the unique path then makes every start
  fail; the instances keep directories apart.

## 7. Plan

1. Done: every component with state of its own is modelled, and every safety
   property, action property and refinement of the runs is proved.
2. Lift hypotheses: `ActiveIsLive` and the lifecycle of a row with override and
   delete, where a row may come back after it was removed (a lifecycle with a
   step for that); `CompletedIsWhole` with two files of one name.
3. Extend the model: nested share directories in `Share`, and `Download` over
   `ContentStream` in the place of its own abstract stream.
