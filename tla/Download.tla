------------------------------ MODULE Download ------------------------------
(***************************************************************************)
(* The download component: DownloadService, the use case that drives its    *)
(* generator, the rows of the `download` table and the files under the      *)
(* download directory.                                                      *)
(*                                                                         *)
(* The program is one Node process: JavaScript between two awaits is atomic *)
(* and everything awaited (a statement of SQLite, a system call, a chunk    *)
(* from the remote peer) may interleave with any other coroutine.  Each     *)
(* action is one awaited effect together with the synchronous code that     *)
(* follows it.  Requests are the HTTP handlers in flight, Workers the       *)
(* running `DownloadService.download` generators.                           *)
(***************************************************************************)
EXTENDS Integers, Sequences, FiniteSets

CONSTANTS
    Files,       \* files of remote peers; a file stands for its checksum too
    Size,        \* Size[f]: number of chunks of f
    Name,        \* Name[f]: base name of f, which uniquePath keeps
    Workers,     \* slots for running download generators
    Requests,    \* slots for HTTP requests in flight
    Ops,         \* what the users, the remote peers and the process may do
    MaxId,       \* bound: downloads ever queued
    MaxIndex,    \* bound: largest " (n)" suffix uniquePath tries
    MaxLength,   \* bound: chunks in a file on disk
    MaxCrashes   \* bound: restarts of the process

Status == {"PENDING", "IN_PROGRESS", "PAUSED", "COMPLETED_UNVERIFIED",
           "COMPLETED", "FAILED"}
AllOps == {"queue", "override", "pause", "resume", "delete",  \* users
           "alter",      \* a remote file changes after it was queued
           "slowDisk",   \* a user may resume a download before the write
                         \* stream of its last generator has come to rest
           "crash"}      \* the process dies and is started again

ASSUME DownloadAssumption ==
    /\ Size \in [Files -> Nat]
    /\ Workers \cap Status = {}
    /\ Ops \subseteq AllOps
    /\ MaxId \in Nat /\ MaxIndex \in Nat /\ MaxLength \in Nat
    /\ MaxCrashes \in Nat

VARIABLES
    rows,     \* table `download`: id -> row
    nextId,   \* AUTOINCREMENT counter of the table
    disk,     \* download directory: path -> sequence of chunks
    active,   \* activeDownloads: id -> state object; an object a generator
              \* still mutates is named by its worker, any other by its status
    task,     \* the running generators: worker -> local variables
    out,      \* their fs.WriteStreams, never closed: worker -> stream
    call,     \* HTTP handlers in flight: request -> local variables
    crashes   \* number of restarts so far

vars == <<rows, nextId, disk, active, task, out, call, crashes>>

Ids == 1..MaxId
Paths == {Name[f] : f \in Files} \X Nat
Chunks == Files \X Nat                \* <<f, 0>>: bytes f does not have
Content(f) == [i \in 1..Size[f] |-> <<f, i>>]

Row == [file : Files, path : Paths, offset : Nat, status : Status]

Task == [pc : {"find"}, id : Ids]
    \cup [pc : {"unlink", "begin", "stream", "finish", "checksum", "complete"},
          id : Ids, file : Files, path : Paths, offset : Nat, status : Status]

Stream == [path : Paths, append : BOOLEAN, fd : {"opening", "open", "orphan"},
           pos : Nat, buf : Seq(Chunks)]

Call == [pc : {"dropRow"}, id : Ids, path : Paths, file : Files]
   \cup [pc : {"dropFile"}, path : Paths, file : Files]
   \cup [pc : {"reserve"}, file : Files]
   \cup [pc : {"insert"}, file : Files, path : Paths]
   \cup [pc : {"mark", "resume"}, id : Ids, row : Row]
   \cup [pc : {"remove"}, id : Ids, path : Paths, fromFs : BOOLEAN]
   \cup [pc : {"unlink"}, path : Paths]

-----------------------------------------------------------------------------
(* Finite maps.                                                            *)

Maps(m, S) == \A k \in DOMAIN m : m[k] \in S      \* every value is in S
Put(m, k, v) == [x \in DOMAIN m \cup {k} |-> IF x = k THEN v ELSE m[x]]
Drop(m, k) == [x \in DOMAIN m \ {k} |-> m[x]]
NoMap == [x \in {} |-> x]

-----------------------------------------------------------------------------
(* Reading the state.                                                      *)

\* The status of the state object that activeDownloads holds for id.
ActiveStatus(id) ==
    IF active[id] \in Workers THEN task[active[id]].status ELSE active[id]

IsPaused(id) == id \in DOMAIN active /\ ActiveStatus(id) = "PAUSED"

\* Mutant: only a running download of the same file is a hit.
UnfinishedRunning(f) ==
    {id \in DOMAIN rows : rows[id].file = f /\ rows[id].status = "IN_PROGRESS"}

\* findOneByChecksumAndInProgress: rows of the same checksum not COMPLETED.
UnfinishedRows(f) ==
    {id \in DOMAIN rows : rows[id].file = f /\ rows[id].status # "COMPLETED"}

\* Mutants: resume also takes a running, or a failed, download.
ResumableRunning(row) == row.status \in {"PAUSED", "IN_PROGRESS"}
ResumableFailed(row) == row.status \in {"PAUSED", "FAILED"}

\* A row may be resumed only from PAUSED.
Resumable(row) == row.status = "PAUSED"

\* Mutants: a pause is kept although everything is there, is forgotten, or an
\* interrupted download keeps the status it had.
FinalStatusPausedFirst(t) ==
    IF t.status = "PAUSED" THEN "PAUSED"
    ELSE IF t.offset = Size[t.file] THEN "COMPLETED_UNVERIFIED" ELSE "FAILED"
FinalStatusNoPause(t) ==
    IF t.offset = Size[t.file] THEN "COMPLETED_UNVERIFIED" ELSE "FAILED"
FinalStatusUnset(t) ==
    IF t.offset = Size[t.file] THEN "COMPLETED_UNVERIFIED" ELSE t.status

\* The status the finally block leaves in `state`.
FinalStatus(t) ==
    IF t.offset = Size[t.file] THEN "COMPLETED_UNVERIFIED"
    ELSE IF t.status = "PAUSED" THEN "PAUSED" ELSE "FAILED"

\* Mutant: the length is trusted, the file is not read.
VerifiedByLength(t) == t.offset = Size[t.file]

\* The checksum of the file on disk is that of the remote file.
Verified(t) == t.path \in DOMAIN disk /\ disk[t.path] = Content(t.file)

-----------------------------------------------------------------------------
(* Effects shared by several handlers.                                     *)

\* Mutant: a failed download is to start over.
SaveRestart(t, status) ==
    rows' = Put(rows, t.id,
                [file |-> t.file, path |-> t.path, status |-> status,
                 offset |-> IF status = "FAILED" THEN 0 ELSE t.offset])

\* TypeORM's save of the generator's entity: an upsert of the whole row.
Save(t, status) ==
    rows' = Put(rows, t.id, [file |-> t.file, path |-> t.path,
                             offset |-> t.offset, status |-> status])

\* Mutant: descriptors are taken to follow the name.
OrphanedNever(p) == out

\* unlink leaves open descriptors on an inode without a name.
Orphaned(p) ==
    [w \in DOMAIN out |->
        IF out[w].path = p /\ out[w].fd = "open"
        THEN [out[w] EXCEPT !.fd = "orphan"] ELSE out[w]]

NewStream(p, append) ==
    [path |-> p, append |-> append, fd |-> "opening", pos |-> 0, buf |-> <<>>]

AtRest(stream) == stream.fd # "opening" /\ stream.buf = <<>>

\* The streams when w's generator is gone: one at rest does nothing any more
\* (its descriptor leaks), any other still has to open the file or write to it.
Left(streams, w) ==
    IF w \in DOMAIN streams /\ AtRest(streams[w]) THEN Drop(streams, w) ELSE streams

\* DownloadFile.download(id), not awaited by its callers.
Launch(w, id) ==
    /\ w \notin DOMAIN task \cup DOMAIN out
    /\ task' = Put(task, w, [pc |-> "find", id |-> id])

\* The generator ends; its state object keeps its last status in the map.
EndTask(w) ==
    /\ task' = Drop(task, w)
    /\ active' = [id \in DOMAIN active |->
                    IF active[id] = w THEN task[w].status ELSE active[id]]
    /\ out' = Left(out, w)

Idle(r) == r \notin DOMAIN call
Answer(r) == call' = Drop(call, r)

-----------------------------------------------------------------------------
Init ==
    /\ rows = NoMap /\ nextId = 1 /\ disk = NoMap /\ active = NoMap
    /\ task = NoMap /\ out = NoMap /\ call = NoMap /\ crashes = 0

-----------------------------------------------------------------------------
(* POST /api/download: DownloadFile.queue, DownloadService.queue.          *)

\* getFile answered and the table was searched.  A hit without override is
\* refused (DOWNLOAD_IN_PROGRESS), which changes nothing.
QueueLookup(r, f, override) ==
    /\ "queue" \in Ops /\ Idle(r) /\ nextId <= MaxId
    /\ override => "override" \in Ops
    /\ \/ /\ UnfinishedRows(f) = {}
          /\ call' = Put(call, r, [pc |-> "reserve", file |-> f])
       \/ /\ override
          /\ \E id \in UnfinishedRows(f) :
                call' = Put(call, r, [pc |-> "dropRow", id |-> id,
                                      path |-> rows[id].path, file |-> f])
    /\ UNCHANGED <<rows, nextId, disk, active, task, out, crashes>>

QueueDropRow(r) ==
    /\ r \in DOMAIN call /\ call[r].pc = "dropRow"
    /\ rows' = Drop(rows, call[r].id)
    /\ call' = Put(call, r, [pc |-> "dropFile", path |-> call[r].path,
                             file |-> call[r].file])
    /\ UNCHANGED <<nextId, disk, active, task, out, crashes>>

QueueDropFile(r) ==
    /\ r \in DOMAIN call /\ call[r].pc = "dropFile"
    /\ disk' = Drop(disk, call[r].path)
    /\ out' = Orphaned(call[r].path)
    /\ call' = Put(call, r, [pc |-> "reserve", file |-> call[r].file])
    /\ UNCHANGED <<rows, nextId, active, task, crashes>>

\* uniquePath: the first free name, created empty in the same synchronous run.
QueueReserve(r) ==
    /\ r \in DOMAIN call /\ call[r].pc = "reserve"
    /\ \E n \in 0..MaxIndex :
        LET f == call[r].file
            p == <<Name[f], n>>
        IN /\ p \notin DOMAIN disk
           /\ \A m \in 0..(n - 1) : <<Name[f], m>> \in DOMAIN disk
           /\ disk' = Put(disk, p, <<>>)
           /\ call' = Put(call, r, [pc |-> "insert", file |-> f, path |-> p])
    /\ UNCHANGED <<rows, nextId, active, task, out, crashes>>

\* save inserts the new row; the generator is started and not awaited.
QueueInsert(r) ==
    /\ r \in DOMAIN call /\ call[r].pc = "insert" /\ nextId <= MaxId
    /\ rows' = Put(rows, nextId, [file |-> call[r].file, path |-> call[r].path,
                                  offset |-> 0, status |-> "PENDING"])
    /\ nextId' = nextId + 1
    /\ \E w \in Workers : Launch(w, nextId)
    /\ Answer(r)
    /\ UNCHANGED <<disk, active, out, crashes>>

-----------------------------------------------------------------------------
(* PATCH /api/download/:id: DownloadService.action.                        *)

\* pause mutates the state object of the map and returns: no await.
Pause(r, id) ==
    /\ "pause" \in Ops /\ Idle(r)
    /\ id \in DOMAIN active /\ ActiveStatus(id) = "IN_PROGRESS"
    /\ IF active[id] \in Workers
       THEN /\ task' = Put(task, active[id],
                           [task[active[id]] EXCEPT !.status = "PAUSED"])
            /\ UNCHANGED active
       ELSE /\ active' = Put(active, id, "PAUSED")
            /\ UNCHANGED task
    /\ UNCHANGED <<rows, nextId, disk, out, call, crashes>>

\* findOne answered with the entity.
ResumeFind(r, id) ==
    /\ "resume" \in Ops /\ Idle(r)
    /\ id \in DOMAIN rows
    /\ "slowDisk" \in Ops
       \/ \A w \in DOMAIN out : out[w].path = rows[id].path => AtRest(out[w])
    /\ call' = Put(call, r, [pc |-> "mark", id |-> id, row |-> rows[id]])
    /\ UNCHANGED <<rows, nextId, disk, active, task, out, crashes>>

\* The check of the status read, and a new state object in the map.
ResumeMark(r) ==
    /\ r \in DOMAIN call /\ call[r].pc = "mark"
    /\ IF Resumable(call[r].row)
       THEN /\ active' = Put(active, call[r].id, "IN_PROGRESS")
            /\ call' = Put(call, r, [call[r] EXCEPT !.pc = "resume"])
       ELSE Answer(r) /\ UNCHANGED active
    /\ UNCHANGED <<rows, nextId, disk, task, out, crashes>>

\* updateWithState wrote the row; the DOWNLOAD_RESUMED listener starts a
\* generator that nobody awaits.
ResumeSave(r) ==
    /\ r \in DOMAIN call /\ call[r].pc = "resume"
    /\ rows' = Put(rows, call[r].id,
                   [call[r].row EXCEPT !.status = "IN_PROGRESS"])
    /\ \E w \in Workers : Launch(w, call[r].id)
    /\ Answer(r)
    /\ UNCHANGED <<nextId, disk, active, out, crashes>>

-----------------------------------------------------------------------------
(* DELETE /api/download/:id: DownloadService.delete.                       *)

DeleteFind(r, id, fromFs) ==
    /\ "delete" \in Ops /\ Idle(r)
    /\ id \in DOMAIN rows
    /\ call' = Put(call, r, [pc |-> "remove", id |-> id,
                             path |-> rows[id].path, fromFs |-> fromFs])
    /\ UNCHANGED <<rows, nextId, disk, active, task, out, crashes>>

DeleteRemove(r) ==
    /\ r \in DOMAIN call /\ call[r].pc = "remove"
    /\ rows' = Drop(rows, call[r].id)
    /\ IF call[r].fromFs
       THEN call' = Put(call, r, [pc |-> "unlink", path |-> call[r].path])
       ELSE Answer(r)
    /\ UNCHANGED <<nextId, disk, active, task, out, crashes>>

DeleteUnlink(r) ==
    /\ r \in DOMAIN call /\ call[r].pc = "unlink"
    /\ disk' = Drop(disk, call[r].path)
    /\ out' = Orphaned(call[r].path)
    /\ Answer(r)
    /\ UNCHANGED <<rows, nextId, active, task, crashes>>

-----------------------------------------------------------------------------
(* The generator DownloadService.download(id).                             *)

At(w, pc) == w \in DOMAIN task /\ task[w].pc = pc

GoTo(w, pc) == task' = Put(task, w, [task[w] EXCEPT !.pc = pc])

\* findOne.  An absent row throws and ends the generator.  A PENDING row is
\* written from scratch ('w', after an unlink), any other one appended to.
Find(w) ==
    /\ At(w, "find")
    /\ LET id == task[w].id
       IN IF id \notin DOMAIN rows
          THEN EndTask(w)
          ELSE LET row == rows[id]
                   fresh == row.status = "PENDING"
               IN /\ task' = Put(task, w,
                        [pc |-> IF fresh THEN "unlink" ELSE "begin", id |-> id,
                         file |-> row.file, path |-> row.path,
                         offset |-> row.offset, status |-> "IN_PROGRESS"])
                  /\ out' = IF fresh THEN out
                            ELSE Put(out, w, NewStream(row.path, TRUE))
                  /\ UNCHANGED active
    /\ UNCHANGED <<rows, nextId, disk, call, crashes>>

Unlink(w) ==
    /\ At(w, "unlink")
    /\ disk' = Drop(disk, task[w].path)
    /\ out' = Put(Orphaned(task[w].path), w, NewStream(task[w].path, FALSE))
    /\ GoTo(w, "begin")
    /\ UNCHANGED <<rows, nextId, active, call, crashes>>

\* updateWithState wrote IN_PROGRESS; getFileContent is lazy, so the state
\* object enters the map in the same run.
Begin(w) ==
    /\ At(w, "begin")
    /\ Save(task[w], "IN_PROGRESS")
    /\ active' = Put(active, task[w].id, w)
    /\ GoTo(w, "stream")
    /\ UNCHANGED <<nextId, disk, out, call, crashes>>

\* A chunk arrived and the map does not say PAUSED: it is handed to the
\* write stream and counted.  The remote file may have been altered since it
\* was queued: other bytes, or more of them.
Receive(w) ==
    /\ At(w, "stream") /\ ~IsPaused(task[w].id)
    /\ LET t == task[w]
       IN \E c \in {<<t.file, t.offset + 1>>, <<t.file, 0>>} :
            /\ IF c[2] = 0 THEN "alter" \in Ops /\ t.offset <= Size[t.file]
               ELSE t.offset < Size[t.file]
            /\ out' = Put(out, w, [out[w] EXCEPT !.buf = Append(@, c)])
            /\ task' = Put(task, w, [t EXCEPT !.offset = @ + 1])
    /\ UNCHANGED <<rows, nextId, disk, active, call, crashes>>

\* The finally block up to its first await, given the state at its entry.
Finally(w, t) ==
    LET status == FinalStatus(t)
    IN /\ task' = Put(task, w, [t EXCEPT !.pc = "finish", !.status = status])
       /\ active' = IF t.offset = Size[t.file]
                    THEN Drop(active, t.id) ELSE active
       /\ UNCHANGED <<rows, nextId, disk, out, call, crashes>>

\* A chunk arrived and the map says PAUSED: it is discarded.
ReceivePaused(w) ==
    /\ At(w, "stream") /\ IsPaused(task[w].id)
    /\ task[w].offset < Size[task[w].file] \/ "alter" \in Ops
    /\ Finally(w, [task[w] EXCEPT !.status = "PAUSED"])

\* The stream ended, or the connection or the remote peer failed.
StreamStop(w) ==
    /\ At(w, "stream")
    /\ Finally(w, task[w])

\* updateWithState of the finally block.
Finish(w) ==
    /\ At(w, "finish")
    /\ Save(task[w], task[w].status)
    /\ IF task[w].status = "COMPLETED_UNVERIFIED"
       THEN /\ GoTo(w, "checksum")
            /\ UNCHANGED <<active, out>>
       ELSE EndTask(w)
    /\ UNCHANGED <<nextId, disk, call, crashes>>

\* Mutant: a file that is not yet whole is read again and again.
ChecksumRetry(w) ==
    /\ At(w, "checksum") /\ Verified(task[w])
    /\ task' = Put(task, w, [task[w] EXCEPT !.pc = "complete", !.status = "COMPLETED"])
    /\ UNCHANGED <<rows, nextId, disk, active, out, call, crashes>>

\* checksum reads the file by name; a missing file throws, a different one
\* leaves the row as it is.
Checksum(w) ==
    /\ At(w, "checksum")
    /\ IF Verified(task[w])
       THEN /\ task' = Put(task, w, [task[w] EXCEPT !.pc = "complete",
                                                !.status = "COMPLETED"])
            /\ UNCHANGED <<active, out>>
       ELSE EndTask(w)
    /\ UNCHANGED <<rows, nextId, disk, call, crashes>>

Complete(w) ==
    /\ At(w, "complete")
    /\ Save(task[w], "COMPLETED")
    /\ EndTask(w)
    /\ UNCHANGED <<nextId, disk, call, crashes>>

-----------------------------------------------------------------------------
(* fs.WriteStream: opened and written by the thread pool.                  *)

\* open(2) has the flags 'a' or 'w' (O_CREAT | O_TRUNC).
StreamTo(w, stream) ==
    LET streams == Put(out, w, stream)
    IN out' = IF w \in DOMAIN task THEN streams ELSE Left(streams, w)

Open(w) ==
    /\ w \in DOMAIN out /\ out[w].fd = "opening"
    /\ LET p == out[w].path
       IN disk' = Put(disk, p, IF out[w].append /\ p \in DOMAIN disk
                               THEN disk[p] ELSE <<>>)
    /\ StreamTo(w, [out[w] EXCEPT !.fd = "open"])
    /\ UNCHANGED <<rows, nextId, active, task, call, crashes>>

\* Content s after chunk c was written at position i (counted from 0).
WriteAt(s, i, c) ==
    [k \in 1..(IF i < Len(s) THEN Len(s) ELSE i + 1) |->
        IF k = i + 1 THEN c ELSE IF k <= Len(s) THEN s[k] ELSE <<c[1], 0>>]

Written(s, st) ==
    IF st.append THEN Append(s, Head(st.buf)) ELSE WriteAt(s, st.pos, Head(st.buf))

Flush(w) ==
    /\ w \in DOMAIN out /\ out[w].fd # "opening" /\ out[w].buf # <<>>
    /\ out[w].fd = "open" => Len(disk[out[w].path]) < MaxLength
    /\ disk' = IF out[w].fd = "open"
               THEN Put(disk, out[w].path, Written(disk[out[w].path], out[w]))
               ELSE disk
    /\ StreamTo(w, [out[w] EXCEPT !.buf = Tail(@), !.pos = @ + 1])
    /\ UNCHANGED <<rows, nextId, active, task, call, crashes>>

-----------------------------------------------------------------------------
(* The process dies and is started again.  The database and the directory   *)
(* survive; nothing at start-up looks at the rows of `download`.            *)

Crash ==
    /\ "crash" \in Ops /\ crashes < MaxCrashes
    /\ crashes' = crashes + 1
    /\ active' = NoMap /\ task' = NoMap /\ out' = NoMap /\ call' = NoMap
    /\ UNCHANGED <<rows, nextId, disk>>

-----------------------------------------------------------------------------
QueueSteps(r) ==
    QueueDropRow(r) \/ QueueDropFile(r) \/ QueueReserve(r) \/ QueueInsert(r)
CallStep(r) ==
    QueueSteps(r) \/ ResumeMark(r) \/ ResumeSave(r) \/ DeleteRemove(r)
    \/ DeleteUnlink(r)

NewCall(r) ==
    \/ \E f \in Files, override \in BOOLEAN : QueueLookup(r, f, override)
    \/ \E id \in Ids : Pause(r, id) \/ ResumeFind(r, id)
    \/ \E id \in Ids, fromFs \in BOOLEAN : DeleteFind(r, id, fromFs)

TaskStep(w) ==
    \/ Find(w) \/ Unlink(w) \/ Begin(w) \/ Receive(w) \/ ReceivePaused(w)
    \/ StreamStop(w) \/ Finish(w) \/ Checksum(w) \/ Complete(w)

StreamStep(w) == Open(w) \/ Flush(w)

Next ==
    \/ \E r \in Requests : NewCall(r) \/ CallStep(r)
    \/ \E w \in Workers : TaskStep(w) \/ StreamStep(w)
    \/ Crash

Spec == Init /\ [][Next]_vars

\* The event loop runs what is runnable; the remote peer sends the next chunk
\* (every 500 ms), ends the stream or the connection breaks.  Users owe nothing.
Fairness ==
    /\ \A w \in Workers : WF_vars(TaskStep(w)) /\ WF_vars(StreamStep(w))
    /\ \A r \in Requests : WF_vars(CallStep(r))

FairSpec == Spec /\ Fairness

-----------------------------------------------------------------------------
(* Correctness properties.                                                 *)

RowsOK ==
    /\ Maps(rows, Row) /\ DOMAIN rows \subseteq 1..(nextId - 1)
    /\ nextId \in 1..(MaxId + 1)
DiskOK == DOMAIN disk \subseteq Paths /\ Maps(disk, Seq(Chunks))
TaskOK ==
    /\ DOMAIN task \subseteq Workers /\ Maps(task, Task)
    /\ \A w \in DOMAIN task : task[w].id < nextId
ActiveOK ==
    /\ DOMAIN active \subseteq 1..(nextId - 1)
    /\ Maps(active, (Workers \cap DOMAIN task) \cup Status)
    /\ \A id \in DOMAIN active : active[id] \in Workers =>
            task[active[id]].pc \notin {"find", "unlink", "begin"}
OutOK ==
    /\ DOMAIN out \subseteq Workers /\ Maps(out, Stream)
    /\ \A w \in DOMAIN task :
            task[w].pc \notin {"find", "unlink"} => w \in DOMAIN out
    /\ \A w \in DOMAIN out : out[w].fd = "open" => out[w].path \in DOMAIN disk
CallOK ==
    /\ DOMAIN call \subseteq Requests /\ Maps(call, Call)
    /\ \A r \in DOMAIN call :
            call[r].pc \in {"mark", "resume", "dropRow", "remove"}
                => call[r].id < nextId

\* Every variable has the shape the code gives it; the ids in use were handed
\* out by the AUTOINCREMENT counter; the map names only running generators; an
\* open stream that is no orphan has its file in the directory.
TypeOK ==
    /\ RowsOK /\ DiskOK /\ TaskOK /\ ActiveOK /\ OutOK /\ CallOK
    /\ crashes \in 0..MaxCrashes

StatusFits(x) ==
    /\ x.status \in {"COMPLETED_UNVERIFIED", "COMPLETED"}
          => x.offset = Size[x.file]
    /\ x.status \in {"PAUSED", "FAILED"} => x.offset # Size[x.file]

\* A row claims to be fetched exactly when its offset is the size of the
\* file: COMPLETED and COMPLETED_UNVERIFIED only at the end, PAUSED and FAILED
\* never there, however the generators of the row overlap (the finally block).
StatusMatchesOffset == \A id \in DOMAIN rows : StatusFits(rows[id])

\* No two generators work for one download: they would append to one file and
\* save over each other's row.  The code has no lock: only the PAUSED check of
\* resume keeps a second generator from starting.
SingleWriter ==
    \A v, w \in DOMAIN task : task[v].id = task[w].id => v = w

\* While a generator streams, the map holds its own state object, so that a
\* pause reaches it: neither a resume nor the end of another generator may
\* replace or delete the entry.
PauseReachesTask ==
    \A w \in DOMAIN task :
        task[w].pc = "stream" => /\ task[w].id \in DOMAIN active
                                 /\ active[task[w].id] = w

\* A PAUSED row, the only state a resume accepts, has no generator running.
PausedIsQuiet ==
    \A w \in DOMAIN task :
        task[w].id \in DOMAIN rows => rows[task[w].id].status # "PAUSED"

\* A resume in flight that passed, or will pass, its check: the row it read is
\* still PAUSED.  Holds while there is one user; two resumes at once break it.
ResumeIsFresh ==
    \A r \in DOMAIN call :
        (call[r].pc \in {"mark", "resume"} /\ Resumable(call[r].row)) =>
            /\ call[r].id \in DOMAIN rows
            /\ rows[call[r].id].status = "PAUSED"

\* A resume never starts a second generator: a PAUSED row has none, and the row
\* a resume has read before an await is still PAUSED when it acts on it.
ResumeIsSafe == PausedIsQuiet /\ ResumeIsFresh

\* The users send one request at a time.
OneUser == \A q, r \in Requests : q = r

\* A file is in the download list at most once until it is completed
\* (findOneByChecksumAndInProgress is asked before every insert).
UniqueUnfinished == \A f \in Files : Cardinality(UnfinishedRows(f)) <= 1

\* A COMPLETED download's file is on disk, whole, in order and unaltered, and
\* stays so: through pauses, resumes, restarts, a changed remote file and
\* write streams that are still flushing when the row is saved.
CompletedIsWhole ==
    \A id \in DOMAIN rows :
        rows[id].status = "COMPLETED" =>
            /\ rows[id].path \in DOMAIN disk
            /\ disk[rows[id].path] = Content(rows[id].file)

\* A state object that says IN_PROGRESS, the only one pause accepts, belongs to
\* a generator that runs or is about to be started by a resume.
ActiveIsLive ==
    \A id \in DOMAIN active :
        ActiveStatus(id) = "IN_PROGRESS" =>
            \/ \E w \in DOMAIN task : task[w].id = id
            \/ \E r \in DOMAIN call : call[r].pc = "resume" /\ call[r].id = id

\* A generator never goes back and never skips: the offset it saves is at least
\* the one the row had, and a row keeps its file and its path for ever.
RowsAdvance ==
    [][\A id \in DOMAIN rows \cap DOMAIN rows' :
        /\ rows'[id].file = rows[id].file /\ rows'[id].path = rows[id].path
        /\ rows'[id].offset >= rows[id].offset]_vars

\* What a user of the download list relies on: the life of a row.
Lifecycle == INSTANCE DownloadLifecycle WITH
    table <- [id \in DOMAIN rows |-> [file |-> rows[id].file,
                                       offset |-> rows[id].offset,
                                       status |-> rows[id].status]]

RowsFollowLifecycle == Lifecycle!Spec

\* Every generator ends, whatever the remote peer does short of going silent on
\* an open connection.
EveryTaskEnds == \A w \in Workers : (w \in DOMAIN task) ~> (w \notin DOMAIN task)

\* A download listed as running or queued does not stay so for ever.
InProgressSettles ==
    \A id \in Ids :
        (id \in DOMAIN rows /\ rows[id].status \in {"PENDING", "IN_PROGRESS"})
            ~> ~(id \in DOMAIN rows /\ rows[id].status \in {"PENDING", "IN_PROGRESS"})

\* A pause accepted from a generator that streams ends with the row PAUSED, or
\* with everything fetched.  (A pause accepted between resume and the
\* generator's first save is lost: Begin puts a new object in the map.)
PauseTakesEffect ==
    \A id \in Ids :
        (IsPaused(id) /\ active[id] \in Workers) ~> (id \in DOMAIN rows /\ rows[id].status \in
                         {"PAUSED", "COMPLETED_UNVERIFIED", "COMPLETED"})
=============================================================================
