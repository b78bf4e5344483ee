---------------------------- MODULE DownloadProofs ----------------------------
(***************************************************************************)
(* Proofs about Download, for any files, workers and bounds.               *)
(***************************************************************************)
EXTENDS Download, TLAPS

(***************************************************************************)
(* What the map helpers do.                                                *)
(***************************************************************************)
LEMMA PutMaps ==
    ASSUME NEW m, NEW S, NEW k, NEW v \in S, Maps(m, S)
    PROVE  Maps(Put(m, k, v), S)
BY DEF Put, Maps

LEMMA DropMaps ==
    ASSUME NEW m, NEW S, NEW k, Maps(m, S)
    PROVE  Maps(Drop(m, k), S)
BY DEF Drop, Maps

LEMMA NoMapFacts == DOMAIN NoMap = {} /\ \A S : Maps(NoMap, S)
BY DEF NoMap, Maps

\* Dropping the stream of an ended generator drops nothing else.
LEMMA LeftFacts ==
    ASSUME NEW m, NEW w
    PROVE  /\ DOMAIN Left(m, w) \subseteq DOMAIN m
           /\ \A x \in DOMAIN m : x # w => x \in DOMAIN Left(m, w)
           /\ \A x \in DOMAIN Left(m, w) : Left(m, w)[x] = m[x]
BY DEF Drop, Left

\* An unlink changes no stream but the state of its descriptor.
LEMMA OrphanedFacts ==
    ASSUME Maps(out, Stream), NEW p
    PROVE  /\ DOMAIN Orphaned(p) = DOMAIN out
           /\ Maps(Orphaned(p), Stream)
           /\ \A w \in DOMAIN out :
                Orphaned(p)[w].fd = "open" =>
                    /\ out[w].fd = "open" /\ out[w].path # p
                    /\ Orphaned(p)[w].path = out[w].path
<1> DEFINE o == Orphaned(p)
<1>1. DOMAIN o = DOMAIN out
  BY DEF Orphaned
<1>2. ASSUME NEW w \in DOMAIN out
      PROVE  /\ o[w] \in Stream
             /\ o[w].fd = "open" => out[w].fd = "open" /\ out[w].path # p
                                    /\ o[w].path = out[w].path
  <2>1. out[w] \in Stream
    BY DEF Maps
  <2>2. o[w] = IF out[w].path = p /\ out[w].fd = "open"
               THEN [out[w] EXCEPT !.fd = "orphan"] ELSE out[w]
    BY DEF Orphaned
  <2> QED BY <2>1, <2>2 DEF Stream
<1> QED BY <1>1, <1>2 DEF Maps

(***************************************************************************)
(* Updates of the records.                                                 *)
(***************************************************************************)
LEMMA TaskUpdate ==
    ASSUME NEW t \in Task, t.pc # "find",
           NEW pc \in {"unlink", "begin", "stream", "finish", "checksum", "complete"},
           NEW status \in Status, NEW offset \in Nat
    PROVE  /\ t.id \in Ids /\ t.file \in Files /\ t.path \in Paths
           /\ t.offset \in Nat /\ t.status \in Status
           /\ [t EXCEPT !.pc = pc] \in Task
           /\ [t EXCEPT !.pc = pc].id = t.id
           /\ [t EXCEPT !.status = status] \in Task
           /\ [t EXCEPT !.status = status].pc = t.pc
           /\ [t EXCEPT !.status = status].id = t.id
           /\ [t EXCEPT !.offset = offset] \in Task
           /\ [t EXCEPT !.pc = pc, !.status = status] \in Task
           /\ [t EXCEPT !.pc = pc, !.status = status].id = t.id
BY DEF Task

LEMMA IdsAreNat == \A id \in Ids : id \in Nat /\ id >= 1 /\ id <= MaxId
BY DownloadAssumption DEF Ids

LEMMA TaskId == ASSUME NEW t \in Task PROVE t.id \in Ids
BY DEF Task

LEMMA CallFields ==
    ASSUME NEW c \in Call
    PROVE  /\ c.pc = "dropRow" => c.id \in Ids /\ c.path \in Paths /\ c.file \in Files
           /\ c.pc = "dropFile" => c.path \in Paths /\ c.file \in Files
           /\ c.pc = "reserve" => c.file \in Files
           /\ c.pc = "insert" => c.file \in Files /\ c.path \in Paths
           /\ c.pc \in {"mark", "resume"} => c.id \in Ids /\ c.row \in Row
           /\ c.pc = "remove" => c.id \in Ids /\ c.path \in Paths
           /\ c.pc = "unlink" => c.path \in Paths
           /\ c.pc = "mark" => [c EXCEPT !.pc = "resume"] \in Call
BY DEF Call

LEMMA InitType == Init => TypeOK
BY DownloadAssumption, NoMapFacts
   DEF Init, TypeOK, RowsOK, DiskOK, TaskOK, ActiveOK, OutOK, CallOK, Ids

(***************************************************************************)
(* Steps that several actions share.                                       *)
(***************************************************************************)

\* A running generator's record is replaced by one for the same download.
LEMMA UpdateTaskType ==
    ASSUME TypeOK, NEW w \in DOMAIN task, NEW t \in Task, t.id = task[w].id,
           task' = Put(task, w, t), nextId' = nextId
    PROVE  /\ TaskOK'
           /\ (/\ \/ t.pc \notin {"find", "unlink", "begin"}
                  \/ task[w].pc \in {"find", "unlink", "begin"}
               /\ active' = active) => ActiveOK'
           /\ (/\ \/ t.pc \in {"find", "unlink"} \/ w \in DOMAIN out
               /\ UNCHANGED <<out, disk>>) => OutOK'
<1> USE DEF TypeOK
<1>0. DOMAIN task \cup {w} = DOMAIN task
  OBVIOUS
<1>1. /\ DOMAIN task' = DOMAIN task /\ task'[w] = t
      /\ \A x \in DOMAIN task : x # w => task'[x] = task[x]
  BY <1>0 DEF Put
<1>2. TaskOK'
  BY <1>1, PutMaps DEF TaskOK
<1>3. ASSUME \/ t.pc \notin {"find", "unlink", "begin"}
             \/ task[w].pc \in {"find", "unlink", "begin"},
             active' = active
      PROVE  ActiveOK'
  <2>1. Maps(active', (Workers \cap DOMAIN task') \cup Status)
    BY <1>1, <1>3 DEF ActiveOK
  <2>2. ASSUME NEW id \in DOMAIN active, active[id] \in Workers
        PROVE  task'[active[id]].pc \notin {"find", "unlink", "begin"}
    <3>1. active[id] \in DOMAIN task
      BY <2>2, DownloadAssumption DEF ActiveOK, Maps
    <3>2. task[active[id]].pc \notin {"find", "unlink", "begin"}
      BY <2>2 DEF ActiveOK
    <3> QED BY <1>1, <1>3, <3>1, <3>2
  <2> QED BY <1>3, <2>1, <2>2 DEF ActiveOK
<1>4. ASSUME t.pc \in {"find", "unlink"} \/ w \in DOMAIN out,
             UNCHANGED <<out, disk>>
      PROVE  OutOK'
  BY <1>1, <1>4 DEF OutOK
<1> QED BY <1>2, <1>3, <1>4

\* A generator ends.
LEMMA EndTaskType ==
    ASSUME TypeOK, NEW w \in DOMAIN task, EndTask(w), nextId' = nextId
    PROVE  TaskOK' /\ ActiveOK' /\ (disk' = disk => OutOK')
<1> USE DEF TypeOK
<1>1. /\ DOMAIN task' = DOMAIN task \ {w}
      /\ \A x \in DOMAIN task \ {w} : task'[x] = task[x]
  BY DEF Drop, EndTask
<1>2. TaskOK'
  BY <1>1, DropMaps DEF TaskOK, EndTask
<1>3. ActiveOK'
  <2>1. DOMAIN active' = DOMAIN active
    BY DEF EndTask
  <2>2. ASSUME NEW id \in DOMAIN active'
        PROVE  /\ active'[id] \in (Workers \cap DOMAIN task') \cup Status
               /\ active'[id] \in Workers =>
                    task'[active'[id]].pc \notin {"find", "unlink", "begin"}
    <3>1. CASE active[id] = w
      <4>1. task[w].pc \notin {"find", "unlink", "begin"}
        BY <2>1, <2>2, <3>1 DEF ActiveOK, TaskOK
      <4>2. task[w].status \in Status
        BY <4>1 DEF TaskOK, Maps, Task
      <4>3. active'[id] = task[w].status
        BY <2>1, <2>2, <3>1 DEF EndTask
      <4> QED BY <4>2, <4>3, DownloadAssumption
    <3>2. CASE active[id] # w
      <4>1. active'[id] = active[id]
        BY <2>1, <2>2, <3>2 DEF EndTask
      <4>2. active[id] \in (Workers \cap DOMAIN task) \cup Status
        BY <2>1, <2>2 DEF ActiveOK, Maps
      <4> QED BY <1>1, <2>1, <2>2, <3>2, <4>1, <4>2, DownloadAssumption DEF ActiveOK
    <3> QED BY <3>1, <3>2
  <2> QED BY <2>1, <2>2 DEF ActiveOK, Maps
<1>4. ASSUME disk' = disk PROVE OutOK'
  <2>1. out' = Left(out, w)
    BY DEF EndTask
  <2> QED BY <1>1, <1>4, <2>1, LeftFacts DEF OutOK, TaskOK, Maps
<1> QED BY <1>2, <1>3, <1>4

\* A generator is launched for an id that was handed out.
LEMMA LaunchType ==
    ASSUME TypeOK, NEW w \in Workers, NEW id \in Ids, Launch(w, id),
           id < nextId', nextId' >= nextId, nextId' \in Nat
    PROVE  /\ TaskOK'
           /\ active' = active => ActiveOK'
           /\ UNCHANGED <<out, disk>> => OutOK'
<1> DEFINE t == [pc |-> "find", id |-> id]
<1> USE DEF TypeOK
<1>0. w \notin DOMAIN task /\ task' = Put(task, w, t)
  BY DEF Launch
<1>1. /\ DOMAIN task' = DOMAIN task \cup {w} /\ task'[w] = t
      /\ \A x \in DOMAIN task : task'[x] = task[x] /\ x # w
  BY <1>0 DEF Put
<1>2. t \in Task
  BY DEF Task
<1>3. Maps(task', Task)
  BY <1>2, PutMaps DEF Launch, TaskOK
<1>4. \A x \in DOMAIN task : task[x].id \in Nat
  BY TaskId DEF TaskOK, Maps, Ids
<1>5. nextId \in Nat
  BY DownloadAssumption DEF RowsOK
<1>6. TaskOK'
  BY <1>1, <1>3, <1>4, <1>5 DEF TaskOK
<1>7. ASSUME active' = active PROVE ActiveOK'
  BY <1>1, <1>5, <1>7, DownloadAssumption DEF ActiveOK, Maps
<1>8. ASSUME UNCHANGED <<out, disk>> PROVE OutOK'
  BY <1>1, <1>8 DEF OutOK
<1> QED BY <1>6, <1>7, <1>8

\* A request's record is replaced, or the request is answered.
LEMMA CallType ==
    ASSUME TypeOK, NEW r \in Requests, nextId' >= nextId, nextId' \in Nat,
           \/ Answer(r)
           \/ \E c \in Call : /\ call' = Put(call, r, c)
                              /\ c.pc \in {"mark", "resume", "dropRow", "remove"}
                                    => c.id < nextId
    PROVE  CallOK'
<1>1. nextId \in Nat
  BY DownloadAssumption DEF TypeOK, RowsOK
<1>2. \A x \in DOMAIN call : call[x].pc \in {"mark", "resume", "dropRow", "remove"}
                              => call[x].id \in Nat
  BY CallFields, IdsAreNat DEF TypeOK, CallOK, Maps
<1>3. CASE Answer(r)
  <2>1. Maps(call', Call)
    BY <1>3, DropMaps DEF Answer, TypeOK, CallOK
  <2>2. /\ DOMAIN call' \subseteq DOMAIN call
        /\ \A x \in DOMAIN call' : call'[x] = call[x]
    BY <1>3 DEF Answer, Drop
  <2> QED BY <1>1, <1>2, <2>1, <2>2 DEF TypeOK, CallOK
<1>4. ASSUME NEW c \in Call, call' = Put(call, r, c),
             c.pc \in {"mark", "resume", "dropRow", "remove"} => c.id < nextId
      PROVE  CallOK'
  <2>1. c.pc \in {"mark", "resume", "dropRow", "remove"} => c.id \in Nat
    BY <1>4, CallFields, IdsAreNat
  <2>2. Maps(call', Call)
    BY <1>4, PutMaps DEF TypeOK, CallOK
  <2>3. /\ DOMAIN call' = DOMAIN call \cup {r} /\ call'[r] = c
        /\ \A x \in DOMAIN call : x # r => call'[x] = call[x]
    BY <1>4 DEF Put
  <2> QED BY <1>1, <1>2, <1>4, <2>1, <2>2, <2>3 DEF TypeOK, CallOK
<1> QED BY <1>3, <1>4

\* A path is unlinked.
LEMMA UnlinkType ==
    ASSUME TypeOK, NEW p, disk' = Drop(disk, p)
    PROVE  DiskOK' /\ (out' = Orphaned(p) /\ task' = task => OutOK')
<1>1. DiskOK'
  BY DropMaps DEF Drop, TypeOK, DiskOK
<1>2. ASSUME out' = Orphaned(p), task' = task PROVE OutOK'
  BY <1>2, OrphanedFacts DEF Drop, TypeOK, OutOK
<1> QED BY <1>1, <1>2

\* The generator's entity is saved.
LEMMA SaveType ==
    ASSUME TypeOK, NEW w \in DOMAIN task, task[w].pc # "find",
           NEW status \in Status, Save(task[w], status), nextId' = nextId
    PROVE  RowsOK'
<1> DEFINE t == task[w]
           row == [file |-> t.file, path |-> t.path, offset |-> t.offset,
                   status |-> status]
<1>1. t \in Task /\ t.id < nextId
  BY DEF TypeOK, TaskOK, Maps
<1>2. row \in Row
  BY <1>1, TaskUpdate DEF Row
<1>3. t.id \in 1..(nextId - 1)
  BY <1>1, TaskId, DownloadAssumption DEF Ids, TypeOK, RowsOK
<1>4. rows' = Put(rows, t.id, row)
  BY DEF Save
<1>5. Maps(rows', Row)
  BY <1>2, <1>4, PutMaps DEF TypeOK, RowsOK
<1>6. DOMAIN rows' = DOMAIN rows \cup {t.id}
  BY <1>4 DEF Put
<1> QED BY <1>3, <1>5, <1>6 DEF TypeOK, RowsOK

(***************************************************************************)
(* Every action keeps the types.  A conjunct is kept when none of the       *)
(* variables it reads changes.                                             *)
(***************************************************************************)
LEMMA Kept ==
    ASSUME TypeOK
    PROVE  /\ UNCHANGED <<rows, nextId>> => RowsOK'
           /\ UNCHANGED disk => DiskOK'
           /\ UNCHANGED <<task, nextId>> => TaskOK'
           /\ UNCHANGED <<active, task, nextId>> => ActiveOK'
           /\ UNCHANGED <<out, task, disk>> => OutOK'
           /\ UNCHANGED <<call, nextId>> => CallOK'
           /\ nextId \in Nat
BY DownloadAssumption
   DEF TypeOK, RowsOK, DiskOK, TaskOK, ActiveOK, OutOK, CallOK, Maps

LEMMA QueueType ==
    ASSUME TypeOK, NEW r \in Requests,
           (\E f \in Files, override \in BOOLEAN : QueueLookup(r, f, override))
           \/ QueueSteps(r)
    PROVE  TypeOK'
<1>1. ASSUME NEW f \in Files, NEW override \in BOOLEAN,
             QueueLookup(r, f, override)
      PROVE  TypeOK'
  <2>1. CASE call' = Put(call, r, [pc |-> "reserve", file |-> f])
    <3>1. [pc |-> "reserve", file |-> f] \in Call
      BY DEF Call
    <3>2. CallOK'
      BY <1>1, <2>1, <3>1, Kept, CallType DEF QueueLookup
    <3> QED BY <1>1, <3>2, Kept DEF QueueLookup, TypeOK
  <2>2. ASSUME NEW id \in UnfinishedRows(f),
               call' = Put(call, r, [pc |-> "dropRow", id |-> id,
                                     path |-> rows[id].path, file |-> f])
        PROVE  TypeOK'
    <3>1. id \in DOMAIN rows /\ rows[id] \in Row /\ id \in Ids /\ id < nextId
      BY DownloadAssumption DEF UnfinishedRows, TypeOK, RowsOK, Maps, Ids
    <3>2. [pc |-> "dropRow", id |-> id, path |-> rows[id].path, file |-> f] \in Call
      BY <3>1 DEF Call, Row
    <3>3. CallOK'
      BY <1>1, <2>2, <3>1, <3>2, Kept, CallType DEF QueueLookup
    <3> QED BY <1>1, <3>3, Kept DEF QueueLookup, TypeOK
  <2> QED BY <1>1, <2>1, <2>2 DEF QueueLookup
<1>2. CASE QueueDropRow(r)
  <2>1. call[r] \in Call
    BY <1>2 DEF QueueDropRow, TypeOK, CallOK, Maps
  <2>2. [pc |-> "dropFile", path |-> call[r].path, file |-> call[r].file] \in Call
    BY <1>2, <2>1, CallFields DEF QueueDropRow, Call
  <2>3. CallOK'
    BY <1>2, <2>2, Kept, CallType DEF QueueDropRow
  <2>4. RowsOK'
    BY <1>2, DropMaps DEF QueueDropRow, TypeOK, RowsOK, Drop
  <2> QED BY <1>2, <2>3, <2>4, Kept DEF QueueDropRow, TypeOK
<1>3. CASE QueueDropFile(r)
  <2>1. call[r] \in Call
    BY <1>3 DEF QueueDropFile, TypeOK, CallOK, Maps
  <2>2. [pc |-> "reserve", file |-> call[r].file] \in Call
    BY <1>3, <2>1, CallFields DEF QueueDropFile, Call
  <2>3. CallOK'
    BY <1>3, <2>2, Kept, CallType DEF QueueDropFile
  <2>4. DiskOK' /\ OutOK'
    BY <1>3, UnlinkType DEF QueueDropFile
  <2> QED BY <1>3, <2>3, <2>4, Kept DEF QueueDropFile, TypeOK
<1>4. CASE QueueReserve(r)
  <2> DEFINE f == call[r].file
  <2>1. f \in Files
    BY <1>4, CallFields DEF QueueReserve, TypeOK, CallOK, Maps
  <2>2. PICK n \in 0..MaxIndex :
            /\ disk' = Put(disk, <<Name[f], n>>, <<>>)
            /\ call' = Put(call, r, [pc |-> "insert", file |-> f,
                                     path |-> <<Name[f], n>>])
    BY <1>4 DEF QueueReserve
  <2>3. <<Name[f], n>> \in Paths
    BY <2>1, DownloadAssumption DEF Paths
  <2>4. [pc |-> "insert", file |-> f, path |-> <<Name[f], n>>] \in Call
    BY <2>1, <2>3 DEF Call
  <2>5. CallOK'
    <3>1. nextId' >= nextId /\ nextId' \in Nat
      BY <1>4, Kept DEF QueueReserve
    <3> QED BY <2>2, <2>4, <3>1, CallType
  <2>6. <<>> \in Seq(Chunks)
    OBVIOUS
  <2>7. DOMAIN disk' = DOMAIN disk \cup {<<Name[f], n>>}
    BY <2>2 DEF Put
  <2>8. DiskOK'
    BY <2>2, <2>3, <2>6, <2>7, PutMaps DEF TypeOK, DiskOK
  <2>9. OutOK'
    BY <1>4, <2>7 DEF QueueReserve, TypeOK, OutOK
  <2> QED BY <1>4, <2>5, <2>8, <2>9, Kept DEF QueueReserve, TypeOK
<1>5. CASE QueueInsert(r)
  <2> DEFINE row == [file |-> call[r].file, path |-> call[r].path,
                     offset |-> 0, status |-> "PENDING"]
  <2>1. row \in Row
    BY <1>5, CallFields DEF QueueInsert, TypeOK, CallOK, Maps, Row, Status
  <2>2. /\ nextId \in Ids /\ nextId' = nextId + 1 /\ rows' = Put(rows, nextId, row)
    BY <1>5, DownloadAssumption DEF QueueInsert, TypeOK, RowsOK, Ids
  <2>3. Maps(rows', Row)
    BY <2>1, <2>2, PutMaps DEF TypeOK, RowsOK
  <2>4. DOMAIN rows' = DOMAIN rows \cup {nextId}
    BY <2>2 DEF Put
  <2>5. RowsOK'
    BY <2>2, <2>3, <2>4, DownloadAssumption DEF TypeOK, RowsOK, Ids
  <2>6. PICK w \in Workers : Launch(w, nextId)
    BY <1>5 DEF QueueInsert
  <2>7. TaskOK' /\ ActiveOK' /\ OutOK'
    BY <1>5, <2>2, <2>6, Kept, LaunchType DEF QueueInsert
  <2>8. CallOK'
    <3>1. nextId' >= nextId /\ nextId' \in Nat
      BY <2>2, IdsAreNat
    <3>2. Answer(r)
      BY <1>5 DEF QueueInsert
    <3> QED BY <3>1, <3>2, CallType
  <2> QED BY <1>5, <2>5, <2>7, <2>8, Kept DEF QueueInsert, TypeOK
<1> QED BY <1>1, <1>2, <1>3, <1>4, <1>5 DEF QueueSteps

LEMMA PauseType ==
    ASSUME TypeOK, NEW r \in Requests, NEW id \in Ids, Pause(r, id)
    PROVE  TypeOK'
<1>1. CASE active[id] \in Workers
  <2> DEFINE w == active[id]
             t == [task[w] EXCEPT !.status = "PAUSED"]
  <2>1. w \in DOMAIN task /\ task[w].pc \notin {"find", "unlink", "begin"}
    BY <1>1, DownloadAssumption DEF Pause, TypeOK, ActiveOK, Maps
  <2>2. task[w] \in Task
    BY <2>1 DEF TypeOK, TaskOK, Maps
  <2>3. "PAUSED" \in Status /\ task[w].pc # "find"
    BY <2>1 DEF Status
  <2>4. /\ t \in Task /\ t.id = task[w].id /\ t.pc = task[w].pc
    BY <2>2, <2>3 DEF Task
  <2>5. w \in DOMAIN out
    BY <2>1 DEF TypeOK, OutOK
  <2>6. task' = Put(task, w, t) /\ UNCHANGED <<rows, nextId, disk, active, out, call, crashes>>
    BY <1>1 DEF Pause
  <2>7. TaskOK' /\ ActiveOK' /\ OutOK'
    BY <2>1, <2>4, <2>5, <2>6, UpdateTaskType
  <2> QED BY <2>6, <2>7, Kept DEF TypeOK
<1>2. CASE active[id] \notin Workers
  <2>1. active' = Put(active, id, "PAUSED") /\ id \in DOMAIN active
    BY <1>2 DEF Pause
  <2>2. "PAUSED" \in Status
    BY DEF Status
  <2>3. ActiveOK'
    BY <2>1, <2>2, DownloadAssumption DEF Pause, TypeOK, ActiveOK, Maps, Put
  <2> QED BY <1>2, <2>3, Kept DEF Pause, TypeOK
<1> QED BY <1>1, <1>2

LEMMA ResumeType ==
    ASSUME TypeOK, NEW r \in Requests,
           (\E id \in Ids : ResumeFind(r, id)) \/ ResumeMark(r) \/ ResumeSave(r)
    PROVE  TypeOK'
<1>1. ASSUME NEW id \in Ids, ResumeFind(r, id) PROVE TypeOK'
  <2> DEFINE c == [pc |-> "mark", id |-> id, row |-> rows[id]]
  <2>1. rows[id] \in Row /\ id < nextId
    BY <1>1, DownloadAssumption DEF ResumeFind, TypeOK, RowsOK, Maps, Ids
  <2>2. c \in Call
    BY <2>1 DEF Call
  <2>3. CallOK'
    BY <1>1, <2>1, <2>2, Kept, CallType DEF ResumeFind
  <2> QED BY <1>1, <2>3, Kept DEF ResumeFind, TypeOK
<1>2. CASE ResumeMark(r)
  <2>1. call[r] \in Call /\ call[r].id < nextId /\ call[r].pc = "mark"
    BY <1>2 DEF ResumeMark, TypeOK, CallOK, Maps
  <2>2. CASE Resumable(call[r].row)
    <3> DEFINE c == [call[r] EXCEPT !.pc = "resume"]
    <3>1. c \in Call /\ c.id = call[r].id /\ call[r].id \in Ids
      BY <2>1 DEF Call
    <3>2. call' = Put(call, r, c) /\ active' = Put(active, call[r].id, "IN_PROGRESS")
      BY <1>2, <2>2 DEF ResumeMark
    <3>3. CallOK'
      <4>1. nextId' >= nextId /\ nextId' \in Nat
        BY <1>2, Kept DEF ResumeMark
      <4> HIDE DEF c
      <4> QED BY <2>1, <3>1, <3>2, <4>1, CallType
    <3>4. "IN_PROGRESS" \in Status
      BY DEF Status
    <3>5. UNCHANGED <<task, nextId>>
      BY <1>2 DEF ResumeMark
    <3>6. call[r].id \in 1..(nextId - 1)
      BY <2>1, <3>1, IdsAreNat, Kept
    <3>7. ActiveOK'
      BY <3>2, <3>4, <3>5, <3>6, DownloadAssumption
         DEF TypeOK, ActiveOK, Maps, Put
    <3> QED BY <1>2, <3>3, <3>7, Kept DEF ResumeMark, TypeOK
  <2>3. CASE ~Resumable(call[r].row)
    <3>0. Answer(r) /\ nextId' = nextId /\ nextId' >= nextId /\ nextId' \in Nat
      BY <1>2, <2>3, Kept DEF ResumeMark
    <3>1. CallOK'
      BY <3>0, CallType
    <3> QED BY <1>2, <2>3, <3>1, Kept DEF ResumeMark, TypeOK
  <2> QED BY <2>2, <2>3
<1>3. CASE ResumeSave(r)
  <2> DEFINE id == call[r].id
             row == [call[r].row EXCEPT !.status = "IN_PROGRESS"]
  <2>1. call[r] \in Call /\ id < nextId /\ call[r].pc = "resume"
    BY <1>3 DEF ResumeSave, TypeOK, CallOK, Maps
  <2>2. id \in Ids /\ row \in Row /\ id \in 1..(nextId - 1)
    <3>1. id \in Ids /\ call[r].row \in Row
      BY <2>1, CallFields
    <3>2. row \in Row
      BY <3>1 DEF Row, Status
    <3> QED BY <2>1, <3>1, <3>2, IdsAreNat, Kept
  <2>3. rows' = Put(rows, id, row) /\ UNCHANGED <<nextId, disk, active, out, crashes>>
    BY <1>3 DEF ResumeSave
  <2>4. Maps(rows', Row)
    BY <2>2, <2>3, PutMaps DEF TypeOK, RowsOK
  <2>5. DOMAIN rows' = DOMAIN rows \cup {id}
    BY <2>3 DEF Put
  <2>6. RowsOK'
    BY <2>2, <2>3, <2>4, <2>5 DEF TypeOK, RowsOK
  <2>7. PICK w \in Workers : Launch(w, id)
    BY <1>3 DEF ResumeSave
  <2>8. nextId' = nextId /\ nextId' >= nextId /\ nextId' \in Nat
    BY <2>3, Kept
  <2>9. TaskOK' /\ ActiveOK' /\ OutOK'
    BY <2>1, <2>2, <2>3, <2>7, <2>8, LaunchType
  <2>10. CallOK'
    BY <1>3, <2>8, CallType DEF ResumeSave
  <2> QED BY <2>3, <2>6, <2>9, <2>10, Kept DEF TypeOK
<1> QED BY <1>1, <1>2, <1>3

LEMMA DeleteType ==
    ASSUME TypeOK, NEW r \in Requests,
           \/ \E id \in Ids, fromFs \in BOOLEAN : DeleteFind(r, id, fromFs)
           \/ DeleteRemove(r) \/ DeleteUnlink(r)
    PROVE  TypeOK'
<1>1. ASSUME NEW id \in Ids, NEW fromFs \in BOOLEAN, DeleteFind(r, id, fromFs)
      PROVE  TypeOK'
  <2> DEFINE c == [pc |-> "remove", id |-> id, path |-> rows[id].path,
                   fromFs |-> fromFs]
  <2>1. rows[id] \in Row /\ id < nextId
    BY <1>1, DownloadAssumption DEF DeleteFind, TypeOK, RowsOK, Maps, Ids
  <2>2. c \in Call
    BY <2>1 DEF Call, Row
  <2>3. CallOK'
    BY <1>1, <2>1, <2>2, Kept, CallType DEF DeleteFind
  <2> QED BY <1>1, <2>3, Kept DEF DeleteFind, TypeOK
<1>2. CASE DeleteRemove(r)
  <2> DEFINE c == [pc |-> "unlink", path |-> call[r].path]
  <2>1. call[r] \in Call
    BY <1>2 DEF DeleteRemove, TypeOK, CallOK, Maps
  <2>2. c \in Call
    BY <1>2, <2>1, CallFields DEF DeleteRemove, Call
  <2>3. Answer(r) \/ call' = Put(call, r, c)
    BY <1>2 DEF DeleteRemove
  <2>4. CallOK'
    BY <1>2, <2>2, <2>3, Kept, CallType DEF DeleteRemove
  <2>5. RowsOK'
    BY <1>2, DropMaps DEF DeleteRemove, TypeOK, RowsOK, Drop
  <2> QED BY <1>2, <2>4, <2>5, Kept DEF DeleteRemove, TypeOK
<1>3. CASE DeleteUnlink(r)
  <2>1. DiskOK' /\ OutOK'
    BY <1>3, UnlinkType DEF DeleteUnlink
  <2>2. CallOK'
    BY <1>3, Kept, CallType DEF DeleteUnlink
  <2> QED BY <1>3, <2>1, <2>2, Kept DEF DeleteUnlink, TypeOK
<1> QED BY <1>1, <1>2, <1>3

\* A generator at some pc has a record, and past "find" a complete one.
LEMMA AtFacts ==
    ASSUME TypeOK, NEW w, NEW pc, At(w, pc)
    PROVE  /\ w \in DOMAIN task /\ w \in Workers /\ task[w] \in Task
           /\ task[w].pc = pc /\ task[w].id \in Ids /\ task[w].id < nextId
           /\ task[w].id \in 1..(nextId - 1)
           /\ pc \notin {"find", "unlink"} => (w \in DOMAIN out /\ out[w] \in Stream)
<1>1. w \in DOMAIN task /\ w \in Workers /\ task[w] \in Task /\ task[w].pc = pc
      /\ task[w].id < nextId
  BY DEF At, TypeOK, TaskOK, Maps
<1>2. task[w].id \in Ids
  BY <1>1, TaskId
<1>3. pc \notin {"find", "unlink"} => (w \in DOMAIN out /\ out[w] \in Stream)
  BY <1>1 DEF TypeOK, OutOK, Maps
<1> QED BY <1>1, <1>2, <1>3, IdsAreNat, Kept

\* A stream is put in a slot: the new one of a generator, or an update.
LEMMA PutStreamType ==
    ASSUME TypeOK, NEW w \in Workers, NEW st \in Stream, NEW o,
           DOMAIN o \subseteq Workers, Maps(o, Stream),
           \A x \in DOMAIN task : task[x].pc \notin {"find", "unlink"} => x \in DOMAIN o,
           \A x \in DOMAIN o : o[x].fd = "open" => o[x].path \in DOMAIN disk',
           st.fd = "open" => st.path \in DOMAIN disk',
           out' = Put(o, w, st),
           \A x \in DOMAIN task' : task'[x].pc \in {"find", "unlink"} \/ x = w
                                   \/ (x \in DOMAIN task /\ task'[x].pc = task[x].pc)
    PROVE  OutOK'
<1>1. Maps(out', Stream)
  BY PutMaps
<1>2. /\ DOMAIN out' = DOMAIN o \cup {w} /\ out'[w] = st
      /\ \A x \in DOMAIN o : x # w => out'[x] = o[x]
  BY DEF Put
<1> QED BY <1>1, <1>2 DEF OutOK

LEMMA NewStreamType ==
    ASSUME NEW p \in Paths, NEW append \in BOOLEAN
    PROVE  NewStream(p, append) \in Stream /\ NewStream(p, append).fd = "opening"
<1>1. <<>> \in Seq(Chunks)
  OBVIOUS
<1> QED BY <1>1 DEF NewStream, Stream

LEMMA FindType ==
    ASSUME TypeOK, NEW w \in Workers, Find(w)
    PROVE  TypeOK'
<1> DEFINE id == task[w].id
<1>1. At(w, "find") /\ UNCHANGED <<rows, nextId, disk, call, crashes>>
  BY DEF Find
<1>2. w \in DOMAIN task /\ task[w].pc = "find" /\ id \in Ids
  BY <1>1, AtFacts
<1>3. CASE id \notin DOMAIN rows
  <2>1. EndTask(w)
    BY <1>3 DEF Find
  <2> QED BY <1>1, <1>2, <2>1, EndTaskType, Kept DEF TypeOK
<1>4. CASE id \in DOMAIN rows
  <2> DEFINE row == rows[id]
             fresh == row.status = "PENDING"
             t == [pc |-> IF fresh THEN "unlink" ELSE "begin", id |-> id,
                   file |-> row.file, path |-> row.path,
                   offset |-> row.offset, status |-> "IN_PROGRESS"]
             st == NewStream(row.path, TRUE)
  <2>1. row \in Row
    BY <1>4 DEF TypeOK, RowsOK, Maps
  <2>2. /\ t \in Task /\ t.id = id
        /\ t.pc = IF fresh THEN "unlink" ELSE "begin"
    BY <1>2, <2>1 DEF Task, Row, Status
  <2>3. /\ task' = Put(task, w, t) /\ active' = active
        /\ out' = IF fresh THEN out ELSE Put(out, w, st)
    BY <1>4 DEF Find
  <2> HIDE DEF t
  <2>4. TaskOK' /\ ActiveOK'
    BY <1>1, <1>2, <2>2, <2>3, UpdateTaskType
  <2>5. CASE fresh
    <3>1. OutOK'
      BY <1>1, <1>2, <2>2, <2>3, <2>5, UpdateTaskType
    <3> QED BY <1>1, <2>4, <3>1, Kept DEF TypeOK
  <2>6. CASE ~fresh
    <3>1. st \in Stream /\ st.fd = "opening"
      BY <2>1, NewStreamType DEF Row
    <3>2. \A x \in DOMAIN task' : x = w \/ (x \in DOMAIN task /\ task'[x].pc = task[x].pc)
      BY <2>3 DEF Put
    <3> HIDE DEF st
    <3>3. out' = Put(out, w, st) /\ disk' = disk
      BY <1>1, <2>3, <2>6
    <3>4. OutOK'
      BY <3>1, <3>2, <3>3, PutStreamType DEF TypeOK, OutOK
    <3> QED BY <1>1, <2>4, <3>4, Kept DEF TypeOK
  <2> QED BY <2>5, <2>6
<1> QED BY <1>3, <1>4

LEMMA UnlinkActionType ==
    ASSUME TypeOK, NEW w \in Workers, Unlink(w)
    PROVE  TypeOK'
<1> DEFINE p == task[w].path
           t == [task[w] EXCEPT !.pc = "begin"]
           st == NewStream(p, FALSE)
<1>1. At(w, "unlink") /\ UNCHANGED <<rows, nextId, active, call, crashes>>
  BY DEF Unlink
<1>2. w \in DOMAIN task /\ task[w].pc = "unlink" /\ task[w] \in Task
  BY <1>1, AtFacts
<1>3. p \in Paths /\ t \in Task /\ t.id = task[w].id /\ t.pc = "begin"
  BY <1>2 DEF Task
<1>4. task' = Put(task, w, t) /\ disk' = Drop(disk, p) /\ out' = Put(Orphaned(p), w, st)
  BY DEF Unlink, GoTo
<1> HIDE DEF t
<1>5. TaskOK' /\ ActiveOK'
  BY <1>1, <1>2, <1>3, <1>4, UpdateTaskType
<1>6. DiskOK'
  BY <1>4, UnlinkType
<1>7. st \in Stream /\ st.fd = "opening"
  BY <1>3, NewStreamType
<1> HIDE DEF st
<1>8. \A x \in DOMAIN task' : x = w \/ (x \in DOMAIN task /\ task'[x].pc = task[x].pc)
  BY <1>4 DEF Put
<1>9. /\ Maps(out, Stream) /\ DOMAIN out \subseteq Workers
      /\ \A x \in DOMAIN out : out[x].fd = "open" => out[x].path \in DOMAIN disk
      /\ \A x \in DOMAIN task : task[x].pc \notin {"find", "unlink"} => x \in DOMAIN out
  BY DEF TypeOK, OutOK
<1>10. DOMAIN disk' = DOMAIN disk \ {p}
  BY <1>4 DEF Drop
<1>11. OutOK'
  BY <1>4, <1>7, <1>8, <1>9, <1>10, OrphanedFacts, PutStreamType
<1> QED BY <1>1, <1>5, <1>6, <1>11, Kept DEF TypeOK

LEMMA BeginType ==
    ASSUME TypeOK, NEW w \in Workers, Begin(w)
    PROVE  TypeOK'
<1> DEFINE t == [task[w] EXCEPT !.pc = "stream"]
<1>1. At(w, "begin") /\ UNCHANGED <<nextId, disk, out, call, crashes>>
  BY DEF Begin
<1>2. /\ w \in DOMAIN task /\ task[w].pc = "begin" /\ task[w] \in Task
      /\ w \in DOMAIN out /\ task[w].id \in 1..(nextId - 1)
  BY <1>1, AtFacts
<1>3. t \in Task /\ t.id = task[w].id /\ t.pc = "stream"
  BY <1>2 DEF Task
<1>4. /\ task' = Put(task, w, t) /\ active' = Put(active, task[w].id, w)
      /\ Save(task[w], "IN_PROGRESS")
  BY DEF Begin, GoTo
<1> HIDE DEF t
<1>5. TaskOK' /\ OutOK'
  BY <1>1, <1>2, <1>3, <1>4, UpdateTaskType
<1>6. "IN_PROGRESS" \in Status
  BY DEF Status
<1>7. RowsOK'
  BY <1>1, <1>2, <1>4, <1>6, SaveType
<1>8. /\ DOMAIN task' = DOMAIN task \cup {w} /\ task'[w] = t
      /\ \A x \in DOMAIN task : x # w => task'[x] = task[x]
  BY <1>4 DEF Put
<1>9. /\ DOMAIN active' = DOMAIN active \cup {task[w].id} /\ active'[task[w].id] = w
      /\ \A x \in DOMAIN active : x # task[w].id => active'[x] = active[x]
  BY <1>4 DEF Put
<1>10. ActiveOK'
  BY <1>1, <1>2, <1>3, <1>8, <1>9, DownloadAssumption DEF TypeOK, ActiveOK, Maps
<1> QED BY <1>1, <1>5, <1>7, <1>10, Kept DEF TypeOK

LEMMA ReceiveType ==
    ASSUME TypeOK, NEW w \in Workers, Receive(w)
    PROVE  TypeOK'
<1> DEFINE t == [task[w] EXCEPT !.offset = @ + 1]
<1>1. At(w, "stream") /\ UNCHANGED <<rows, nextId, disk, active, call, crashes>>
  BY DEF Receive
<1>2. /\ w \in DOMAIN task /\ task[w].pc = "stream" /\ task[w] \in Task
      /\ w \in DOMAIN out /\ out[w] \in Stream
  BY <1>1, AtFacts
<1>3. t \in Task /\ t.id = task[w].id /\ t.pc = "stream" /\ task[w].file \in Files
      /\ task[w].offset \in Nat
  BY <1>2 DEF Task
<1>4. PICK c \in Chunks : /\ out' = Put(out, w, [out[w] EXCEPT !.buf = Append(@, c)])
                          /\ task' = Put(task, w, t)
  <2>1. /\ <<task[w].file, task[w].offset + 1>> \in Chunks
        /\ <<task[w].file, 0>> \in Chunks
    BY <1>3 DEF Chunks
  <2>2. PICK c \in {<<task[w].file, task[w].offset + 1>>, <<task[w].file, 0>>} :
            /\ out' = Put(out, w, [out[w] EXCEPT !.buf = Append(@, c)])
            /\ task' = Put(task, w, t)
    BY DEF Receive
  <2> QED BY <2>1, <2>2
<1> DEFINE st == [out[w] EXCEPT !.buf = Append(@, c)]
<1>5. st \in Stream /\ st.fd = out[w].fd /\ st.path = out[w].path
  <2>1. Append(out[w].buf, c) \in Seq(Chunks)
    BY <1>2 DEF Stream
  <2> QED BY <1>2, <2>1 DEF Stream
<1> HIDE DEF t
<1>6. TaskOK' /\ ActiveOK'
  BY <1>1, <1>2, <1>3, <1>4, UpdateTaskType
<1>7. \A x \in DOMAIN task' : x = w \/ (x \in DOMAIN task /\ task'[x].pc = task[x].pc)
  BY <1>4 DEF Put
<1>8. out' = Put(out, w, st)
  BY <1>4
<1> HIDE DEF st
<1>9. OutOK'
  BY <1>1, <1>2, <1>5, <1>7, <1>8, PutStreamType DEF TypeOK, OutOK
<1> QED BY <1>1, <1>6, <1>9, Kept DEF TypeOK

\* The state that the finally block saves.
LEMMA FinalStatusFacts ==
    ASSUME NEW t
    PROVE  FinalStatus(t) \in {"COMPLETED_UNVERIFIED", "PAUSED", "FAILED"} \cap Status
BY DEF FinalStatus, Status

LEMMA FinallyType ==
    ASSUME TypeOK, NEW w \in Workers, At(w, "stream"), NEW t \in Task,
           t.id = task[w].id, t.pc = "stream", Finally(w, t)
    PROVE  TypeOK'
<1> DEFINE u == [t EXCEPT !.pc = "finish", !.status = FinalStatus(t)]
<1>1. w \in DOMAIN task /\ w \in DOMAIN out
  BY AtFacts
<1>2. u \in Task /\ u.id = task[w].id /\ u.pc = "finish"
  BY FinalStatusFacts DEF Task
<1>3. /\ task' = Put(task, w, u) /\ UNCHANGED <<rows, nextId, disk, out, call, crashes>>
      /\ active' = active \/ active' = Drop(active, t.id)
  BY DEF Finally
<1> HIDE DEF u
<1>4. TaskOK' /\ OutOK'
  BY <1>1, <1>2, <1>3, UpdateTaskType
<1>5. /\ DOMAIN active' \subseteq DOMAIN active
      /\ \A id \in DOMAIN active' : active'[id] = active[id]
  BY <1>3 DEF Drop
<1>6. /\ DOMAIN task' = DOMAIN task \cup {w} /\ task'[w] = u
      /\ \A x \in DOMAIN task : x # w => task'[x] = task[x]
  BY <1>3 DEF Put
<1>7. ASSUME NEW id \in DOMAIN active'
      PROVE  /\ active'[id] \in (Workers \cap DOMAIN task') \cup Status
             /\ active'[id] \in Workers =>
                    task'[active'[id]].pc \notin {"find", "unlink", "begin"}
  BY <1>2, <1>5, <1>6, DownloadAssumption DEF TypeOK, ActiveOK, Maps
<1>8. ActiveOK'
  BY <1>3, <1>5, <1>7 DEF TypeOK, ActiveOK, Maps
<1> QED BY <1>3, <1>4, <1>8, Kept DEF TypeOK

LEMMA StopType ==
    ASSUME TypeOK, NEW w \in Workers, ReceivePaused(w) \/ StreamStop(w)
    PROVE  TypeOK'
<1>1. At(w, "stream") /\ task[w] \in Task /\ task[w].pc = "stream"
  BY AtFacts DEF ReceivePaused, StreamStop
<1>2. CASE ReceivePaused(w)
  <2> DEFINE t == [task[w] EXCEPT !.status = "PAUSED"]
  <2>1. t \in Task /\ t.id = task[w].id /\ t.pc = "stream"
    BY <1>1 DEF Task, Status
  <2>2. Finally(w, t)
    BY <1>2 DEF ReceivePaused
  <2> HIDE DEF t
  <2> QED BY <1>1, <2>1, <2>2, FinallyType
<1>3. CASE StreamStop(w)
  <2>1. Finally(w, task[w])
    BY <1>3 DEF StreamStop
  <2> QED BY <1>1, <2>1, FinallyType
<1> QED BY <1>2, <1>3

LEMMA FinishType ==
    ASSUME TypeOK, NEW w \in Workers, Finish(w) \/ Checksum(w) \/ Complete(w)
    PROVE  TypeOK'
<1>1. CASE Finish(w)
  <2>1. /\ w \in DOMAIN task /\ task[w].pc = "finish" /\ task[w] \in Task
        /\ w \in DOMAIN out /\ task[w].status \in Status
    <3>1. /\ w \in DOMAIN task /\ task[w].pc = "finish" /\ task[w] \in Task
          /\ w \in DOMAIN out
      BY <1>1, AtFacts DEF Finish
    <3>2. task[w].status \in Status
      BY <3>1 DEF Task
    <3> QED BY <3>1, <3>2
  <2>2. /\ Save(task[w], task[w].status) /\ UNCHANGED <<nextId, disk, call, crashes>>
    BY <1>1 DEF Finish
  <2>3. RowsOK'
    BY <2>1, <2>2, SaveType
  <2>4. CASE EndTask(w)
    BY <2>1, <2>2, <2>3, <2>4, EndTaskType, Kept DEF TypeOK
  <2>5. CASE GoTo(w, "checksum") /\ UNCHANGED <<active, out>>
    <3> DEFINE t == [task[w] EXCEPT !.pc = "checksum"]
    <3>1. t \in Task /\ t.id = task[w].id /\ t.pc = "checksum" /\ task' = Put(task, w, t)
      BY <2>1, <2>5 DEF Task, GoTo
    <3> HIDE DEF t
    <3> QED BY <2>1, <2>2, <2>3, <2>5, <3>1, UpdateTaskType, Kept DEF TypeOK
  <2> QED BY <1>1, <2>4, <2>5 DEF Finish
<1>2. CASE Checksum(w)
  <2>1. /\ w \in DOMAIN task /\ task[w].pc = "checksum" /\ task[w] \in Task
        /\ w \in DOMAIN out
    BY <1>2, AtFacts DEF Checksum
  <2>2. UNCHANGED <<rows, nextId, disk, call, crashes>>
    BY <1>2 DEF Checksum
  <2>3. CASE EndTask(w)
    BY <2>1, <2>2, <2>3, EndTaskType, Kept DEF TypeOK
  <2> DEFINE t == [task[w] EXCEPT !.pc = "complete", !.status = "COMPLETED"]
  <2>4. CASE task' = Put(task, w, t) /\ UNCHANGED <<active, out>>
    <3>1. t \in Task /\ t.id = task[w].id /\ t.pc = "complete"
      BY <2>1 DEF Task, Status
    <3> HIDE DEF t
    <3> QED BY <2>1, <2>2, <2>4, <3>1, UpdateTaskType, Kept DEF TypeOK
  <2> QED BY <1>2, <2>3, <2>4 DEF Checksum
<1>3. CASE Complete(w)
  <2>1. w \in DOMAIN task /\ task[w].pc = "complete"
    BY <1>3, AtFacts DEF Complete
  <2>2. /\ Save(task[w], "COMPLETED") /\ EndTask(w)
        /\ UNCHANGED <<nextId, disk, call, crashes>>
    BY <1>3 DEF Complete
  <2>3. "COMPLETED" \in Status
    BY DEF Status
  <2>4. RowsOK'
    BY <2>1, <2>2, <2>3, SaveType
  <2> QED BY <2>1, <2>2, <2>4, EndTaskType, Kept DEF TypeOK
<1> QED BY <1>1, <1>2, <1>3

\* A stream of a slot is replaced by one for the same file.
LEMMA StreamToType ==
    ASSUME TypeOK, NEW w \in DOMAIN out, NEW st \in Stream, StreamTo(w, st),
           task' = task, DOMAIN disk \subseteq DOMAIN disk',
           st.fd = "open" => st.path \in DOMAIN disk'
    PROVE  OutOK'
<1> DEFINE streams == Put(out, w, st)
<1>1. Maps(streams, Stream)
  BY PutMaps DEF TypeOK, OutOK
<1>2. /\ DOMAIN streams = DOMAIN out /\ streams[w] = st
      /\ \A x \in DOMAIN out : x # w => streams[x] = out[x]
  <2>1. DOMAIN out \cup {w} = DOMAIN out
    OBVIOUS
  <2> QED BY <2>1 DEF Put
<1>3. \A x \in DOMAIN streams : streams[x].fd = "open" => streams[x].path \in DOMAIN disk'
  BY <1>2 DEF TypeOK, OutOK
<1>4. out' = streams \/ (w \notin DOMAIN task /\ out' = Left(streams, w))
  BY DEF StreamTo
<1> HIDE DEF streams
<1>5. CASE out' = streams
  BY <1>1, <1>2, <1>3, <1>5 DEF TypeOK, OutOK
<1>6. CASE w \notin DOMAIN task /\ out' = Left(streams, w)
  <2>1. /\ DOMAIN out' \subseteq DOMAIN streams
        /\ \A x \in DOMAIN streams : x # w => x \in DOMAIN out'
        /\ \A x \in DOMAIN out' : out'[x] = streams[x]
    BY <1>6, LeftFacts
  <2>2. Maps(out', Stream)
    BY <1>1, <2>1 DEF Maps
  <2> QED BY <1>2, <1>3, <1>6, <2>1, <2>2 DEF TypeOK, OutOK
<1> QED BY <1>4, <1>5, <1>6

LEMMA OpenType ==
    ASSUME TypeOK, NEW w \in Workers, Open(w)
    PROVE  TypeOK'
<1> DEFINE p == out[w].path
           s == IF out[w].append /\ p \in DOMAIN disk THEN disk[p] ELSE <<>>
           st == [out[w] EXCEPT !.fd = "open"]
<1>1. /\ w \in DOMAIN out /\ disk' = Put(disk, p, s) /\ StreamTo(w, st)
      /\ UNCHANGED <<rows, nextId, active, task, call, crashes>>
  BY DEF Open
<1>2. out[w] \in Stream
  BY <1>1 DEF TypeOK, OutOK, Maps
<1>3. p \in Paths /\ st \in Stream /\ st.path = p
  BY <1>2 DEF Stream
<1>4. s \in Seq(Chunks)
  <2>1. <<>> \in Seq(Chunks)
    OBVIOUS
  <2> QED BY <2>1 DEF TypeOK, DiskOK, Maps
<1> HIDE DEF st, s
<1>5. DOMAIN disk' = DOMAIN disk \cup {p}
  BY <1>1 DEF Put
<1>6. DiskOK'
  BY <1>1, <1>3, <1>4, <1>5, PutMaps DEF TypeOK, DiskOK
<1>7. OutOK'
  BY <1>1, <1>3, <1>5, StreamToType
<1> QED BY <1>1, <1>6, <1>7, Kept DEF TypeOK

LEMMA WrittenType ==
    ASSUME NEW s \in Seq(Chunks), NEW st \in Stream, st.buf # <<>>
    PROVE  Written(s, st) \in Seq(Chunks)
<1> DEFINE c == Head(st.buf)
<1>1. st.buf \in Seq(Chunks) /\ st.pos \in Nat
  BY DEF Stream
<1>2. c \in Chunks
  BY <1>1
<1>3. Append(s, c) \in Seq(Chunks)
  BY <1>2
<1>4. WriteAt(s, st.pos, c) \in Seq(Chunks)
  <2> DEFINE n == IF st.pos < Len(s) THEN Len(s) ELSE st.pos + 1
             e(k) == IF k = st.pos + 1 THEN c
                     ELSE IF k <= Len(s) THEN s[k] ELSE <<c[1], 0>>
  <2>1. n \in Nat
    BY <1>1
  <2>2. <<c[1], 0>> \in Chunks
    BY <1>2 DEF Chunks
  <2>3. \A k \in 1..n : e(k) \in Chunks
    BY <1>1, <1>2, <2>1, <2>2
  <2>4. WriteAt(s, st.pos, c) = [k \in 1..n |-> e(k)]
    BY DEF WriteAt
  <2> HIDE DEF n, e
  <2> QED BY <2>1, <2>3, <2>4
<1> QED BY <1>3, <1>4 DEF Written

LEMMA FlushType ==
    ASSUME TypeOK, NEW w \in Workers, Flush(w)
    PROVE  TypeOK'
<1> DEFINE p == out[w].path
           st == [out[w] EXCEPT !.buf = Tail(@), !.pos = @ + 1]
<1>1. /\ w \in DOMAIN out /\ out[w].buf # <<>> /\ StreamTo(w, st)
      /\ disk' = IF out[w].fd = "open"
                 THEN Put(disk, p, Written(disk[p], out[w])) ELSE disk
      /\ UNCHANGED <<rows, nextId, active, task, call, crashes>>
  BY DEF Flush
<1>2. out[w] \in Stream
  BY <1>1 DEF TypeOK, OutOK, Maps
<1>3. p \in Paths /\ st \in Stream /\ st.path = p /\ st.fd = out[w].fd
  <2>1. Tail(out[w].buf) \in Seq(Chunks)
    BY <1>1, <1>2 DEF Stream
  <2>2. out[w].pos + 1 \in Nat
    BY <1>2 DEF Stream
  <2> DEFINE tail == Tail(out[w].buf)
             next == out[w].pos + 1
  <2>3. st = [out[w] EXCEPT !.buf = tail, !.pos = next]
    OBVIOUS
  <2> HIDE DEF tail, next
  <2> QED BY <1>2, <2>1, <2>2, <2>3 DEF Stream
<1>4. out[w].fd = "open" => p \in DOMAIN disk
  BY <1>1 DEF TypeOK, OutOK
<1> HIDE DEF st
<1>5. CASE out[w].fd = "open"
  <2>1. disk[p] \in Seq(Chunks)
    BY <1>4, <1>5 DEF TypeOK, DiskOK, Maps
  <2>2. Written(disk[p], out[w]) \in Seq(Chunks)
    BY <1>1, <1>2, <2>1, WrittenType
  <2>3. disk' = Put(disk, p, Written(disk[p], out[w]))
    BY <1>1, <1>5
  <2>4. DOMAIN disk' = DOMAIN disk \cup {p}
    BY <2>3 DEF Put
  <2>5. DiskOK'
    BY <1>3, <2>2, <2>3, <2>4, PutMaps DEF TypeOK, DiskOK
  <2>6. OutOK'
    BY <1>1, <1>3, <2>4, StreamToType
  <2> QED BY <1>1, <2>5, <2>6, Kept DEF TypeOK
<1>6. CASE out[w].fd # "open"
  <2>1. OutOK'
    BY <1>1, <1>3, <1>6, StreamToType
  <2> QED BY <1>1, <1>6, <2>1, Kept DEF TypeOK
<1> QED BY <1>5, <1>6

LEMMA CrashType ==
    ASSUME TypeOK, Crash
    PROVE  TypeOK'
<1>1. TaskOK' /\ ActiveOK' /\ OutOK' /\ CallOK'
  BY NoMapFacts DEF Crash, TaskOK, ActiveOK, OutOK, CallOK
<1>2. crashes' \in 0..MaxCrashes
  BY DownloadAssumption DEF Crash, TypeOK
<1> QED BY <1>1, <1>2, Kept DEF Crash, TypeOK

LEMMA StepType == TypeOK /\ [Next]_vars => TypeOK'
<1> SUFFICES ASSUME TypeOK, [Next]_vars PROVE TypeOK'
  OBVIOUS
<1>1. CASE UNCHANGED vars
  BY <1>1, Kept DEF vars, TypeOK
<1>2. ASSUME NEW r \in Requests, NewCall(r) \/ CallStep(r) PROVE TypeOK'
  BY <1>2, QueueType, PauseType, ResumeType, DeleteType DEF NewCall, CallStep
<1>3. ASSUME NEW w \in Workers, TaskStep(w) \/ StreamStep(w) PROVE TypeOK'
  BY <1>3, FindType, UnlinkActionType, BeginType, ReceiveType, StopType,
     FinishType, OpenType, FlushType DEF TaskStep, StreamStep
<1> QED BY <1>1, <1>2, <1>3, CrashType DEF Next

(***************************************************************************)
(* Every behaviour keeps the types: ids stay below the counter, the map     *)
(* never names a generator that has ended, and a stream that is open and no *)
(* orphan has a file to write to (activeDownloads, fs.WriteStream).         *)
(***************************************************************************)
THEOREM TypeCorrect == Spec => []TypeOK
BY InitType, StepType, PTL DEF Spec
=============================================================================
