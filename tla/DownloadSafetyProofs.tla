------------------------- MODULE DownloadSafetyProofs -------------------------
(***************************************************************************)
(* Safety of Download beyond the types.  For any users: what a row's status *)
(* says of its offset, and that the map has nothing of the dead.  For one   *)
(* user: a download never has two generators, a pause and a resume do what  *)
(* they say, and no row is set back.  If nothing is taken off the list: a   *)
(* row lives as DownloadLifecycle says, an unfinished file is listed once,  *)
(* and a completed one is whole.                                            *)
(***************************************************************************)
EXTENDS DownloadProofs, FiniteSetTheorems

(***************************************************************************)
(* Status and offset.                                                      *)
(*                                                                         *)
(* A row is written by a generator, so the invariant also speaks of the     *)
(* generators that are past their finally block, whose record is what they  *)
(* will save.                                                              *)
(***************************************************************************)
FinalFits ==
    \A w \in DOMAIN task :
        /\ task[w].pc \in {"finish", "checksum", "complete"} =>
              StatusFits(task[w]) /\ task[w].status # "IN_PROGRESS"
        /\ task[w].pc = "complete" => task[w].status = "COMPLETED"
        /\ task[w].pc = "checksum" => task[w].status = "COMPLETED_UNVERIFIED"

OffsetInv == StatusMatchesOffset /\ FinalFits

LEMMA FinalStatusFits ==
    ASSUME NEW t \in Task, t.pc = "stream"
    PROVE  LET u == [t EXCEPT !.pc = "finish", !.status = FinalStatus(t)]
           IN StatusFits(u) /\ u.status # "IN_PROGRESS" /\ u.pc = "finish"
BY DEF Task, FinalStatus, StatusFits

\* A saved row that fits keeps the invariant of the table.
LEMMA PutRowFits ==
    ASSUME StatusMatchesOffset, NEW id, NEW row, StatusFits(row),
           rows' = Put(rows, id, row)
    PROVE  StatusMatchesOffset'
BY DEF StatusMatchesOffset, Put, StatusFits

\* A generator whose record changes before its finally block, or ends.
LEMMA KeptFits ==
    ASSUME FinalFits, NEW w,
           \A x \in DOMAIN task' : x = w \/ (x \in DOMAIN task /\ task'[x] = task[x]),
           w \in DOMAIN task' =>
                task'[w].pc \notin {"finish", "checksum", "complete"}
    PROVE  FinalFits'
BY DEF FinalFits, StatusFits

LEMMA OffsetStep == TypeOK /\ OffsetInv /\ [Next]_vars => OffsetInv'
<1> SUFFICES ASSUME TypeOK, OffsetInv, [Next]_vars PROVE OffsetInv'
  OBVIOUS
<1> USE DEF OffsetInv
<1>1. UNCHANGED rows => StatusMatchesOffset'
  BY DEF StatusMatchesOffset, StatusFits
<1>2. UNCHANGED task => FinalFits'
  BY DEF FinalFits, StatusFits
<1>3. ASSUME NEW w, EndTask(w) PROVE FinalFits'
  <2>1. \A x \in DOMAIN task' : x \in DOMAIN task /\ task'[x] = task[x] /\ x # w
    BY <1>3 DEF EndTask, Drop
  <2> QED BY <2>1, KeptFits
<1>4. ASSUME NEW w, NEW id, Launch(w, id) PROVE FinalFits'
  <2>1. /\ \A x \in DOMAIN task' : x = w \/ (x \in DOMAIN task /\ task'[x] = task[x])
        /\ task'[w].pc = "find"
    BY <1>4 DEF Launch, Put
  <2> QED BY <2>1, KeptFits
<1>5. ASSUME NEW r \in Requests, NewCall(r) \/ CallStep(r) PROVE OffsetInv'
  <2>1. CASE QueueInsert(r)
    <3> DEFINE row == [file |-> call[r].file, path |-> call[r].path,
                       offset |-> 0, status |-> "PENDING"]
    <3>1. StatusFits(row) /\ rows' = Put(rows, nextId, row)
      BY <2>1 DEF StatusFits, QueueInsert
    <3>2. FinalFits'
      BY <1>4, <2>1 DEF QueueInsert
    <3> QED BY <3>1, <3>2, PutRowFits
  <2>2. CASE ResumeSave(r)
    <3> DEFINE row == [call[r].row EXCEPT !.status = "IN_PROGRESS"]
    <3>1. call[r].row \in Row
      BY <2>2, CallFields DEF ResumeSave, TypeOK, CallOK, Maps
    <3>2. StatusFits(row) /\ rows' = Put(rows, call[r].id, row)
      BY <2>2, <3>1 DEF StatusFits, ResumeSave, Row
    <3>3. FinalFits'
      BY <1>4, <2>2 DEF ResumeSave
    <3> HIDE DEF row
    <3> QED BY <3>2, <3>3, PutRowFits
  <2>3. ASSUME NEW id \in Ids, Pause(r, id) PROVE OffsetInv'
    <3>1. CASE active[id] \in Workers
      <4> DEFINE w == active[id]
      <4>1. task[w].pc \notin {"finish", "checksum", "complete"}
        <5>1. w \in DOMAIN task
          BY <2>3, <3>1, DownloadAssumption DEF Pause, TypeOK, ActiveOK, Maps
        <5>2. task[w].status = "IN_PROGRESS"
          BY <2>3, <3>1 DEF Pause, ActiveStatus
        <5> QED BY <5>1, <5>2 DEF FinalFits
      <4>2. task' = Put(task, w, [task[w] EXCEPT !.status = "PAUSED"])
        BY <2>3, <3>1 DEF Pause
      <4>3. task[w] \in Task /\ task[w].pc \notin {"find", "unlink", "begin"}
        BY <2>3, <3>1, DownloadAssumption
           DEF Pause, TypeOK, ActiveOK, TaskOK, Maps
      <4>4. [task[w] EXCEPT !.status = "PAUSED"].pc = task[w].pc
        BY <4>3 DEF Task
      <4>5. /\ \A x \in DOMAIN task' : x = w \/ (x \in DOMAIN task /\ task'[x] = task[x])
            /\ task'[w].pc = task[w].pc
        BY <4>2, <4>4 DEF Put
      <4>6. FinalFits'
        BY <4>1, <4>5, KeptFits
      <4> QED BY <1>1, <2>3, <4>6 DEF Pause
    <3> QED BY <1>1, <1>2, <2>3, <3>1 DEF Pause
  <2>4. ASSUME rows' = Drop(rows, call[r].id), UNCHANGED task PROVE OffsetInv'
    BY <1>2, <2>4 DEF Drop, StatusMatchesOffset, StatusFits
  <2>5. CASE QueueDropRow(r) \/ DeleteRemove(r)
    BY <2>4, <2>5 DEF QueueDropRow, DeleteRemove
  <2>6. CASE QueueDropFile(r) \/ QueueReserve(r) \/ ResumeMark(r) \/ DeleteUnlink(r)
    BY <1>1, <1>2, <2>6 DEF QueueDropFile, QueueReserve, ResumeMark, DeleteUnlink
  <2>7. ASSUME NEW f \in Files, NEW override \in BOOLEAN, QueueLookup(r, f, override)
        PROVE  OffsetInv'
    BY <1>1, <1>2, <2>7 DEF QueueLookup
  <2>8. ASSUME NEW id \in Ids, NEW fromFs \in BOOLEAN,
               ResumeFind(r, id) \/ DeleteFind(r, id, fromFs)
        PROVE  OffsetInv'
    BY <1>1, <1>2, <2>8 DEF ResumeFind, DeleteFind
  <2> QED BY <1>5, <2>1, <2>2, <2>3, <2>5, <2>6, <2>7, <2>8
          DEF NewCall, CallStep, QueueSteps
<1>6. ASSUME NEW w \in Workers, TaskStep(w) \/ StreamStep(w) PROVE OffsetInv'
  <2>1. CASE Find(w)
    <3>1. UNCHANGED rows /\ w \in DOMAIN task
      BY <2>1 DEF Find, At
    <3>2. CASE EndTask(w)
      BY <1>1, <1>3, <3>1, <3>2
    <3>3. CASE ~EndTask(w)
      <4> DEFINE id == task[w].id
                 t == [pc |-> IF rows[id].status = "PENDING" THEN "unlink" ELSE "begin",
                       id |-> id, file |-> rows[id].file, path |-> rows[id].path,
                       offset |-> rows[id].offset, status |-> "IN_PROGRESS"]
      <4>1. task' = Put(task, w, t) /\ t.pc \in {"unlink", "begin"}
        BY <2>1, <3>3 DEF Find
      <4> HIDE DEF t
      <4>2. \A x \in DOMAIN task' : x = w \/ (x \in DOMAIN task /\ task'[x] = task[x])
        BY <4>1 DEF Put
      <4>3. task'[w].pc \in {"unlink", "begin"}
        BY <4>1 DEF Put
      <4> QED BY <1>1, <3>1, <4>2, <4>3, KeptFits
    <3> QED BY <3>2, <3>3
  <2>2. CASE Unlink(w)
    <3>1. task[w] \in Task /\ task[w].pc = "unlink" /\ UNCHANGED rows
      BY <2>2, AtFacts DEF Unlink
    <3>2. [task[w] EXCEPT !.pc = "begin"].pc = "begin"
      BY <3>1 DEF Task
    <3>3. /\ \A x \in DOMAIN task' : x = w \/ (x \in DOMAIN task /\ task'[x] = task[x])
          /\ task'[w].pc = "begin"
      BY <2>2, <3>2 DEF Unlink, GoTo, Put
    <3> QED BY <1>1, <3>1, <3>3, KeptFits
  <2>3. CASE Begin(w)
    <3> DEFINE row == [file |-> task[w].file, path |-> task[w].path,
                       offset |-> task[w].offset, status |-> "IN_PROGRESS"]
    <3>1. task[w] \in Task /\ task[w].pc = "begin"
      BY <2>3, AtFacts DEF Begin
    <3>2. [task[w] EXCEPT !.pc = "stream"].pc = "stream"
      BY <3>1 DEF Task
    <3>3. /\ \A x \in DOMAIN task' : x = w \/ (x \in DOMAIN task /\ task'[x] = task[x])
          /\ task'[w].pc = "stream"
      BY <2>3, <3>2 DEF Begin, GoTo, Put
    <3>4. StatusFits(row) /\ rows' = Put(rows, task[w].id, row)
      BY <2>3 DEF Begin, Save, StatusFits
    <3> HIDE DEF row
    <3> QED BY <3>3, <3>4, KeptFits, PutRowFits
  <2>4. CASE Receive(w)
    <3> DEFINE t == [task[w] EXCEPT !.offset = @ + 1]
    <3>1. task[w] \in Task /\ task[w].pc = "stream" /\ UNCHANGED rows
      BY <2>4, AtFacts DEF Receive
    <3>2. t.pc = "stream"
      BY <3>1 DEF Task
    <3>3. task' = Put(task, w, t)
      BY <2>4 DEF Receive
    <3> HIDE DEF t
    <3>4. /\ \A x \in DOMAIN task' : x = w \/ (x \in DOMAIN task /\ task'[x] = task[x])
          /\ task'[w].pc = "stream"
      BY <3>2, <3>3 DEF Put
    <3> QED BY <1>1, <3>1, <3>4, KeptFits
  <2>5. ASSUME NEW t \in Task, t.pc = "stream", Finally(w, t) PROVE OffsetInv'
    <3> DEFINE u == [t EXCEPT !.pc = "finish", !.status = FinalStatus(t)]
    <3>1. StatusFits(u) /\ u.status # "IN_PROGRESS" /\ u.pc = "finish"
      BY <2>5, FinalStatusFits
    <3>2. task' = Put(task, w, u) /\ UNCHANGED rows
      BY <2>5 DEF Finally
    <3> HIDE DEF u
    <3>3. \A x \in DOMAIN task' : task'[x] = u \/ (x \in DOMAIN task /\ task'[x] = task[x])
      BY <3>2 DEF Put
    <3>4. FinalFits'
      BY <3>1, <3>3 DEF FinalFits, StatusFits
    <3> QED BY <1>1, <3>2, <3>4
  <2>6. CASE ReceivePaused(w)
    <3> DEFINE t == [task[w] EXCEPT !.status = "PAUSED"]
    <3>1. task[w] \in Task /\ task[w].pc = "stream" /\ Finally(w, t)
      BY <2>6, AtFacts DEF ReceivePaused
    <3>2. t \in Task /\ t.pc = "stream"
      BY <3>1 DEF Task, Status
    <3> HIDE DEF t
    <3> QED BY <2>5, <3>1, <3>2
  <2>7. CASE StreamStop(w)
    <3>1. task[w] \in Task /\ task[w].pc = "stream" /\ Finally(w, task[w])
      BY <2>7, AtFacts DEF StreamStop
    <3> QED BY <2>5, <3>1
  <2>8. CASE Finish(w)
    <3> DEFINE row == [file |-> task[w].file, path |-> task[w].path,
                       offset |-> task[w].offset, status |-> task[w].status]
    <3>1. w \in DOMAIN task /\ task[w] \in Task /\ task[w].pc = "finish"
      BY <2>8, AtFacts DEF Finish
    <3>2. StatusFits(row) /\ rows' = Put(rows, task[w].id, row)
      BY <2>8, <3>1 DEF Finish, Save, FinalFits, StatusFits
    <3>3. StatusMatchesOffset'
      <4> HIDE DEF row
      <4> QED BY <3>2, PutRowFits
    <3>4. CASE GoTo(w, "checksum") /\ task[w].status = "COMPLETED_UNVERIFIED"
      <4> DEFINE u == [task[w] EXCEPT !.pc = "checksum"]
      <4>1. /\ u.pc = "checksum" /\ u.status = "COMPLETED_UNVERIFIED"
            /\ StatusFits(u) /\ task' = Put(task, w, u)
        BY <3>1, <3>4 DEF Task, FinalFits, StatusFits, GoTo
      <4> HIDE DEF u
      <4>2. \A x \in DOMAIN task' : task'[x] = u \/ (x \in DOMAIN task /\ task'[x] = task[x])
        BY <4>1 DEF Put
      <4>3. FinalFits'
        BY <4>1, <4>2 DEF FinalFits, StatusFits
      <4> QED BY <3>3, <4>3
    <3> QED BY <1>3, <2>8, <3>3, <3>4 DEF Finish
  <2>9. CASE Checksum(w)
    <3>1. /\ w \in DOMAIN task /\ task[w] \in Task /\ task[w].pc = "checksum"
          /\ UNCHANGED rows
      BY <2>9, AtFacts DEF Checksum
    <3> DEFINE u == [task[w] EXCEPT !.pc = "complete", !.status = "COMPLETED"]
    <3>2. CASE task' = Put(task, w, u)
      <4>1. u.pc = "complete" /\ u.status = "COMPLETED" /\ StatusFits(u)
        BY <3>1 DEF Task, FinalFits, StatusFits
      <4> HIDE DEF u
      <4>2. \A x \in DOMAIN task' : task'[x] = u \/ (x \in DOMAIN task /\ task'[x] = task[x])
        BY <3>2 DEF Put
      <4>3. FinalFits'
        BY <4>1, <4>2 DEF FinalFits, StatusFits
      <4> QED BY <1>1, <3>1, <4>3
    <3> QED BY <1>1, <1>3, <2>9, <3>1, <3>2 DEF Checksum
  <2>10. CASE Complete(w)
    <3> DEFINE row == [file |-> task[w].file, path |-> task[w].path,
                       offset |-> task[w].offset, status |-> "COMPLETED"]
    <3>1. w \in DOMAIN task /\ task[w] \in Task /\ task[w].pc = "complete"
      BY <2>10, AtFacts DEF Complete
    <3>2. StatusFits(row) /\ rows' = Put(rows, task[w].id, row)
      BY <2>10, <3>1 DEF Complete, Save, FinalFits, StatusFits
    <3> HIDE DEF row
    <3> QED BY <1>3, <2>10, <3>2, PutRowFits DEF Complete
  <2>11. CASE StreamStep(w)
    BY <1>1, <1>2, <2>11 DEF StreamStep, Open, Flush
  <2> QED BY <1>6, <2>1, <2>2, <2>3, <2>4, <2>6, <2>7, <2>8, <2>9, <2>10, <2>11
          DEF TaskStep
<1>7. CASE Crash
  BY <1>1, <1>7 DEF Crash, FinalFits, NoMap
<1>8. CASE UNCHANGED vars
  BY <1>1, <1>2, <1>8 DEF vars
<1> QED BY <1>5, <1>6, <1>7, <1>8 DEF Next

LEMMA OffsetInvariant == Spec => []OffsetInv
<1>1. Init => OffsetInv
  BY DEF Init, OffsetInv, StatusMatchesOffset, FinalFits, NoMap
<1>2. TypeOK /\ OffsetInv /\ [Next]_vars => OffsetInv'
  BY OffsetStep
<1> QED BY <1>1, <1>2, TypeCorrect, PTL DEF Spec

(***************************************************************************)
(* However requests and generators interleave, crashes included, a row is   *)
(* COMPLETED or COMPLETED_UNVERIFIED only with all of the file counted, and *)
(* PAUSED or FAILED only without (the finally block of the generator).      *)
(***************************************************************************)
THEOREM StatusCorrect == Spec => []StatusMatchesOffset
BY OffsetInvariant, PTL DEF OffsetInv

(***************************************************************************)
(* One generator per download, for one user at a time.                      *)
(*                                                                         *)
(* SingleWriter is not inductive: that resume starts no second generator    *)
(* depends on a PAUSED row having none (PausedIsQuiet), and on the row       *)
(* being PAUSED still when the resume writes it (ResumeIsFresh).            *)
(***************************************************************************)
ResumeChecked ==
    \A r \in DOMAIN call : call[r].pc = "resume" => Resumable(call[r].row)

WriterInv == /\ SingleWriter /\ PauseReachesTask /\ PausedIsQuiet
             /\ ResumeIsFresh /\ ResumeChecked

\* No generator is new, none changes its download or starts to stream.
SameTasks ==
    /\ DOMAIN task' \subseteq DOMAIN task
    /\ \A w \in DOMAIN task' : /\ task'[w].id = task[w].id
                               /\ task'[w].pc = "stream" => task[w].pc = "stream"

LEMMA SameTasksInv ==
    ASSUME WriterInv, SameTasks
    PROVE  /\ SingleWriter'
           /\ rows' = rows => PausedIsQuiet'
           /\ (\A w \in DOMAIN task' : task'[w].pc = "stream" =>
                    task[w].id \in DOMAIN active'
                    /\ active'[task[w].id] = active[task[w].id])
                => PauseReachesTask'
           /\ active' = active => PauseReachesTask'
BY DEF WriterInv, SameTasks, SingleWriter, PausedIsQuiet, PauseReachesTask

\* Requests in flight stay fresh when no PAUSED row is touched.
LEMMA FreshCalls ==
    ASSUME WriterInv,
           \A r \in DOMAIN call' : r \in DOMAIN call /\ call'[r] = call[r],
           \A id \in DOMAIN rows : rows[id].status = "PAUSED" =>
                id \in DOMAIN rows' /\ rows'[id] = rows[id]
    PROVE  ResumeIsFresh' /\ ResumeChecked'
BY DEF WriterInv, ResumeIsFresh, ResumeChecked, Resumable

\* A generator's step that replaces its record by one of the same download.
LEMMA PutTaskSame ==
    ASSUME NEW w \in DOMAIN task, NEW t, task' = Put(task, w, t),
           t.id = task[w].id, t.pc = "stream" => task[w].pc = "stream"
    PROVE  SameTasks
BY DEF Put, SameTasks

LEMMA EndTaskSame ==
    ASSUME WriterInv, NEW w, EndTask(w)
    PROVE  SameTasks /\ PauseReachesTask' /\ \A x \in DOMAIN task' : x # w
<1>1. DOMAIN task' = DOMAIN task \ {w} /\ \A x \in DOMAIN task' : task'[x] = task[x]
  BY DEF EndTask, Drop
<1>2. /\ DOMAIN active' = DOMAIN active
      /\ \A id \in DOMAIN active : active[id] # w => active'[id] = active[id]
  BY DEF EndTask
<1> QED BY <1>1, <1>2 DEF SameTasks, WriterInv, PauseReachesTask

\* A save by a generator touches no other generator's row and no PAUSED row.
LEMMA SaveKeeps ==
    ASSUME WriterInv, TypeOK, NEW w \in DOMAIN task, NEW status,
           Save(task[w], status), UNCHANGED call
    PROVE  /\ ResumeIsFresh' /\ ResumeChecked'
           /\ \A id \in DOMAIN rows' : id # task[w].id =>
                    id \in DOMAIN rows /\ rows'[id] = rows[id]
           /\ rows'[task[w].id].status = status
<1>1. /\ DOMAIN rows' = DOMAIN rows \cup {task[w].id}
      /\ \A id \in DOMAIN rows : id # task[w].id => rows'[id] = rows[id]
      /\ rows'[task[w].id].status = status
  BY DEF Save, Put
<1>2. \A id \in DOMAIN rows : rows[id].status = "PAUSED" => id # task[w].id
  BY DEF WriterInv, PausedIsQuiet
<1> QED BY <1>1, <1>2, FreshCalls

LEMMA LaunchWriter ==
    ASSUME WriterInv, NEW w, NEW id, Launch(w, id), UNCHANGED active,
           \A x \in DOMAIN task : task[x].id # id
    PROVE  /\ SingleWriter' /\ PauseReachesTask'
           /\ \A x \in DOMAIN task' : task'[x].id = id \/ (x \in DOMAIN task /\ task'[x] = task[x])
<1> DEFINE t == [pc |-> "find", id |-> id]
<1>1. w \notin DOMAIN task /\ task' = Put(task, w, t)
  BY DEF Launch
<1>2. /\ DOMAIN task' = DOMAIN task \cup {w} /\ task'[w] = t
      /\ \A x \in DOMAIN task : task'[x] = task[x] /\ x # w
  BY <1>1 DEF Put
<1> QED BY <1>2 DEF WriterInv, SingleWriter, PauseReachesTask

\* A request put in or taken out by the only user leaves no other request.
LEMMA OnlyCall ==
    ASSUME OneUser, TypeOK, NEW r \in Requests
    PROVE  /\ \A x \in DOMAIN call : x = r
           /\ \A c : call' = Put(call, r, c) => call'[r] = c /\ DOMAIN call' = {r}
           /\ Answer(r) => DOMAIN call' = {}
<1>1. DOMAIN call \subseteq Requests
  BY DEF TypeOK, CallOK
<1>2. \A x \in DOMAIN call : x = r
  BY <1>1 DEF OneUser
<1> QED BY <1>2 DEF Put, Answer, Drop

\* Nor one that resumes, unless it was put in as one.
LEMMA NoResume ==
    ASSUME OneUser, TypeOK, NEW r \in Requests,
           Answer(r) \/ \E c : call' = Put(call, r, c) /\ c.pc \notin {"mark", "resume"}
    PROVE  ResumeIsFresh' /\ ResumeChecked'
<1>1. \A x \in DOMAIN call' : call'[x].pc \notin {"mark", "resume"}
  <2>1. CASE Answer(r)
    BY <2>1, OnlyCall
  <2>2. ASSUME NEW c, call' = Put(call, r, c), c.pc \notin {"mark", "resume"}
        PROVE  \A x \in DOMAIN call' : call'[x].pc \notin {"mark", "resume"}
    <3>1. call'[r] = c /\ DOMAIN call' = {r}
      BY <2>2, OnlyCall
    <3> QED BY <2>2, <3>1
  <2> QED BY <2>1, <2>2
<1> QED BY <1>1 DEF ResumeIsFresh, ResumeChecked

LEMMA RequestStep ==
    ASSUME OneUser, TypeOK, WriterInv, NEW r \in Requests, NewCall(r) \/ CallStep(r)
    PROVE  WriterInv'
<1>1. UNCHANGED task => SameTasks
  BY DEF SameTasks
\* Steps that only move a request on, to a pc that is not part of a resume.
<1>2. ASSUME UNCHANGED <<rows, task, active>>,
             Answer(r) \/ \E c : /\ call' = Put(call, r, c)
                                 /\ c.pc \notin {"mark", "resume"}
      PROVE  WriterInv'
  <2>1. ResumeIsFresh' /\ ResumeChecked'
    BY <1>2, NoResume
  <2> QED BY <1>1, <1>2, <2>1, SameTasksInv DEF WriterInv
<1>3. ASSUME NEW f \in Files, NEW override \in BOOLEAN, QueueLookup(r, f, override)
      PROVE  WriterInv'
  <2>1. UNCHANGED <<rows, task, active>>
    BY <1>3 DEF QueueLookup
  <2>2. \E c : call' = Put(call, r, c) /\ c.pc \notin {"mark", "resume"}
    <3>1. CASE call' = Put(call, r, [pc |-> "reserve", file |-> f])
      BY <3>1
    <3>2. ASSUME NEW id \in UnfinishedRows(f),
                 call' = Put(call, r, [pc |-> "dropRow", id |-> id,
                                       path |-> rows[id].path, file |-> f])
          PROVE  \E c : call' = Put(call, r, c) /\ c.pc \notin {"mark", "resume"}
      BY <3>2
    <3> QED BY <1>3, <3>1, <3>2 DEF QueueLookup
  <2> QED BY <1>2, <2>1, <2>2
<1>4. ASSUME rows' = Drop(rows, call[r].id), UNCHANGED <<task, active>>,
             Answer(r) \/ \E c : /\ call' = Put(call, r, c)
                                 /\ c.pc \notin {"mark", "resume"}
      PROVE  WriterInv'
  <2>1. ResumeIsFresh' /\ ResumeChecked'
    BY <1>4, NoResume
  <2>2. PausedIsQuiet'
    BY <1>4 DEF Drop, WriterInv, PausedIsQuiet
  <2> QED BY <1>1, <1>4, <2>1, <2>2, SameTasksInv DEF WriterInv
<1>5. CASE QueueDropRow(r)
  BY <1>4, <1>5 DEF QueueDropRow
<1>6. CASE DeleteRemove(r)
  BY <1>4, <1>6 DEF DeleteRemove
<1>7. CASE QueueDropFile(r) \/ QueueReserve(r) \/ DeleteUnlink(r)
  <2>1. CASE QueueDropFile(r)
    BY <1>2, <2>1 DEF QueueDropFile
  <2>2. CASE QueueReserve(r)
    <3>1. UNCHANGED <<rows, task, active>>
      BY <2>2 DEF QueueReserve
    <3>2. PICK p : call' = Put(call, r, [pc |-> "insert", file |-> call[r].file,
                                         path |-> p])
      BY <2>2 DEF QueueReserve
    <3> QED BY <1>2, <3>1, <3>2
  <2>3. CASE DeleteUnlink(r)
    BY <1>2, <2>3 DEF DeleteUnlink
  <2> QED BY <1>7, <2>1, <2>2, <2>3
<1>8. ASSUME NEW id \in Ids, NEW fromFs \in BOOLEAN, DeleteFind(r, id, fromFs)
      PROVE  WriterInv'
  BY <1>2, <1>8 DEF DeleteFind
<1>9. CASE QueueInsert(r)
  <2>1. PICK w \in Workers : Launch(w, nextId)
    BY <1>9 DEF QueueInsert
  <2>2. \A x \in DOMAIN task : task[x].id # nextId
    <3>1. ASSUME NEW x \in DOMAIN task PROVE task[x].id \in Nat /\ task[x].id < nextId
      BY TaskId, IdsAreNat DEF TypeOK, TaskOK, Maps
    <3> QED BY <3>1, Kept
  <2>3. /\ \A id \in DOMAIN rows : id # nextId => id \in DOMAIN rows' /\ rows'[id] = rows[id]
        /\ DOMAIN rows' = DOMAIN rows \cup {nextId}
        /\ rows'[nextId].status = "PENDING"
    BY <1>9 DEF QueueInsert, Put
  <2>4. Answer(r) /\ UNCHANGED active
    BY <1>9 DEF QueueInsert
  <2>5. /\ SingleWriter' /\ PauseReachesTask'
        /\ \A x \in DOMAIN task' : task'[x].id = nextId \/ (x \in DOMAIN task /\ task'[x] = task[x])
    BY <2>1, <2>2, <2>4, LaunchWriter
  <2>6. PausedIsQuiet'
    BY <2>3, <2>5 DEF WriterInv, PausedIsQuiet
  <2>7. ResumeIsFresh' /\ ResumeChecked'
    BY <2>4, OnlyCall DEF ResumeIsFresh, ResumeChecked
  <2> QED BY <2>5, <2>6, <2>7 DEF WriterInv
<1>10. ASSUME NEW id \in Ids, Pause(r, id) PROVE WriterInv'
  <2>1. UNCHANGED <<rows, call>> /\ id \in DOMAIN active
    BY <1>10 DEF Pause
  <2>2. ResumeIsFresh' /\ ResumeChecked'
    BY <2>1, FreshCalls
  <2>3. CASE active[id] \in Workers
    <3> DEFINE w == active[id]
               t == [task[w] EXCEPT !.status = "PAUSED"]
    <3>1. w \in DOMAIN task
      BY <2>1, <2>3, DownloadAssumption DEF TypeOK, ActiveOK, Maps
    <3>2. t.id = task[w].id /\ t.pc = task[w].pc
      <4>1. task[w] \in Task /\ task[w].pc # "find"
        BY <2>1, <2>3, <3>1 DEF TypeOK, TaskOK, ActiveOK, Maps
      <4> QED BY <4>1 DEF Task
    <3>3. task' = Put(task, w, t) /\ UNCHANGED active
      BY <1>10, <2>3 DEF Pause
    <3> HIDE DEF t
    <3> QED BY <2>1, <2>2, <3>1, <3>2, <3>3, PutTaskSame, SameTasksInv DEF WriterInv
  <2>4. CASE active[id] \notin Workers
    <3>1. UNCHANGED task /\ active' = Put(active, id, "PAUSED")
      BY <1>10, <2>4 DEF Pause
    <3>2. \A w \in DOMAIN task : task[w].pc = "stream" => task[w].id # id
      BY <2>4 DEF WriterInv, PauseReachesTask, TypeOK, TaskOK
    <3>3. \A w \in DOMAIN task' : task'[w].pc = "stream" =>
                task[w].id \in DOMAIN active' /\ active'[task[w].id] = active[task[w].id]
      BY <3>1, <3>2 DEF Put, WriterInv, PauseReachesTask
    <3> QED BY <1>1, <2>1, <2>2, <3>1, <3>3, SameTasksInv DEF WriterInv
  <2> QED BY <2>3, <2>4
<1>11. ASSUME NEW id \in Ids, ResumeFind(r, id) PROVE WriterInv'
  <2> DEFINE c == [pc |-> "mark", id |-> id, row |-> rows[id]]
  <2>1. UNCHANGED <<rows, task, active>> /\ call' = Put(call, r, c) /\ id \in DOMAIN rows
    BY <1>11 DEF ResumeFind
  <2>2. call'[r] = c /\ DOMAIN call' = {r}
    BY <2>1, OnlyCall
  <2>3. ResumeIsFresh' /\ ResumeChecked'
    BY <2>1, <2>2 DEF ResumeIsFresh, ResumeChecked, Resumable
  <2> QED BY <1>1, <2>1, <2>3, SameTasksInv DEF WriterInv
<1>12. CASE ResumeMark(r)
  <2>1. CASE ~Resumable(call[r].row)
    BY <1>2, <1>12, <2>1 DEF ResumeMark
  <2>2. CASE Resumable(call[r].row)
    <3> DEFINE c == [call[r] EXCEPT !.pc = "resume"]
               id == call[r].id
    <3>1. /\ UNCHANGED <<rows, task>> /\ call' = Put(call, r, c)
          /\ active' = Put(active, id, "IN_PROGRESS")
          /\ r \in DOMAIN call /\ call[r].pc = "mark" /\ call[r] \in Call
      BY <1>12, <2>2 DEF ResumeMark, TypeOK, CallOK, Maps
    <3>2. c.id = id /\ c.pc = "resume" /\ c.row = call[r].row
      BY <3>1 DEF Call
    <3>3. call'[r] = c /\ DOMAIN call' = {r}
      BY <3>1, OnlyCall
    <3>4. id \in DOMAIN rows /\ rows[id].status = "PAUSED"
      BY <2>2, <3>1 DEF WriterInv, ResumeIsFresh
    <3> HIDE DEF c
    <3>5. ResumeIsFresh' /\ ResumeChecked'
      BY <2>2, <3>1, <3>2, <3>3, <3>4 DEF ResumeIsFresh, ResumeChecked, Resumable
    <3>6. \A w \in DOMAIN task : task[w].id # id
      BY <3>4 DEF WriterInv, PausedIsQuiet
    <3>7. \A w \in DOMAIN task' : task'[w].pc = "stream" =>
                task[w].id \in DOMAIN active' /\ active'[task[w].id] = active[task[w].id]
      BY <3>1, <3>6 DEF Put, WriterInv, PauseReachesTask
    <3> QED BY <1>1, <3>1, <3>5, <3>7, SameTasksInv DEF WriterInv
  <2> QED BY <2>1, <2>2
<1>13. CASE ResumeSave(r)
  <2> DEFINE id == call[r].id
             row == [call[r].row EXCEPT !.status = "IN_PROGRESS"]
  <2>1. /\ r \in DOMAIN call /\ call[r].pc = "resume" /\ call[r] \in Call
        /\ rows' = Put(rows, id, row) /\ Answer(r) /\ UNCHANGED active
    BY <1>13 DEF ResumeSave, TypeOK, CallOK, Maps
  <2>2. row.status = "IN_PROGRESS"
    BY <2>1, CallFields DEF Row
  <2>3. id \in DOMAIN rows /\ rows[id].status = "PAUSED"
    BY <2>1 DEF WriterInv, ResumeIsFresh, ResumeChecked
  <2>4. \A w \in DOMAIN task : task[w].id # id
    BY <2>3 DEF WriterInv, PausedIsQuiet
  <2>5. PICK w \in Workers : Launch(w, id)
    BY <1>13 DEF ResumeSave
  <2>6. /\ SingleWriter' /\ PauseReachesTask'
        /\ \A x \in DOMAIN task' : task'[x].id = id \/ (x \in DOMAIN task /\ task'[x] = task[x])
    BY <2>1, <2>4, <2>5, LaunchWriter
  <2> HIDE DEF row
  <2>7. /\ rows'[id] = row
        /\ \A x \in DOMAIN rows' : x # id => x \in DOMAIN rows /\ rows'[x] = rows[x]
    BY <2>1 DEF Put
  <2>8. PausedIsQuiet'
    BY <2>2, <2>6, <2>7 DEF WriterInv, PausedIsQuiet
  <2>9. ResumeIsFresh' /\ ResumeChecked'
    BY <2>1, OnlyCall DEF ResumeIsFresh, ResumeChecked
  <2> QED BY <2>6, <2>8, <2>9 DEF WriterInv
<1> QED BY <1>3, <1>5, <1>6, <1>7, <1>8, <1>9, <1>10, <1>11, <1>12, <1>13
        DEF NewCall, CallStep, QueueSteps

LEMMA GeneratorStep ==
    ASSUME TypeOK, WriterInv, NEW w \in Workers, TaskStep(w) \/ StreamStep(w)
    PROVE  WriterInv'
\* Steps that leave the table and the map alone.
<1>1. ASSUME UNCHANGED <<rows, call, active>>, SameTasks PROVE WriterInv'
  BY <1>1, FreshCalls, SameTasksInv DEF WriterInv
\* Steps at which the generator ends without a save.
<1>2. ASSUME UNCHANGED <<rows, call>>, EndTask(w) PROVE WriterInv'
  BY <1>2, FreshCalls, SameTasksInv, EndTaskSame DEF WriterInv
\* Steps at which it saves and ends, possibly PAUSED: no other one is left.
<1>3. ASSUME NEW status, w \in DOMAIN task, Save(task[w], status),
             UNCHANGED call, EndTask(w)
      PROVE  WriterInv'
  <2>1. \A x \in DOMAIN task' : /\ x \in DOMAIN task /\ x # w
                                /\ task'[x].id = task[x].id
    BY <1>3, EndTaskSame DEF SameTasks
  <2>2. \A x \in DOMAIN task' : task'[x].id # task[w].id
    BY <1>3, <2>1 DEF WriterInv, SingleWriter
  <2>3. PausedIsQuiet'
    BY <1>3, <2>1, <2>2, SaveKeeps DEF WriterInv, PausedIsQuiet
  <2> QED BY <1>3, <2>3, SaveKeeps, SameTasksInv, EndTaskSame DEF WriterInv
\* Steps at which it saves another status and goes on.
<1>4. ASSUME NEW status, status # "PAUSED", w \in DOMAIN task,
             Save(task[w], status), UNCHANGED call,
             DOMAIN task' = DOMAIN task,
             \A x \in DOMAIN task : task'[x].id = task[x].id
      PROVE  PausedIsQuiet' /\ ResumeIsFresh' /\ ResumeChecked'
  <2>1. PausedIsQuiet'
    BY <1>4, SaveKeeps DEF WriterInv, PausedIsQuiet
  <2> QED BY <1>4, <2>1, SaveKeeps
<1>5. CASE Find(w)
  <2>1. w \in DOMAIN task /\ UNCHANGED <<rows, call>>
    BY <1>5 DEF Find, At
  <2>2. CASE EndTask(w)
    BY <1>2, <2>1, <2>2
  <2>3. CASE ~EndTask(w)
    <3> DEFINE id == task[w].id
               t == [pc |-> IF rows[id].status = "PENDING" THEN "unlink" ELSE "begin",
                     id |-> id, file |-> rows[id].file, path |-> rows[id].path,
                     offset |-> rows[id].offset, status |-> "IN_PROGRESS"]
    <3>1. task' = Put(task, w, t) /\ UNCHANGED active
      BY <1>5, <2>3 DEF Find
    <3>2. t.id = id /\ t.pc # "stream"
      OBVIOUS
    <3> HIDE DEF t
    <3> QED BY <1>1, <2>1, <3>1, <3>2, PutTaskSame
  <2> QED BY <2>2, <2>3
<1>6. CASE Unlink(w)
  <2> DEFINE t == [task[w] EXCEPT !.pc = "begin"]
  <2>1. w \in DOMAIN task /\ task[w] \in Task /\ task[w].pc = "unlink"
    BY <1>6, AtFacts DEF Unlink
  <2>2. t.id = task[w].id /\ t.pc = "begin"
    BY <2>1 DEF Task
  <2>3. task' = Put(task, w, t) /\ UNCHANGED <<rows, call, active>>
    BY <1>6 DEF Unlink, GoTo
  <2> HIDE DEF t
  <2> QED BY <1>1, <2>1, <2>2, <2>3, PutTaskSame
<1>7. CASE Begin(w)
  <2> DEFINE t == [task[w] EXCEPT !.pc = "stream"]
  <2>1. w \in DOMAIN task /\ task[w] \in Task /\ task[w].pc = "begin"
    BY <1>7, AtFacts DEF Begin
  <2>2. t.id = task[w].id
    BY <2>1 DEF Task
  <2>3. /\ task' = Put(task, w, t) /\ active' = Put(active, task[w].id, w)
        /\ Save(task[w], "IN_PROGRESS") /\ UNCHANGED call
    BY <1>7 DEF Begin, GoTo
  <2> HIDE DEF t
  <2>4. /\ DOMAIN task' = DOMAIN task
        /\ \A x \in DOMAIN task : task'[x].id = task[x].id
                                  /\ (x # w => task'[x] = task[x])
    <3>1. DOMAIN task \cup {w} = DOMAIN task
      BY <2>1
    <3> QED BY <2>2, <2>3, <3>1 DEF Put
  <2>5. PausedIsQuiet' /\ ResumeIsFresh' /\ ResumeChecked'
    BY <1>4, <2>1, <2>3, <2>4
  <2>6. SingleWriter'
    BY <2>4 DEF WriterInv, SingleWriter
  <2>7. \A x \in DOMAIN task : x # w => task[x].id # task[w].id
    BY <2>1 DEF WriterInv, SingleWriter
  <2>8. PauseReachesTask'
    BY <2>3, <2>4, <2>7 DEF Put, WriterInv, PauseReachesTask
  <2> QED BY <2>5, <2>6, <2>8 DEF WriterInv
<1>8. CASE Receive(w)
  <2> DEFINE t == [task[w] EXCEPT !.offset = @ + 1]
  <2>1. w \in DOMAIN task /\ task[w] \in Task /\ task[w].pc = "stream"
    BY <1>8, AtFacts DEF Receive
  <2>2. t.id = task[w].id
    BY <2>1 DEF Task
  <2>3. task' = Put(task, w, t) /\ UNCHANGED <<rows, call, active>>
    BY <1>8 DEF Receive
  <2> HIDE DEF t
  <2> QED BY <1>1, <2>1, <2>2, <2>3, PutTaskSame
<1>9. ASSUME NEW t \in Task, t.id = task[w].id, t.pc = "stream",
             At(w, "stream"), Finally(w, t)
      PROVE  WriterInv'
  <2> DEFINE u == [t EXCEPT !.pc = "finish", !.status = FinalStatus(t)]
  <2>1. u.id = task[w].id /\ u.pc = "finish" /\ w \in DOMAIN task
    BY <1>9 DEF Task, At
  <2>2. /\ task' = Put(task, w, u) /\ UNCHANGED <<rows, call>>
        /\ active' = active \/ active' = Drop(active, task[w].id)
    BY <1>9 DEF Finally
  <2> HIDE DEF u
  <2>3. SameTasks
    BY <2>1, <2>2, PutTaskSame
  <2>4. \A x \in DOMAIN task' : task'[x].pc = "stream" =>
            x \in DOMAIN task /\ x # w
    BY <2>1, <2>2 DEF Put
  <2>5. \A x \in DOMAIN task' : task'[x].pc = "stream" =>
            /\ task[x].id # task[w].id /\ task[x].pc = "stream"
            /\ task[x].id \in DOMAIN active
    BY <2>1, <2>3, <2>4 DEF WriterInv, SingleWriter, PauseReachesTask, SameTasks
  <2>6. \A x \in DOMAIN task' : task'[x].pc = "stream" =>
            task[x].id \in DOMAIN active' /\ active'[task[x].id] = active[task[x].id]
    BY <2>2, <2>5 DEF Drop
  <2> QED BY <2>2, <2>3, <2>6, FreshCalls, SameTasksInv DEF WriterInv
<1>10. CASE ReceivePaused(w)
  <2> DEFINE t == [task[w] EXCEPT !.status = "PAUSED"]
  <2>1. At(w, "stream") /\ task[w] \in Task /\ task[w].pc = "stream" /\ Finally(w, t)
    BY <1>10, AtFacts DEF ReceivePaused
  <2>2. t \in Task /\ t.id = task[w].id /\ t.pc = "stream"
    BY <2>1 DEF Task, Status
  <2> HIDE DEF t
  <2> QED BY <1>9, <2>1, <2>2
<1>11. CASE StreamStop(w)
  <2>1. At(w, "stream") /\ task[w] \in Task /\ task[w].pc = "stream" /\ Finally(w, task[w])
    BY <1>11, AtFacts DEF StreamStop
  <2> QED BY <1>9, <2>1
<1>12. CASE Finish(w)
  <2>1. /\ w \in DOMAIN task /\ task[w] \in Task /\ task[w].pc = "finish"
        /\ Save(task[w], task[w].status) /\ UNCHANGED call
    BY <1>12, AtFacts DEF Finish
  <2>2. CASE EndTask(w)
    BY <1>3, <2>1, <2>2
  <2>3. CASE ~EndTask(w)
    <3> DEFINE t == [task[w] EXCEPT !.pc = "checksum"]
    <3>1. /\ task[w].status = "COMPLETED_UNVERIFIED"
          /\ task' = Put(task, w, t) /\ UNCHANGED active
      BY <1>12, <2>3 DEF Finish, GoTo
    <3>2. t.id = task[w].id /\ t.pc = "checksum"
      BY <2>1 DEF Task
    <3> HIDE DEF t
    <3>3. SameTasks
      BY <2>1, <3>1, <3>2, PutTaskSame
    <3>4. DOMAIN task' = DOMAIN task /\ \A x \in DOMAIN task : task'[x].id = task[x].id
      <4>1. DOMAIN task \cup {w} = DOMAIN task
        BY <2>1
      <4> QED BY <3>1, <3>2, <4>1 DEF Put
    <3> QED BY <1>4, <2>1, <3>1, <3>3, <3>4, SameTasksInv DEF WriterInv
  <2> QED BY <2>2, <2>3
<1>13. CASE Checksum(w)
  <2>1. /\ w \in DOMAIN task /\ task[w] \in Task /\ task[w].pc = "checksum"
        /\ UNCHANGED <<rows, call>>
    BY <1>13, AtFacts DEF Checksum
  <2>2. CASE EndTask(w)
    BY <1>2, <2>1, <2>2
  <2>3. CASE ~EndTask(w)
    <3> DEFINE t == [task[w] EXCEPT !.pc = "complete", !.status = "COMPLETED"]
    <3>1. task' = Put(task, w, t) /\ UNCHANGED active
      BY <1>13, <2>3 DEF Checksum
    <3>2. t.id = task[w].id /\ t.pc = "complete"
      BY <2>1 DEF Task
    <3> HIDE DEF t
    <3> QED BY <1>1, <2>1, <3>1, <3>2, PutTaskSame
  <2> QED BY <2>2, <2>3
<1>14. CASE Complete(w)
  <2>1. w \in DOMAIN task /\ Save(task[w], "COMPLETED") /\ EndTask(w) /\ UNCHANGED call
    BY <1>14 DEF Complete, At
  <2> QED BY <1>3, <2>1
<1>15. CASE StreamStep(w)
  BY <1>1, <1>15 DEF StreamStep, Open, Flush, SameTasks
<1> QED BY <1>5, <1>6, <1>7, <1>8, <1>10, <1>11, <1>12, <1>13, <1>14, <1>15
        DEF TaskStep

LEMMA WriterStep == OneUser /\ TypeOK /\ WriterInv /\ [Next]_vars => WriterInv'
<1> SUFFICES ASSUME OneUser, TypeOK, WriterInv, [Next]_vars PROVE WriterInv'
  OBVIOUS
<1>1. CASE Crash
  BY <1>1 DEF Crash, NoMap, WriterInv, SingleWriter, PauseReachesTask,
     PausedIsQuiet, ResumeIsFresh, ResumeChecked
<1>2. CASE UNCHANGED vars
  BY <1>2 DEF vars, WriterInv, SingleWriter, PauseReachesTask, PausedIsQuiet,
     ResumeIsFresh, ResumeChecked
<1> QED BY <1>1, <1>2, RequestStep, GeneratorStep DEF Next

LEMMA WriterInvariant == OneUser => (Spec => []WriterInv)
<1> SUFFICES ASSUME OneUser PROVE Spec => []WriterInv
  OBVIOUS
<1>1. Init => WriterInv
  BY DEF Init, NoMap, WriterInv, SingleWriter, PauseReachesTask, PausedIsQuiet,
     ResumeIsFresh, ResumeChecked
<1>2. TypeOK /\ WriterInv /\ [Next]_vars => WriterInv'
  BY WriterStep
<1> QED BY <1>1, <1>2, TypeCorrect, PTL DEF Spec

(***************************************************************************)
(* With one request at a time no download ever has two generators, though   *)
(* nothing in the code excludes it but the PAUSED check of resume, and      *)
(* though restarts, deletions and re-queued files happen at any point.      *)
(***************************************************************************)
THEOREM OneWriterPerDownload == OneUser => (Spec => []SingleWriter)
BY WriterInvariant, PTL DEF WriterInv

(***************************************************************************)
(* With one request at a time activeDownloads always leads to the generator *)
(* that streams, so a pause of a streaming download is never lost.          *)
(***************************************************************************)
THEOREM PauseIsSeen == OneUser => (Spec => []PauseReachesTask)
BY WriterInvariant, PTL DEF WriterInv

(***************************************************************************)
(* With one request at a time a resume never starts a second generator: a   *)
(* PAUSED row has none, and the row that a resume read before its await is  *)
(* still PAUSED when it acts on it.                                         *)
(***************************************************************************)
THEOREM ResumeCorrect == OneUser => (Spec => []ResumeIsSafe)
BY WriterInvariant, PTL DEF WriterInv, ResumeIsSafe

(***************************************************************************)
(* What a generator knows of its row.                                      *)
(*                                                                         *)
(* A generator saves its whole entity over the row, and so does a resume.   *)
(* Nothing is lost by that because the entity is never older than the row:  *)
(* each stage of the generator goes with a status of the row, and a resume  *)
(* in flight holds the row as it still is.                                  *)
(***************************************************************************)
Tracks(t, row) ==
    /\ t.pc = "find" => row.status \in {"PENDING", "IN_PROGRESS"}
    /\ t.pc # "find" =>
          t.file = row.file /\ t.path = row.path /\ t.offset >= row.offset
    /\ t.pc = "unlink" => row.status = "PENDING"
    /\ t.pc = "begin" => row.status \in {"PENDING", "IN_PROGRESS"}
    /\ t.pc \in {"unlink", "begin", "checksum", "complete"} => t.offset = row.offset
    /\ t.pc \in {"stream", "finish"} => row.status = "IN_PROGRESS"
    /\ t.pc = "finish" => t.status \in {"COMPLETED_UNVERIFIED", "PAUSED", "FAILED"}
    /\ t.pc \in {"checksum", "complete"} => row.status = "COMPLETED_UNVERIFIED"

TasksTrack ==
    \A w \in DOMAIN task :
        task[w].id \in DOMAIN rows => Tracks(task[w], rows[task[w].id])

CallsTrack ==
    \A r \in DOMAIN call :
        (call[r].pc \in {"mark", "resume"} /\ Resumable(call[r].row)) =>
            call[r].id \in DOMAIN rows /\ rows[call[r].id] = call[r].row

TrackInv == TasksTrack /\ CallsTrack

LEMMA TrackKept ==
    ASSUME TasksTrack,
           \A x \in DOMAIN task' :
              \/ task'[x].id \in DOMAIN rows' => Tracks(task'[x], rows'[task'[x].id])
              \/ /\ x \in DOMAIN task /\ task'[x] = task[x]
                 /\ task[x].id \in DOMAIN rows' =>
                        /\ task[x].id \in DOMAIN rows
                        /\ rows'[task[x].id] = rows[task[x].id]
    PROVE  TasksTrack'
<1> SUFFICES ASSUME NEW x \in DOMAIN task', task'[x].id \in DOMAIN rows'
             PROVE  Tracks(task'[x], rows'[task'[x].id])
  BY DEF TasksTrack, Tracks
<1> QED BY DEF TasksTrack

\* A generator moves on and leaves the table alone.
LEMMA TaskMoves ==
    ASSUME TasksTrack, NEW w \in DOMAIN task, NEW u, task' = Put(task, w, u),
           rows' = rows, u.id = task[w].id,
           u.id \in DOMAIN rows => Tracks(u, rows[u.id])
    PROVE  TasksTrack'
<1>1. \A x \in DOMAIN task' :
        task'[x] = u \/ (x \in DOMAIN task /\ task'[x] = task[x])
  BY DEF Put
<1> QED BY <1>1, TrackKept

\* A save touches no row but the generator's.
LEMMA SaveFacts ==
    ASSUME NEW id, NEW row, rows' = Put(rows, id, row)
    PROVE  /\ id \in DOMAIN rows' /\ rows'[id] = row
           /\ \A i \in DOMAIN rows' : i # id => i \in DOMAIN rows /\ rows'[i] = rows[i]
           /\ \A i \in DOMAIN rows : i \in DOMAIN rows'
BY DEF Put

\* A generator saves its row and moves on.
LEMMA TaskSaves ==
    ASSUME TasksTrack, SingleWriter, NEW w \in DOMAIN task, NEW u, NEW row,
           task' = Put(task, w, u), rows' = Put(rows, task[w].id, row),
           u.id = task[w].id, Tracks(u, row)
    PROVE  TasksTrack'
<1>1. \A x \in DOMAIN task' :
        task'[x] = u \/ (x # w /\ x \in DOMAIN task /\ task'[x] = task[x])
  BY DEF Put
<1>2. \A x \in DOMAIN task : x # w => task[x].id # task[w].id
  BY DEF SingleWriter
<1> QED BY <1>1, <1>2, SaveFacts, TrackKept

\* A generator ends, having saved its row or not.
LEMMA TaskEndsTracked ==
    ASSUME TasksTrack, SingleWriter, NEW w \in DOMAIN task, EndTask(w),
           rows' = rows \/ \E row : rows' = Put(rows, task[w].id, row)
    PROVE  TasksTrack'
<1>1. \A x \in DOMAIN task' : x # w /\ x \in DOMAIN task /\ task'[x] = task[x]
  BY DEF EndTask, Drop
<1>2. \A x \in DOMAIN task : x # w => task[x].id # task[w].id
  BY DEF SingleWriter
<1> QED BY <1>1, <1>2, SaveFacts, TrackKept

\* No resume in flight is new, and no PAUSED row changes.
LEMMA CallsKept ==
    ASSUME CallsTrack,
           \A r \in DOMAIN call' : r \in DOMAIN call /\ call'[r] = call[r],
           \A id \in DOMAIN rows : rows[id].status = "PAUSED" =>
                id \in DOMAIN rows' /\ rows'[id] = rows[id]
    PROVE  CallsTrack'
<1> SUFFICES ASSUME NEW r \in DOMAIN call', call'[r].pc \in {"mark", "resume"},
                    Resumable(call'[r].row)
             PROVE  call'[r].id \in DOMAIN rows' /\ rows'[call'[r].id] = call'[r].row
  BY DEF CallsTrack, Resumable
<1> QED BY DEF CallsTrack, Resumable

LEMMA GeneratorTracks ==
    ASSUME TypeOK, WriterInv, OffsetInv, TrackInv, NEW w \in Workers,
           TaskStep(w) \/ StreamStep(w)
    PROVE  TrackInv'
<1> USE DEF TrackInv
<1>1. UNCHANGED <<rows, call>> => CallsTrack'
  BY CallsKept
<1>2. ASSUME w \in DOMAIN task, NEW row, rows' = Put(rows, task[w].id, row),
             UNCHANGED call
      PROVE  CallsTrack'
  <2>1. \A id \in DOMAIN rows : rows[id].status = "PAUSED" => id # task[w].id
    BY <1>2 DEF WriterInv, PausedIsQuiet
  <2> QED BY <1>2, <2>1, CallsKept DEF Put
<1>3. ASSUME w \in DOMAIN task, EndTask(w), UNCHANGED call,
             rows' = rows \/ \E row : rows' = Put(rows, task[w].id, row)
      PROVE  TrackInv'
  BY <1>1, <1>2, <1>3, TaskEndsTracked DEF WriterInv
<1>4. ASSUME w \in DOMAIN task, NEW u, task' = Put(task, w, u), u.id = task[w].id,
             UNCHANGED <<rows, call>>, u.id \in DOMAIN rows => Tracks(u, rows[u.id])
      PROVE  TrackInv'
  BY <1>1, <1>4, TaskMoves
<1>5. ASSUME w \in DOMAIN task, NEW u, NEW row, task' = Put(task, w, u),
             rows' = Put(rows, task[w].id, row), UNCHANGED call,
             u.id = task[w].id, Tracks(u, row)
      PROVE  TrackInv'
  BY <1>2, <1>5, TaskSaves DEF WriterInv
<1>6. CASE Find(w)
  <2>1. w \in DOMAIN task /\ task[w].pc = "find" /\ UNCHANGED <<rows, call>>
    BY <1>6 DEF Find, At
  <2>2. CASE EndTask(w)
    BY <1>3, <2>1, <2>2
  <2>3. CASE ~EndTask(w)
    <3> DEFINE id == task[w].id
               u == [pc |-> IF rows[id].status = "PENDING" THEN "unlink" ELSE "begin",
                     id |-> id, file |-> rows[id].file, path |-> rows[id].path,
                     offset |-> rows[id].offset, status |-> "IN_PROGRESS"]
    <3>1. task' = Put(task, w, u) /\ id \in DOMAIN rows
      BY <1>6, <2>3 DEF Find
    <3>2. rows[id].status \in {"PENDING", "IN_PROGRESS"} /\ rows[id].offset \in Nat
      BY <2>1, <3>1 DEF TasksTrack, Tracks, TypeOK, RowsOK, Maps, Row
    <3>3. u.id = id /\ Tracks(u, rows[id])
      BY <3>2 DEF Tracks
    <3> HIDE DEF u
    <3> QED BY <1>4, <2>1, <3>1, <3>3
  <2> QED BY <2>2, <2>3
<1>7. CASE Unlink(w)
  <2> DEFINE u == [task[w] EXCEPT !.pc = "begin"]
  <2>1. w \in DOMAIN task /\ task[w] \in Task /\ task[w].pc = "unlink"
    BY <1>7, AtFacts DEF Unlink
  <2>2. /\ u.id = task[w].id /\ u.pc = "begin" /\ u.file = task[w].file
        /\ u.path = task[w].path /\ u.offset = task[w].offset
    BY <2>1 DEF Task
  <2>3. task' = Put(task, w, u) /\ UNCHANGED <<rows, call>>
    BY <1>7 DEF Unlink, GoTo
  <2> HIDE DEF u
  <2>4. u.id \in DOMAIN rows => Tracks(u, rows[u.id])
    BY <2>1, <2>2 DEF TasksTrack, Tracks
  <2> QED BY <1>4, <2>1, <2>2, <2>3, <2>4
<1>8. CASE Begin(w)
  <2> DEFINE u == [task[w] EXCEPT !.pc = "stream"]
             row == [file |-> task[w].file, path |-> task[w].path,
                     offset |-> task[w].offset, status |-> "IN_PROGRESS"]
  <2>1. w \in DOMAIN task /\ task[w] \in Task /\ task[w].pc = "begin"
    BY <1>8, AtFacts DEF Begin
  <2>2. /\ u.id = task[w].id /\ u.pc = "stream" /\ u.file = task[w].file
        /\ u.path = task[w].path /\ u.offset = task[w].offset
        /\ task[w].offset \in Nat
    BY <2>1 DEF Task
  <2>3. task' = Put(task, w, u) /\ rows' = Put(rows, task[w].id, row) /\ UNCHANGED call
    BY <1>8 DEF Begin, GoTo, Save
  <2> HIDE DEF u
  <2>4. Tracks(u, row)
    BY <2>2 DEF Tracks
  <2> HIDE DEF row
  <2> QED BY <1>5, <2>1, <2>2, <2>3, <2>4
<1>9. CASE Receive(w)
  <2> DEFINE u == [task[w] EXCEPT !.offset = @ + 1]
  <2>1. w \in DOMAIN task /\ task[w] \in Task /\ task[w].pc = "stream"
    BY <1>9, AtFacts DEF Receive
  <2>2. /\ u.id = task[w].id /\ u.pc = "stream" /\ u.file = task[w].file
        /\ u.path = task[w].path /\ u.offset = task[w].offset + 1
        /\ task[w].offset \in Nat
    BY <2>1 DEF Task
  <2>3. task' = Put(task, w, u) /\ UNCHANGED <<rows, call>>
    BY <1>9 DEF Receive
  <2> HIDE DEF u
  <2>4. ASSUME u.id \in DOMAIN rows PROVE Tracks(u, rows[u.id])
    <3>1. Tracks(task[w], rows[u.id]) /\ rows[u.id].offset \in Nat
      BY <2>1, <2>2, <2>4 DEF TasksTrack, TypeOK, RowsOK, Maps, Row
    <3> QED BY <2>1, <2>2, <3>1 DEF Tracks
  <2> QED BY <1>4, <2>1, <2>2, <2>3, <2>4
<1>10. ASSUME NEW t \in Task, t.pc = "stream", task[w].pc = "stream",
              t.id = task[w].id, t.file = task[w].file, t.path = task[w].path,
              t.offset = task[w].offset, w \in DOMAIN task, Finally(w, t)
       PROVE  TrackInv'
  <2> DEFINE u == [t EXCEPT !.pc = "finish", !.status = FinalStatus(t)]
  <2>1. /\ u.id = task[w].id /\ u.pc = "finish" /\ u.file = task[w].file
        /\ u.path = task[w].path /\ u.offset = task[w].offset
        /\ u.status \in {"COMPLETED_UNVERIFIED", "PAUSED", "FAILED"}
    BY <1>10, FinalStatusFacts DEF Task
  <2>2. task' = Put(task, w, u) /\ UNCHANGED <<rows, call>>
    BY <1>10 DEF Finally
  <2> HIDE DEF u
  <2>3. u.id \in DOMAIN rows => Tracks(u, rows[u.id])
    BY <1>10, <2>1 DEF TasksTrack, Tracks
  <2> QED BY <1>4, <1>10, <2>1, <2>2, <2>3
<1>11. CASE ReceivePaused(w)
  <2> DEFINE t == [task[w] EXCEPT !.status = "PAUSED"]
  <2>1. /\ w \in DOMAIN task /\ task[w] \in Task /\ task[w].pc = "stream"
        /\ Finally(w, t)
    BY <1>11, AtFacts DEF ReceivePaused
  <2>2. /\ t \in Task /\ t.pc = "stream" /\ t.id = task[w].id
        /\ t.file = task[w].file /\ t.path = task[w].path
        /\ t.offset = task[w].offset
    BY <2>1 DEF Task, Status
  <2> HIDE DEF t
  <2> QED BY <1>10, <2>1, <2>2
<1>12. CASE StreamStop(w)
  <2>1. /\ w \in DOMAIN task /\ task[w] \in Task /\ task[w].pc = "stream"
        /\ Finally(w, task[w])
    BY <1>12, AtFacts DEF StreamStop
  <2> QED BY <1>10, <2>1
<1>13. CASE Finish(w)
  <2> DEFINE u == [task[w] EXCEPT !.pc = "checksum"]
             row == [file |-> task[w].file, path |-> task[w].path,
                     offset |-> task[w].offset, status |-> task[w].status]
  <2>1. /\ w \in DOMAIN task /\ task[w] \in Task /\ task[w].pc = "finish"
        /\ rows' = Put(rows, task[w].id, row) /\ UNCHANGED call
    BY <1>13, AtFacts DEF Finish, Save
  <2>2. CASE EndTask(w)
    <3> HIDE DEF row
    <3> QED BY <1>3, <2>1, <2>2
  <2>3. CASE ~EndTask(w)
    <3>1. task[w].status = "COMPLETED_UNVERIFIED" /\ task' = Put(task, w, u)
      BY <1>13, <2>3 DEF Finish, GoTo
    <3>2. /\ u.id = task[w].id /\ u.pc = "checksum" /\ u.file = task[w].file
          /\ u.path = task[w].path /\ u.offset = task[w].offset
          /\ task[w].offset \in Nat
      BY <2>1 DEF Task
    <3> HIDE DEF u
    <3>3. Tracks(u, row)
      BY <3>1, <3>2 DEF Tracks
    <3> HIDE DEF row
    <3> QED BY <1>5, <2>1, <3>1, <3>2, <3>3
  <2> QED BY <2>2, <2>3
<1>14. CASE Checksum(w)
  <2> DEFINE u == [task[w] EXCEPT !.pc = "complete", !.status = "COMPLETED"]
  <2>1. /\ w \in DOMAIN task /\ task[w] \in Task /\ task[w].pc = "checksum"
        /\ UNCHANGED <<rows, call>>
    BY <1>14, AtFacts DEF Checksum
  <2>2. CASE EndTask(w)
    BY <1>3, <2>1, <2>2
  <2>3. CASE ~EndTask(w)
    <3>1. task' = Put(task, w, u)
      BY <1>14, <2>3 DEF Checksum
    <3>2. /\ u.id = task[w].id /\ u.pc = "complete" /\ u.file = task[w].file
          /\ u.path = task[w].path /\ u.offset = task[w].offset
      BY <2>1 DEF Task
    <3> HIDE DEF u
    <3>3. u.id \in DOMAIN rows => Tracks(u, rows[u.id])
      BY <2>1, <3>2 DEF TasksTrack, Tracks
    <3> QED BY <1>4, <2>1, <3>1, <3>2, <3>3
  <2> QED BY <2>2, <2>3
<1>15. CASE Complete(w)
  <2> DEFINE row == [file |-> task[w].file, path |-> task[w].path,
                     offset |-> task[w].offset, status |-> "COMPLETED"]
  <2>1. /\ w \in DOMAIN task /\ rows' = Put(rows, task[w].id, row)
        /\ EndTask(w) /\ UNCHANGED call
    BY <1>15 DEF Complete, At, Save
  <2> HIDE DEF row
  <2> QED BY <1>3, <2>1
<1>16. CASE StreamStep(w)
  <2>1. UNCHANGED <<rows, task, call>>
    BY <1>16 DEF StreamStep, Open, Flush
  <2> QED BY <1>1, <2>1, TrackKept
<1> QED BY <1>6, <1>7, <1>8, <1>9, <1>11, <1>12, <1>13, <1>14, <1>15, <1>16
        DEF TaskStep

\* A request's step that starts no generator and touches no generator's row.
LEMMA RequestKeepsTasks ==
    ASSUME TasksTrack, UNCHANGED task,
           rows' = rows \/ \E id : rows' = Drop(rows, id)
    PROVE  TasksTrack'
<1>1. \A i \in DOMAIN rows' : i \in DOMAIN rows /\ rows'[i] = rows[i]
  BY DEF Drop
<1> QED BY <1>1, TrackKept

\* A new generator, for a row that is PENDING or IN_PROGRESS.
LEMMA LaunchTracks ==
    ASSUME TasksTrack, NEW w, NEW id, NEW row, Launch(w, id),
           rows' = Put(rows, id, row), row.status \in {"PENDING", "IN_PROGRESS"},
           \A x \in DOMAIN task : task[x].id # id
    PROVE  TasksTrack'
<1> DEFINE u == [pc |-> "find", id |-> id]
<1>1. task' = Put(task, w, u)
  BY DEF Launch
<1>2. u.id = id /\ Tracks(u, row)
  BY DEF Tracks
<1> HIDE DEF u
<1>3. \A x \in DOMAIN task' :
        task'[x] = u \/ (x \in DOMAIN task /\ task'[x] = task[x])
  BY <1>1 DEF Put
<1> QED BY <1>2, <1>3, SaveFacts, TrackKept

\* No request that resumes is left.
LEMMA NoResumeTracked ==
    ASSUME OneUser, TypeOK, NEW r \in Requests,
           Answer(r) \/ \E c : call' = Put(call, r, c) /\ c.pc \notin {"mark", "resume"}
    PROVE  CallsTrack'
<1>1. \A x \in DOMAIN call' : call'[x].pc \notin {"mark", "resume"}
  <2>1. ASSUME NEW c, call' = Put(call, r, c), c.pc \notin {"mark", "resume"}
        PROVE  \A x \in DOMAIN call' : call'[x].pc \notin {"mark", "resume"}
    <3>1. call'[r] = c /\ DOMAIN call' = {r}
      BY <2>1, OnlyCall
    <3> QED BY <2>1, <3>1
  <2> QED BY <2>1, OnlyCall
<1> QED BY <1>1 DEF CallsTrack

LEMMA RequestTracks ==
    ASSUME OneUser, TypeOK, WriterInv, TrackInv, NEW r \in Requests,
           NewCall(r) \/ CallStep(r)
    PROVE  TrackInv'
<1> USE DEF TrackInv
\* Steps that only move a request on, or take a row away.
<1>1. ASSUME UNCHANGED task, rows' = rows \/ \E id : rows' = Drop(rows, id),
             Answer(r) \/ \E c : /\ call' = Put(call, r, c)
                                 /\ c.pc \notin {"mark", "resume"}
      PROVE  TrackInv'
  BY <1>1, RequestKeepsTasks, NoResumeTracked
<1>2. ASSUME NEW f \in Files, NEW override \in BOOLEAN, QueueLookup(r, f, override)
      PROVE  TrackInv'
  <2>1. UNCHANGED <<rows, task>>
    BY <1>2 DEF QueueLookup
  <2>2. \E c : call' = Put(call, r, c) /\ c.pc \notin {"mark", "resume"}
    <3>1. CASE call' = Put(call, r, [pc |-> "reserve", file |-> f])
      BY <3>1
    <3>2. ASSUME NEW id \in UnfinishedRows(f),
                 call' = Put(call, r, [pc |-> "dropRow", id |-> id,
                                       path |-> rows[id].path, file |-> f])
          PROVE  \E c : call' = Put(call, r, c) /\ c.pc \notin {"mark", "resume"}
      BY <3>2
    <3> QED BY <1>2, <3>1, <3>2 DEF QueueLookup
  <2> QED BY <1>1, <2>1, <2>2
<1>3. CASE QueueDropRow(r)
  BY <1>1, <1>3 DEF QueueDropRow
<1>4. CASE DeleteRemove(r)
  BY <1>1, <1>4 DEF DeleteRemove
<1>5. CASE QueueDropFile(r)
  BY <1>1, <1>5 DEF QueueDropFile
<1>6. CASE DeleteUnlink(r)
  BY <1>1, <1>6 DEF DeleteUnlink
<1>7. CASE QueueReserve(r)
  <2>1. UNCHANGED <<rows, task>>
    BY <1>7 DEF QueueReserve
  <2>2. PICK p : call' = Put(call, r, [pc |-> "insert", file |-> call[r].file,
                                       path |-> p])
    BY <1>7 DEF QueueReserve
  <2> QED BY <1>1, <2>1, <2>2
<1>8. ASSUME NEW id \in Ids, NEW fromFs \in BOOLEAN, DeleteFind(r, id, fromFs)
      PROVE  TrackInv'
  BY <1>1, <1>8 DEF DeleteFind
<1>9. CASE QueueInsert(r)
  <2> DEFINE row == [file |-> call[r].file, path |-> call[r].path,
                     offset |-> 0, status |-> "PENDING"]
  <2>1. PICK w \in Workers : Launch(w, nextId)
    BY <1>9 DEF QueueInsert
  <2>2. \A x \in DOMAIN task : task[x].id # nextId
    <3>1. ASSUME NEW x \in DOMAIN task PROVE task[x].id \in Nat /\ task[x].id < nextId
      BY TaskId, IdsAreNat DEF TypeOK, TaskOK, Maps
    <3> QED BY <3>1, Kept
  <2>3. rows' = Put(rows, nextId, row) /\ row.status = "PENDING" /\ Answer(r)
    BY <1>9 DEF QueueInsert
  <2> HIDE DEF row
  <2>4. TasksTrack'
    BY <2>1, <2>2, <2>3, LaunchTracks
  <2> QED BY <2>3, <2>4, NoResumeTracked
<1>10. ASSUME NEW id \in Ids, Pause(r, id) PROVE TrackInv'
  <2>1. UNCHANGED <<rows, call>> /\ id \in DOMAIN active
    BY <1>10 DEF Pause
  <2>2. CallsTrack'
    BY <2>1, CallsKept
  <2>3. CASE active[id] \in Workers
    <3> DEFINE w == active[id]
               u == [task[w] EXCEPT !.status = "PAUSED"]
    <3>1. /\ w \in DOMAIN task /\ task[w] \in Task
          /\ task[w].pc \notin {"find", "unlink", "begin"}
      BY <2>1, <2>3, DownloadAssumption DEF TypeOK, ActiveOK, TaskOK, Maps
    <3>2. /\ u.id = task[w].id /\ u.pc = task[w].pc /\ u.file = task[w].file
          /\ u.path = task[w].path /\ u.offset = task[w].offset
          /\ u.status = "PAUSED"
      BY <3>1 DEF Task
    <3>3. task' = Put(task, w, u)
      BY <1>10, <2>3 DEF Pause
    <3> HIDE DEF u
    <3>4. u.id \in DOMAIN rows => Tracks(u, rows[u.id])
      BY <3>1, <3>2 DEF TasksTrack, Tracks
    <3>5. TasksTrack'
      BY <2>1, <3>1, <3>2, <3>3, <3>4, TaskMoves
    <3> QED BY <2>2, <3>5
  <2>4. CASE active[id] \notin Workers
    <3>1. UNCHANGED task
      BY <1>10, <2>4 DEF Pause
    <3> QED BY <2>1, <2>2, <3>1, RequestKeepsTasks
  <2> QED BY <2>3, <2>4
<1>11. ASSUME NEW id \in Ids, ResumeFind(r, id) PROVE TrackInv'
  <2> DEFINE c == [pc |-> "mark", id |-> id, row |-> rows[id]]
  <2>1. UNCHANGED <<rows, task>> /\ call' = Put(call, r, c) /\ id \in DOMAIN rows
    BY <1>11 DEF ResumeFind
  <2>2. call'[r] = c /\ DOMAIN call' = {r}
    BY <2>1, OnlyCall
  <2>3. CallsTrack'
    BY <2>1, <2>2 DEF CallsTrack
  <2> QED BY <2>1, <2>3, RequestKeepsTasks
<1>12. CASE ResumeMark(r)
  <2>1. CASE ~Resumable(call[r].row)
    BY <1>1, <1>12, <2>1 DEF ResumeMark
  <2>2. CASE Resumable(call[r].row)
    <3> DEFINE c == [call[r] EXCEPT !.pc = "resume"]
    <3>1. /\ UNCHANGED <<rows, task>> /\ call' = Put(call, r, c)
          /\ r \in DOMAIN call /\ call[r].pc = "mark" /\ call[r] \in Call
      BY <1>12, <2>2 DEF ResumeMark, TypeOK, CallOK, Maps
    <3>2. c.id = call[r].id /\ c.row = call[r].row
      BY <3>1 DEF Call
    <3>3. call'[r] = c /\ DOMAIN call' = {r}
      BY <3>1, OnlyCall
    <3> HIDE DEF c
    <3>4. CallsTrack'
      BY <2>2, <3>1, <3>2, <3>3 DEF CallsTrack
    <3> QED BY <3>1, <3>4, RequestKeepsTasks
  <2> QED BY <2>1, <2>2
<1>13. CASE ResumeSave(r)
  <2> DEFINE id == call[r].id
             row == [call[r].row EXCEPT !.status = "IN_PROGRESS"]
  <2>1. /\ r \in DOMAIN call /\ call[r].pc = "resume" /\ call[r] \in Call
        /\ rows' = Put(rows, id, row) /\ Answer(r)
    BY <1>13 DEF ResumeSave, TypeOK, CallOK, Maps
  <2>2. row.status = "IN_PROGRESS"
    BY <2>1, CallFields DEF Row
  <2>3. \A x \in DOMAIN task : task[x].id # id
    BY <2>1 DEF WriterInv, ResumeIsFresh, ResumeChecked, PausedIsQuiet
  <2>4. PICK w \in Workers : Launch(w, id)
    BY <1>13 DEF ResumeSave
  <2> HIDE DEF row
  <2>5. TasksTrack'
    BY <2>1, <2>2, <2>3, <2>4, LaunchTracks
  <2> QED BY <2>1, <2>5, NoResumeTracked
<1> QED BY <1>2, <1>3, <1>4, <1>5, <1>6, <1>7, <1>8, <1>9, <1>10, <1>11, <1>12,
           <1>13 DEF NewCall, CallStep, QueueSteps

LEMMA TrackInvariant == OneUser => (Spec => []TrackInv)
<1> SUFFICES ASSUME OneUser PROVE Spec => []TrackInv
  OBVIOUS
<1>1. Init => TrackInv
  BY DEF Init, NoMap, TrackInv, TasksTrack, CallsTrack
<1>2. ASSUME TypeOK, WriterInv, OffsetInv, TrackInv, [Next]_vars PROVE TrackInv'
  <2>1. CASE Crash
    BY <2>1 DEF Crash, NoMap, TrackInv, TasksTrack, CallsTrack
  <2>2. CASE UNCHANGED vars
    <3>1. UNCHANGED <<rows, task, call>>
      BY <2>2 DEF vars
    <3> QED BY <1>2, <3>1, RequestKeepsTasks, CallsKept DEF TrackInv
  <2> QED BY <1>2, <2>1, <2>2, RequestTracks, GeneratorTracks DEF Next
<1> QED BY <1>1, <1>2, TypeCorrect, WriterInvariant, OffsetInvariant, PTL DEF Spec

(***************************************************************************)
(* The steps that write the table.                                         *)
(***************************************************************************)
LEMMA TableSteps ==
    ASSUME [Next]_vars, rows' # rows
    PROVE  \/ \E r \in Requests : \/ QueueDropRow(r) \/ DeleteRemove(r)
                                  \/ QueueInsert(r) \/ ResumeSave(r)
           \/ \E w \in Workers : Begin(w) \/ Finish(w) \/ Complete(w)
<1>1. ASSUME NEW r \in Requests, NewCall(r) PROVE FALSE
  BY <1>1 DEF NewCall, QueueLookup, Pause, ResumeFind, DeleteFind
<1>2. ASSUME NEW r \in Requests,
             QueueDropFile(r) \/ QueueReserve(r) \/ ResumeMark(r) \/ DeleteUnlink(r)
      PROVE  FALSE
  BY <1>2 DEF QueueDropFile, QueueReserve, ResumeMark, DeleteUnlink
<1>3. ASSUME NEW w \in Workers,
             \/ Find(w) \/ Unlink(w) \/ Receive(w) \/ ReceivePaused(w)
             \/ StreamStop(w) \/ Checksum(w) \/ StreamStep(w)
      PROVE  FALSE
  BY <1>3 DEF Find, Unlink, Receive, ReceivePaused, StreamStop, Finally, Checksum,
     StreamStep, Open, Flush
<1>4. ~Crash /\ ~UNCHANGED vars
  BY DEF Crash, vars
<1> QED BY <1>1, <1>2, <1>3, <1>4 DEF Next, CallStep, QueueSteps, TaskStep

\* Each of them writes a row it knows, with nothing undone.
Advances(row, new) ==
    new.file = row.file /\ new.path = row.path /\ new.offset >= row.offset

LEMMA SaveAdvances ==
    ASSUME TypeOK, TrackInv, NEW w \in DOMAIN task, NEW status,
           task[w].pc \in {"begin", "finish", "complete"}, Save(task[w], status)
    PROVE  \A id \in DOMAIN rows \cap DOMAIN rows' : Advances(rows[id], rows'[id])
<1> DEFINE row == [file |-> task[w].file, path |-> task[w].path,
                   offset |-> task[w].offset, status |-> status]
<1>1. rows' = Put(rows, task[w].id, row)
  BY DEF Save
<1>2. /\ rows'[task[w].id] = row
      /\ \A id \in DOMAIN rows' : id # task[w].id => rows'[id] = rows[id]
  <2> HIDE DEF row
  <2> QED BY <1>1, SaveFacts
<1>3. \A id \in DOMAIN rows : rows[id].offset \in Nat
  BY DEF TypeOK, RowsOK, Maps, Row
<1>4. task[w].id \in DOMAIN rows => Advances(rows[task[w].id], row)
  BY DEF TrackInv, TasksTrack, Tracks, Advances
<1> HIDE DEF row
<1> QED BY <1>2, <1>3, <1>4 DEF Advances

LEMMA AdvanceStep ==
    OneUser /\ TypeOK /\ WriterInv /\ TrackInv /\ [Next]_vars =>
        \A id \in DOMAIN rows \cap DOMAIN rows' : Advances(rows[id], rows'[id])
<1> SUFFICES ASSUME OneUser, TypeOK, WriterInv, TrackInv, [Next]_vars
             PROVE  \A id \in DOMAIN rows \cap DOMAIN rows' :
                        Advances(rows[id], rows'[id])
  OBVIOUS
<1>1. \A id \in DOMAIN rows : rows[id].offset \in Nat
  BY DEF TypeOK, RowsOK, Maps, Row
<1>2. CASE rows' = rows
  BY <1>1, <1>2 DEF Advances
<1>3. ASSUME NEW r \in Requests, QueueDropRow(r) \/ DeleteRemove(r)
      PROVE  \A id \in DOMAIN rows \cap DOMAIN rows' : Advances(rows[id], rows'[id])
  <2>1. rows' = Drop(rows, call[r].id)
    BY <1>3 DEF QueueDropRow, DeleteRemove
  <2> QED BY <1>1, <2>1 DEF Drop, Advances
<1>4. ASSUME NEW r \in Requests, QueueInsert(r)
      PROVE  \A id \in DOMAIN rows \cap DOMAIN rows' : Advances(rows[id], rows'[id])
  <2>1. nextId \notin DOMAIN rows
    BY DownloadAssumption DEF TypeOK, RowsOK
  <2>2. \A id \in DOMAIN rows : rows'[id] = rows[id]
    BY <1>4, <2>1 DEF QueueInsert, Put
  <2> QED BY <1>1, <2>2 DEF Advances
<1>5. ASSUME NEW r \in Requests, ResumeSave(r)
      PROVE  \A id \in DOMAIN rows \cap DOMAIN rows' : Advances(rows[id], rows'[id])
  <2> DEFINE row == [call[r].row EXCEPT !.status = "IN_PROGRESS"]
  <2>1. /\ r \in DOMAIN call /\ call[r].pc = "resume" /\ call[r] \in Call
        /\ rows' = Put(rows, call[r].id, row)
    BY <1>5 DEF ResumeSave, TypeOK, CallOK, Maps
  <2>2. call[r].id \in DOMAIN rows /\ rows[call[r].id] = call[r].row
    BY <2>1 DEF WriterInv, ResumeChecked, TrackInv, CallsTrack
  <2>3. Advances(rows[call[r].id], row)
    BY <1>1, <2>1, <2>2, CallFields DEF Row, Advances
  <2> HIDE DEF row
  <2> QED BY <1>1, <2>1, <2>3, SaveFacts DEF Advances
<1>6. ASSUME NEW w \in Workers, Begin(w) \/ Finish(w) \/ Complete(w)
      PROVE  \A id \in DOMAIN rows \cap DOMAIN rows' : Advances(rows[id], rows'[id])
  <2>1. /\ w \in DOMAIN task /\ task[w].pc \in {"begin", "finish", "complete"}
        /\ \E status : Save(task[w], status)
    BY <1>6 DEF Begin, Finish, Complete, At
  <2> QED BY <2>1, SaveAdvances
<1> QED BY <1>2, <1>3, <1>4, <1>5, <1>6, TableSteps

(***************************************************************************)
(* With one request at a time nothing that was fetched is ever uncounted    *)
(* and no row changes its file or path, whatever else the user does with    *)
(* the list and whenever the process dies: the entities that generators and *)
(* resumes save whole are never older than the row they overwrite.          *)
(***************************************************************************)
THEOREM NothingIsUndone == OneUser => (Spec => RowsAdvance)
<1> SUFFICES ASSUME OneUser PROVE Spec => RowsAdvance
  OBVIOUS
<1>1. TypeOK /\ WriterInv /\ TrackInv /\ [Next]_vars =>
        [\A id \in DOMAIN rows \cap DOMAIN rows' :
            /\ rows'[id].file = rows[id].file /\ rows'[id].path = rows[id].path
            /\ rows'[id].offset >= rows[id].offset]_vars
  BY AdvanceStep DEF Advances
<1> QED
  BY <1>1, TypeCorrect, WriterInvariant, TrackInvariant, PTL DEF Spec, RowsAdvance

(***************************************************************************)
(* A list that only grows.                                                 *)
(*                                                                         *)
(* What follows needs that nobody takes a download off the list: `delete`,  *)
(* and `queue` with override, remove a row while its generator may be       *)
(* running, and the generator's next save puts it back.                     *)
(***************************************************************************)
NoRemoval == Ops \cap {"override", "delete"} = {}

Removing == {"dropRow", "dropFile", "remove", "unlink"}

\* No request removes anything, and every generator and resume has its row.
RowsStay ==
    /\ \A w \in DOMAIN task : task[w].id \in DOMAIN rows
    /\ \A r \in DOMAIN call :
          /\ call[r].pc \notin Removing
          /\ call[r].pc \in {"mark", "resume"} => call[r].id \in DOMAIN rows

\* A generator works for one row all its life, never goes back to its first
\* query, and never uncounts a chunk.
Follows(t, u) ==
    /\ u.id = t.id
    /\ t.pc \notin {"find", "unlink"} =>
          u.pc \notin {"find", "unlink"} /\ u.offset >= t.offset
    /\ u.pc = "find" => t.pc = "find"
    /\ u.pc = "complete" =>
          t.pc = "complete" \/ (t.pc = "checksum" /\ Verified(t))

\* It is started for a row, by a queue or a resume, in a slot that no stream
\* holds.
Launched(w) ==
    /\ w \notin DOMAIN task \cup DOMAIN out
    /\ task'[w].pc = "find" /\ task'[w].id \in DOMAIN rows'
    /\ \E r \in Requests : \/ QueueInsert(r) /\ task'[w].id = nextId
                           \/ ResumeSave(r) /\ task'[w].id = call[r].id

LEMMA TaskSteps ==
    ASSUME TypeOK, [Next]_vars
    PROVE  \A w \in DOMAIN task' :
                (w \in DOMAIN task /\ Follows(task[w], task'[w])) \/ Launched(w)
<1> DEFINE Same == \A w \in DOMAIN task' :
                      w \in DOMAIN task /\ Follows(task[w], task'[w])
           Steps == \A w \in DOMAIN task' :
                      (w \in DOMAIN task /\ Follows(task[w], task'[w])) \/ Launched(w)
           Starts(id) == \E r \in Requests : \/ QueueInsert(r) /\ id = nextId
                                             \/ ResumeSave(r) /\ id = call[r].id
<1>0. \A w \in DOMAIN task : Follows(task[w], task[w])
  <2>1. \A w \in DOMAIN task : task[w].pc \notin {"find", "unlink"} =>
                                    task[w].offset \in Nat
    BY DEF TypeOK, TaskOK, Maps, Task
  <2> QED BY <2>1 DEF Follows
<1>1. UNCHANGED task => Same
  BY <1>0
<1>2. ASSUME NEW v \in DOMAIN task, NEW u, task' = Put(task, v, u),
             Follows(task[v], u)
      PROVE  Same
  BY <1>0, <1>2 DEF Put
<1>3. ASSUME NEW v, EndTask(v) PROVE Same
  BY <1>0, <1>3 DEF EndTask, Drop
<1>4. ASSUME NEW v, NEW id, NEW row, Launch(v, id), rows' = Put(rows, id, row), Starts(id)
      PROVE  Steps
  <2>1. /\ v \notin DOMAIN task \cup DOMAIN out
        /\ task'[v] = [pc |-> "find", id |-> id] /\ id \in DOMAIN rows'
        /\ \A w \in DOMAIN task' : w # v => w \in DOMAIN task /\ task'[w] = task[w]
    BY <1>4 DEF Launch, Put
  <2>2. task'[v].pc = "find" /\ task'[v].id = id
    BY <2>1
  <2>3. Launched(v)
    BY <1>4, <2>1, <2>2 DEF Launched
  <2> QED BY <1>0, <2>1, <2>3
<1>5. ASSUME NEW r \in Requests, NEW id \in Ids, Pause(r, id) PROVE Same
  <2>1. CASE active[id] \in Workers
    <3> DEFINE v == active[id]
               u == [task[v] EXCEPT !.status = "PAUSED"]
    <3>1. v \in DOMAIN task /\ task[v] \in Task /\ task[v].pc # "find"
      BY <1>5, <2>1, DownloadAssumption DEF Pause, TypeOK, ActiveOK, TaskOK, Maps
    <3>2. Follows(task[v], u)
      BY <3>1 DEF Task, Follows
    <3>3. task' = Put(task, v, u)
      BY <1>5, <2>1 DEF Pause
    <3> HIDE DEF u, Same
    <3> QED BY <1>2, <3>1, <3>2, <3>3
  <2> QED BY <1>1, <1>5, <2>1 DEF Pause
<1>6. ASSUME NEW w \in Workers, NEW t \in Task, t.id = task[w].id, t.pc = "stream",
             t.offset = task[w].offset, w \in DOMAIN task, Finally(w, t)
      PROVE  Same
  <2> DEFINE u == [t EXCEPT !.pc = "finish", !.status = FinalStatus(t)]
  <2>1. Follows(task[w], u) /\ task' = Put(task, w, u)
    BY <1>6 DEF Finally, Task, Follows
  <2> HIDE DEF u, Same
  <2> QED BY <1>2, <1>6, <2>1
<1>7. ASSUME NEW w \in Workers, TaskStep(w) PROVE Same
  <2>1. CASE Find(w)
    <3>1. CASE EndTask(w)
      BY <1>3, <3>1
    <3>2. CASE ~EndTask(w)
      <4> DEFINE id == task[w].id
                 u == [pc |-> IF rows[id].status = "PENDING" THEN "unlink" ELSE "begin",
                       id |-> id, file |-> rows[id].file, path |-> rows[id].path,
                       offset |-> rows[id].offset, status |-> "IN_PROGRESS"]
      <4>1. w \in DOMAIN task /\ task' = Put(task, w, u) /\ Follows(task[w], u)
        BY <2>1, <3>2 DEF Find, At, Follows
      <4> HIDE DEF u, Same
      <4> QED BY <1>2, <4>1
    <3> QED BY <3>1, <3>2
  <2>2. ASSUME NEW pc, At(w, pc), pc # "find", GoTo(w, "begin") \/ GoTo(w, "stream")
                                              \/ GoTo(w, "checksum")
        PROVE  Same
    <3>1. w \in DOMAIN task /\ task[w] \in Task /\ task[w].pc # "find"
      BY <2>2, AtFacts DEF At
    <3>2. PICK new \in {"begin", "stream", "checksum"} : GoTo(w, new)
      BY <2>2
    <3> DEFINE u == [task[w] EXCEPT !.pc = new]
    <3>3. Follows(task[w], u) /\ task' = Put(task, w, u)
      BY <3>1, <3>2 DEF GoTo, Task, Follows
    <3> HIDE DEF u, Same
    <3> QED BY <1>2, <3>1, <3>3
  <2>3. CASE Unlink(w)
    BY <2>2, <2>3 DEF Unlink
  <2>4. CASE Begin(w)
    BY <2>2, <2>4 DEF Begin
  <2>5. CASE Receive(w)
    <3> DEFINE u == [task[w] EXCEPT !.offset = @ + 1]
    <3>1. w \in DOMAIN task /\ task[w] \in Task /\ task[w].pc = "stream"
      BY <2>5, AtFacts DEF Receive
    <3>2. Follows(task[w], u)
      BY <3>1 DEF Task, Follows
    <3>3. task' = Put(task, w, u)
      BY <2>5 DEF Receive
    <3> HIDE DEF u, Same
    <3> QED BY <1>2, <3>1, <3>2, <3>3
  <2>6. CASE ReceivePaused(w)
    <3> DEFINE t == [task[w] EXCEPT !.status = "PAUSED"]
    <3>1. /\ w \in DOMAIN task /\ task[w] \in Task /\ task[w].pc = "stream"
          /\ Finally(w, t)
      BY <2>6, AtFacts DEF ReceivePaused
    <3>2. /\ t \in Task /\ t.id = task[w].id /\ t.pc = "stream"
          /\ t.offset = task[w].offset
      BY <3>1 DEF Task, Status
    <3> HIDE DEF t, Same
    <3> QED BY <1>6, <3>1, <3>2
  <2>7. CASE StreamStop(w)
    <3>1. /\ w \in DOMAIN task /\ task[w] \in Task /\ task[w].pc = "stream"
          /\ Finally(w, task[w])
      BY <2>7, AtFacts DEF StreamStop
    <3> QED BY <1>6, <3>1
  <2>8. CASE Finish(w)
    BY <1>3, <2>2, <2>8 DEF Finish
  <2>9. CASE Checksum(w)
    <3> DEFINE u == [task[w] EXCEPT !.pc = "complete", !.status = "COMPLETED"]
    <3>1. w \in DOMAIN task /\ task[w] \in Task /\ task[w].pc = "checksum"
      BY <2>9, AtFacts DEF Checksum
    <3>2. Verified(task[w]) => Follows(task[w], u)
      BY <3>1 DEF Task, Follows
    <3>3. EndTask(w) \/ (task' = Put(task, w, u) /\ Verified(task[w]))
      BY <2>9 DEF Checksum
    <3> HIDE DEF u, Same
    <3> QED BY <1>2, <1>3, <3>1, <3>2, <3>3
  <2>10. CASE Complete(w)
    BY <1>3, <2>10 DEF Complete
  <2> HIDE DEF Same
  <2> QED BY <1>7, <2>1, <2>3, <2>4, <2>5, <2>6, <2>7, <2>8, <2>9, <2>10 DEF TaskStep
<1>8. ASSUME NEW r \in Requests, QueueInsert(r) \/ ResumeSave(r)
      PROVE  Steps
  <2>1. CASE QueueInsert(r)
    <3>1. PICK w \in Workers : Launch(w, nextId)
      BY <2>1 DEF QueueInsert
    <3> DEFINE row == [file |-> call[r].file, path |-> call[r].path,
                       offset |-> 0, status |-> "PENDING"]
    <3>2. rows' = Put(rows, nextId, row)
      BY <2>1 DEF QueueInsert
    <3>3. Starts(nextId)
      BY <2>1
    <3> HIDE DEF row, Steps, Starts
    <3> QED BY <1>4, <3>1, <3>2, <3>3
  <2>2. CASE ResumeSave(r)
    <3>1. PICK w \in Workers : Launch(w, call[r].id)
      BY <2>2 DEF ResumeSave
    <3> DEFINE id == call[r].id
               row == [call[r].row EXCEPT !.status = "IN_PROGRESS"]
    <3>2. rows' = Put(rows, id, row)
      BY <2>2 DEF ResumeSave
    <3>3. Starts(id)
      BY <2>2
    <3> HIDE DEF row, id, Steps, Starts
    <3>4. Launch(w, id)
      BY <3>1 DEF id
    <3> QED BY <1>4, <3>2, <3>3, <3>4
  <2> QED BY <1>8, <2>1, <2>2
<1>9. ASSUME NEW r \in Requests,
             \/ \E f \in Files, override \in BOOLEAN : QueueLookup(r, f, override)
             \/ \E id \in Ids : ResumeFind(r, id)
             \/ \E id \in Ids, fromFs \in BOOLEAN : DeleteFind(r, id, fromFs)
             \/ QueueDropRow(r) \/ QueueDropFile(r) \/ QueueReserve(r)
             \/ ResumeMark(r) \/ DeleteRemove(r) \/ DeleteUnlink(r)
      PROVE  UNCHANGED task
  BY <1>9 DEF QueueLookup, ResumeFind, DeleteFind, QueueDropRow, QueueDropFile,
     QueueReserve, ResumeMark, DeleteRemove, DeleteUnlink
<1>10. ASSUME NEW w \in Workers, StreamStep(w) PROVE UNCHANGED task
  BY <1>10 DEF StreamStep, Open, Flush
<1>11. Crash => DOMAIN task' = {}
  BY DEF Crash, NoMap
<1>12. UNCHANGED vars => UNCHANGED task
  BY DEF vars
<1>13. ASSUME NEW r \in Requests, NewCall(r) \/ CallStep(r)
       PROVE  \/ UNCHANGED task \/ QueueInsert(r) \/ ResumeSave(r)
              \/ \E id \in Ids : Pause(r, id)
  BY <1>9, <1>13 DEF NewCall, CallStep, QueueSteps
<1>14. CASE Same
  BY <1>14
<1> HIDE DEF Same
<1> QED BY <1>1, <1>5, <1>7, <1>8, <1>10, <1>11, <1>12, <1>13, <1>14 DEF Next

\* What becomes of a request, on a list that only grows.
CallMoves(r) ==
    \/ r \in DOMAIN call /\ call'[r] = call[r]
    \/ call'[r].pc = "reserve" /\ UnfinishedRows(call'[r].file) = {}
    \/ call'[r].pc = "insert" /\ r \in DOMAIN call /\ QueueReserve(r)
    \/ /\ call'[r].pc = "mark" /\ call'[r].id \in DOMAIN rows
       /\ call'[r].row = rows[call'[r].id] /\ ResumeFind(r, call'[r].id)
    \/ /\ call'[r].pc = "resume" /\ r \in DOMAIN call /\ call[r].pc = "mark"
       /\ call'[r].id = call[r].id /\ call'[r].row = call[r].row

LEMMA StayCalls ==
    ASSUME NoRemoval, TypeOK, RowsStay, [Next]_vars
    PROVE  \A r \in DOMAIN call' : CallMoves(r)
<1> DEFINE Goal == \A r \in DOMAIN call' : CallMoves(r)
<1>1. UNCHANGED call => Goal
  BY DEF CallMoves
<1>2. ASSUME NEW r, Answer(r) PROVE Goal
  BY <1>2 DEF Answer, Drop, CallMoves
<1>3. ASSUME NEW r, NEW c, call' = Put(call, r, c), CallMoves(r) PROVE Goal
  <2>1. \A q \in DOMAIN call' : q # r => q \in DOMAIN call /\ call'[q] = call[q]
    BY <1>3 DEF Put
  <2> QED BY <1>3, <2>1 DEF CallMoves
<1>4. ASSUME NEW r \in Requests, NEW f \in Files, NEW override \in BOOLEAN,
             QueueLookup(r, f, override)
      PROVE  Goal
  <2> DEFINE c == [pc |-> "reserve", file |-> f]
  <2>1. call' = Put(call, r, c) /\ UnfinishedRows(f) = {}
    BY <1>4 DEF QueueLookup, NoRemoval
  <2>2. call'[r] = c
    BY <2>1 DEF Put
  <2>3. CallMoves(r)
    BY <2>1, <2>2 DEF CallMoves
  <2> HIDE DEF Goal, c
  <2> QED BY <1>3, <2>1, <2>3
<1>5. ASSUME NEW r \in Requests, NEW id \in Ids, ResumeFind(r, id) PROVE Goal
  <2> DEFINE c == [pc |-> "mark", id |-> id, row |-> rows[id]]
  <2>1. call' = Put(call, r, c) /\ id \in DOMAIN rows
    BY <1>5 DEF ResumeFind
  <2>2. call'[r] = c
    BY <2>1 DEF Put
  <2>3. CallMoves(r)
    BY <1>5, <2>1, <2>2 DEF CallMoves
  <2> HIDE DEF Goal, c
  <2> QED BY <1>3, <2>1, <2>3
<1>6. ASSUME NEW r \in Requests, ResumeMark(r) PROVE Goal
  <2>1. r \in DOMAIN call /\ call[r].pc = "mark" /\ call[r] \in Call
    BY <1>6 DEF ResumeMark, TypeOK, CallOK, Maps
  <2> DEFINE c == [call[r] EXCEPT !.pc = "resume"]
  <2>2. c.pc = "resume" /\ c.id = call[r].id /\ c.row = call[r].row
    BY <2>1 DEF Call
  <2>3. call' = Put(call, r, c) \/ Answer(r)
    BY <1>6 DEF ResumeMark
  <2>4. call' = Put(call, r, c) => call'[r] = c
    BY DEF Put
  <2> HIDE DEF c, Goal
  <2>5. call' = Put(call, r, c) => CallMoves(r)
    BY <2>1, <2>2, <2>4 DEF CallMoves
  <2> QED BY <1>2, <1>3, <2>3, <2>5
<1>7. ASSUME NEW r \in Requests, QueueReserve(r) PROVE Goal
  <2>1. PICK p : call' = Put(call, r, [pc |-> "insert", file |-> call[r].file,
                                       path |-> p])
    BY <1>7 DEF QueueReserve
  <2>2. call'[r].pc = "insert" /\ r \in DOMAIN call
    BY <1>7, <2>1 DEF Put, QueueReserve
  <2>3. CallMoves(r)
    BY <1>7, <2>2 DEF CallMoves
  <2> HIDE DEF Goal
  <2> QED BY <1>3, <2>1, <2>3
<1>8. ASSUME NEW r \in Requests, QueueInsert(r) \/ ResumeSave(r) PROVE Goal
  <2> HIDE DEF Goal
  <2> QED BY <1>2, <1>8 DEF QueueInsert, ResumeSave
<1>9. ASSUME NEW r \in Requests,
             \/ QueueDropRow(r) \/ QueueDropFile(r) \/ DeleteRemove(r)
             \/ DeleteUnlink(r)
             \/ \E id \in Ids, fromFs \in BOOLEAN : DeleteFind(r, id, fromFs)
      PROVE  FALSE
  BY <1>9 DEF RowsStay, Removing, NoRemoval, QueueDropRow, QueueDropFile,
     DeleteRemove, DeleteUnlink, DeleteFind
<1>10. ASSUME NEW r \in Requests, NEW id \in Ids, Pause(r, id) PROVE UNCHANGED call
  BY <1>10 DEF Pause
<1>11. ASSUME NEW w \in Workers, TaskStep(w) \/ StreamStep(w) PROVE UNCHANGED call
  BY <1>11 DEF TaskStep, StreamStep, Find, Unlink, Begin, Receive, ReceivePaused,
     StreamStop, Finally, Finish, Checksum, Complete, Open, Flush
<1>12. Crash => Goal
  BY DEF Crash, NoMap
<1>13. UNCHANGED vars => UNCHANGED call
  BY DEF vars
<1>14. Goal
  <2> HIDE DEF Goal
  <2>1. ASSUME NEW r \in Requests, NewCall(r) \/ CallStep(r) PROVE Goal
    BY <1>1, <1>4, <1>5, <1>6, <1>7, <1>8, <1>9, <1>10, <2>1
       DEF NewCall, CallStep, QueueSteps
  <2> QED BY <1>1, <1>11, <1>12, <1>13, <2>1 DEF Next
<1> QED BY <1>14

\* The list only grows.
LEMMA RowsGrow ==
    ASSUME RowsStay, [Next]_vars
    PROVE  DOMAIN rows \subseteq DOMAIN rows'
<1>1. CASE rows' = rows
  BY <1>1
<1>2. ASSUME NEW id, NEW row, rows' = Put(rows, id, row)
      PROVE  DOMAIN rows \subseteq DOMAIN rows'
  BY <1>2 DEF Put
<1>3. ASSUME NEW r \in Requests, QueueDropRow(r) \/ DeleteRemove(r) PROVE FALSE
  BY <1>3 DEF RowsStay, Removing, QueueDropRow, DeleteRemove
<1>4. ASSUME NEW r \in Requests, QueueInsert(r) \/ ResumeSave(r)
      PROVE  DOMAIN rows \subseteq DOMAIN rows'
  BY <1>2, <1>4 DEF QueueInsert, ResumeSave
<1>5. ASSUME NEW w \in Workers, Begin(w) \/ Finish(w) \/ Complete(w)
      PROVE  DOMAIN rows \subseteq DOMAIN rows'
  BY <1>2, <1>5 DEF Begin, Finish, Complete, Save
<1> QED BY <1>1, <1>3, <1>4, <1>5, TableSteps

LEMMA StayStep == NoRemoval /\ TypeOK /\ RowsStay /\ [Next]_vars => RowsStay'
<1> SUFFICES ASSUME NoRemoval, TypeOK, RowsStay, [Next]_vars PROVE RowsStay'
  OBVIOUS
<1>1. \A w \in DOMAIN task' : task'[w].id \in DOMAIN rows'
  BY TaskSteps, RowsGrow DEF RowsStay, Follows, Launched
<1>2. \A r \in DOMAIN call' :
          /\ call'[r].pc \notin Removing
          /\ call'[r].pc \in {"mark", "resume"} => call'[r].id \in DOMAIN rows'
  BY StayCalls, RowsGrow DEF RowsStay, Removing, CallMoves
<1> QED BY <1>1, <1>2 DEF RowsStay, Removing

LEMMA StayInvariant == NoRemoval => (Spec => []RowsStay)
<1> SUFFICES ASSUME NoRemoval PROVE Spec => []RowsStay
  OBVIOUS
<1>1. Init => RowsStay
  BY DEF Init, NoMap, RowsStay
<1>2. TypeOK /\ RowsStay /\ [Next]_vars => RowsStay'
  BY StayStep
<1> QED BY <1>1, <1>2, TypeCorrect, PTL DEF Spec

(***************************************************************************)
(* Whose state object the map holds.                                       *)
(***************************************************************************)
Early == {"find", "unlink", "begin"}

\* A resume is under way: in the handler, or in a generator yet to register.
Starting(id) ==
    \/ \E w \in DOMAIN task : task[w].id = id /\ task[w].pc \in Early
    \/ \E r \in DOMAIN call : call[r].pc = "resume" /\ call[r].id = id

OwnerInv ==
    \A id \in DOMAIN active :
        /\ active[id] \in Workers => task[active[id]].id = id
        /\ active[id] = "IN_PROGRESS" => Starting(id)

LEMMA OwnerMeansLive ==
    ASSUME TypeOK, OwnerInv PROVE ActiveIsLive
<1> SUFFICES ASSUME NEW id \in DOMAIN active, ActiveStatus(id) = "IN_PROGRESS"
             PROVE  \/ \E w \in DOMAIN task : task[w].id = id
                    \/ \E r \in DOMAIN call : call[r].pc = "resume" /\ call[r].id = id
  BY DEF ActiveIsLive
<1>1. CASE active[id] \in Workers
  <2>1. active[id] \in DOMAIN task
    BY <1>1, DownloadAssumption DEF TypeOK, ActiveOK, Maps
  <2> QED BY <1>1, <2>1 DEF OwnerInv
<1>2. CASE active[id] \notin Workers
  BY <1>2 DEF ActiveStatus, OwnerInv, Starting
<1> QED BY <1>1, <1>2

\* Generators and requests that stay where they were, for the map.
KeepsTask(w) ==
    /\ w \in DOMAIN task' /\ task'[w].id = task[w].id
    /\ task[w].pc \in Early => task'[w].pc \in Early

KeepsCall(r) ==
    call[r].pc = "resume" => r \in DOMAIN call' /\ call'[r] = call[r]

LEMMA OwnerKept ==
    ASSUME TypeOK, OwnerInv, \A w \in DOMAIN task : KeepsTask(w),
           \A r \in DOMAIN call : KeepsCall(r),
           \A id \in DOMAIN active' :
              \/ id \in DOMAIN active /\ active'[id] = active[id]
              \/ active'[id] \notin Workers \cup {"IN_PROGRESS"}
    PROVE  OwnerInv'
<1>1. \A id \in DOMAIN active : active[id] \in Workers => active[id] \in DOMAIN task
  BY DownloadAssumption DEF TypeOK, ActiveOK, Maps
<1>2. \A id : Starting(id) => Starting(id)'
  BY DEF Starting, KeepsTask, KeepsCall
<1>3. ASSUME NEW id \in DOMAIN active', active'[id] \in Workers
      PROVE  task'[active'[id]].id = id
  BY <1>1, <1>3 DEF OwnerInv, KeepsTask
<1>4. ASSUME NEW id \in DOMAIN active', active'[id] = "IN_PROGRESS"
      PROVE  Starting(id)'
  BY <1>2, <1>4 DEF OwnerInv
<1> QED BY <1>3, <1>4 DEF OwnerInv

\* A generator moves on, a request changes: the others stay.
LEMMA PutKeepsTasks ==
    ASSUME NEW w \in DOMAIN task, NEW u, task' = Put(task, w, u), u.id = task[w].id,
           task[w].pc \in Early => u.pc \in Early
    PROVE  \A x \in DOMAIN task : KeepsTask(x)
BY DEF Put, KeepsTask

LEMMA CallsKeepResume ==
    ASSUME NEW r, call[r].pc # "resume" \/ r \notin DOMAIN call,
           Answer(r) \/ \E c : call' = Put(call, r, c)
    PROVE  \A q \in DOMAIN call : KeepsCall(q)
BY DEF Put, Answer, Drop, KeepsCall

LEMMA LaunchKeepsTasks ==
    ASSUME NEW w, NEW id, Launch(w, id)
    PROVE  /\ \A x \in DOMAIN task : KeepsTask(x)
           /\ w \in DOMAIN task' /\ task'[w].id = id /\ task'[w].pc \in Early
BY DEF Launch, Put, KeepsTask, Early

\* A generator that ends with another status than IN_PROGRESS.
LEMMA EndKeepsOwner ==
    ASSUME TypeOK, OwnerInv, NEW w \in DOMAIN task, task[w].pc \notin Early,
           task[w].status \in Status \ {"IN_PROGRESS"}, EndTask(w), UNCHANGED call
    PROVE  OwnerInv'
<1>1. /\ \A x \in DOMAIN task : x # w => x \in DOMAIN task' /\ task'[x] = task[x]
      /\ \A id \in DOMAIN active' :
            /\ id \in DOMAIN active
            /\ active[id] = w => active'[id] = task[w].status
            /\ active[id] # w => active'[id] = active[id]
  BY DEF EndTask, Drop
<1>2. \A id \in DOMAIN active : active[id] \in Workers => active[id] \in DOMAIN task
  BY DownloadAssumption DEF TypeOK, ActiveOK, Maps
<1>3. \A id : Starting(id) => Starting(id)'
  <2>1. ASSUME NEW id, NEW x \in DOMAIN task, task[x].id = id, task[x].pc \in Early
        PROVE  Starting(id)'
    BY <1>1, <2>1 DEF Starting
  <2> QED BY <2>1 DEF Starting
<1>4. ASSUME NEW id \in DOMAIN active', active'[id] \in Workers
      PROVE  task'[active'[id]].id = id
  BY <1>1, <1>2, <1>4, DownloadAssumption DEF OwnerInv
<1>5. ASSUME NEW id \in DOMAIN active', active'[id] = "IN_PROGRESS"
      PROVE  Starting(id)'
  BY <1>1, <1>3, <1>5 DEF OwnerInv
<1> QED BY <1>4, <1>5 DEF OwnerInv

LEMMA OwnerStep ==
    ASSUME TypeOK, OffsetInv, RowsStay, OwnerInv, [Next]_vars
    PROVE  OwnerInv'
<1>1. UNCHANGED task => \A w \in DOMAIN task : KeepsTask(w)
  BY DEF KeepsTask
<1>2. UNCHANGED call => \A r \in DOMAIN call : KeepsCall(r)
  BY DEF KeepsCall
<1>3. ASSUME NEW r \in Requests,
             \/ \E f \in Files, override \in BOOLEAN : QueueLookup(r, f, override)
             \/ \E id \in Ids : ResumeFind(r, id)
             \/ \E id \in Ids, fromFs \in BOOLEAN : DeleteFind(r, id, fromFs)
             \/ QueueDropRow(r) \/ QueueDropFile(r) \/ QueueReserve(r)
             \/ DeleteRemove(r) \/ DeleteUnlink(r)
      PROVE  OwnerInv'
  <2>1. UNCHANGED <<active, task>>
    BY <1>3 DEF QueueLookup, ResumeFind, DeleteFind, QueueDropRow, QueueDropFile,
       QueueReserve, DeleteRemove, DeleteUnlink
  <2>2. call[r].pc # "resume" \/ r \notin DOMAIN call
    BY <1>3 DEF QueueLookup, ResumeFind, DeleteFind, QueueDropRow, QueueDropFile,
       QueueReserve, DeleteRemove, DeleteUnlink, Idle
  <2>3. Answer(r) \/ \E c : call' = Put(call, r, c)
    <3>1. ASSUME NEW f \in Files, NEW override \in BOOLEAN, QueueLookup(r, f, override)
          PROVE  \E c : call' = Put(call, r, c)
      BY <3>1 DEF QueueLookup
    <3>2. CASE QueueReserve(r)
      BY <3>2 DEF QueueReserve
    <3> QED BY <1>3, <3>1, <3>2 DEF ResumeFind, DeleteFind, QueueDropRow,
               QueueDropFile, DeleteRemove, DeleteUnlink
  <2> QED BY <1>1, <2>1, <2>2, <2>3, CallsKeepResume, OwnerKept
<1>4. ASSUME NEW r \in Requests, QueueInsert(r) PROVE OwnerInv'
  <2>1. PICK w \in Workers : Launch(w, nextId)
    BY <1>4 DEF QueueInsert
  <2>2. \A q \in DOMAIN call : KeepsCall(q)
    BY <1>4, CallsKeepResume DEF QueueInsert
  <2> QED BY <1>4, <2>1, <2>2, LaunchKeepsTasks, OwnerKept DEF QueueInsert
<1>5. ASSUME NEW r \in Requests, NEW id \in Ids, Pause(r, id) PROVE OwnerInv'
  <2>1. UNCHANGED call /\ id \in DOMAIN active
    BY <1>5 DEF Pause
  <2>2. CASE active[id] \in Workers
    <3> DEFINE w == active[id]
               u == [task[w] EXCEPT !.status = "PAUSED"]
    <3>1. w \in DOMAIN task /\ task[w] \in Task /\ task[w].pc # "find"
      BY <2>1, <2>2, DownloadAssumption DEF TypeOK, ActiveOK, TaskOK, Maps
    <3>2. u.id = task[w].id /\ u.pc = task[w].pc
      BY <3>1 DEF Task
    <3>3. task' = Put(task, w, u) /\ UNCHANGED active
      BY <1>5, <2>2 DEF Pause
    <3> HIDE DEF u
    <3> QED BY <1>2, <2>1, <3>1, <3>2, <3>3, PutKeepsTasks, OwnerKept
  <2>3. CASE active[id] \notin Workers
    <3>1. UNCHANGED task /\ active' = Put(active, id, "PAUSED")
      BY <1>5, <2>3 DEF Pause
    <3>2. \A i \in DOMAIN active' : \/ i \in DOMAIN active /\ active'[i] = active[i]
                                    \/ active'[i] = "PAUSED"
      BY <3>1 DEF Put
    <3>3. "PAUSED" \notin Workers \cup {"IN_PROGRESS"}
      BY DownloadAssumption DEF Status
    <3> QED BY <1>1, <1>2, <2>1, <3>1, <3>2, <3>3, OwnerKept
  <2> QED BY <2>2, <2>3
<1>6. ASSUME NEW r \in Requests, ResumeMark(r) PROVE OwnerInv'
  <2> DEFINE id == call[r].id
             c == [call[r] EXCEPT !.pc = "resume"]
  <2>1. /\ UNCHANGED task /\ r \in DOMAIN call /\ call[r].pc = "mark"
        /\ call[r] \in Call
    BY <1>6 DEF ResumeMark, TypeOK, CallOK, Maps
  <2>2. CASE Answer(r) /\ UNCHANGED active
    BY <1>1, <2>1, <2>2, CallsKeepResume, OwnerKept
  <2>3. CASE active' = Put(active, id, "IN_PROGRESS") /\ call' = Put(call, r, c)
    <3>1. c.pc = "resume" /\ c.id = id
      BY <2>1 DEF Call
    <3> HIDE DEF c
    <3>2. /\ r \in DOMAIN call' /\ call'[r] = c
          /\ \A q \in DOMAIN call : q # r => q \in DOMAIN call' /\ call'[q] = call[q]
      BY <2>3 DEF Put
    <3>3. \A i : Starting(i) => Starting(i)'
      BY <2>1, <3>2 DEF Starting
    <3>4. \A i : i = id => Starting(i)'
      BY <3>1, <3>2 DEF Starting
    <3>5. \A i \in DOMAIN active' : \/ i = id /\ active'[i] = "IN_PROGRESS"
                                    \/ i \in DOMAIN active /\ active'[i] = active[i]
      BY <2>3 DEF Put
    <3>6. "IN_PROGRESS" \notin Workers
      BY DownloadAssumption DEF Status
    <3>7. ASSUME NEW i \in DOMAIN active', active'[i] \in Workers
          PROVE  task'[active'[i]].id = i
      <4>1. i \in DOMAIN active /\ active'[i] = active[i]
        BY <3>5, <3>6, <3>7
      <4>2. task[active[i]].id = i
        BY <3>7, <4>1 DEF OwnerInv
      <4>3. task' = task
        BY <2>1
      <4> QED BY <4>1, <4>2, <4>3
    <3>8. ASSUME NEW i \in DOMAIN active', active'[i] = "IN_PROGRESS"
          PROVE  Starting(i)'
      BY <3>3, <3>4, <3>5, <3>8 DEF OwnerInv
    <3> QED BY <3>7, <3>8 DEF OwnerInv
  <2> QED BY <1>6, <2>2, <2>3 DEF ResumeMark
<1>7. ASSUME NEW r \in Requests, ResumeSave(r) PROVE OwnerInv'
  <2>1. /\ r \in DOMAIN call /\ Answer(r) /\ UNCHANGED active
    BY <1>7 DEF ResumeSave
  <2>2. PICK w \in Workers : Launch(w, call[r].id)
    BY <1>7 DEF ResumeSave
  <2>3. /\ \A x \in DOMAIN task : KeepsTask(x)
        /\ w \in DOMAIN task' /\ task'[w].id = call[r].id /\ task'[w].pc \in Early
    BY <2>2, LaunchKeepsTasks
  <2>4. \A q \in DOMAIN call : q # r => q \in DOMAIN call' /\ call'[q] = call[q]
    BY <2>1 DEF Answer, Drop
  <2>5. \A i : Starting(i) => Starting(i)'
    BY <2>3, <2>4 DEF Starting, KeepsTask
  <2>6. \A i \in DOMAIN active : active[i] \in Workers => active[i] \in DOMAIN task
    BY DownloadAssumption DEF TypeOK, ActiveOK, Maps
  <2> QED BY <2>1, <2>3, <2>5, <2>6 DEF OwnerInv, KeepsTask
<1>8. ASSUME NEW w \in DOMAIN task, NEW u, task' = Put(task, w, u),
             u.id = task[w].id, task[w].pc \in Early => u.pc \in Early,
             UNCHANGED call,
             active' = active \/ \E id : active' = Drop(active, id)
      PROVE  OwnerInv'
  <2>1. \A i \in DOMAIN active' : i \in DOMAIN active /\ active'[i] = active[i]
    BY <1>8 DEF Drop
  <2> QED BY <1>2, <1>8, <2>1, PutKeepsTasks, OwnerKept
<1>9. ASSUME NEW w \in Workers, Find(w) PROVE OwnerInv'
  <2> DEFINE id == task[w].id
             u == [pc |-> IF rows[id].status = "PENDING" THEN "unlink" ELSE "begin",
                   id |-> id, file |-> rows[id].file, path |-> rows[id].path,
                   offset |-> rows[id].offset, status |-> "IN_PROGRESS"]
  <2>1. w \in DOMAIN task /\ id \in DOMAIN rows
    BY <1>9 DEF Find, At, RowsStay
  <2>2. task' = Put(task, w, u) /\ UNCHANGED <<active, call>>
    BY <1>9, <2>1 DEF Find
  <2>3. u.id = id /\ u.pc \in Early
    BY DEF Early
  <2> HIDE DEF u
  <2> QED BY <1>8, <2>1, <2>2, <2>3
<1>10. ASSUME NEW w \in Workers, Unlink(w) PROVE OwnerInv'
  <2> DEFINE u == [task[w] EXCEPT !.pc = "begin"]
  <2>1. w \in DOMAIN task /\ task[w] \in Task /\ task[w].pc = "unlink"
    BY <1>10, AtFacts DEF Unlink
  <2>2. u.id = task[w].id /\ u.pc \in Early
    BY <2>1 DEF Task, Early
  <2>3. task' = Put(task, w, u) /\ UNCHANGED <<active, call>>
    BY <1>10 DEF Unlink, GoTo
  <2> HIDE DEF u
  <2> QED BY <1>8, <2>1, <2>2, <2>3
<1>11. ASSUME NEW w \in Workers, Begin(w) PROVE OwnerInv'
  <2> DEFINE id == task[w].id
             u == [task[w] EXCEPT !.pc = "stream"]
  <2>1. w \in DOMAIN task /\ task[w] \in Task /\ task[w].pc = "begin"
    BY <1>11, AtFacts DEF Begin
  <2>2. u.id = id
    BY <2>1 DEF Task
  <2>3. task' = Put(task, w, u) /\ active' = Put(active, id, w) /\ UNCHANGED call
    BY <1>11 DEF Begin, GoTo
  <2> HIDE DEF u
  <2>4. /\ w \in DOMAIN task' /\ task'[w].id = id
        /\ \A x \in DOMAIN task : x # w => x \in DOMAIN task' /\ task'[x] = task[x]
    BY <2>2, <2>3 DEF Put
  <2>5. \A i \in DOMAIN active' : \/ i = id /\ active'[i] = w
                                  \/ i # id /\ i \in DOMAIN active /\ active'[i] = active[i]
    BY <2>3 DEF Put
  <2>6. \A i : Starting(i) /\ i # id => Starting(i)'
    <3>1. ASSUME NEW i, i # id, NEW x \in DOMAIN task, task[x].id = i,
                 task[x].pc \in Early
          PROVE  Starting(i)'
      BY <2>4, <3>1 DEF Starting
    <3> QED BY <2>3, <3>1 DEF Starting
  <2>7. "IN_PROGRESS" \notin Workers
    BY DownloadAssumption DEF Status
  <2>8. \A i \in DOMAIN active : active[i] \in Workers =>
            active[i] \in DOMAIN task /\ task[active[i]].id = i
    BY DownloadAssumption DEF TypeOK, ActiveOK, Maps, OwnerInv
  <2>9. ASSUME NEW i \in DOMAIN active', active'[i] \in Workers
        PROVE  task'[active'[i]].id = i
    BY <2>4, <2>5, <2>8, <2>9
  <2>10. ASSUME NEW i \in DOMAIN active', active'[i] = "IN_PROGRESS"
         PROVE  Starting(i)'
    BY <2>5, <2>6, <2>7, <2>10 DEF OwnerInv
  <2> QED BY <2>9, <2>10 DEF OwnerInv
<1>12. ASSUME NEW w \in Workers, Receive(w) PROVE OwnerInv'
  <2> DEFINE u == [task[w] EXCEPT !.offset = @ + 1]
  <2>1. w \in DOMAIN task /\ task[w] \in Task /\ task[w].pc = "stream"
    BY <1>12, AtFacts DEF Receive
  <2>2. u.id = task[w].id
    BY <2>1 DEF Task
  <2>3. task' = Put(task, w, u) /\ UNCHANGED <<active, call>>
    BY <1>12 DEF Receive
  <2> HIDE DEF u
  <2> QED BY <1>8, <2>1, <2>2, <2>3 DEF Early
<1>13. ASSUME NEW w \in DOMAIN task, NEW t \in Task, t.id = task[w].id,
              t.pc = "stream", task[w].pc = "stream", Finally(w, t)
       PROVE  OwnerInv'
  <2> DEFINE u == [t EXCEPT !.pc = "finish", !.status = FinalStatus(t)]
  <2>1. u.id = task[w].id
    BY <1>13 DEF Task
  <2>2. /\ task' = Put(task, w, u) /\ UNCHANGED call
        /\ active' = active \/ active' = Drop(active, t.id)
    BY <1>13 DEF Finally
  <2> HIDE DEF u
  <2> QED BY <1>8, <1>13, <2>1, <2>2 DEF Early
<1>14. ASSUME NEW w \in Workers, ReceivePaused(w) PROVE OwnerInv'
  <2> DEFINE t == [task[w] EXCEPT !.status = "PAUSED"]
  <2>1. w \in DOMAIN task /\ task[w] \in Task /\ task[w].pc = "stream" /\ Finally(w, t)
    BY <1>14, AtFacts DEF ReceivePaused
  <2>2. t \in Task /\ t.id = task[w].id /\ t.pc = "stream"
    BY <2>1 DEF Task, Status
  <2> HIDE DEF t
  <2> QED BY <1>13, <2>1, <2>2
<1>15. ASSUME NEW w \in Workers, StreamStop(w) PROVE OwnerInv'
  <2>1. /\ w \in DOMAIN task /\ task[w] \in Task /\ task[w].pc = "stream"
        /\ Finally(w, task[w])
    BY <1>15, AtFacts DEF StreamStop
  <2> QED BY <1>13, <2>1
<1>16. ASSUME NEW w \in Workers, Finish(w) \/ Checksum(w) \/ Complete(w)
       PROVE  OwnerInv'
  <2>1. /\ w \in DOMAIN task /\ task[w] \in Task /\ UNCHANGED call
        /\ task[w].pc \in {"finish", "checksum", "complete"}
    BY <1>16, AtFacts DEF Finish, Checksum, Complete
  <2>2. task[w].pc \notin Early /\ task[w].status \in Status \ {"IN_PROGRESS"}
    BY <2>1 DEF Early, Task, OffsetInv, FinalFits
  <2>3. CASE EndTask(w)
    BY <2>1, <2>2, <2>3, EndKeepsOwner
  <2>4. CASE ~EndTask(w)
    <3>1. UNCHANGED active /\ \/ task' = Put(task, w, [task[w] EXCEPT !.pc = "checksum"])
                              \/ task' = Put(task, w, [task[w] EXCEPT !.pc = "complete",
                                                               !.status = "COMPLETED"])
      BY <1>16, <2>4 DEF Finish, Checksum, Complete, GoTo
    <3>2. /\ [task[w] EXCEPT !.pc = "checksum"].id = task[w].id
          /\ [task[w] EXCEPT !.pc = "complete", !.status = "COMPLETED"].id = task[w].id
      BY <2>1 DEF Task
    <3>3. PICK u : task' = Put(task, w, u) /\ u.id = task[w].id
      BY <3>1, <3>2
    <3> QED BY <1>8, <2>1, <2>2, <3>1, <3>3
  <2> QED BY <2>3, <2>4
<1>17. ASSUME NEW w \in Workers, StreamStep(w) PROVE OwnerInv'
  <2>1. UNCHANGED <<active, task, call>>
    BY <1>17 DEF StreamStep, Open, Flush
  <2> QED BY <1>1, <1>2, <2>1, OwnerKept
<1>18. CASE Crash
  BY <1>18 DEF Crash, NoMap, OwnerInv
<1>19. CASE UNCHANGED vars
  <2>1. UNCHANGED <<active, task, call>>
    BY <1>19 DEF vars
  <2> QED BY <1>1, <1>2, <2>1, OwnerKept
<1>20. ASSUME NEW r \in Requests, NewCall(r) \/ CallStep(r) PROVE OwnerInv'
  BY <1>3, <1>4, <1>5, <1>6, <1>7, <1>20 DEF NewCall, CallStep, QueueSteps
<1>21. ASSUME NEW w \in Workers, TaskStep(w) PROVE OwnerInv'
  BY <1>9, <1>10, <1>11, <1>12, <1>14, <1>15, <1>16, <1>21 DEF TaskStep
<1> QED BY <1>17, <1>18, <1>19, <1>20, <1>21 DEF Next

(***************************************************************************)
(* However many users pause and resume at once, and whenever the process    *)
(* dies: the map never says IN_PROGRESS for a download that nothing works   *)
(* for, so a pause that is accepted has something to stop.  A download taken *)
(* off the list between its resume and the generator's first query breaks   *)
(* it, which is why the list may only grow.                                 *)
(***************************************************************************)
THEOREM ActiveCorrect == NoRemoval => (Spec => []ActiveIsLive)
<1> SUFFICES ASSUME NoRemoval PROVE Spec => []ActiveIsLive
  OBVIOUS
<1>1. Init => OwnerInv
  BY DEF Init, NoMap, OwnerInv
<1>2. TypeOK /\ OffsetInv /\ RowsStay /\ OwnerInv /\ [Next]_vars => OwnerInv'
  BY OwnerStep
<1>3. TypeOK /\ OwnerInv => ActiveIsLive
  BY OwnerMeansLive
<1> QED BY <1>1, <1>2, <1>3, TypeCorrect, OffsetInvariant, StayInvariant, PTL DEF Spec

(***************************************************************************)
(* The life of a row.                                                      *)
(***************************************************************************)
\* What a save makes of a row that somebody works for.
Started(a, b) ==
    /\ a.status \in {"PENDING", "PAUSED"} /\ b.status = "IN_PROGRESS"
    /\ b.offset = a.offset
Stopped(a, b) ==
    /\ a.status = "IN_PROGRESS" /\ b.status \in {"PAUSED", "FAILED"}
    /\ b.offset >= a.offset /\ b.offset # Size[a.file]
AllFetched(a, b) ==
    /\ a.status = "IN_PROGRESS" /\ b.status = "COMPLETED_UNVERIFIED"
    /\ b.offset >= a.offset /\ b.offset = Size[a.file]
Checked(a, b) ==
    /\ a.status = "COMPLETED_UNVERIFIED" /\ b.status = "COMPLETED"
    /\ b.offset = a.offset

LifeStep(a, b) ==
    /\ b.file = a.file /\ b.path = a.path
    /\ \/ b.status = a.status /\ b.offset = a.offset
       \/ Started(a, b) \/ Stopped(a, b) \/ AllFetched(a, b) \/ Checked(a, b)

\* A step writes the row of id, with b.
Writes(id, b) == id \in DOMAIN rows /\ rows' = Put(rows, id, b) /\ LifeStep(rows[id], b)

LEMMA ResumeWrites ==
    ASSUME TypeOK, WriterInv, TrackInv, NEW r \in Requests, ResumeSave(r)
    PROVE  \E id, b : Writes(id, b)
<1> DEFINE b == [call[r].row EXCEPT !.status = "IN_PROGRESS"]
<1>1. /\ r \in DOMAIN call /\ call[r].pc = "resume" /\ call[r] \in Call
      /\ rows' = Put(rows, call[r].id, b)
  BY DEF ResumeSave, TypeOK, CallOK, Maps
<1>2. /\ call[r].id \in DOMAIN rows /\ rows[call[r].id] = call[r].row
      /\ call[r].row.status = "PAUSED"
  BY <1>1 DEF WriterInv, ResumeChecked, TrackInv, CallsTrack, Resumable
<1>3. /\ b.status = "IN_PROGRESS" /\ b.offset = call[r].row.offset
      /\ b.file = call[r].row.file /\ b.path = call[r].row.path
  BY <1>1, CallFields DEF Row
<1> HIDE DEF b
<1>4. LifeStep(rows[call[r].id], b)
  BY <1>2, <1>3 DEF LifeStep, Started
<1> QED BY <1>1, <1>2, <1>4 DEF Writes

LEMMA GeneratorWrites ==
    ASSUME TypeOK, OffsetInv, TrackInv, RowsStay, NEW w \in Workers,
           Begin(w) \/ Finish(w) \/ Complete(w)
    PROVE  \E id, b : Writes(id, b)
<1>1. /\ w \in DOMAIN task /\ task[w] \in Task
      /\ task[w].pc \in {"begin", "finish", "complete"}
  BY AtFacts DEF Begin, Finish, Complete
<1> DEFINE t == task[w]
           a == rows[t.id]
           b(status) == [file |-> t.file, path |-> t.path, offset |-> t.offset,
                         status |-> status]
<1>2. t.id \in DOMAIN rows /\ Tracks(t, a)
  BY <1>1 DEF RowsStay, TrackInv, TasksTrack
<1>3. a \in Row
  BY <1>2 DEF TypeOK, RowsOK, Maps
<1>4. CASE Begin(w)
  <2>1. t.pc = "begin" /\ rows' = Put(rows, t.id, b("IN_PROGRESS"))
    BY <1>4 DEF Begin, At, Save
  <2>2. LifeStep(a, b("IN_PROGRESS"))
    BY <1>2, <2>1 DEF Tracks, LifeStep, Started
  <2> QED BY <1>2, <2>1, <2>2 DEF Writes
<1>5. CASE Finish(w)
  <2>1. t.pc = "finish" /\ rows' = Put(rows, t.id, b(t.status))
    BY <1>5 DEF Finish, At, Save
  <2>2. StatusFits(t)
    BY <1>1, <2>1 DEF OffsetInv, FinalFits
  <2>3. LifeStep(a, b(t.status))
    BY <1>2, <2>1, <2>2 DEF Tracks, LifeStep, Stopped, AllFetched, StatusFits
  <2> QED BY <1>2, <2>1, <2>3 DEF Writes
<1>6. CASE Complete(w)
  <2>1. t.pc = "complete" /\ rows' = Put(rows, t.id, b("COMPLETED"))
    BY <1>6 DEF Complete, At, Save
  <2>2. LifeStep(a, b("COMPLETED"))
    BY <1>2, <2>1 DEF Tracks, LifeStep, Checked
  <2> QED BY <1>2, <2>1, <2>2 DEF Writes
<1> QED BY <1>4, <1>5, <1>6

\* On a list that only grows a step adds a row or takes one through its life.
LEMMA TableMoves ==
    ASSUME TypeOK, OffsetInv, WriterInv, TrackInv, RowsStay, [Next]_vars,
           rows' # rows
    PROVE  (\E r \in Requests : QueueInsert(r)) \/ \E id, b : Writes(id, b)
<1>1. ASSUME NEW r \in Requests, QueueDropRow(r) \/ DeleteRemove(r) PROVE FALSE
  BY <1>1 DEF RowsStay, Removing, QueueDropRow, DeleteRemove
<1> QED BY <1>1, TableSteps, ResumeWrites, GeneratorWrites

GrowingInv == TypeOK /\ OffsetInv /\ WriterInv /\ TrackInv /\ RowsStay

LEMMA GrowingInvariant == OneUser /\ NoRemoval => (Spec => []GrowingInv)
BY TypeCorrect, OffsetInvariant, WriterInvariant, TrackInvariant, StayInvariant, PTL
   DEF GrowingInv

(***************************************************************************)
(* Download implements DownloadLifecycle.                                  *)
(***************************************************************************)
Shown(row) == [file |-> row.file, offset |-> row.offset, status |-> row.status]
Table == [id \in DOMAIN rows |-> [file |-> rows[id].file, offset |-> rows[id].offset,
                                  status |-> rows[id].status]]

LEMMA TableAfterWrite ==
    ASSUME NEW id, NEW b, Writes(id, b)
    PROVE  /\ Lifecycle!Set(id, b.offset, b.status)
           /\ id \in DOMAIN Table /\ id \in DOMAIN Table'
           /\ Table[id] = Shown(rows[id]) /\ Table'[id] = Shown(b)
<1>1. /\ DOMAIN rows' = DOMAIN rows /\ rows'[id] = b /\ b.file = rows[id].file
      /\ \A i \in DOMAIN rows : i # id => rows'[i] = rows[i]
  BY DEF Writes, LifeStep, Put
<1>2. id \in DOMAIN rows
  BY DEF Writes
<1>3. /\ DOMAIN Table = DOMAIN rows /\ DOMAIN Table' = DOMAIN rows'
      /\ \A i \in DOMAIN rows : Table[i] = Shown(rows[i])
      /\ \A i \in DOMAIN rows' : Table'[i] = Shown(rows'[i])
  BY DEF Table, Shown
<1> DEFINE new == [Table EXCEPT ![id] = [file |-> Table[id].file,
                                          offset |-> b.offset, status |-> b.status]]
<1>4. /\ DOMAIN new = DOMAIN rows
      /\ \A i \in DOMAIN rows : i # id => new[i] = Shown(rows[i])
      /\ new[id] = [file |-> Table[id].file, offset |-> b.offset, status |-> b.status]
  BY <1>2, <1>3
<1>5. new[id] = Shown(b)
  BY <1>1, <1>2, <1>3, <1>4 DEF Shown
<1>6. \A i \in DOMAIN rows : Table'[i] = new[i]
  BY <1>1, <1>2, <1>3, <1>4, <1>5
<1>7. Table' = [i \in DOMAIN rows |-> Table'[i]] /\ new = [i \in DOMAIN rows |-> new[i]]
  BY <1>1, <1>4 DEF Table
<1>8. Table' = new
  BY <1>6, <1>7
<1>9. Lifecycle!Set(id, b.offset, b.status)
  BY <1>8 DEF Lifecycle!Set, Table
<1> QED BY <1>1, <1>2, <1>3, <1>9

LEMMA LifecycleStep ==
    ASSUME GrowingInv, [Next]_vars
    PROVE  [Lifecycle!Next]_Table
<1> USE DEF GrowingInv
<1>1. CASE rows' = rows
  BY <1>1 DEF Table
<1>2. ASSUME NEW r \in Requests, QueueInsert(r) PROVE Lifecycle!Next
  <2> DEFINE row == [file |-> call[r].file, path |-> call[r].path,
                     offset |-> 0, status |-> "PENDING"]
  <2>1. /\ rows' = Put(rows, nextId, row) /\ nextId \in 1..MaxId
        /\ r \in DOMAIN call /\ call[r].pc = "insert"
    BY <1>2, DownloadAssumption DEF QueueInsert, TypeOK, RowsOK
  <2>2. nextId \notin DOMAIN rows
    BY DownloadAssumption DEF TypeOK, RowsOK
  <2>3. call[r].file \in Files
    BY <2>1, CallFields DEF TypeOK, CallOK, Maps
  <2>4. Shown(row) = [file |-> call[r].file, offset |-> 0, status |-> "PENDING"]
    BY DEF Shown
  <2> HIDE DEF row
  <2>5. /\ DOMAIN Table = DOMAIN rows
        /\ \A i \in DOMAIN rows : Table[i] = Shown(rows[i])
    BY DEF Table, Shown
  <2>6. /\ DOMAIN rows' = DOMAIN rows \cup {nextId} /\ rows'[nextId] = row
        /\ \A i \in DOMAIN rows : rows'[i] = rows[i]
    BY <2>1, <2>2 DEF Put
  <2>7. Table' = [i \in DOMAIN rows' |-> Shown(rows'[i])]
    BY DEF Table, Shown
  <2>8. Table' = [i \in DOMAIN Table \cup {nextId} |->
                    IF i = nextId
                    THEN [file |-> call[r].file, offset |-> 0, status |-> "PENDING"]
                    ELSE Table[i]]
    BY <2>2, <2>4, <2>5, <2>6, <2>7
  <2>9. ASSUME NEW n, n = nextId, NEW f, f = call[r].file PROVE Lifecycle!Next
    <3>1. Lifecycle!Queue(n, f)
      BY <2>2, <2>5, <2>8, <2>9 DEF Lifecycle!Queue, Table
    <3>2. n \in Ids /\ f \in Files
      BY <2>1, <2>3, <2>9 DEF Ids
    <3> QED BY <3>1, <3>2 DEF Lifecycle!Next
  <2> QED BY <2>9
<1>3. ASSUME NEW id, NEW b, Writes(id, b) PROVE [Lifecycle!Next]_Table
  <2> DEFINE a == rows[id]
  <2>1. id \in Ids /\ id \in DOMAIN rows /\ a \in Row
    BY <1>3, DownloadAssumption DEF Writes, TypeOK, RowsOK, Maps, Ids
  <2>2. /\ Lifecycle!Set(id, b.offset, b.status)
        /\ id \in DOMAIN Table /\ id \in DOMAIN Table'
        /\ Table[id] = Shown(a) /\ Table'[id] = Shown(b)
    BY <1>3, TableAfterWrite
  <2>3. /\ Table[id].file = a.file /\ Table[id].offset = a.offset
        /\ Table[id].status = a.status /\ Table'[id].offset = b.offset
        /\ Table'[id].status = b.status
    BY <2>2 DEF Shown
  <2>4. LifeStep(a, b) /\ rows' = Put(rows, id, b)
    BY <1>3 DEF Writes
  <2>5. CASE b.status = a.status /\ b.offset = a.offset
    <3>1. Shown(b) = Shown(a)
      BY <2>4, <2>5 DEF LifeStep, Shown
    <3>2. \A i \in DOMAIN rows : Shown(rows'[i]) = Shown(rows[i])
      BY <2>1, <2>4, <3>1 DEF Put
    <3>3. DOMAIN rows' = DOMAIN rows
      BY <2>1, <2>4 DEF Put
    <3> QED BY <3>2, <3>3 DEF Table, Shown
  <2>6. CASE Started(a, b)
    <3>1. \/ Lifecycle!Start(id) \/ Lifecycle!Resume(id)
      BY <2>2, <2>3, <2>6 DEF Started, Lifecycle!Start, Lifecycle!Resume, Lifecycle!Is, Table
    <3> QED BY <2>1, <3>1 DEF Lifecycle!Next
  <2>7. CASE Stopped(a, b)
    <3>1. Lifecycle!Set(id, Table'[id].offset, Table'[id].status)
      BY <2>2, <2>3 DEF Lifecycle!Set
    <3>2. Lifecycle!Is(id, "IN_PROGRESS")
      BY <2>2, <2>3, <2>7 DEF Stopped, Lifecycle!Is, Table
    <3>3. /\ Table'[id].offset >= Table[id].offset
          /\ Table'[id].offset # Size[Table[id].file]
          /\ Table'[id].status \in {"PAUSED", "FAILED"}
      BY <2>3, <2>7 DEF Stopped
    <3>4. Lifecycle!Stop(id)
      BY <2>2, <3>1, <3>2, <3>3 DEF Lifecycle!Stop, Table
    <3> QED BY <2>1, <3>4 DEF Lifecycle!Next
  <2>8. CASE AllFetched(a, b)
    <3>1. Lifecycle!Fetched(id)
      <4>1. a.offset <= Size[a.file]
        BY <2>1, <2>8, DownloadAssumption DEF AllFetched, Row
      <4> QED BY <2>2, <2>3, <2>8, <4>1 DEF AllFetched, Lifecycle!Fetched, Lifecycle!Is, Table
    <3> QED BY <2>1, <3>1 DEF Lifecycle!Next
  <2>9. CASE Checked(a, b)
    <3>1. Lifecycle!Verify(id)
      BY <2>2, <2>3, <2>9 DEF Checked, Lifecycle!Verify, Lifecycle!Is, Table
    <3> QED BY <2>1, <3>1 DEF Lifecycle!Next
  <2> QED BY <2>4, <2>5, <2>6, <2>7, <2>8, <2>9 DEF LifeStep
<1> QED BY <1>1, <1>2, <1>3, TableMoves

(***************************************************************************)
(* With one request at a time and a list that only grows, what a user sees  *)
(* of the list is DownloadLifecycle, through every pause, resume, failure   *)
(* and restart: COMPLETED and FAILED are final, only a resume reopens a     *)
(* PAUSED row, and COMPLETED comes only after everything was fetched.       *)
(***************************************************************************)
THEOREM ImplementsLifecycle == OneUser /\ NoRemoval => (Spec => RowsFollowLifecycle)
<1> SUFFICES ASSUME OneUser, NoRemoval PROVE Spec => RowsFollowLifecycle
  OBVIOUS
<1>1. Init => Lifecycle!Init
  BY DEF Init, NoMap, Lifecycle!Init
<1>2. GrowingInv /\ [Next]_vars => [Lifecycle!Next]_Table
  BY LifecycleStep
<1> QED BY <1>1, <1>2, GrowingInvariant, PTL
        DEF Spec, RowsFollowLifecycle, Lifecycle!Spec, Table

(***************************************************************************)
(* One unfinished row for each file.                                       *)
(***************************************************************************)
NothingLeft(f) ==
    \A id \in DOMAIN rows : rows[id].file = f => rows[id].status = "COMPLETED"

UniqueInv ==
    /\ \A i, j \in DOMAIN rows :
          (/\ rows[i].file = rows[j].file
           /\ rows[i].status # "COMPLETED" /\ rows[j].status # "COMPLETED") => i = j
    /\ \A r \in DOMAIN call :
          call[r].pc \in {"reserve", "insert"} => NothingLeft(call[r].file)

LEMMA UniqueRows ==
    ASSUME UniqueInv PROVE UniqueUnfinished
<1> SUFFICES ASSUME NEW f \in Files PROVE Cardinality(UnfinishedRows(f)) <= 1
  BY DEF UniqueUnfinished
<1>1. \A i, j \in UnfinishedRows(f) : i = j
  BY DEF UniqueInv, UnfinishedRows
<1>2. CASE UnfinishedRows(f) = {}
  BY <1>2, FS_EmptySet
<1>3. CASE UnfinishedRows(f) # {}
  <2>1. PICK i \in UnfinishedRows(f) : TRUE
    BY <1>3
  <2>2. UnfinishedRows(f) = {i}
    BY <1>1, <2>1
  <2>3. Cardinality(UnfinishedRows(f)) = 1
    BY <2>2, FS_Singleton
  <2> QED BY <2>3
<1> QED BY <1>2, <1>3

\* A row that is written goes on with its life, one added is PENDING.
LEMMA RowsAfter ==
    ASSUME GrowingInv, [Next]_vars
    PROVE  \A id \in DOMAIN rows : id \in DOMAIN rows' /\ LifeStep(rows[id], rows'[id])
<1> USE DEF GrowingInv
<1>1. \A id \in DOMAIN rows : LifeStep(rows[id], rows[id])
  BY DEF LifeStep
<1>2. ASSUME NEW r \in Requests, QueueInsert(r)
      PROVE  \A id \in DOMAIN rows : id \in DOMAIN rows' /\ rows'[id] = rows[id]
  <2>1. nextId \notin DOMAIN rows
    BY DownloadAssumption DEF TypeOK, RowsOK
  <2> QED BY <1>2, <2>1 DEF QueueInsert, Put
<1>3. ASSUME NEW i, NEW b, Writes(i, b)
      PROVE  \A id \in DOMAIN rows : id \in DOMAIN rows' /\ LifeStep(rows[id], rows'[id])
  BY <1>1, <1>3 DEF Writes, Put
<1>4. CASE rows' = rows
  BY <1>1, <1>4
<1> QED BY <1>1, <1>2, <1>3, <1>4, TableMoves

LEMMA NewRow ==
    ASSUME GrowingInv, [Next]_vars, NEW id \in DOMAIN rows' \ DOMAIN rows
    PROVE  \E r \in Requests : /\ QueueInsert(r) /\ r \in DOMAIN call
                               /\ call[r].pc = "insert" /\ id = nextId
                               /\ rows'[id] = [file |-> call[r].file,
                                               path |-> call[r].path, offset |-> 0,
                                               status |-> "PENDING"]
<1>1. ASSUME NEW i, NEW b, Writes(i, b) PROVE DOMAIN rows' = DOMAIN rows
  BY <1>1 DEF Writes, Put
<1>2. PICK r \in Requests : QueueInsert(r)
  BY <1>1, TableMoves DEF GrowingInv
<1> DEFINE row == [file |-> call[r].file, path |-> call[r].path, offset |-> 0,
                   status |-> "PENDING"]
<1>3. rows' = Put(rows, nextId, row) /\ r \in DOMAIN call /\ call[r].pc = "insert"
  BY <1>2 DEF QueueInsert
<1> HIDE DEF row
<1>4. id = nextId /\ rows'[id] = row
  BY <1>3 DEF Put
<1> QED BY <1>2, <1>3, <1>4 DEF row

LEMMA UniqueStep ==
    ASSUME OneUser, NoRemoval, GrowingInv, UniqueInv, [Next]_vars
    PROVE  UniqueInv'
<1> USE DEF GrowingInv
<1>1. \A id \in DOMAIN rows :
        /\ id \in DOMAIN rows' /\ rows'[id].file = rows[id].file
        /\ rows'[id].status # "COMPLETED" => rows[id].status # "COMPLETED"
  BY RowsAfter DEF LifeStep, Started, Stopped, AllFetched, Checked
<1>2. ASSUME NEW r \in DOMAIN call', call'[r].pc \in {"reserve", "insert"}
      PROVE  NothingLeft(call'[r].file)
  <2>1. CallMoves(r)
    BY StayCalls
  <2>2. CASE r \in DOMAIN call /\ call'[r] = call[r]
    BY <1>2, <2>2 DEF UniqueInv
  <2>3. CASE call'[r].pc = "reserve" /\ UnfinishedRows(call'[r].file) = {}
    BY <2>3 DEF UnfinishedRows, NothingLeft
  <2>4. CASE call'[r].pc = "insert" /\ r \in DOMAIN call /\ QueueReserve(r)
    <3>1. PICK p : call' = Put(call, r, [pc |-> "insert", file |-> call[r].file,
                                         path |-> p])
      BY <2>4 DEF QueueReserve
    <3>2. call'[r].file = call[r].file /\ call[r].pc = "reserve"
      BY <2>4, <3>1 DEF Put, QueueReserve
    <3> QED BY <2>4, <3>2 DEF UniqueInv
  <2> QED BY <1>2, <2>1, <2>2, <2>3, <2>4 DEF CallMoves
<1>3. CASE \E id : id \in DOMAIN rows' \ DOMAIN rows
  <2>1. PICK i \in DOMAIN rows' \ DOMAIN rows : TRUE
    BY <1>3
  <2>2. PICK r \in Requests : /\ QueueInsert(r) /\ r \in DOMAIN call
                              /\ call[r].pc = "insert" /\ i = nextId
                              /\ rows'[i].file = call[r].file
    BY <2>1, NewRow
  <2>3. NothingLeft(call[r].file)
    BY <2>2 DEF UniqueInv
  <2>4. DOMAIN call' = {}
    BY <2>2, OnlyCall DEF QueueInsert
  <2>5. \A j \in DOMAIN rows' : j \in DOMAIN rows \/ j = i
    BY <2>1, <2>2, NewRow
  <2>6. \A j \in DOMAIN rows : rows'[j].file = rows'[i].file =>
                                  rows'[j].status = "COMPLETED"
    BY <1>1, <2>2, <2>3 DEF NothingLeft
  <2>7. \A j, k \in DOMAIN rows' :
            (/\ rows'[j].file = rows'[k].file
             /\ rows'[j].status # "COMPLETED" /\ rows'[k].status # "COMPLETED") => j = k
    BY <1>1, <2>5, <2>6 DEF UniqueInv
  <2> QED BY <2>4, <2>7 DEF UniqueInv
<1>4. CASE ~\E id : id \in DOMAIN rows' \ DOMAIN rows
  <2>1. \A id \in DOMAIN rows' : id \in DOMAIN rows
    BY <1>4
  <2>2. \A f : NothingLeft(f) => NothingLeft(f)'
    BY <1>1, <2>1 DEF NothingLeft
  <2>3. \A j, k \in DOMAIN rows' :
            (/\ rows'[j].file = rows'[k].file
             /\ rows'[j].status # "COMPLETED" /\ rows'[k].status # "COMPLETED") => j = k
    BY <1>1, <2>1 DEF UniqueInv
  <2>4. \A r \in DOMAIN call' :
            call'[r].pc \in {"reserve", "insert"} => NothingLeft(call[r].file)'
    BY <1>2, <2>2 DEF NothingLeft
  <2> QED BY <2>3, <2>4 DEF UniqueInv, NothingLeft
<1> QED BY <1>3, <1>4

LEMMA UniqueInvariant == OneUser /\ NoRemoval => (Spec => []UniqueInv)
<1> SUFFICES ASSUME OneUser, NoRemoval PROVE Spec => []UniqueInv
  OBVIOUS
<1>1. Init => UniqueInv
  BY DEF Init, NoMap, UniqueInv
<1>2. GrowingInv /\ UniqueInv /\ [Next]_vars => UniqueInv'
  BY UniqueStep
<1> QED BY <1>1, <1>2, GrowingInvariant, PTL DEF Spec

(***************************************************************************)
(* With one request at a time, for any number of files, the list never      *)
(* holds two unfinished downloads of one file, though the table is searched *)
(* two awaits before the row is inserted: no row of the file can come back  *)
(* to an unfinished status in between.                                      *)
(***************************************************************************)
THEOREM UniqueCorrect == OneUser /\ NoRemoval => (Spec => []UniqueUnfinished)
BY UniqueInvariant, UniqueRows, PTL

(***************************************************************************)
(* The files.                                                              *)
(*                                                                         *)
(* Files of one name share their paths: while a generator has unlinked its  *)
(* file and not reopened it, uniquePath gives the name to another download. *)
(* And two write streams on one path spoil each other, which a resume right *)
(* after a pause can bring about on a disk slow enough.  So the names are   *)
(* distinct here, and a user resumes what has come to rest.                 *)
(***************************************************************************)
OwnNames == \A f, g \in Files : Name[f] = Name[g] => f = g
DiskKeepsUp == "slowDisk" \notin Ops

Length(p) == IF p \in DOMAIN disk THEN Len(disk[p]) ELSE 0

\* What a stream has written and has yet to write.
Load(w) == Length(out[w].path) + Len(out[w].buf)

NoStream(p) == \A w \in DOMAIN out : out[w].path # p

\* Every path belongs to one row, and one that is about to be inserted to none.
PathInv ==
    /\ \A i, j \in DOMAIN rows : rows[i].path = rows[j].path => i = j
    /\ \A i \in DOMAIN rows : rows[i].path[1] = Name[rows[i].file]
    /\ \A r \in DOMAIN call : call[r].pc = "insert" =>
          /\ call[r].path[1] = Name[call[r].file]
          /\ \A i \in DOMAIN rows : rows[i].path # call[r].path

\* A stream that is to start a file finds none, and writes it from its start.
Sane(st) ==
    /\ st.fd # "orphan"
    /\ st.fd = "opening" => st.pos = 0
    /\ (st.fd = "opening" /\ ~st.append) => st.path \notin DOMAIN disk
    /\ (st.fd = "open" /\ ~st.append) => Len(disk[st.path]) = st.pos

\* A stream writes for one row, and never more than is counted there: by its
\* generator while it runs, by the row when it is gone.
Holds(w, id) ==
    /\ rows[id].path = out[w].path
    /\ w \in DOMAIN task => /\ task[w].id = id /\ task[w].pc \notin {"find", "unlink"}
                            /\ Load(w) <= task[w].offset
    /\ w \notin DOMAIN task => ~AtRest(out[w]) /\ Load(w) <= rows[id].offset

StreamInv ==
    /\ \A v, w \in DOMAIN out : out[v].path = out[w].path => v = w
    /\ \A w \in DOMAIN out : Sane(out[w]) /\ \E id \in DOMAIN rows : Holds(w, id)

\* A download that is to be continued has no stream left, and no more on disk
\* than is counted.
QuietInv ==
    /\ \A id \in DOMAIN rows :
          rows[id].status = "PAUSED" => Length(rows[id].path) <= rows[id].offset
    /\ \A w \in DOMAIN task :
          task[w].pc \in {"find", "unlink"} => NoStream(rows[task[w].id].path)
    /\ \A w \in DOMAIN task :
          (task[w].pc = "find" /\ rows[task[w].id].status = "IN_PROGRESS") =>
              Length(rows[task[w].id].path) <= rows[task[w].id].offset
    /\ \A r \in DOMAIN call :
          (call[r].pc \in {"mark", "resume"} /\ Resumable(call[r].row)) =>
              NoStream(call[r].row.path)

\* A download that is completed, or verified and not yet saved as such.
Done(id) ==
    \/ rows[id].status = "COMPLETED"
    \/ \E w \in DOMAIN task : task[w].id = id /\ task[w].pc = "complete"

Whole(id) ==
    rows[id].path \in DOMAIN disk /\ disk[rows[id].path] = Content(rows[id].file)

WholeInv == \A id \in DOMAIN rows : Done(id) => Whole(id)

FileInv == PathInv /\ StreamInv /\ QuietInv /\ WholeInv

\* One user at a time, a list that only grows, names of their own, and files
\* that have come to rest before they are continued.
PlainUse == OneUser /\ NoRemoval /\ OwnNames /\ DiskKeepsUp

ListInv == GrowingInv /\ UniqueInv /\ FileInv

SameFile(p) ==
    /\ p \in DOMAIN disk' <=> p \in DOMAIN disk
    /\ p \in DOMAIN disk => disk'[p] = disk[p]

LEMMA SameLength == ASSUME NEW p, SameFile(p) PROVE Length(p)' = Length(p)
BY DEF SameFile, Length

LEMMA LengthNat ==
    ASSUME TypeOK, NEW p
    PROVE  Length(p) \in Nat /\ (p \in DOMAIN disk => disk[p] \in Seq(Chunks))
<1>1. p \in DOMAIN disk => disk[p] \in Seq(Chunks)
  BY DEF TypeOK, DiskOK, Maps
<1> QED BY <1>1 DEF Length

LEMMA StreamType ==
    ASSUME TypeOK, NEW w \in DOMAIN out
    PROVE  /\ w \in Workers /\ out[w] \in Stream
           /\ out[w].path \in Paths /\ out[w].append \in BOOLEAN
           /\ out[w].fd \in {"opening", "open", "orphan"}
           /\ out[w].pos \in Nat /\ out[w].buf \in Seq(Chunks)
           /\ Len(out[w].buf) \in Nat /\ Load(w) \in Nat
           /\ Length(out[w].path) <= Load(w)
<1>1. w \in Workers /\ out[w] \in Stream
  BY DEF TypeOK, OutOK, Maps
<1>2. /\ out[w].path \in Paths /\ out[w].append \in BOOLEAN
      /\ out[w].fd \in {"opening", "open", "orphan"}
      /\ out[w].pos \in Nat /\ out[w].buf \in Seq(Chunks)
  BY <1>1 DEF Stream
<1>3. Len(out[w].buf) \in Nat /\ Length(out[w].path) \in Nat
  BY <1>2, LengthNat
<1> QED BY <1>1, <1>2, <1>3 DEF Load

LEMMA TaskRow ==
    ASSUME GrowingInv, NEW w \in DOMAIN task
    PROVE  /\ w \in Workers /\ task[w] \in Task /\ task[w].id \in DOMAIN rows
           /\ Tracks(task[w], rows[task[w].id])
           /\ rows[task[w].id] \in Row
<1>1. w \in Workers /\ task[w] \in Task
  BY DEF GrowingInv, TypeOK, TaskOK, Maps
<1>2. task[w].id \in DOMAIN rows /\ Tracks(task[w], rows[task[w].id])
  BY DEF GrowingInv, RowsStay, TrackInv, TasksTrack
<1> QED BY <1>1, <1>2 DEF GrowingInv, TypeOK, RowsOK, Maps

LEMMA RowFields ==
    ASSUME TypeOK, NEW id \in DOMAIN rows
    PROVE  /\ rows[id] \in Row /\ rows[id].file \in Files /\ rows[id].path \in Paths
           /\ rows[id].offset \in Nat /\ rows[id].status \in Status
<1>1. rows[id] \in Row
  BY DEF TypeOK, RowsOK, Maps
<1> QED BY <1>1 DEF Row

(***************************************************************************)
(* The steps that touch files.                                             *)
(***************************************************************************)
LEMMA DiskSteps ==
    ASSUME RowsStay, [Next]_vars, disk' # disk
    PROVE  \/ \E r \in Requests : QueueReserve(r)
           \/ \E w \in Workers : Unlink(w) \/ Open(w) \/ Flush(w)
<1>1. ASSUME NEW r \in Requests, NewCall(r) PROVE FALSE
  BY <1>1 DEF NewCall, QueueLookup, Pause, ResumeFind, DeleteFind
<1>2. ASSUME NEW r \in Requests, QueueDropRow(r) \/ QueueInsert(r) \/ ResumeMark(r)
                                 \/ ResumeSave(r) \/ DeleteRemove(r)
      PROVE  FALSE
  BY <1>2 DEF QueueDropRow, QueueInsert, ResumeMark, ResumeSave, DeleteRemove
<1>3. ASSUME NEW r \in Requests, QueueDropFile(r) \/ DeleteUnlink(r) PROVE FALSE
  BY <1>3 DEF RowsStay, Removing, QueueDropFile, DeleteUnlink
<1>4. ASSUME NEW w \in Workers,
             \/ Find(w) \/ Begin(w) \/ Receive(w) \/ ReceivePaused(w)
             \/ StreamStop(w) \/ Finish(w) \/ Checksum(w) \/ Complete(w)
      PROVE  FALSE
  BY <1>4 DEF Find, Begin, Receive, ReceivePaused, StreamStop, Finally, Finish,
     Checksum, Complete
<1>5. ~Crash /\ ~UNCHANGED vars
  BY DEF Crash, vars
<1> QED BY <1>1, <1>2, <1>3, <1>4, <1>5 DEF Next, CallStep, QueueSteps, TaskStep, StreamStep

LEMMA OutSteps ==
    ASSUME RowsStay, [Next]_vars, out' # out
    PROVE  \/ \E w \in Workers : \/ Find(w) \/ Unlink(w) \/ Receive(w) \/ Finish(w)
                                 \/ Checksum(w) \/ Complete(w) \/ Open(w) \/ Flush(w)
           \/ Crash
<1>1. ASSUME NEW r \in Requests, NewCall(r) PROVE FALSE
  BY <1>1 DEF NewCall, QueueLookup, Pause, ResumeFind, DeleteFind
<1>2. ASSUME NEW r \in Requests, QueueDropRow(r) \/ QueueInsert(r) \/ ResumeMark(r)
                                 \/ ResumeSave(r) \/ DeleteRemove(r) \/ QueueReserve(r)
      PROVE  FALSE
  BY <1>2 DEF QueueDropRow, QueueInsert, ResumeMark, ResumeSave, DeleteRemove,
     QueueReserve
<1>3. ASSUME NEW r \in Requests, QueueDropFile(r) \/ DeleteUnlink(r) PROVE FALSE
  BY <1>3 DEF RowsStay, Removing, QueueDropFile, DeleteUnlink
<1>4. ASSUME NEW w \in Workers, Begin(w) \/ ReceivePaused(w) \/ StreamStop(w)
      PROVE  FALSE
  BY <1>4 DEF Begin, ReceivePaused, StreamStop, Finally
<1>5. ~UNCHANGED vars
  BY DEF vars
<1> QED BY <1>1, <1>2, <1>3, <1>4, <1>5 DEF Next, CallStep, QueueSteps, TaskStep, StreamStep

\* What becomes of the file at p.
FileMoves(p) ==
    \/ SameFile(p)
    \/ /\ p \notin DOMAIN disk /\ \A i \in DOMAIN rows : rows[i].path # p
       /\ UNCHANGED <<rows, out>>
    \/ \E w \in DOMAIN task : Unlink(w) /\ p = rows[task[w].id].path
    \/ \E w \in DOMAIN out : (Open(w) \/ Flush(w)) /\ p = out[w].path

\* uniquePath gives away no name that a row has: a row that bears it is of the
\* same file, so it is completed, and its file is there.
LEMMA ReservedPath ==
    ASSUME PlainUse, ListInv, NEW r \in DOMAIN call, call[r].pc = "reserve",
           NEW n, <<Name[call[r].file], n>> \notin DOMAIN disk
    PROVE  \A i \in DOMAIN rows : rows[i].path # <<Name[call[r].file], n>>
<1> DEFINE f == call[r].file
           p == <<Name[f], n>>
<1> SUFFICES ASSUME NEW i \in DOMAIN rows, rows[i].path = p PROVE FALSE
  OBVIOUS
<1>1. p[1] = Name[f]
  OBVIOUS
<1>2. call[r] \in Call
  BY DEF ListInv, GrowingInv, TypeOK, CallOK, Maps
<1>3. f \in Files /\ rows[i].file \in Files
  BY <1>2, CallFields, RowFields DEF ListInv, GrowingInv
<1>4. Name[rows[i].file] = Name[f]
  BY <1>1 DEF ListInv, FileInv, PathInv
<1>5. rows[i].file = f
  BY <1>3, <1>4 DEF PlainUse, OwnNames
<1>6. rows[i].status = "COMPLETED"
  BY <1>5 DEF ListInv, UniqueInv, NothingLeft
<1>7. Whole(i)
  BY <1>6 DEF ListInv, FileInv, WholeInv, Done
<1> QED BY <1>7 DEF Whole

LEMMA FileCases ==
    ASSUME PlainUse, ListInv, [Next]_vars, NEW p
    PROVE  FileMoves(p)
<1>1. CASE disk' = disk
  BY <1>1 DEF FileMoves, SameFile
<1>2. ASSUME NEW r \in Requests, QueueReserve(r) PROVE FileMoves(p)
  <2>1. r \in DOMAIN call /\ call[r].pc = "reserve" /\ UNCHANGED <<rows, out>>
    BY <1>2 DEF QueueReserve
  <2>2. PICK n \in 0..MaxIndex : /\ <<Name[call[r].file], n>> \notin DOMAIN disk
                                 /\ disk' = Put(disk, <<Name[call[r].file], n>>, <<>>)
    BY <1>2 DEF QueueReserve
  <2> DEFINE q == <<Name[call[r].file], n>>
  <2>3. \A i \in DOMAIN rows : rows[i].path # q
    BY <2>1, <2>2, ReservedPath
  <2>4. q \notin DOMAIN disk /\ disk' = Put(disk, q, <<>>)
    BY <2>2
  <2> HIDE DEF q
  <2>5. CASE p = q
    BY <2>1, <2>3, <2>4, <2>5 DEF FileMoves
  <2>6. CASE p # q
    BY <2>4, <2>6 DEF FileMoves, SameFile, Put
  <2> QED BY <2>5, <2>6
<1>3. ASSUME NEW w \in Workers, Unlink(w) PROVE FileMoves(p)
  <2>1. w \in DOMAIN task /\ task[w].pc = "unlink" /\ disk' = Drop(disk, task[w].path)
    BY <1>3 DEF Unlink, At
  <2>2. task[w].path = rows[task[w].id].path
    BY <2>1, TaskRow DEF Tracks, ListInv
  <2>3. CASE p = task[w].path
    BY <1>3, <2>1, <2>2, <2>3 DEF FileMoves
  <2>4. CASE p # task[w].path
    BY <2>1, <2>4 DEF FileMoves, SameFile, Drop
  <2> QED BY <2>3, <2>4
<1>4. ASSUME NEW w \in Workers, Open(w) \/ Flush(w) PROVE FileMoves(p)
  <2>1. w \in DOMAIN out
    BY <1>4 DEF Open, Flush
  <2>2. disk' = disk \/ \E s : disk' = Put(disk, out[w].path, s)
    BY <1>4 DEF Open, Flush
  <2>3. CASE p = out[w].path
    BY <1>4, <2>1, <2>3 DEF FileMoves
  <2>4. CASE p # out[w].path
    BY <2>2, <2>4 DEF FileMoves, SameFile, Put
  <2> QED BY <2>3, <2>4
<1> QED BY <1>1, <1>2, <1>3, <1>4, DiskSteps DEF ListInv, GrowingInv

(***************************************************************************)
(* The streams.                                                            *)
(***************************************************************************)
LEMMA UnchangedStreams ==
    ASSUME NEW p, NoStream(p)
    PROVE  DOMAIN Orphaned(p) = DOMAIN out /\ \A x \in DOMAIN out : Orphaned(p)[x] = out[x]
BY DEF NoStream, Orphaned

LEMMA StreamToFacts ==
    ASSUME NEW w \in DOMAIN out, NEW st, StreamTo(w, st)
    PROVE  /\ \A x \in DOMAIN out' : /\ x \in DOMAIN out
                                     /\ x # w => out'[x] = out[x]
                                     /\ x = w => out'[x] = st
           /\ (w \in DOMAIN out' /\ w \notin DOMAIN task) => ~AtRest(st)
<1> DEFINE streams == Put(out, w, st)
<1>1. /\ \A x \in DOMAIN streams : /\ x \in DOMAIN out
                                   /\ x # w => streams[x] = out[x]
                                   /\ x = w => streams[x] = st
      /\ w \in DOMAIN streams /\ streams[w] = st
  BY DEF Put
<1>2. out' = streams \/ (w \notin DOMAIN task /\ out' = Left(streams, w))
  BY DEF StreamTo
<1>3. w \notin DOMAIN task => out' = Left(streams, w)
  BY DEF StreamTo
<1> HIDE DEF streams
<1>4. /\ DOMAIN Left(streams, w) \subseteq DOMAIN streams
      /\ \A x \in DOMAIN Left(streams, w) : Left(streams, w)[x] = streams[x]
  BY LeftFacts
<1>5. w \in DOMAIN Left(streams, w) => ~AtRest(st)
  BY <1>1 DEF Left, Drop
<1> QED BY <1>1, <1>2, <1>3, <1>4, <1>5

\* What becomes of a stream that is there after the step.
StreamMoves(x) ==
    \/ x \in DOMAIN out /\ out'[x] = out[x] /\ ~Open(x) /\ ~Flush(x)
    \/ /\ x \in DOMAIN task /\ Find(x)
       /\ out'[x] = NewStream(rows[task[x].id].path, TRUE)
    \/ /\ x \in DOMAIN task /\ Unlink(x)
       /\ out'[x] = NewStream(rows[task[x].id].path, FALSE)
    \/ x \in DOMAIN out /\ (Receive(x) \/ Open(x) \/ Flush(x))

LEMMA StreamCases ==
    ASSUME ListInv, [Next]_vars, NEW x \in DOMAIN out'
    PROVE  StreamMoves(x)
<1> USE DEF ListInv
<1>1. CASE Open(x) \/ Flush(x)
  BY <1>1 DEF StreamMoves, Open, Flush
<1> SUFFICES ASSUME ~Open(x), ~Flush(x) PROVE StreamMoves(x)
  BY <1>1
<1>2. CASE x \in DOMAIN out /\ out'[x] = out[x]
  BY <1>2 DEF StreamMoves
<1>3. ASSUME NEW w, EndTask(w) PROVE x \in DOMAIN out /\ out'[x] = out[x]
  BY <1>3, LeftFacts DEF EndTask
<1>4. ASSUME NEW w \in Workers, Find(w), ~EndTask(w) PROVE StreamMoves(x)
  <2>1. /\ w \in DOMAIN task
        /\ out' = out \/ out' = Put(out, w, NewStream(rows[task[w].id].path, TRUE))
    BY <1>4 DEF Find, At
  <2>2. CASE out' = out
    BY <1>2, <2>2
  <2>3. CASE out' = Put(out, w, NewStream(rows[task[w].id].path, TRUE))
    <3> DEFINE st == NewStream(rows[task[w].id].path, TRUE)
    <3>1. out' = Put(out, w, st)
      BY <2>3
    <3> HIDE DEF st
    <3>2. (x = w /\ out'[x] = st) \/ (x \in DOMAIN out /\ out'[x] = out[x])
      BY <3>1 DEF Put
    <3> QED BY <1>2, <1>4, <2>1, <3>2 DEF StreamMoves, st
  <2> QED BY <2>1, <2>2, <2>3
<1>5. ASSUME NEW w \in Workers, Unlink(w) PROVE StreamMoves(x)
  <2>1. w \in DOMAIN task /\ task[w].pc = "unlink"
    BY <1>5 DEF Unlink, At
  <2>2. task[w].path = rows[task[w].id].path
    BY <2>1, TaskRow DEF Tracks
  <2>3. NoStream(rows[task[w].id].path)
    BY <2>1 DEF FileInv, QuietInv
  <2> DEFINE p == rows[task[w].id].path
             st == NewStream(p, FALSE)
  <2>4. out' = Put(Orphaned(p), w, st)
    BY <1>5, <2>2 DEF Unlink
  <2>5. NoStream(p)
    BY <2>3
  <2> HIDE DEF p, st
  <2>6. DOMAIN Orphaned(p) = DOMAIN out /\ \A y \in DOMAIN out : Orphaned(p)[y] = out[y]
    BY <2>5, UnchangedStreams
  <2>7. (x = w /\ out'[x] = st) \/ (x \in DOMAIN out /\ out'[x] = out[x])
    BY <2>4, <2>6 DEF Put
  <2> QED BY <1>2, <1>5, <2>1, <2>7 DEF StreamMoves, st, p
<1>6. ASSUME NEW w \in Workers, Receive(w) PROVE StreamMoves(x)
  <2>1. w \in DOMAIN out
    <3>1. w \in DOMAIN task /\ task[w].pc = "stream"
      BY <1>6 DEF Receive, At
    <3> QED BY <3>1 DEF GrowingInv, TypeOK, OutOK
  <2>2. PICK st : out' = Put(out, w, st)
    BY <1>6 DEF Receive
  <2>3. x = w \/ (x \in DOMAIN out /\ out'[x] = out[x])
    BY <2>2 DEF Put
  <2> QED BY <1>2, <1>6, <2>1, <2>3 DEF StreamMoves
<1>7. ASSUME NEW w \in Workers, Open(w) \/ Flush(w) PROVE StreamMoves(x)
  <2>1. w \in DOMAIN out /\ x # w
    BY <1>7 DEF Open, Flush
  <2>2. PICK st : StreamTo(w, st)
    BY <1>7 DEF Open, Flush
  <2> QED BY <1>2, <2>1, <2>2, StreamToFacts
<1>8. ASSUME NEW w \in Workers, Finish(w) \/ Checksum(w) \/ Complete(w)
      PROVE  StreamMoves(x)
  <2>1. EndTask(w) \/ out' = out
    BY <1>8 DEF Finish, Checksum, Complete
  <2> QED BY <1>2, <1>3, <2>1
<1>9. ~Crash
  BY DEF Crash, NoMap
<1> QED BY <1>2, <1>3, <1>4, <1>5, <1>6, <1>7, <1>8, <1>9, OutSteps DEF GrowingInv

\* A generator that is gone ended by itself, or with the process.
LEMMA TaskLeaves ==
    ASSUME [Next]_vars, NEW w \in DOMAIN task \ DOMAIN task'
    PROVE  \/ EndTask(w) /\ (Find(w) \/ Finish(w) \/ Checksum(w) \/ Complete(w))
           \/ Crash
<1>1. ASSUME NEW k, NEW t, task' = Put(task, k, t) PROVE FALSE
  BY <1>1 DEF Put
<1>2. task' # task
  OBVIOUS
<1>3. ASSUME NEW r \in Requests, NewCall(r) PROVE FALSE
  <2>1. ASSUME NEW id \in Ids, Pause(r, id) PROVE FALSE
    BY <1>1, <1>2, <2>1 DEF Pause
  <2> QED BY <1>2, <1>3, <2>1 DEF NewCall, QueueLookup, ResumeFind, DeleteFind
<1>4. ASSUME NEW r \in Requests, QueueInsert(r) \/ ResumeSave(r) PROVE FALSE
  BY <1>1, <1>4 DEF QueueInsert, ResumeSave, Launch
<1>5. ASSUME NEW r \in Requests,
             \/ QueueDropRow(r) \/ QueueDropFile(r) \/ QueueReserve(r)
             \/ ResumeMark(r) \/ DeleteRemove(r) \/ DeleteUnlink(r)
      PROVE  FALSE
  BY <1>2, <1>5 DEF QueueDropRow, QueueDropFile, QueueReserve, ResumeMark,
     DeleteRemove, DeleteUnlink
<1>6. ASSUME NEW v \in Workers,
             \/ Unlink(v) \/ Begin(v) \/ Receive(v) \/ ReceivePaused(v) \/ StreamStop(v)
      PROVE  FALSE
  <2>1. \E t : task' = Put(task, v, t)
    BY <1>6 DEF Unlink, Begin, Receive, ReceivePaused, StreamStop, Finally, GoTo
  <2> QED BY <1>1, <2>1
<1>7. ASSUME NEW v \in Workers, Find(v) \/ Finish(v) \/ Checksum(v) \/ Complete(v)
      PROVE  EndTask(v) /\ v = w
  <2>1. EndTask(v) \/ \E t : task' = Put(task, v, t)
    BY <1>7 DEF Find, Finish, Checksum, Complete, GoTo
  <2>2. EndTask(v)
    BY <1>1, <2>1
  <2> QED BY <2>2 DEF EndTask, Drop
<1>8. ASSUME NEW v \in Workers, StreamStep(v) PROVE FALSE
  BY <1>2, <1>8 DEF StreamStep, Open, Flush
<1>9. ~UNCHANGED vars
  BY <1>2 DEF vars
<1> QED BY <1>3, <1>4, <1>5, <1>6, <1>7, <1>8, <1>9
        DEF Next, CallStep, QueueSteps, TaskStep

\* Its stream stays only with work to do, and the row has its last offset.
LEMMA StreamOutlives ==
    ASSUME ListInv, [Next]_vars, NEW w \in DOMAIN task \ DOMAIN task',
           w \in DOMAIN out, w \in DOMAIN out', task[w].pc # "find"
    PROVE  ~AtRest(out[w]) /\ rows'[task[w].id].offset >= task[w].offset
<1>1. ~Crash
  BY DEF Crash, NoMap
<1>2. EndTask(w) /\ (Find(w) \/ Finish(w) \/ Checksum(w) \/ Complete(w))
  BY <1>1, TaskLeaves
<1>3. ~AtRest(out[w])
  BY <1>2 DEF EndTask, Left, Drop
<1>4. task[w] \in Task /\ Tracks(task[w], rows[task[w].id]) /\ task[w].offset \in Nat
  <2>1. task[w] \in Task /\ Tracks(task[w], rows[task[w].id])
    BY TaskRow DEF ListInv
  <2> QED BY <2>1 DEF Task
<1>5. ASSUME NEW status, Save(task[w], status)
      PROVE  rows'[task[w].id].offset = task[w].offset
  <2> DEFINE row == [file |-> task[w].file, path |-> task[w].path,
                     offset |-> task[w].offset, status |-> status]
  <2>1. rows' = Put(rows, task[w].id, row) /\ row.offset = task[w].offset
    BY <1>5 DEF Save
  <2> HIDE DEF row
  <2> QED BY <2>1 DEF Put
<1>6. CASE Find(w)
  BY <1>6 DEF Find, At
<1>7. CASE Checksum(w)
  <2>1. task[w].pc = "checksum" /\ rows' = rows
    BY <1>7 DEF Checksum, At
  <2> QED BY <1>3, <1>4, <2>1 DEF Tracks
<1>8. CASE Finish(w) \/ Complete(w)
  <2>1. \E status : Save(task[w], status)
    BY <1>8 DEF Finish, Complete
  <2>2. rows'[task[w].id].offset = task[w].offset
    BY <1>5, <2>1
  <2> QED BY <1>3, <1>4, <2>2
<1> QED BY <1>2, <1>6, <1>7, <1>8

\* A stream that is left alone still writes for its row.
LEMMA KeptStream ==
    ASSUME PlainUse, ListInv, GrowingInv', [Next]_vars, NEW x \in DOMAIN out',
           x \in DOMAIN out, out'[x] = out[x], ~Open(x), ~Flush(x)
    PROVE  Sane(out[x])' /\ \E id \in DOMAIN rows' : Holds(x, id)'
<1> USE DEF ListInv
<1> DEFINE p == out[x].path
<1>1. Sane(out[x]) /\ \A v \in DOMAIN out : out[v].path = p => v = x
  BY DEF FileInv, StreamInv
<1>2. PICK id \in DOMAIN rows : Holds(x, id)
  BY DEF FileInv, StreamInv
<1>3. SameFile(p)
  <2>1. rows[id].path = p
    BY <1>2 DEF Holds
  <2>2. ASSUME NEW w \in DOMAIN task, Unlink(w), p = rows[task[w].id].path PROVE FALSE
    <3>1. task[w].pc = "unlink"
      BY <2>2 DEF Unlink, At
    <3> QED BY <2>2, <3>1 DEF FileInv, QuietInv, NoStream
  <2>3. ASSUME NEW w \in DOMAIN out, Open(w) \/ Flush(w), p = out[w].path PROVE FALSE
    BY <1>1, <2>3
  <2>4. \E q : q = p /\ FileMoves(q)
    BY FileCases
  <2>5. PICK q : q = p /\ FileMoves(q)
    BY <2>4
  <2>6. ~\E w \in DOMAIN task : Unlink(w) /\ q = rows[task[w].id].path
    BY <2>2, <2>5
  <2>7. ~\E w \in DOMAIN out : (Open(w) \/ Flush(w)) /\ q = out[w].path
    BY <2>3, <2>5
  <2>8. SameFile(q)
    BY <2>1, <2>5, <2>6, <2>7 DEF FileMoves
  <2> QED BY <2>5, <2>8 DEF SameFile
<1>4. Sane(out[x])'
  <2>1. out[x].fd = "open" => p \in DOMAIN disk
    BY DEF GrowingInv, TypeOK, OutOK
  <2> QED BY <1>1, <1>3, <2>1 DEF Sane, SameFile
<1>5. id \in DOMAIN rows' /\ rows'[id].path = rows[id].path
  BY RowsAfter DEF LifeStep
<1>6. Load(x)' = Load(x) /\ Load(x) \in Nat /\ out'[x].path = p
  <2>1. Length(p)' = Length(p)
    BY <1>3, SameLength
  <2> QED BY <2>1, StreamType DEF Load, Length, GrowingInv
<1>7. rows'[id].offset >= rows[id].offset /\ rows[id].offset \in Nat /\ rows'[id].offset \in Nat
  <2>1. rows[id].offset \in Nat
    BY RowFields DEF GrowingInv
  <2>2. LifeStep(rows[id], rows'[id])
    BY RowsAfter
  <2>3. rows'[id].offset \in Nat
    BY <1>5 DEF GrowingInv, TypeOK, RowsOK, Maps, Row
  <2> QED BY <2>1, <2>2, <2>3 DEF LifeStep, Started, Stopped, AllFetched, Checked
<1>8. CASE x \in DOMAIN task'
  <2>1. x \in DOMAIN task /\ Follows(task[x], task'[x])
    BY <1>8, TaskSteps DEF Launched, GrowingInv
  <2>2. task[x].id = id /\ task[x].pc \notin {"find", "unlink"} /\ Load(x) <= task[x].offset
    BY <1>2, <2>1 DEF Holds
  <2>3. task[x].offset \in Nat
    BY <2>1, <2>2, TaskRow DEF Task
  <2>4. /\ task'[x].id = id /\ task'[x].pc \notin {"find", "unlink"}
        /\ task'[x].offset >= task[x].offset
    BY <2>1, <2>2 DEF Follows
  <2>5. task'[x].offset \in Nat
    <3>1. task'[x] \in Task
      BY <1>8 DEF GrowingInv, TypeOK, TaskOK, Maps
    <3> QED BY <2>4, <3>1 DEF Task
  <2>6. Load(x)' <= task'[x].offset
    BY <1>6, <2>2, <2>3, <2>4, <2>5
  <2>7. rows'[id].path = out'[x].path
    BY <1>2, <1>5, <1>6 DEF Holds
  <2>8. Holds(x, id)'
    BY <1>8, <2>4, <2>6, <2>7 DEF Holds
  <2> QED BY <1>4, <1>5, <2>8
<1>9. CASE x \notin DOMAIN task'
  <2>1. ~AtRest(out[x]) /\ Load(x) <= rows'[id].offset
    <3>1. CASE x \notin DOMAIN task
      BY <1>2, <1>6, <1>7, <3>1 DEF Holds
    <3>2. CASE x \in DOMAIN task
      <4>1. /\ task[x].id = id /\ task[x].pc \notin {"find", "unlink"}
            /\ Load(x) <= task[x].offset
        BY <1>2, <3>2 DEF Holds
      <4>2. task[x].offset \in Nat
        BY <3>2, <4>1, TaskRow DEF Task
      <4>3. ~AtRest(out[x]) /\ rows'[id].offset >= task[x].offset
        BY <1>9, <3>2, <4>1, StreamOutlives
      <4> QED BY <1>6, <1>7, <4>1, <4>2, <4>3
    <3> QED BY <3>1, <3>2
  <2>2. rows'[id].path = out'[x].path
    BY <1>2, <1>5, <1>6 DEF Holds
  <2>3. ~AtRest(out[x])'
    BY <2>1 DEF AtRest
  <2>4. Load(x)' <= rows'[id].offset
    BY <1>6, <2>1
  <2>5. Holds(x, id)'
    BY <1>9, <2>2, <2>3, <2>4 DEF Holds
  <2> QED BY <1>4, <1>5, <2>5
<1> QED BY <1>8, <1>9

\* A new stream: the generator opens it for its row, with nothing to write.
LEMMA NewStreamHolds ==
    ASSUME NEW x \in DOMAIN task', NEW append \in BOOLEAN, NEW id \in DOMAIN rows', NEW p,
           task'[x].id = id, task'[x].pc = "begin", rows'[id].path = p,
           out'[x] = NewStream(p, append),
           Length(p)' \in Nat, Length(p)' <= task'[x].offset,
           append \/ p \notin DOMAIN disk'
    PROVE  Sane(out[x])' /\ \E i \in DOMAIN rows' : Holds(x, i)'
<1>1. /\ out'[x].path = p /\ out'[x].append = append /\ out'[x].fd = "opening"
      /\ out'[x].pos = 0 /\ out'[x].buf = <<>>
  BY DEF NewStream
<1>2. Sane(out[x])'
  BY <1>1 DEF Sane
<1>3. Load(x)' = Length(p)' + Len(out'[x].buf) /\ Len(out'[x].buf) = 0
  BY <1>1 DEF Load, Length
<1>4. Load(x)' <= task'[x].offset
  <2> DEFINE n == Length(p)'
             m == Len(out'[x].buf)
  <2>1. n \in Nat /\ m = 0 /\ Load(x)' = n + m /\ n <= task'[x].offset
    BY <1>3
  <2> HIDE DEF n, m
  <2> QED BY <2>1
<1>5. Holds(x, id)'
  BY <1>1, <1>4 DEF Holds
<1> QED BY <1>2, <1>5

LEMMA FoundStream ==
    ASSUME ListInv, NEW x \in DOMAIN task, Find(x), NEW p, p = rows[task[x].id].path,
           x \in DOMAIN out', out'[x] = NewStream(p, TRUE)
    PROVE  Sane(out[x])' /\ \E i \in DOMAIN rows' : Holds(x, i)'
<1> DEFINE id == task[x].id
           row == rows[id]
           pc == IF row.status = "PENDING" THEN "unlink" ELSE "begin"
           u == [pc |-> pc, id |-> id, file |-> row.file, path |-> row.path,
                 offset |-> row.offset, status |-> "IN_PROGRESS"]
<1>1. /\ task[x].pc = "find" /\ id \in DOMAIN rows /\ UNCHANGED <<rows, disk>>
      /\ row.offset \in Nat /\ row.status \in {"PENDING", "IN_PROGRESS"}
  <2>1. task[x].pc = "find" /\ UNCHANGED <<rows, disk>>
    BY DEF Find, At
  <2>2. id \in DOMAIN rows /\ Tracks(task[x], row)
    BY TaskRow DEF ListInv
  <2>3. row.offset \in Nat
    BY <2>2, RowFields DEF ListInv, GrowingInv
  <2> QED BY <2>1, <2>2, <2>3 DEF Tracks
<1>2. task' = Put(task, x, u) /\ (row.status = "PENDING" => out' = out)
  BY <1>1 DEF Find
<1>3. row.status = "IN_PROGRESS"
  <2>1. ASSUME row.status = "PENDING" PROVE FALSE
    <3>1. x \in DOMAIN out /\ out[x].path = p
      BY <1>2, <2>1 DEF NewStream
    <3> QED BY <1>1, <3>1 DEF ListInv, FileInv, QuietInv, NoStream
  <2> QED BY <1>1, <2>1
<1>4. u.id = id /\ u.pc = "begin" /\ u.offset = row.offset
  BY <1>3
<1>5. Length(p) \in Nat /\ Length(p) <= row.offset
  <2>1. Length(row.path) <= row.offset
    BY <1>1, <1>3 DEF ListInv, FileInv, QuietInv
  <2> QED BY <2>1, LengthNat DEF ListInv, GrowingInv
<1>6. Length(p)' = Length(p)
  BY <1>1 DEF Length
<1>7. task'[x] = u /\ x \in DOMAIN task'
  <2> HIDE DEF u
  <2> QED BY <1>2 DEF Put
<1>8. /\ id \in DOMAIN rows' /\ rows'[id].path = p
      /\ task'[x].id = id /\ task'[x].pc = "begin" /\ Length(p)' <= task'[x].offset
      /\ Length(p)' \in Nat
  <2> HIDE DEF u
  <2> QED BY <1>1, <1>4, <1>5, <1>6, <1>7
<1>9. \E i : i = id
  OBVIOUS
<1>10. PICK i : i = id
  BY <1>9
<1>11. /\ i \in DOMAIN rows' /\ rows'[i].path = p
       /\ task'[x].id = i /\ task'[x].pc = "begin"
  BY <1>8, <1>10
<1> HIDE DEF u, id, row, pc
<1> QED BY <1>7, <1>8, <1>11, NewStreamHolds

LEMMA UnlinkedStream ==
    ASSUME ListInv, NEW x \in DOMAIN task, Unlink(x), NEW p, p = rows[task[x].id].path,
           x \in DOMAIN out', out'[x] = NewStream(p, FALSE)
    PROVE  Sane(out[x])' /\ \E i \in DOMAIN rows' : Holds(x, i)'
<1>1. /\ task[x].pc = "unlink" /\ task' = Put(task, x, [task[x] EXCEPT !.pc = "begin"])
      /\ rows' = rows /\ disk' = Drop(disk, task[x].path)
  BY DEF Unlink, At, GoTo
<1>2. /\ task[x] \in Task /\ task[x].id \in DOMAIN rows /\ task[x].path = p
  BY <1>1, TaskRow DEF Tracks, ListInv
<1>3. task[x].offset \in Nat
  BY <1>1, <1>2 DEF Task
<1>4. /\ x \in DOMAIN task' /\ task'[x].pc = "begin" /\ task'[x].id = task[x].id
      /\ task'[x].offset = task[x].offset
  <2> DEFINE u == [task[x] EXCEPT !.pc = "begin"]
  <2>1. u.pc = "begin" /\ u.id = task[x].id /\ u.offset = task[x].offset
    BY <1>1, <1>2 DEF Task
  <2>2. task' = Put(task, x, u)
    BY <1>1
  <2> HIDE DEF u
  <2> QED BY <2>1, <2>2 DEF Put
<1>5. p \notin DOMAIN disk'
  BY <1>1, <1>2 DEF Drop
<1>6. Length(p)' = 0
  BY <1>5 DEF Length
<1>7. \E i : i = task[x].id
  OBVIOUS
<1>8. PICK i : i = task[x].id
  BY <1>7
<1>9. i \in DOMAIN rows' /\ rows'[i].path = p /\ task'[x].id = i
  BY <1>1, <1>2, <1>4, <1>8
<1>10. Length(p)' \in Nat /\ Length(p)' <= task'[x].offset
  BY <1>3, <1>4, <1>6
<1> QED BY <1>4, <1>5, <1>9, <1>10, NewStreamHolds

\* A chunk is handed over and counted at once.
LEMMA ReceivedStream ==
    ASSUME ListInv, NEW x \in DOMAIN out, Receive(x)
    PROVE  Sane(out[x])' /\ \E i \in DOMAIN rows' : Holds(x, i)'
<1>1. /\ x \in DOMAIN task /\ task[x].pc = "stream" /\ UNCHANGED <<rows, disk>>
      /\ task' = Put(task, x, [task[x] EXCEPT !.offset = @ + 1])
  BY DEF Receive, At
<1>2. PICK c : out' = Put(out, x, [out[x] EXCEPT !.buf = Append(@, c)])
  BY DEF Receive
<1>3. out[x].buf \in Seq(Chunks) /\ out[x] \in Stream /\ Load(x) \in Nat
      /\ Length(out[x].path) \in Nat
  BY StreamType, LengthNat DEF ListInv, GrowingInv
<1>4. task[x] \in Task /\ task[x].offset \in Nat
  <2>1. task[x] \in Task
    BY <1>1, TaskRow DEF ListInv
  <2> QED BY <1>1, <2>1 DEF Task
<1>5. /\ x \in DOMAIN task' /\ task'[x].pc = "stream" /\ task'[x].id = task[x].id
      /\ task'[x].offset = task[x].offset + 1
  <2> DEFINE u == [task[x] EXCEPT !.offset = @ + 1]
  <2>1. u.pc = "stream" /\ u.id = task[x].id /\ u.offset = task[x].offset + 1
    BY <1>1, <1>4 DEF Task
  <2>2. task' = Put(task, x, u)
    BY <1>1
  <2> HIDE DEF u
  <2> QED BY <2>1, <2>2 DEF Put
<1>6. /\ out'[x].path = out[x].path /\ out'[x].append = out[x].append
      /\ out'[x].fd = out[x].fd /\ out'[x].pos = out[x].pos
      /\ Len(out'[x].buf) = Len(out[x].buf) + 1
  <2> DEFINE b == Append(out[x].buf, c)
             st == [out[x] EXCEPT !.buf = b]
  <2>1. Len(b) = Len(out[x].buf) + 1
    BY <1>3
  <2> HIDE DEF b
  <2>2. /\ st.path = out[x].path /\ st.append = out[x].append
        /\ st.fd = out[x].fd /\ st.pos = out[x].pos /\ st.buf = b
    BY <1>3 DEF Stream
  <2>3. out' = Put(out, x, st)
    BY <1>2 DEF b
  <2> HIDE DEF st
  <2>4. out'[x] = st
    BY <2>3 DEF Put
  <2> QED BY <2>1, <2>2, <2>4
<1>7. Sane(out[x])'
  <2>1. Sane(out[x])
    BY DEF ListInv, FileInv, StreamInv
  <2> QED BY <1>1, <1>6, <2>1 DEF Sane
<1>8. PICK i \in DOMAIN rows : Holds(x, i)
  BY DEF ListInv, FileInv, StreamInv
<1>9. Load(x)' = Load(x) + 1
  <2>1. Length(out[x].path)' = Length(out[x].path)
    BY <1>1, <1>6 DEF Length
  <2>2. Load(x)' = Length(out[x].path) + Len(out'[x].buf)
    BY <2>1 DEF Load
  <2>3. Load(x) = Length(out[x].path) + Len(out[x].buf) /\ Len(out[x].buf) \in Nat
    BY <1>3 DEF Load
  <2> QED BY <1>3, <1>6, <2>2, <2>3
<1>10. Load(x)' <= task'[x].offset
  <2>1. Load(x) <= task[x].offset
    BY <1>1, <1>8 DEF Holds
  <2> QED BY <1>3, <1>4, <1>5, <1>9, <2>1
<1>11. i \in DOMAIN rows' /\ rows'[i].path = out'[x].path /\ task'[x].id = i
  BY <1>1, <1>5, <1>6, <1>8 DEF Holds
<1>12. Holds(x, i)'
  BY <1>5, <1>10, <1>11 DEF Holds
<1> QED BY <1>7, <1>11, <1>12

\* Opening a file changes no file: one that is to be started is not there.
LEMMA OpenFacts ==
    ASSUME ListInv, NEW x \in DOMAIN out, Open(x), NEW p, p = out[x].path
    PROVE  /\ UNCHANGED <<rows, task>>
           /\ p \in DOMAIN disk => disk'[p] = disk[p]
           /\ p \in DOMAIN disk' /\ Length(p)' = Length(p)
           /\ x \in DOMAIN out' => /\ out'[x] = [out[x] EXCEPT !.fd = "open"]
                                   /\ x \notin DOMAIN task => ~AtRest(out[x])'
<1> DEFINE st == [out[x] EXCEPT !.fd = "open"]
           s == IF out[x].append /\ p \in DOMAIN disk THEN disk[p] ELSE <<>>
<1>1. /\ out[x].fd = "opening" /\ disk' = Put(disk, p, s) /\ StreamTo(x, st)
      /\ UNCHANGED <<rows, task>>
  BY DEF Open
<1>2. Sane(out[x])
  BY DEF ListInv, FileInv, StreamInv
<1>3. p \in DOMAIN disk => s = disk[p]
  BY <1>1, <1>2 DEF Sane
<1>4. p \notin DOMAIN disk => Len(s) = 0
  OBVIOUS
<1> HIDE DEF st, s
<1>5. p \in DOMAIN disk' /\ disk'[p] = s
  BY <1>1 DEF Put
<1>6. Length(p)' = Length(p)
  BY <1>3, <1>4, <1>5 DEF Length
<1>7. x \in DOMAIN out' => out'[x] = st /\ (x \notin DOMAIN task => ~AtRest(out[x])')
  <2>1. x \in DOMAIN out' => out'[x] = st /\ (x \notin DOMAIN task => ~AtRest(st))
    BY <1>1, StreamToFacts
  <2> QED BY <2>1 DEF AtRest
<1> QED BY <1>1, <1>3, <1>5, <1>6, <1>7 DEF st

LEMMA OpenedStream ==
    ASSUME ListInv, NEW x \in DOMAIN out, Open(x), x \in DOMAIN out'
    PROVE  Sane(out[x])' /\ \E i \in DOMAIN rows' : Holds(x, i)'
<1>1. PICK p : p = out[x].path
  OBVIOUS
<1>2. /\ UNCHANGED <<rows, task>> /\ p \in DOMAIN disk' /\ Length(p)' = Length(p)
      /\ p \in DOMAIN disk => disk'[p] = disk[p]
      /\ out'[x] = [out[x] EXCEPT !.fd = "open"]
      /\ x \notin DOMAIN task => ~AtRest(out[x])'
  BY <1>1, OpenFacts
<1>3. /\ out'[x].path = p /\ out'[x].append = out[x].append
      /\ out'[x].fd = "open" /\ out'[x].pos = out[x].pos /\ out'[x].buf = out[x].buf
  BY <1>1, <1>2, StreamType DEF Stream, ListInv, GrowingInv
<1>4. Sane(out[x]) /\ out[x].fd = "opening"
  BY DEF Open, ListInv, FileInv, StreamInv
<1>5. Sane(out[x])'
  <2>1. ~out[x].append => Length(p) = 0 /\ out[x].pos = 0
    BY <1>1, <1>4 DEF Sane, Length
  <2>2. Length(p)' = Len(disk'[p])
    BY <1>2 DEF Length
  <2> QED BY <1>2, <1>3, <2>1, <2>2 DEF Sane
<1>6. Load(x)' = Load(x)
  BY <1>1, <1>2, <1>3 DEF Load, Length
<1>7. PICK i \in DOMAIN rows : Holds(x, i)
  BY DEF ListInv, FileInv, StreamInv
<1>8. Holds(x, i)'
  BY <1>1, <1>2, <1>3, <1>6, <1>7 DEF Holds
<1> QED BY <1>2, <1>5, <1>8

\* A write at the end of a file makes it one chunk longer.
LEMMA WrittenLength ==
    ASSUME NEW s \in Seq(Chunks), NEW st \in Stream, st.buf # <<>>,
           st.append \/ st.pos = Len(s)
    PROVE  Len(Written(s, st)) = Len(s) + 1
<1> DEFINE c == Head(st.buf)
<1>1. Written(s, st) \in Seq(Chunks)
  BY WrittenType
<1>2. CASE st.append
  <2>1. Written(s, st) = Append(s, c)
    BY <1>2 DEF Written
  <2>2. \A y : Len(Append(s, y)) = Len(s) + 1
    OBVIOUS
  <2> QED BY <2>1, <2>2
<1>3. CASE ~st.append
  <2> DEFINE n == Len(s) + 1
             e(k) == IF k = st.pos + 1 THEN c
                     ELSE IF k <= Len(s) THEN s[k] ELSE <<c[1], 0>>
  <2>1. Written(s, st) = WriteAt(s, st.pos, c)
    BY <1>3 DEF Written
  <2>2. st.pos = Len(s) /\ Len(s) \in Nat
    BY <1>3
  <2>3. WriteAt(s, st.pos, c) = [k \in 1..n |-> e(k)]
    <3>1. (IF st.pos < Len(s) THEN Len(s) ELSE st.pos + 1) = n
      BY <2>2
    <3> QED BY <3>1 DEF WriteAt
  <2> HIDE DEF e
  <2>4. DOMAIN Written(s, st) = 1..n
    BY <2>1, <2>3
  <2>5. DOMAIN Written(s, st) = 1..Len(Written(s, st)) /\ Len(Written(s, st)) \in Nat
    BY <1>1
  <2>6. n \in Nat /\ n > 0
    BY <2>2
  <2> DEFINE m == Len(Written(s, st))
  <2>7. 1..m = 1..n /\ m \in Nat
    BY <2>4, <2>5
  <2> HIDE DEF m, n
  <2>8. m = n
    <3>1. n \in 1..m
      BY <2>6, <2>7
    <3>2. m \in 1..n
      BY <2>6, <2>7, <3>1
    <3> QED BY <2>6, <2>7, <3>1, <3>2
  <2> QED BY <2>8 DEF m, n
<1> QED BY <1>2, <1>3

LEMMA FlushFacts ==
    ASSUME ListInv, NEW x \in DOMAIN out, Flush(x), NEW p, p = out[x].path
    PROVE  /\ UNCHANGED <<rows, task>> /\ p \in DOMAIN disk /\ p \in DOMAIN disk'
           /\ Length(p)' = Length(p) + 1 /\ Length(p) \in Nat
           /\ Len(Tail(out[x].buf)) = Len(out[x].buf) - 1 /\ Len(out[x].buf) \in Nat \ {0}
           /\ out[x].fd = "open"
           /\ x \in DOMAIN out' =>
                /\ out'[x] = [out[x] EXCEPT !.buf = Tail(@), !.pos = @ + 1]
                /\ x \notin DOMAIN task => ~AtRest(out[x])'
<1> DEFINE st == [out[x] EXCEPT !.buf = Tail(@), !.pos = @ + 1]
           s == Written(disk[p], out[x])
<1>1. /\ out[x].fd # "opening" /\ out[x].buf # <<>> /\ StreamTo(x, st)
      /\ disk' = IF out[x].fd = "open" THEN Put(disk, p, s) ELSE disk
      /\ UNCHANGED <<rows, task>>
  BY DEF Flush
<1>2. out[x] \in Stream /\ out[x].fd \in {"opening", "open", "orphan"}
      /\ out[x].buf \in Seq(Chunks)
  BY StreamType DEF ListInv, GrowingInv
<1>3. Sane(out[x])
  BY DEF ListInv, FileInv, StreamInv
<1>4. out[x].fd = "open"
  BY <1>1, <1>2, <1>3 DEF Sane
<1>5. p \in DOMAIN disk
  BY <1>4 DEF ListInv, GrowingInv, TypeOK, OutOK
<1>6. disk[p] \in Seq(Chunks) /\ Length(p) = Len(disk[p]) /\ Length(p) \in Nat
  BY <1>5, LengthNat DEF Length, ListInv, GrowingInv
<1>7. Len(s) = Len(disk[p]) + 1
  <2>1. out[x].append \/ out[x].pos = Len(disk[p])
    BY <1>2, <1>3, <1>4 DEF Sane
  <2> QED BY <1>1, <1>2, <1>6, <2>1, WrittenLength
<1>8. Len(Tail(out[x].buf)) = Len(out[x].buf) - 1 /\ Len(out[x].buf) \in Nat \ {0}
  BY <1>1, <1>2
<1> HIDE DEF st, s
<1>9. p \in DOMAIN disk' /\ disk'[p] = s
  BY <1>1, <1>4 DEF Put
<1>10. Length(p)' = Length(p) + 1
  BY <1>6, <1>7, <1>9 DEF Length
<1>11. x \in DOMAIN out' => out'[x] = st /\ (x \notin DOMAIN task => ~AtRest(out[x])')
  <2>1. x \in DOMAIN out' => out'[x] = st /\ (x \notin DOMAIN task => ~AtRest(st))
    BY <1>1, StreamToFacts
  <2> QED BY <2>1 DEF AtRest
<1> QED BY <1>1, <1>4, <1>5, <1>6, <1>8, <1>9, <1>10, <1>11 DEF st

LEMMA FlushedStream ==
    ASSUME ListInv, NEW x \in DOMAIN out, Flush(x), x \in DOMAIN out'
    PROVE  Sane(out[x])' /\ \E i \in DOMAIN rows' : Holds(x, i)'
<1>1. PICK p : p = out[x].path
  OBVIOUS
<1> DEFINE tail == Tail(out[x].buf)
           next == out[x].pos + 1
<1>2. /\ UNCHANGED <<rows, task>> /\ p \in DOMAIN disk /\ p \in DOMAIN disk'
      /\ Length(p)' = Length(p) + 1 /\ Length(p) \in Nat /\ out[x].fd = "open"
      /\ out'[x] = [out[x] EXCEPT !.buf = tail, !.pos = next]
      /\ x \notin DOMAIN task => ~AtRest(out[x])'
  BY <1>1, FlushFacts
<1>3. Len(tail) = Len(out[x].buf) - 1 /\ Len(out[x].buf) \in Nat \ {0}
  BY <1>1, FlushFacts
<1>4. out[x] \in Stream /\ out[x].pos \in Nat
  BY StreamType DEF ListInv, GrowingInv
<1> HIDE DEF tail, next
<1>5. /\ out'[x].path = p /\ out'[x].append = out[x].append
      /\ out'[x].fd = "open" /\ out'[x].pos = next /\ out'[x].buf = tail
  BY <1>1, <1>2, <1>4 DEF Stream
<1>6. Sane(out[x])'
  <2>1. ~out[x].append => Length(p) = out[x].pos
    <3>1. Sane(out[x])
      BY DEF ListInv, FileInv, StreamInv
    <3> QED BY <1>1, <1>2, <3>1 DEF Sane, Length
  <2>2. Length(p)' = Len(disk'[p])
    BY <1>2 DEF Length
  <2>3. ~out[x].append => Len(disk'[p]) = next
    BY <1>2, <2>1, <2>2 DEF next
  <2> QED BY <1>5, <2>3 DEF Sane
<1>7. Load(x)' = Load(x)
  <2>1. Load(x) = Length(p) + Len(out[x].buf)
    BY <1>1 DEF Load
  <2>2. Load(x)' = Length(p)' + Len(tail)
    BY <1>5 DEF Load, Length
  <2> QED BY <1>2, <1>3, <2>1, <2>2
<1>8. PICK i \in DOMAIN rows : Holds(x, i)
  BY DEF ListInv, FileInv, StreamInv
<1>9. Holds(x, i)'
  BY <1>1, <1>2, <1>5, <1>7, <1>8 DEF Holds
<1> QED BY <1>2, <1>6, <1>9

\* A stream keeps its path; a new one has that of its generator's row.
NewPath(x) ==
    /\ x \in DOMAIN task /\ (Find(x) \/ Unlink(x))
    /\ out'[x].path = rows[task[x].id].path

LEMMA StreamPaths ==
    ASSUME ListInv, [Next]_vars, NEW x \in DOMAIN out'
    PROVE  (x \in DOMAIN out /\ out'[x].path = out[x].path) \/ NewPath(x)
<1> USE DEF ListInv
<1>1. CASE x \in DOMAIN out /\ out'[x] = out[x]
  BY <1>1
<1>2. ASSUME NEW append, x \in DOMAIN task, Find(x) \/ Unlink(x),
             out'[x] = NewStream(rows[task[x].id].path, append)
      PROVE  NewPath(x)
  BY <1>2 DEF NewPath, NewStream
<1>3. CASE x \in DOMAIN out /\ Receive(x)
  <2>1. PICK c : out' = Put(out, x, [out[x] EXCEPT !.buf = Append(@, c)])
    BY <1>3 DEF Receive
  <2> DEFINE st == [out[x] EXCEPT !.buf = Append(@, c)]
  <2>2. st.path = out[x].path
    BY <1>3, StreamType DEF Stream, GrowingInv
  <2>3. out' = Put(out, x, st)
    BY <2>1
  <2> HIDE DEF st
  <2> QED BY <1>3, <2>2, <2>3 DEF Put
<1>4. CASE x \in DOMAIN out /\ Open(x)
  <2>1. PICK p : p = out[x].path
    OBVIOUS
  <2>2. out'[x] = [out[x] EXCEPT !.fd = "open"]
    BY <1>4, <2>1, OpenFacts
  <2> QED BY <1>4, <2>2, StreamType DEF Stream, GrowingInv
<1>5. CASE x \in DOMAIN out /\ Flush(x)
  <2>1. PICK p : p = out[x].path
    OBVIOUS
  <2>2. out'[x] = [out[x] EXCEPT !.buf = Tail(@), !.pos = @ + 1]
    BY <1>5, <2>1, FlushFacts
  <2> QED BY <1>5, <2>2, StreamType DEF Stream, GrowingInv
<1> QED BY <1>1, <1>2, <1>3, <1>4, <1>5, StreamCases DEF StreamMoves

\* Two downloads have two paths.
LEMMA PathsApart ==
    ASSUME ListInv, NEW v \in DOMAIN task, NEW w \in DOMAIN task,
           rows[task[v].id].path = rows[task[w].id].path
    PROVE  v = w
<1>1. task[v].id \in DOMAIN rows /\ task[w].id \in DOMAIN rows
  BY TaskRow DEF ListInv
<1>2. task[v].id = task[w].id
  BY <1>1 DEF ListInv, FileInv, PathInv
<1> QED BY <1>2 DEF ListInv, GrowingInv, WriterInv, SingleWriter

LEMMA StreamInvStep ==
    ASSUME PlainUse, ListInv, GrowingInv', [Next]_vars
    PROVE  StreamInv'
<1>1. ASSUME NEW v \in DOMAIN out', NEW w \in DOMAIN out', out'[v].path = out'[w].path
      PROVE  v = w
  <2>1. ASSUME NEW x, NewPath(x) PROVE NoStream(out'[x].path)
    <3>1. x \in DOMAIN task /\ task[x].pc \in {"find", "unlink"}
      BY <2>1 DEF NewPath, Find, Unlink, At
    <3> QED BY <2>1, <3>1 DEF NewPath, ListInv, FileInv, QuietInv, NoStream
  <2>2. CASE NewPath(v) /\ NewPath(w)
    BY <1>1, <2>2, PathsApart DEF NewPath
  <2>3. CASE /\ v \in DOMAIN out /\ out'[v].path = out[v].path
             /\ w \in DOMAIN out /\ out'[w].path = out[w].path
    BY <1>1, <2>3 DEF ListInv, FileInv, StreamInv
  <2> QED BY <1>1, <2>1, <2>2, <2>3, StreamPaths DEF NoStream
<1>2. ASSUME NEW x \in DOMAIN out'
      PROVE  Sane(out[x])' /\ \E i \in DOMAIN rows' : Holds(x, i)'
  <2>1. CASE x \in DOMAIN out /\ out'[x] = out[x] /\ ~Open(x) /\ ~Flush(x)
    BY <2>1, KeptStream
  <2>2. ASSUME x \in DOMAIN task, Find(x) \/ Unlink(x), NEW append \in BOOLEAN,
               out'[x] = NewStream(rows[task[x].id].path, append),
               append <=> Find(x)
        PROVE  Sane(out[x])' /\ \E i \in DOMAIN rows' : Holds(x, i)'
    <3>1. PICK p : p = rows[task[x].id].path
      OBVIOUS
    <3>2. CASE Find(x)
      <4>1. out'[x] = NewStream(p, TRUE)
        BY <2>2, <3>1, <3>2
      <4> QED BY <2>2, <3>1, <3>2, <4>1, FoundStream
    <3>3. CASE ~Find(x)
      <4>1. out'[x] = NewStream(p, FALSE) /\ Unlink(x)
        BY <2>2, <3>1, <3>3
      <4> QED BY <2>2, <3>1, <4>1, UnlinkedStream
    <3> QED BY <3>2, <3>3
  <2>3. ~(Find(x) /\ Unlink(x))
    BY DEF Find, Unlink, At
  <2>4. CASE x \in DOMAIN task /\ Find(x) /\ out'[x] = NewStream(rows[task[x].id].path, TRUE)
    BY <2>2, <2>4
  <2>5. CASE x \in DOMAIN task /\ Unlink(x) /\ out'[x] = NewStream(rows[task[x].id].path, FALSE)
    BY <2>2, <2>3, <2>5
  <2>6. CASE x \in DOMAIN out /\ (Receive(x) \/ Open(x) \/ Flush(x))
    BY <2>6, ReceivedStream, OpenedStream, FlushedStream
  <2>7. StreamMoves(x)
    BY StreamCases
  <2> QED BY <2>1, <2>4, <2>5, <2>6, <2>7 DEF StreamMoves
<1> QED BY <1>1, <1>2 DEF StreamInv

LEMMA PathInvStep ==
    ASSUME PlainUse, ListInv, GrowingInv', [Next]_vars
    PROVE  PathInv'
<1> USE DEF ListInv, GrowingInv
<1>1. \A i \in DOMAIN rows : /\ i \in DOMAIN rows' /\ rows'[i].path = rows[i].path
                             /\ rows'[i].file = rows[i].file
  BY RowsAfter DEF LifeStep
<1>2. CASE \E i : i \in DOMAIN rows' \ DOMAIN rows
  <2>1. PICK i : i \in DOMAIN rows' \ DOMAIN rows
    BY <1>2
  <2>2. PICK r \in Requests : /\ QueueInsert(r) /\ r \in DOMAIN call
                              /\ call[r].pc = "insert" /\ i = nextId
                              /\ rows'[i].path = call[r].path
                              /\ rows'[i].file = call[r].file
    BY <2>1, NewRow
  <2>3. DOMAIN call' = {}
    BY <2>2, OnlyCall DEF QueueInsert, PlainUse
  <2>4. \A j \in DOMAIN rows' : j \in DOMAIN rows \/ j = i
    BY <2>2, NewRow
  <2>5. \A j \in DOMAIN rows : rows'[j].path # rows'[i].path
    BY <1>1, <2>2 DEF FileInv, PathInv
  <2>6. rows'[i].path[1] = Name[rows'[i].file]
    BY <2>2 DEF FileInv, PathInv
  <2>7. \A j, k \in DOMAIN rows' : rows'[j].path = rows'[k].path => j = k
    BY <1>1, <2>4, <2>5 DEF FileInv, PathInv
  <2>8. \A j \in DOMAIN rows' : rows'[j].path[1] = Name[rows'[j].file]
    BY <1>1, <2>4, <2>6 DEF FileInv, PathInv
  <2> QED BY <2>3, <2>7, <2>8 DEF PathInv
<1>3. CASE ~\E i : i \in DOMAIN rows' \ DOMAIN rows
  <2>1. DOMAIN rows' = DOMAIN rows
    BY <1>1, <1>3
  <2>2. ASSUME NEW r \in DOMAIN call', call'[r].pc = "insert"
        PROVE  /\ call'[r].path[1] = Name[call'[r].file]
               /\ \A j \in DOMAIN rows : rows[j].path # call'[r].path
    <3>1. CallMoves(r)
      BY StayCalls DEF PlainUse
    <3>2. CASE r \in DOMAIN call /\ call'[r] = call[r]
      BY <2>2, <3>2 DEF FileInv, PathInv
    <3>3. CASE r \in DOMAIN call /\ QueueReserve(r)
      <4>1. PICK n \in 0..MaxIndex :
               /\ <<Name[call[r].file], n>> \notin DOMAIN disk
               /\ call' = Put(call, r, [pc |-> "insert", file |-> call[r].file,
                                        path |-> <<Name[call[r].file], n>>])
        BY <3>3 DEF QueueReserve
      <4>2. call[r].pc = "reserve"
        BY <3>3 DEF QueueReserve
      <4> DEFINE q == <<Name[call[r].file], n>>
                 c == [pc |-> "insert", file |-> call[r].file, path |-> q]
      <4>3. call' = Put(call, r, c)
        BY <4>1
      <4>4. q[1] = Name[call[r].file]
        OBVIOUS
      <4>5. \A j \in DOMAIN rows : rows[j].path # q
        BY <3>3, <4>1, <4>2, ReservedPath
      <4>6. c.path = q /\ c.file = call[r].file
        OBVIOUS
      <4> HIDE DEF c, q
      <4>7. call'[r] = c
        BY <4>3 DEF Put
      <4> QED BY <4>4, <4>5, <4>6, <4>7
    <3> QED BY <2>2, <3>1, <3>2, <3>3 DEF CallMoves
  <2>3. /\ \A j, k \in DOMAIN rows' : rows'[j].path = rows'[k].path => j = k
        /\ \A j \in DOMAIN rows' : rows'[j].path[1] = Name[rows'[j].file]
        /\ \A r \in DOMAIN call', j \in DOMAIN rows' :
              call'[r].pc = "insert" => rows'[j].path # call'[r].path
    BY <1>1, <2>1, <2>2 DEF FileInv, PathInv
  <2> QED BY <2>2, <2>3 DEF PathInv
<1> QED BY <1>2, <1>3

(***************************************************************************)
(* What is verified stays whole.                                           *)
(***************************************************************************)
LEMMA ContentLength ==
    ASSUME NEW f \in Files
    PROVE  Len(Content(f)) = Size[f] /\ Size[f] \in Nat
<1>1. Size[f] \in Nat
  BY DownloadAssumption
<1> DEFINE n == Size[f]
           e(i) == <<f, i>>
<1> HIDE DEF n, e
<1>2. n \in Nat => Len([i \in 1..n |-> e(i)]) = n
  OBVIOUS
<1> QED BY <1>1, <1>2 DEF Content, n, e

\* Who changes a row, and what is saved.
RowWritten(id) ==
    \/ \E r \in Requests : /\ ResumeSave(r) /\ rows'[id].status = "IN_PROGRESS"
                           /\ r \in DOMAIN call /\ call[r].pc = "resume" /\ call[r].id = id
    \/ \E w \in DOMAIN task :
          /\ task[w].id = id /\ rows'[id].offset = task[w].offset
          /\ \/ Begin(w) /\ rows'[id].status = "IN_PROGRESS"
             \/ Finish(w) /\ rows'[id].status = task[w].status
             \/ Complete(w) /\ rows'[id].status = "COMPLETED"

LEMMA RowWriters ==
    ASSUME GrowingInv, [Next]_vars, NEW id \in DOMAIN rows, rows'[id] # rows[id]
    PROVE  RowWritten(id)
<1>1. ASSUME NEW i, NEW row, rows' = Put(rows, i, row) PROVE i = id /\ rows'[id] = row
  BY <1>1 DEF Put
<1>2. ASSUME NEW r \in Requests, ResumeSave(r) PROVE RowWritten(id)
  <2> DEFINE i == call[r].id
             row == [call[r].row EXCEPT !.status = "IN_PROGRESS"]
  <2>1. r \in DOMAIN call /\ call[r].pc = "resume" /\ rows' = Put(rows, i, row)
    BY <1>2 DEF ResumeSave
  <2>2. row.status = "IN_PROGRESS"
    <3>1. call[r] \in Call
      BY <2>1 DEF GrowingInv, TypeOK, CallOK, Maps
    <3>2. call[r].row \in Row
      BY <2>1, <3>1, CallFields
    <3> QED BY <3>2 DEF Row
  <2> HIDE DEF row, i
  <2>3. i = id /\ rows'[id].status = "IN_PROGRESS"
    BY <1>1, <2>1, <2>2
  <2> QED BY <1>2, <2>1, <2>3 DEF RowWritten, i
<1>3. ASSUME NEW w, NEW status, Save(task[w], status)
      PROVE  /\ task[w].id = id /\ rows'[id].offset = task[w].offset
             /\ rows'[id].status = status
  <2> DEFINE i == task[w].id
             row == [file |-> task[w].file, path |-> task[w].path,
                     offset |-> task[w].offset, status |-> status]
  <2>1. rows' = Put(rows, i, row) /\ row.offset = task[w].offset /\ row.status = status
    BY <1>3 DEF Save
  <2> HIDE DEF row, i
  <2>2. i = id /\ rows'[id] = row
    BY <1>1, <2>1
  <2> QED BY <2>1, <2>2 DEF i
<1>4. ASSUME NEW w \in Workers, Begin(w) \/ Finish(w) \/ Complete(w)
      PROVE  RowWritten(id)
  <2>1. w \in DOMAIN task
    BY <1>4 DEF Begin, Finish, Complete, At
  <2>2. CASE Begin(w)
    <3>1. Save(task[w], "IN_PROGRESS")
      BY <2>2 DEF Begin
    <3> QED BY <1>3, <2>1, <2>2, <3>1 DEF RowWritten
  <2>3. CASE Finish(w)
    <3>1. Save(task[w], task[w].status)
      BY <2>3 DEF Finish
    <3> QED BY <1>3, <2>1, <2>3, <3>1 DEF RowWritten
  <2>4. CASE Complete(w)
    <3>1. Save(task[w], "COMPLETED")
      BY <2>4 DEF Complete
    <3> QED BY <1>3, <2>1, <2>4, <3>1 DEF RowWritten
  <2> QED BY <1>4, <2>2, <2>3, <2>4
<1>5. ASSUME NEW r \in Requests, QueueInsert(r) PROVE FALSE
  <2>1. \E row : rows' = Put(rows, nextId, row)
    BY <1>5 DEF QueueInsert
  <2>2. id # nextId
    BY DownloadAssumption DEF GrowingInv, TypeOK, RowsOK
  <2> QED BY <1>1, <2>1, <2>2
<1>6. ASSUME NEW r \in Requests, QueueDropRow(r) \/ DeleteRemove(r) PROVE FALSE
  BY <1>6 DEF GrowingInv, RowsStay, Removing, QueueDropRow, DeleteRemove
<1>7. rows' # rows
  OBVIOUS
<1> QED BY <1>2, <1>4, <1>5, <1>6, <1>7, TableSteps

\* No stream has anything left to write to a file that is whole.
LEMMA WholeStays ==
    ASSUME PlainUse, ListInv, [Next]_vars, NEW id \in DOMAIN rows,
           rows[id].status \in {"COMPLETED_UNVERIFIED", "COMPLETED"}, Whole(id)
    PROVE  Whole(id)'
<1> USE DEF ListInv
<1>1. PICK p : p = rows[id].path
  OBVIOUS
<1>2. rows[id].file \in Files /\ rows[id].offset = Size[rows[id].file]
  BY RowFields DEF GrowingInv, OffsetInv, StatusMatchesOffset, StatusFits
<1>3. p \in DOMAIN disk /\ disk[p] = Content(rows[id].file)
  BY <1>1 DEF Whole
<1>4. /\ id \in DOMAIN rows' /\ rows'[id].path = p
      /\ rows'[id].file = rows[id].file
  BY <1>1, RowsAfter DEF LifeStep
<1>5. ASSUME NEW w \in DOMAIN task, Unlink(w), p = rows[task[w].id].path PROVE FALSE
  <2>1. task[w].pc = "unlink"
    BY <1>5 DEF Unlink, At
  <2>2. task[w].id \in DOMAIN rows /\ rows[task[w].id].status = "PENDING"
    BY <2>1, TaskRow DEF Tracks
  <2>3. task[w].id = id
    BY <1>1, <1>5, <2>2 DEF FileInv, PathInv
  <2> QED BY <2>2, <2>3
<1>6. ASSUME NEW w \in DOMAIN out, Flush(w), p = out[w].path PROVE FALSE
  <2>1. PICK j \in DOMAIN rows : Holds(w, j)
    BY DEF FileInv, StreamInv
  <2>2. j = id
    BY <1>1, <1>6, <2>1 DEF Holds, FileInv, PathInv
  <2>3. Load(w) <= rows[id].offset
    <3>1. CASE w \notin DOMAIN task
      BY <2>1, <2>2, <3>1 DEF Holds
    <3>2. CASE w \in DOMAIN task
      <4>1. /\ task[w].id = id /\ task[w].pc \notin {"find", "unlink"}
            /\ Load(w) <= task[w].offset
        BY <2>1, <2>2, <3>2 DEF Holds
      <4>2. task[w] \in Task /\ Tracks(task[w], rows[id])
        BY <3>2, <4>1, TaskRow
      <4>3. task[w].pc \in {"checksum", "complete"}
        BY <4>1, <4>2 DEF Task, Tracks
      <4> QED BY <4>1, <4>2, <4>3 DEF Tracks
    <3> QED BY <3>1, <3>2
  <2>4. Len(out[w].buf) \in Nat \ {0}
    BY <1>6, FlushFacts
  <2>5. Len(disk[p]) = Size[rows[id].file] /\ Size[rows[id].file] \in Nat
    BY <1>2, <1>3, ContentLength
  <2>6. Load(w) = Len(disk[p]) + Len(out[w].buf)
    BY <1>3, <1>6 DEF Load, Length
  <2> QED BY <1>2, <2>3, <2>4, <2>5, <2>6
<1>7. p \in DOMAIN disk' /\ disk'[p] = disk[p]
  <2>1. CASE SameFile(p)
    BY <1>3, <2>1 DEF SameFile
  <2>2. ASSUME NEW w \in DOMAIN out, Open(w), p = out[w].path
        PROVE  p \in DOMAIN disk' /\ disk'[p] = disk[p]
    BY <1>3, <2>2, OpenFacts
  <2>3. FileMoves(p)
    BY FileCases
  <2> QED BY <1>1, <1>3, <1>5, <1>6, <2>1, <2>2, <2>3 DEF FileMoves
<1> QED BY <1>3, <1>4, <1>7 DEF Whole

LEMMA WholeInvStep ==
    ASSUME PlainUse, ListInv, [Next]_vars, NEW id \in DOMAIN rows', Done(id)'
    PROVE  Whole(id)'
<1> USE DEF ListInv
<1>1. \A i \in DOMAIN rows' \ DOMAIN rows : rows'[i].status = "PENDING"
  BY NewRow
<1>2. ASSUME NEW w \in DOMAIN task, task[w].id = id, task[w].pc = "complete"
      PROVE  Whole(id)'
  <2>1. id \in DOMAIN rows /\ rows[id].status = "COMPLETED_UNVERIFIED"
    BY <1>2, TaskRow DEF Tracks
  <2>2. Whole(id)
    BY <1>2, <2>1 DEF FileInv, WholeInv, Done
  <2> QED BY <2>1, <2>2, WholeStays
<1>3. CASE rows'[id].status = "COMPLETED"
  <2>1. id \in DOMAIN rows
    BY <1>1, <1>3
  <2>2. CASE rows[id].status = "COMPLETED"
    <3>1. Whole(id)
      BY <2>1, <2>2 DEF FileInv, WholeInv, Done
    <3> QED BY <2>1, <2>2, <3>1, WholeStays
  <2>3. CASE rows[id].status # "COMPLETED"
    <3>1. RowWritten(id)
      BY <1>3, <2>1, <2>3, RowWriters
    <3>2. ASSUME NEW w \in DOMAIN task, Finish(w), rows'[id].status = task[w].status
          PROVE  FALSE
      <4>1. task[w].pc = "finish"
        BY <3>2 DEF Finish, At
      <4> QED BY <1>3, <3>2, <4>1, TaskRow DEF Tracks
    <3>3. ASSUME NEW w \in DOMAIN task, task[w].id = id, Complete(w) PROVE Whole(id)'
      BY <1>2, <3>3 DEF Complete, At
    <3> QED BY <1>3, <3>1, <3>2, <3>3 DEF RowWritten
  <2> QED BY <2>2, <2>3
<1>4. ASSUME NEW w \in DOMAIN task', task'[w].id = id, task'[w].pc = "complete"
      PROVE  Whole(id)'
  <2>1. w \in DOMAIN task /\ Follows(task[w], task'[w])
    BY <1>4, TaskSteps DEF Launched, GrowingInv
  <2>2. task[w].id = id
    BY <1>4, <2>1 DEF Follows
  <2>3. CASE task[w].pc = "complete"
    BY <1>2, <2>1, <2>2, <2>3
  <2>4. CASE task[w].pc = "checksum" /\ Verified(task[w])
    <3>1. /\ id \in DOMAIN rows /\ rows[id].status = "COMPLETED_UNVERIFIED"
          /\ task[w].path = rows[id].path /\ task[w].file = rows[id].file
      BY <2>1, <2>2, <2>4, TaskRow DEF Tracks
    <3>2. Whole(id)
      BY <2>4, <3>1 DEF Verified, Whole
    <3> QED BY <3>1, <3>2, WholeStays
  <2> QED BY <1>4, <2>1, <2>3, <2>4 DEF Follows
<1> QED BY <1>3, <1>4 DEF Done

(***************************************************************************)
(* A download that is to be continued is at rest.                          *)
(***************************************************************************)
\* A file gets longer by what its one stream has to write, and by nothing else.
LEMMA LengthMoves ==
    ASSUME PlainUse, ListInv, [Next]_vars, NEW p
    PROVE  \/ Length(p)' <= Length(p)
           \/ UNCHANGED rows /\ \A i \in DOMAIN rows : rows[i].path # p
           \/ \E w \in DOMAIN out : Flush(w) /\ p = out[w].path /\ Length(p)' <= Load(w)
<1> USE DEF ListInv
<1>1. Length(p) \in Nat
  BY LengthNat DEF GrowingInv
<1>2. CASE SameFile(p)
  <2>1. Length(p)' = Length(p)
    BY <1>2, SameLength
  <2> QED BY <1>1, <2>1
<1>3. ASSUME NEW w \in DOMAIN task, Unlink(w), p = rows[task[w].id].path
      PROVE  Length(p)' <= Length(p)
  <2>1. task[w].pc = "unlink" /\ disk' = Drop(disk, task[w].path)
    BY <1>3 DEF Unlink, At
  <2>2. task[w].path = p
    BY <1>3, <2>1, TaskRow DEF Tracks
  <2>3. p \notin DOMAIN disk'
    BY <2>1, <2>2 DEF Drop
  <2>4. Length(p)' = 0
    BY <2>3 DEF Length
  <2> QED BY <1>1, <2>4
<1>4. ASSUME NEW w \in DOMAIN out, Open(w), p = out[w].path
      PROVE  Length(p)' <= Length(p)
  <2>1. Length(p)' = Length(p)
    BY <1>4, OpenFacts
  <2> QED BY <1>1, <2>1
<1>5. ASSUME NEW w \in DOMAIN out, Flush(w), p = out[w].path
      PROVE  Length(p)' <= Load(w)
  <2>1. Length(p)' = Length(p) + 1 /\ Len(out[w].buf) \in Nat \ {0}
    BY <1>5, FlushFacts
  <2>2. Load(w) = Length(p) + Len(out[w].buf)
    BY <1>5 DEF Load
  <2> QED BY <1>1, <2>1, <2>2
<1>6. FileMoves(p)
  BY FileCases
<1> QED BY <1>2, <1>3, <1>4, <1>5, <1>6 DEF FileMoves

\* The stream at a row's path writes for that row.
LEMMA HolderOf ==
    ASSUME ListInv, NEW w \in DOMAIN out, NEW id \in DOMAIN rows, rows[id].path = out[w].path
    PROVE  Holds(w, id)
<1>1. PICK j \in DOMAIN rows : Holds(w, j)
  BY DEF ListInv, FileInv, StreamInv
<1>2. j = id
  BY <1>1 DEF Holds, ListInv, FileInv, PathInv
<1> QED BY <1>1, <1>2

\* Nothing works for a row that is PAUSED.
LEMMA PausedFree ==
    ASSUME ListInv, NEW w \in DOMAIN task
    PROVE  rows[task[w].id].status # "PAUSED"
BY TaskRow DEF ListInv, GrowingInv, WriterInv, PausedIsQuiet

LEMMA PausedLength ==
    ASSUME PlainUse, ListInv, GrowingInv', [Next]_vars, NEW id \in DOMAIN rows',
           rows'[id].status = "PAUSED", NEW p, p = rows'[id].path
    PROVE  Length(p)' <= rows'[id].offset
<1> USE DEF ListInv
<1>1. id \in DOMAIN rows
  BY NewRow
<1>2. p = rows[id].path /\ LifeStep(rows[id], rows'[id])
  BY <1>1, RowsAfter DEF LifeStep
<1>3. /\ rows[id].offset \in Nat /\ rows'[id].offset \in Nat /\ Length(p) \in Nat
      /\ Length(p)' \in Nat
  <2>1. rows[id].offset \in Nat /\ Length(p) \in Nat
    BY <1>1, RowFields, LengthNat DEF GrowingInv
  <2>2. rows'[id].offset \in Nat
    BY DEF GrowingInv, TypeOK, RowsOK, Maps, Row
  <2>3. p \in DOMAIN disk' => disk'[p] \in Seq(Chunks)
    BY DEF GrowingInv, TypeOK, DiskOK, Maps
  <2>4. Length(p)' \in Nat
    BY <2>3 DEF Length
  <2> QED BY <2>1, <2>2, <2>4
<1>4. CASE rows[id].status = "PAUSED"
  <2>1. rows'[id].offset = rows[id].offset
    BY <1>2, <1>4 DEF LifeStep, Started, Stopped, AllFetched, Checked
  <2>2. Length(p) <= rows[id].offset
    BY <1>1, <1>2, <1>4 DEF FileInv, QuietInv
  <2>3. ASSUME NEW w \in DOMAIN out, p = out[w].path, Length(p)' <= Load(w)
        PROVE  Length(p)' <= rows'[id].offset
    <3>1. Holds(w, id)
      BY <1>1, <1>2, <2>3, HolderOf
    <3>2. w \notin DOMAIN task
      BY <1>4, <3>1, PausedFree DEF Holds
    <3>3. Load(w) <= rows[id].offset /\ Load(w) \in Nat
      BY <3>1, <3>2, StreamType DEF Holds, GrowingInv
    <3> QED BY <1>3, <2>1, <2>3, <3>3
  <2>4. CASE Length(p)' <= Length(p)
    BY <1>3, <2>1, <2>2, <2>4
  <2> QED BY <1>1, <1>2, <2>3, <2>4, LengthMoves
<1>5. CASE rows[id].status # "PAUSED"
  <2>1. RowWritten(id)
    BY <1>1, <1>5, RowWriters
  <2>2. PICK w \in DOMAIN task : task[w].id = id /\ rows'[id].offset = task[w].offset
                                 /\ Finish(w)
    BY <2>1 DEF RowWritten
  <2>3. task[w].pc = "finish" /\ disk' = disk
    BY <2>2 DEF Finish, At
  <2>4. w \in DOMAIN out
    BY <2>3 DEF GrowingInv, TypeOK, OutOK
  <2>5. PICK j \in DOMAIN rows : Holds(w, j)
    BY <2>4 DEF FileInv, StreamInv
  <2>6. out[w].path = p /\ Load(w) <= task[w].offset
    BY <1>2, <2>2, <2>5 DEF Holds
  <2>7. Length(p) <= Load(w) /\ Load(w) \in Nat
    BY <2>4, <2>6, StreamType DEF GrowingInv
  <2>8. Length(p)' = Length(p)
    BY <2>3 DEF Length
  <2> QED BY <1>3, <2>2, <2>6, <2>7, <2>8
<1> QED BY <1>4, <1>5

\* No stream comes to a path unless its row's generator opens it.
LEMMA NoStreamStays ==
    ASSUME ListInv, [Next]_vars, NEW p, NoStream(p),
           \A x \in DOMAIN task : rows[task[x].id].path = p => ~Find(x) /\ ~Unlink(x)
    PROVE  NoStream(p)'
BY StreamPaths DEF NewPath, NoStream

\* A resume that may go on has a row at rest.
LEMMA ResumedQuiet ==
    ASSUME PlainUse, ListInv, [Next]_vars, NEW r \in DOMAIN call',
           call'[r].pc \in {"mark", "resume"}, Resumable(call'[r].row),
           NEW p, p = call'[r].row.path
    PROVE  NoStream(p)'
<1> USE DEF ListInv
<1>1. CallMoves(r)
  BY StayCalls DEF PlainUse, GrowingInv
<1>2. ASSUME NEW id \in DOMAIN rows, rows[id].status = "PAUSED", p = rows[id].path, NoStream(p)
      PROVE  NoStream(p)'
  <2>1. ASSUME NEW x \in DOMAIN task, rows[task[x].id].path = p PROVE FALSE
    <3>1. task[x].id = id
      BY <1>2, <2>1, TaskRow DEF FileInv, PathInv
    <3> QED BY <1>2, <3>1, PausedFree
  <2> QED BY <1>2, <2>1, NoStreamStays
<1>3. CASE /\ r \in DOMAIN call /\ call[r].pc \in {"mark", "resume"}
           /\ call'[r].row = call[r].row
  <2>1. NoStream(p) /\ Resumable(call[r].row)
    BY <1>3 DEF FileInv, QuietInv
  <2>2. call[r].id \in DOMAIN rows /\ rows[call[r].id] = call[r].row
    BY <1>3, <2>1 DEF GrowingInv, TrackInv, CallsTrack
  <2> QED BY <1>2, <1>3, <2>1, <2>2 DEF Resumable
<1>4. ASSUME NEW id \in DOMAIN rows, ResumeFind(r, id), call'[r].row = rows[id]
      PROVE  NoStream(p)'
  <2>1. /\ \A w \in DOMAIN out : out[w].path = rows[id].path => AtRest(out[w])
        /\ out' = out
    BY <1>4 DEF ResumeFind, PlainUse, DiskKeepsUp
  <2>2. rows[id].status = "PAUSED"
    BY <1>4 DEF Resumable
  <2>3. ASSUME NEW w \in DOMAIN out, out[w].path = rows[id].path PROVE FALSE
    <3>1. Holds(w, id)
      BY <2>3, HolderOf
    <3>2. w \notin DOMAIN task
      BY <2>2, <3>1, PausedFree DEF Holds
    <3> QED BY <2>1, <2>3, <3>1, <3>2 DEF Holds
  <2> QED BY <1>4, <2>1, <2>3 DEF NoStream
<1> QED BY <1>1, <1>3, <1>4 DEF CallMoves

\* A generator that has not opened its stream yet, and what it will append to.
Unopened(w) ==
    /\ task[w].pc \in {"find", "unlink"} => NoStream(rows[task[w].id].path)
    /\ (task[w].pc = "find" /\ rows[task[w].id].status = "IN_PROGRESS") =>
          Length(rows[task[w].id].path) <= rows[task[w].id].offset

LEMMA LaunchedQuiet ==
    ASSUME PlainUse, ListInv, [Next]_vars, NEW w \in DOMAIN task', Launched(w)
    PROVE  Unopened(w)'
<1> USE DEF ListInv
<1>1. PICK id : id = task'[w].id
  OBVIOUS
<1>2. task'[w].pc = "find" /\ id \in DOMAIN rows'
  BY <1>1 DEF Launched
<1>3. ASSUME NEW r \in Requests, QueueInsert(r), id = nextId PROVE Unopened(w)'
  <2>1. id \notin DOMAIN rows /\ out' = out
    BY <1>3, DownloadAssumption DEF GrowingInv, TypeOK, RowsOK, QueueInsert
  <2>2. PICK q \in DOMAIN call : /\ call[q].pc = "insert" /\ rows'[id].path = call[q].path
                                 /\ rows'[id].status = "PENDING"
    BY <1>2, <2>1, NewRow
  <2>3. ASSUME NEW v \in DOMAIN out, out[v].path = rows'[id].path PROVE FALSE
    <3>1. PICK j \in DOMAIN rows : Holds(v, j)
      BY DEF FileInv, StreamInv
    <3> QED BY <2>2, <2>3, <3>1 DEF Holds, FileInv, PathInv
  <2> QED BY <1>1, <2>1, <2>2, <2>3 DEF Unopened, NoStream
<1>4. ASSUME NEW r \in Requests, ResumeSave(r), id = call[r].id PROVE Unopened(w)'
  <2>1. r \in DOMAIN call /\ call[r].pc = "resume" /\ out' = out /\ disk' = disk
    BY <1>4 DEF ResumeSave
  <2>2. Resumable(call[r].row)
    BY <2>1 DEF GrowingInv, WriterInv, ResumeChecked
  <2>3. id \in DOMAIN rows /\ rows[id] = call[r].row /\ rows[id].status = "PAUSED"
    BY <1>4, <2>1, <2>2 DEF GrowingInv, TrackInv, CallsTrack, Resumable
  <2>4. NoStream(rows[id].path) /\ Length(rows[id].path) <= rows[id].offset
    BY <2>1, <2>2, <2>3 DEF FileInv, QuietInv
  <2>5. rows'[id].path = rows[id].path /\ rows'[id].offset = rows[id].offset
    BY <2>3, RowsAfter DEF LifeStep, Started, Stopped, AllFetched, Checked
  <2>6. PICK p : p = rows[id].path
    OBVIOUS
  <2>7. NoStream(p)' /\ Length(p)' = Length(p)
    BY <2>1, <2>4, <2>6 DEF NoStream, Length
  <2>8. rows'[task'[w].id].path = p /\ Length(p)' <= rows'[task'[w].id].offset
    BY <1>1, <2>4, <2>5, <2>6, <2>7
  <2> QED BY <2>7, <2>8 DEF Unopened, NoStream, Length
<1> QED BY <1>1, <1>3, <1>4 DEF Launched

LEMMA EarlyQuiet ==
    ASSUME PlainUse, ListInv, GrowingInv', [Next]_vars,
           NEW w \in DOMAIN task', w \in DOMAIN task, Follows(task[w], task'[w]),
           NEW id, id = task[w].id, NEW p, p = rows[id].path
    PROVE  /\ task'[w].pc \in {"find", "unlink"} => NoStream(p)'
           /\ (task'[w].pc = "find" /\ rows'[id].status = "IN_PROGRESS") =>
                 Length(p)' <= rows'[id].offset
<1> USE DEF ListInv
<1>1. id \in DOMAIN rows
  BY TaskRow
<1>2. ASSUME task'[w].pc \in {"find", "unlink"}
      PROVE  NoStream(p) /\ task[w].pc \in {"find", "unlink"}
  <2>1. task[w].pc \in {"find", "unlink"}
    BY <1>2 DEF Follows
  <2> QED BY <2>1 DEF FileInv, QuietInv
<1>3. ASSUME task'[w].pc \in {"find", "unlink"}, NEW v \in DOMAIN out', out'[v].path = p
      PROVE  FALSE
  <2>1. ~(v \in DOMAIN out /\ out'[v].path = out[v].path)
    BY <1>2, <1>3 DEF NoStream
  <2>2. NewPath(v)
    BY <2>1, StreamPaths
  <2>3. v = w
    BY <1>3, <2>2, PathsApart DEF NewPath
  <2>4. CASE Unlink(w)
    <3> DEFINE u == [task[w] EXCEPT !.pc = "begin"]
    <3>1. task' = Put(task, w, u) /\ task[w] \in Task /\ task[w].pc = "unlink"
      BY <2>4, TaskRow DEF Unlink, GoTo, At
    <3>2. u.pc = "begin"
      BY <3>1 DEF Task
    <3> HIDE DEF u
    <3> QED BY <1>3, <3>1, <3>2 DEF Put
  <2>5. CASE Find(w)
    <3>1. ~EndTask(w)
      BY DEF EndTask, Drop
    <3> DEFINE u == [pc |-> IF rows[id].status = "PENDING" THEN "unlink" ELSE "begin",
                     id |-> id, file |-> rows[id].file, path |-> rows[id].path,
                     offset |-> rows[id].offset, status |-> "IN_PROGRESS"]
    <3>2. task' = Put(task, w, u) /\ (rows[id].status = "PENDING" => out' = out)
      BY <2>5, <3>1 DEF Find
    <3>3. rows[id].status # "PENDING"
      BY <1>3, <2>1, <3>2
    <3>4. u.pc = "begin"
      BY <3>3
    <3> HIDE DEF u
    <3> QED BY <1>3, <3>2, <3>4 DEF Put
  <2> QED BY <2>2, <2>3, <2>4, <2>5 DEF NewPath
<1>4. ASSUME task'[w].pc = "find", rows'[id].status = "IN_PROGRESS"
      PROVE  Length(p)' <= rows'[id].offset
  <2>1. task[w].pc = "find" /\ NoStream(p)
    BY <1>2, <1>4 DEF Follows
  <2>2. rows'[id] = rows[id]
    <3>1. ASSUME NEW r \in DOMAIN call, call[r].pc = "resume", call[r].id = id PROVE FALSE
      <4>1. Resumable(call[r].row)
        BY <3>1 DEF GrowingInv, WriterInv, ResumeChecked
      <4>2. rows[id].status = "PAUSED"
        BY <3>1, <4>1 DEF GrowingInv, TrackInv, CallsTrack, Resumable
      <4> QED BY <4>2, PausedFree
    <3>2. ASSUME NEW v \in DOMAIN task, task[v].id = id, Begin(v) \/ Finish(v) \/ Complete(v)
          PROVE  FALSE
      <4>1. v = w
        BY <3>2 DEF GrowingInv, WriterInv, SingleWriter
      <4> QED BY <2>1, <3>2, <4>1 DEF Begin, Finish, Complete, At
    <3> QED BY <1>1, <3>1, <3>2, RowWriters DEF RowWritten
  <2>3. Length(p) <= rows[id].offset
    BY <1>4, <2>1, <2>2 DEF FileInv, QuietInv
  <2>4. Length(p) \in Nat /\ rows[id].offset \in Nat
    BY <1>1, LengthNat, RowFields DEF GrowingInv
  <2>5. Length(p)' \in Nat
    <3>1. p \in DOMAIN disk' => disk'[p] \in Seq(Chunks)
      BY DEF GrowingInv, TypeOK, DiskOK, Maps
    <3> QED BY <3>1 DEF Length
  <2>6. Length(p)' <= Length(p)
    BY <1>1, <2>1, LengthMoves DEF NoStream
  <2> QED BY <2>2, <2>3, <2>4, <2>5, <2>6
<1> QED BY <1>3, <1>4 DEF NoStream

LEMMA QuietInvStep ==
    ASSUME PlainUse, ListInv, GrowingInv', [Next]_vars
    PROVE  QuietInv'
<1> USE DEF ListInv
<1>1. ASSUME NEW id \in DOMAIN rows', rows'[id].status = "PAUSED"
      PROVE  Length(rows[id].path)' <= rows'[id].offset
  <2>1. PICK p : p = rows'[id].path
    OBVIOUS
  <2>2. Length(p)' <= rows'[id].offset
    BY <1>1, <2>1, PausedLength
  <2> QED BY <2>1, <2>2 DEF Length
<1>2. ASSUME NEW w \in DOMAIN task' PROVE Unopened(w)'
  <2>1. CASE Launched(w)
    BY <2>1, LaunchedQuiet
  <2>2. CASE w \in DOMAIN task /\ Follows(task[w], task'[w])
    <3>1. PICK id : id = task[w].id
      OBVIOUS
    <3>2. PICK p : p = rows[id].path
      OBVIOUS
    <3>3. /\ task'[w].pc \in {"find", "unlink"} => NoStream(p)'
          /\ (task'[w].pc = "find" /\ rows'[id].status = "IN_PROGRESS") =>
                 Length(p)' <= rows'[id].offset
      BY <2>2, <3>1, <3>2, EarlyQuiet
    <3>4. task'[w].id = id
      BY <2>2, <3>1 DEF Follows
    <3>5. rows'[id].path = p
      <4>1. id \in DOMAIN rows
        BY <2>2, <3>1, TaskRow
      <4> QED BY <3>2, <4>1, RowsAfter DEF LifeStep
    <3> QED BY <3>3, <3>4, <3>5 DEF Unopened, NoStream, Length
  <2> QED BY <2>1, <2>2, TaskSteps DEF GrowingInv
<1>3. ASSUME NEW r \in DOMAIN call', call'[r].pc \in {"mark", "resume"},
             Resumable(call'[r].row)
      PROVE  NoStream(call[r].row.path)'
  <2>1. PICK p : p = call'[r].row.path
    OBVIOUS
  <2>2. NoStream(p)'
    BY <1>3, <2>1, ResumedQuiet
  <2> QED BY <2>1, <2>2 DEF NoStream
<1>4. /\ \A w \in DOMAIN task' :
            task'[w].pc \in {"find", "unlink"} => NoStream(rows[task[w].id].path)'
      /\ \A w \in DOMAIN task' :
            (task'[w].pc = "find" /\ rows'[task'[w].id].status = "IN_PROGRESS") =>
                Length(rows[task[w].id].path)' <= rows'[task'[w].id].offset
  BY <1>2 DEF Unopened
<1> QED BY <1>1, <1>3, <1>4 DEF QuietInv, Resumable

LEMMA FileInvariant == PlainUse => (Spec => []ListInv)
<1> SUFFICES ASSUME PlainUse PROVE Spec => []ListInv
  OBVIOUS
<1>1. Init => FileInv
  BY DEF Init, NoMap, FileInv, PathInv, StreamInv, QuietInv, WholeInv
<1>2. ListInv /\ GrowingInv' /\ [Next]_vars => FileInv'
  <2> SUFFICES ASSUME ListInv, GrowingInv', [Next]_vars PROVE FileInv'
    OBVIOUS
  <2>1. PathInv' /\ StreamInv' /\ QuietInv'
    BY PathInvStep, StreamInvStep, QuietInvStep
  <2>2. WholeInv'
    BY WholeInvStep DEF WholeInv
  <2> QED BY <2>1, <2>2 DEF FileInv
<1>3. OneUser /\ NoRemoval
  BY DEF PlainUse
<1>4. Spec => []GrowingInv /\ []UniqueInv
  BY <1>3, GrowingInvariant, UniqueInvariant
<1> QED BY <1>1, <1>2, <1>4, PTL DEF Spec, ListInv

(***************************************************************************)
(* A COMPLETED download's file is on disk, whole, in order and unaltered,   *)
(* for any number of files, generators and restarts, whatever bytes the     *)
(* remote peers send and however late the streams write: the row says       *)
(* COMPLETED only after the file was read, and no stream has a chunk left   *)
(* for a file that is whole, because none ever holds more than was counted  *)
(* for its row.                                                            *)
(***************************************************************************)
THEOREM CompletedCorrect ==
    OneUser /\ NoRemoval /\ OwnNames /\ DiskKeepsUp => (Spec => []CompletedIsWhole)
<1> SUFFICES ASSUME PlainUse PROVE Spec => []CompletedIsWhole
  BY DEF PlainUse
<1>1. ListInv => CompletedIsWhole
  BY DEF ListInv, FileInv, WholeInv, Done, Whole, CompletedIsWhole
<1> QED BY <1>1, FileInvariant, PTL
=============================================================================
