-------------------------- MODULE DownloadLifecycle --------------------------
(***************************************************************************)
(* What the download list promises about one row: it is queued once, its    *)
(* offset never falls, it counts as fetched only when the offset is the     *)
(* size of the file, only a resume reopens it, and COMPLETED and FAILED are *)
(* final.  The states are those of DownloadStatus.                          *)
(***************************************************************************)
EXTENDS Naturals

CONSTANTS Files, Size, Ids

VARIABLE table     \* id -> [file, offset, status]

Set(id, offset, status) ==
    table' = [table EXCEPT ![id] = [file |-> @.file, offset |-> offset,
                                    status |-> status]]

Is(id, status) == id \in DOMAIN table /\ table[id].status = status

Init == table = [id \in {} |-> {}]

Queue(id, f) ==
    /\ id \notin DOMAIN table
    /\ table' = [x \in DOMAIN table \cup {id} |->
                    IF x = id
                    THEN [file |-> f, offset |-> 0, status |-> "PENDING"]
                    ELSE table[x]]

Start(id) == Is(id, "PENDING") /\ Set(id, table[id].offset, "IN_PROGRESS")

Resume(id) == Is(id, "PAUSED") /\ Set(id, table[id].offset, "IN_PROGRESS")

\* The transfer stops short of the end (or beyond it, when the remote file
\* grew), by a pause or a failure, at an offset it has come to since.
Stop(id) ==
    /\ Is(id, "IN_PROGRESS") /\ id \in DOMAIN table'
    /\ table'[id].offset >= table[id].offset
    /\ table'[id].offset # Size[table[id].file]
    /\ table'[id].status \in {"PAUSED", "FAILED"}
    /\ Set(id, table'[id].offset, table'[id].status)

Fetched(id) ==
    /\ Is(id, "IN_PROGRESS")
    /\ table[id].offset <= Size[table[id].file]
    /\ Set(id, Size[table[id].file], "COMPLETED_UNVERIFIED")

Verify(id) ==
    Is(id, "COMPLETED_UNVERIFIED") /\ Set(id, table[id].offset, "COMPLETED")

Next ==
    \E id \in Ids :
        \/ \E f \in Files : Queue(id, f)
        \/ Start(id) \/ Resume(id) \/ Stop(id) \/ Fetched(id) \/ Verify(id)

Spec == Init /\ [][Next]_table
=============================================================================
