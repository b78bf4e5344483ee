-------------------------------- MODULE Share --------------------------------
(***************************************************************************)
(* The sharing side of a peer: Node.start rebuilds the tables `directory`   *)
(* and `file` from the configuration and the disk (FileService.addShareDir, *)
(* syncSharedDirs), announces the files in the DHT (publishFiles), and the  *)
(* RPC handlers answer remote peers from the tables and the disk.           *)
(*                                                                         *)
(* The tables outlive the process, and are cleared and refilled statement   *)
(* by statement at every start: a crash leaves them anywhere in between.    *)
(* Remote peers keep the file ids they were told across those restarts.     *)
(***************************************************************************)
EXTENDS Integers, FiniteSets, Functions

CONSTANTS
    Dirs,         \* directories that may be shared
    Adverts,      \* paths under which directories are shown to other peers
    Paths,        \* paths of files
    Under,        \* Under[d]: the paths below d, subdirectories included
    Key,          \* Key[p]: name of the file without extension, the search key
    MaxId,        \* bound: file rows ever inserted
    MaxVersion,   \* bound: contents a path has over time
    MaxStarts,    \* bound: starts of the process
    DhtFails      \* whether `provide` may fail

ASSUME ShareAssumption ==
    /\ Under \in [Dirs -> SUBSET Paths]
    /\ MaxId \in Nat /\ MaxVersion \in Nat \ {0} /\ MaxStarts \in Nat
    /\ DhtFails \in BOOLEAN

VARIABLES
    config,       \* config.shareDirs: directory -> its advertised path
    tree,         \* share directories that exist on the disk
    fs,           \* files on the disk: path -> version of the content
    directories,  \* table `directory`: path of a row -> its advertised path
    files,        \* table `file`: id -> row
    nextId,       \* AUTOINCREMENT counter of `file`
    node,         \* the process: what Node.start awaits, and its locals
    announced,    \* keys this run of the process has provided in the DHT
    told,         \* <<id, path>>: a remote peer was told, or sent, path for id
    starts,       \* number of starts so far
    touched       \* history: what changed on the disk since the last start

vars == <<config, tree, fs, directories, files, nextId, node, announced, told,
          starts, touched>>

disk == <<config, tree, fs, touched>>
tables == <<directories, files, nextId>>
peers == <<announced, told>>

Ids == 1..MaxId
Versions == 1..MaxVersion
DirTable == UNION {[D -> Adverts] : D \in SUBSET Dirs}
FileRow == [path : Paths, dir : Dirs, size : Versions, checksum : Versions]

NodeState ==
    [pc : {"down", "addShareDir", "listen", "publish", "failed"}]
    \cup [pc : {"validate"}, dirs : SUBSET Dirs, valid : DirTable]
    \cup [pc : {"clearFiles", "clearDirs", "saveDirs"}, valid : DirTable]
    \cup [pc : {"traverse"}, dirs : SUBSET Dirs]
    \cup [pc : {"lstat"}, dirs : SUBSET Dirs, dir : Dirs, todo : SUBSET Paths]
    \cup [pc : {"toModel"}, dirs : SUBSET Dirs, dir : Dirs, todo : SUBSET Paths,
          path : Paths, size : Versions]
    \cup [pc : {"up"}, queue : SUBSET Ids]

At(pc) == node.pc = pc
Put(m, k, v) == [x \in DOMAIN m \cup {k} |-> IF x = k THEN v ELSE m[x]]
Drop(m, k) == [x \in DOMAIN m \ {k} |-> m[x]]
NoMap == [x \in {} |-> x]

\* Mutant: the error is swallowed, and what was awaited never comes.
FailSilently == UNCHANGED node

\* Node.start rejects: main ends here.
Fail == node' = [pc |-> "failed"]

-----------------------------------------------------------------------------
Init ==
    /\ config \in DirTable /\ tree = Dirs
    /\ fs \in [Paths -> {1}]
    /\ directories = NoMap /\ files = NoMap /\ nextId = 1
    /\ node = [pc |-> "down"] /\ announced = {} /\ told = {}
    /\ starts = 0 /\ touched = {}

-----------------------------------------------------------------------------
(* Node.start.                                                             *)

\* The configured directories are created (createDirs) before anything else.
Start ==
    /\ At("down") /\ starts < MaxStarts /\ starts' = starts + 1
    /\ tree' = tree \cup DOMAIN config
    /\ node' = [pc |-> "addShareDir"]
    /\ touched' = {}
    /\ UNCHANGED <<config, fs, tables, peers>>

\* The configured directories whose path the table does not know are new rows;
\* a row that is there keeps the advertised path it has.
WithConfigured ==
    [d \in DOMAIN directories \cup DOMAIN config |->
        IF d \in DOMAIN directories THEN directories[d] ELSE config[d]]

\* The new rows are saved in one transaction, which fails if two rows would have
\* one advertised path; then findAllValid of syncSharedDirs.
AddShareDir ==
    /\ At("addShareDir")
    /\ IF IsInjective(WithConfigured)
       THEN /\ directories' = WithConfigured
            /\ node' = [pc |-> "validate", dirs |-> DOMAIN WithConfigured,
                        valid |-> NoMap]
       ELSE Fail /\ UNCHANGED directories
    /\ UNCHANGED <<disk, files, nextId, peers, starts>>

\* validateDirectory, one directory after the other.
Validate(d) ==
    /\ At("validate") /\ d \in node.dirs
    /\ LET left == node.dirs \ {d}
           valid == IF d \in tree THEN Put(node.valid, d, directories[d])
                    ELSE node.valid
       IN node' = IF left # {} THEN [node EXCEPT !.dirs = left, !.valid = valid]
                  ELSE [pc |-> "clearFiles", valid |-> valid]
    /\ UNCHANGED <<disk, tables, peers, starts>>

\* Nothing is shared: the loop over the directories ends at once.
ValidateNone ==
    /\ At("validate") /\ node.dirs = {}
    /\ node' = [pc |-> "clearFiles", valid |-> NoMap]
    /\ UNCHANGED <<disk, tables, peers, starts>>

\* DELETE FROM `file` leaves its AUTOINCREMENT counter alone.  Mutants: the
\* counter starts again; the table is not cleared.
CounterReset == 1
CounterAfterClear == nextId

ClearFilesForgotten ==
    /\ At("clearFiles")
    /\ node' = [node EXCEPT !.pc = "clearDirs"]
    /\ UNCHANGED <<disk, tables, peers, starts>>

ClearFiles ==
    /\ At("clearFiles")
    /\ files' = NoMap /\ nextId' = CounterAfterClear
    /\ node' = [node EXCEPT !.pc = "clearDirs"]
    /\ UNCHANGED <<disk, directories, peers, starts>>

\* A foreign key of `file` that is still in use would make it fail.
ClearDirs ==
    /\ At("clearDirs")
    /\ IF DOMAIN files = {}
       THEN directories' = NoMap /\ node' = [node EXCEPT !.pc = "saveDirs"]
       ELSE Fail /\ UNCHANGED directories
    /\ UNCHANGED <<disk, files, nextId, peers, starts>>

\* Mutant: the end comes with the end of the first directory.
NextFileOneDir(dirs, dir, todo) ==
    IF todo # {} THEN [pc |-> "lstat", dirs |-> dirs, dir |-> dir, todo |-> todo]
    ELSE [pc |-> "listen"]

\* The loops of syncSharedDirs: the next file, the next directory, the end.
NextFile(dirs, dir, todo) ==
    IF todo # {} THEN [pc |-> "lstat", dirs |-> dirs, dir |-> dir, todo |-> todo]
    ELSE IF dirs # {} THEN [pc |-> "traverse", dirs |-> dirs]
    ELSE [pc |-> "listen"]

SaveDirs ==
    /\ At("saveDirs")
    /\ directories' = node.valid
    /\ node' = IF DOMAIN node.valid = {} THEN [pc |-> "listen"]
               ELSE [pc |-> "traverse", dirs |-> DOMAIN node.valid]
    /\ UNCHANGED <<disk, files, nextId, peers, starts>>

\* traverseDir: every file below d once; readdir of a missing directory throws.
Traverse(d) ==
    /\ At("traverse") /\ d \in node.dirs
    /\ IF d \in tree
       THEN node' = NextFile(node.dirs \ {d}, d, Under[d] \cap DOMAIN fs)
       ELSE Fail
    /\ UNCHANGED <<disk, tables, peers, starts>>

\* fsToDb starts with lstat, which throws if the file has gone.
Lstat(p) ==
    /\ At("lstat") /\ p \in node.todo
    /\ IF p \in DOMAIN fs
       THEN node' = [pc |-> "toModel", dirs |-> node.dirs, dir |-> node.dir,
                     todo |-> node.todo \ {p}, path |-> p, size |-> fs[p]]
       ELSE Fail
    /\ UNCHANGED <<disk, tables, peers, starts>>

\* The content is read for its type and checksum, and the row inserted: its
\* `path` must be new, its directory there.  Mutant: the counter stays.
PathsInUse == {files[id].path : id \in DOMAIN files}
CounterStays == nextId
CounterAfterInsert == nextId + 1

ToModel ==
    /\ At("toModel") /\ nextId <= MaxId
    /\ IF /\ node.path \in DOMAIN fs /\ node.path \notin PathsInUse
          /\ node.dir \in DOMAIN directories
       THEN /\ files' = Put(files, nextId,
                            [path |-> node.path, dir |-> node.dir,
                             size |-> node.size, checksum |-> fs[node.path]])
            /\ nextId' = CounterAfterInsert
            /\ node' = NextFile(node.dirs, node.dir, node.todo)
       ELSE Fail /\ UNCHANGED <<files, nextId>>
    /\ UNCHANGED <<disk, directories, peers, starts>>

\* _startLibp2p.
Listen ==
    /\ At("listen")
    /\ node' = [pc |-> "publish"]
    /\ UNCHANGED <<disk, tables, peers, starts>>

\* Mutant: the last row is missed.
PublishedButLast == {id \in DOMAIN files : id + 1 \in DOMAIN files}
Published == DOMAIN files

\* publishFiles lists the rows and returns; the RPC handlers are registered.
Publish ==
    /\ At("publish")
    /\ node' = [pc |-> "up", queue |-> Published]
    /\ UNCHANGED <<disk, tables, peers, starts>>

\* The loop over the listed rows, in a timer callback nobody awaits: the first
\* `provide` that fails ends it.
Provide ==
    /\ At("up") /\ node.queue # {}
    /\ LET id == CHOOSE i \in node.queue : \A j \in node.queue : i <= j
       IN /\ announced' = announced \cup {Key[files[id].path]}
          /\ node' = [node EXCEPT !.queue = @ \ {id}]
    /\ UNCHANGED <<disk, tables, told, starts>>

ProvideFails ==
    /\ DhtFails /\ At("up") /\ node.queue # {}
    /\ node' = [node EXCEPT !.queue = {}]
    /\ UNCHANGED <<disk, tables, peers, starts>>

\* The process dies, in whatever it was doing.
Crash ==
    /\ ~At("down")
    /\ node' = [pc |-> "down"] /\ announced' = {}
    /\ UNCHANGED <<disk, tables, told, starts>>

-----------------------------------------------------------------------------
(* RPC handlers.                                                           *)

\* FindFileHandler: the rows of a key whose file exists; none is an error.
FindFile(k) ==
    /\ At("up")
    /\ LET hits == {id \in DOMAIN files : Key[files[id].path] = k}
       IN /\ hits # {}
          /\ told' = told \cup {<<id, files[id].path>> :
                                id \in {i \in hits : files[i].path \in DOMAIN fs}}
    /\ UNCHANGED <<disk, tables, node, announced, starts>>

\* GetFileHandler answers from the row, also when the file has gone.
Healthy(id) == id \in DOMAIN files

GetFile(id) ==
    /\ At("up") /\ Healthy(id)
    /\ told' = told \cup {<<id, files[id].path>>}
    /\ UNCHANGED <<disk, tables, node, announced, starts>>

\* GetFileContentHandler streams what is at the row's path; a file that has
\* gone is answered with an error message.
GetFileContent(id) ==
    /\ At("up") /\ Healthy(id) /\ files[id].path \in DOMAIN fs
    /\ told' = told \cup {<<id, files[id].path>>}
    /\ UNCHANGED <<disk, tables, node, announced, starts>>

-----------------------------------------------------------------------------
(* The owner of the disk.                                                  *)

Write(p) ==
    /\ \E d \in tree : p \in Under[d]
    /\ p \in DOMAIN fs => fs[p] < MaxVersion
    /\ fs' = Put(fs, p, IF p \in DOMAIN fs THEN fs[p] + 1 ELSE 1)
    /\ touched' = touched \cup {p}
    /\ UNCHANGED <<config, tree, tables, node, peers, starts>>

Remove(p) ==
    /\ p \in DOMAIN fs
    /\ fs' = Drop(fs, p)
    /\ touched' = touched \cup {p}
    /\ UNCHANGED <<config, tree, tables, node, peers, starts>>

RemoveDir(d) ==
    /\ d \in tree /\ Under[d] \cap DOMAIN fs = {}
    /\ tree' = tree \ {d}
    /\ touched' = touched \cup {d}
    /\ UNCHANGED <<config, fs, tables, node, peers, starts>>

\* The configuration is read when the process starts.
Configure(shareDirs) ==
    /\ At("down")
    /\ config' = shareDirs
    /\ UNCHANGED <<tree, fs, touched, tables, node, peers, starts>>

-----------------------------------------------------------------------------
Boot ==
    \/ AddShareDir \/ ValidateNone \/ ClearFiles \/ ClearDirs \/ SaveDirs
    \/ ToModel \/ Listen \/ Publish
    \/ \E d \in Dirs : Validate(d) \/ Traverse(d)
    \/ \E p \in Paths : Lstat(p)

Serve ==
    \/ \E p \in Paths : FindFile(Key[p])
    \/ \E id \in Ids : GetFile(id) \/ GetFileContent(id)

Owner ==
    \/ \E p \in Paths : Write(p) \/ Remove(p)
    \/ \E d \in Dirs : RemoveDir(d)
    \/ \E shareDirs \in DirTable : Configure(shareDirs)

Next == Start \/ Boot \/ Provide \/ ProvideFails \/ Crash \/ Serve \/ Owner

Spec == Init /\ [][Next]_vars

\* What Node.start awaits is answered, and the loop of publishFiles goes on.
FairSpec == Spec /\ WF_vars(Boot) /\ WF_vars(Provide \/ ProvideFails)

-----------------------------------------------------------------------------
(* Correctness properties.                                                 *)

\* Every variable has the shape the code gives it.
TypeOK ==
    /\ config \in DirTable /\ tree \subseteq Dirs
    /\ DOMAIN fs \subseteq Paths /\ \A p \in DOMAIN fs : fs[p] \in Versions
    /\ directories \in DirTable
    /\ nextId \in 1..(MaxId + 1) /\ DOMAIN files \subseteq 1..(nextId - 1)
    /\ \A id \in DOMAIN files : files[id] \in FileRow
    /\ node \in NodeState
    /\ announced \subseteq {Key[p] : p \in Paths} /\ told \subseteq Ids \X Paths
    /\ starts \in 0..MaxStarts /\ touched \subseteq Paths \cup Dirs

\* An id that a remote peer was told means the same file for ever: the tables
\* are refilled at every start, and a download resumed later asks by that id.
IdsAreStable ==
    \A x, y \in told : x[1] = y[1] => x[2] = y[2]

\* ... and so it does for an id that is in the table now.
RowsMatchTold ==
    \A x \in told : x[1] \in DOMAIN files => files[x[1]].path = x[2]

\* A start makes up for whatever the last crash left: once the peer answers,
\* each file the disk has had, unchanged, since the start is shared exactly
\* when it is below a directory of the table, with its size and checksum, and
\* the configured directories are in the table.
Shared(p) == {id \in DOMAIN files : files[id].path = p}

StartHeals ==
    At("up") =>
        /\ DOMAIN config \ touched \subseteq DOMAIN directories
        /\ \A p \in Paths \ touched :
            /\ Cardinality(Shared(p)) =
                IF p \in DOMAIN fs /\ \E d \in DOMAIN directories : p \in Under[d]
                THEN 1 ELSE 0
            /\ \A id \in Shared(p) : /\ files[id].size = fs[p]
                                     /\ files[id].checksum = fs[p]

\* A directory that is new in the configuration has the advertised path of another
\* one, or of a row of the table: also of a directory no longer configured.
AdvertisedTwice == ~IsInjective(WithConfigured)

\* A start fails only when the disk changes under it or an advertised path is
\* given twice; in particular not because a crash left the tables half filled.
FailsForCause == At("failed") => touched # {} \/ AdvertisedTwice

\* While the DHT accepts what it is given, every row of the table is announced
\* after each start that gets so far, or the process has stopped.
AllAnnounced ==
    At("publish") ~> \/ \A id \in DOMAIN files : Key[files[id].path] \in announced
                     \/ At("down")

\* A start never hangs.
StartEnds == At("addShareDir") ~> (At("up") \/ At("failed") \/ At("down"))
==============================================================================
