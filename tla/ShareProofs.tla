----------------------------- MODULE ShareProofs -----------------------------
(* Theorems about Share, for all its constants: the identity of the ids that *)
(* remote peers hold, its types, and what a start makes of the tables.       *)
EXTENDS Share, FiniteSetTheorems, WellFoundedInduction, TLAPS

\* The inductive invariant: the counter is ahead of every id in the table and
\* of every id ever told, and the table agrees with what was told.
IdsInUse ==
    /\ nextId \in Nat
    /\ DOMAIN files \subseteq Nat /\ \A id \in DOMAIN files : id < nextId

TellsKnownIds ==
    \A x \in told : x[1] \in Nat /\ x[1] < nextId

IdInv == IdsInUse /\ TellsKnownIds /\ RowsMatchTold /\ IdsAreStable

LEMMA IdInvInit == Init => IdInv
  BY DEF Init, IdInv, IdsInUse, TellsKnownIds, RowsMatchTold, IdsAreStable, NoMap

\* Telling peers what the table says now keeps the invariant.
LEMMA Telling ==
    ASSUME IdInv, NEW S \in SUBSET (DOMAIN files),
           told' = told \cup {<<id, files[id].path>> : id \in S},
           UNCHANGED <<files, nextId>>
    PROVE  IdInv'
  BY DEF IdInv, IdsInUse, TellsKnownIds, RowsMatchTold, IdsAreStable

\* So does everything that leaves the table, the counter and the peers alone.
LEMMA Unchanged ==
    ASSUME IdInv, UNCHANGED <<files, nextId, told>>
    PROVE  IdInv'
  BY DEF IdInv, IdsInUse, TellsKnownIds, RowsMatchTold, IdsAreStable

\* A row is inserted under an id nobody was told, and clearing the table
\* leaves the counter where it is.
LEMMA Filling ==
    ASSUME IdInv, NEW row, files' = Put(files, nextId, row),
           nextId' = nextId + 1, UNCHANGED told
    PROVE  IdInv'
<1> USE DEF IdInv
<1>1. /\ DOMAIN files' = DOMAIN files \cup {nextId}
      /\ \A id \in DOMAIN files' : id # nextId => files'[id] = files[id]
  BY DEF Put
<1>2. IdsInUse'
  BY <1>1 DEF IdsInUse
<1>3. TellsKnownIds'
  BY DEF TellsKnownIds, IdsInUse
<1>4. RowsMatchTold'
  BY <1>1 DEF RowsMatchTold, TellsKnownIds, IdsInUse
<1>5. IdsAreStable'
  BY DEF IdsAreStable
<1> QED
  BY <1>2, <1>3, <1>4, <1>5

LEMMA Clearing ==
    ASSUME IdInv, ClearFiles
    PROVE  IdInv'
<1>1. DOMAIN files' = {} /\ UNCHANGED <<nextId, told>>
  BY DEF ClearFiles, CounterAfterClear, NoMap, peers
<1> QED
  BY <1>1 DEF IdInv, IdsInUse, TellsKnownIds, RowsMatchTold, IdsAreStable

LEMMA IdInvStep == IdInv /\ [Next]_vars => IdInv'
<1> SUFFICES ASSUME IdInv, [Next]_vars PROVE IdInv'
  OBVIOUS
<1> USE DEF disk, tables, peers
<1>1. CASE Start
  BY <1>1, Unchanged DEF Start
<1>2. CASE Boot
  <2>1. CASE AddShareDir
    BY <2>1, Unchanged DEF AddShareDir
  <2>2. CASE ValidateNone
    BY <2>2, Unchanged DEF ValidateNone
  <2>3. CASE ClearFiles
    BY <2>3, Clearing
  <2>4. CASE ClearDirs
    BY <2>4, Unchanged DEF ClearDirs
  <2>5. CASE SaveDirs
    BY <2>5, Unchanged DEF SaveDirs
  <2>6. CASE ToModel
    <3>1. CASE UNCHANGED <<files, nextId>>
      BY <2>6, <3>1, Unchanged DEF ToModel
    <3>2. CASE /\ nextId' = nextId + 1
               /\ files' = Put(files, nextId,
                            [path |-> node.path, dir |-> node.dir,
                             size |-> node.size, checksum |-> fs[node.path]])
      BY <2>6, <3>2, Filling DEF ToModel
    <3> QED
      BY <2>6, <3>1, <3>2 DEF ToModel, CounterAfterInsert
  <2>7. CASE Listen \/ Publish
    BY <2>7, Unchanged DEF Listen, Publish
  <2>8. CASE \E d \in Dirs : Validate(d) \/ Traverse(d)
    BY <2>8, Unchanged DEF Validate, Traverse
  <2>9. CASE \E p \in Paths : Lstat(p)
    BY <2>9, Unchanged DEF Lstat
  <2> QED
    BY <1>2, <2>1, <2>2, <2>3, <2>4, <2>5, <2>6, <2>7, <2>8, <2>9 DEF Boot
<1>3. CASE Provide \/ ProvideFails \/ Crash
  BY <1>3, Unchanged DEF Provide, ProvideFails, Crash
<1>4. CASE Serve
  <2>1. CASE \E p \in Paths : FindFile(Key[p])
    <3>1. PICK p \in Paths : FindFile(Key[p])
      BY <2>1
    <3> DEFINE S == {i \in DOMAIN files : Key[files[i].path] = Key[p]
                                         /\ files[i].path \in DOMAIN fs}
    <3>2. told' = told \cup {<<id, files[id].path>> : id \in S}
      BY <3>1 DEF FindFile
    <3>3. S \in SUBSET (DOMAIN files) /\ UNCHANGED <<files, nextId>>
      BY <3>1 DEF FindFile
    <3> HIDE DEF S
    <3> QED
      BY <3>2, <3>3, Telling
  <2>2. CASE \E id \in Ids : GetFile(id) \/ GetFileContent(id)
    <3>1. PICK id \in Ids : GetFile(id) \/ GetFileContent(id)
      BY <2>2
    <3>2. /\ told' = told \cup {<<i, files[i].path>> : i \in {id}}
          /\ {id} \in SUBSET (DOMAIN files) /\ UNCHANGED <<files, nextId>>
      BY <3>1 DEF GetFile, GetFileContent, Healthy
    <3> QED
      BY <3>2, Telling
  <2> QED
    BY <1>4, <2>1, <2>2 DEF Serve
<1>5. CASE Owner
  BY <1>5, Unchanged DEF Owner, Write, Remove, RemoveDir, Configure
<1>6. CASE UNCHANGED vars
  BY <1>6, Unchanged DEF vars
<1> QED
  BY <1>1, <1>2, <1>3, <1>4, <1>5, <1>6 DEF Next

\* An id that a remote peer was told means the same file for ever, through any
\* number of restarts at any point of the rebuild (FileService.syncSharedDirs).
THEOREM IdsKeepTheirMeaning == Spec => []IdsAreStable
<1>1. IdInv => IdsAreStable
  BY DEF IdInv
<1> QED
  BY IdInvInit, IdInvStep, <1>1, PTL DEF Spec

-----------------------------------------------------------------------------
(* Types.  What publishFiles has listed is in the table: nothing clears it   *)
(* before the next start.  So are the directories that are being validated.  *)

Listed ==
    /\ At("up") => node.queue \subseteq DOMAIN files
    /\ At("validate") => node.dirs \subseteq DOMAIN directories
TypeInv == TypeOK /\ Listed

\* A set of numbers has a smallest one: the row that is announced next.
LEMMA Smallest ==
    ASSUME NEW S \in SUBSET Nat, S # {}
    PROVE  \E i \in S : \A j \in S : i <= j
<1> DEFINE T == {0..i : i \in S}
           R == StrictSubsetOrdering(Nat)
<1>1. \A i \in S : 0..i \in FiniteSubsetsOf(Nat)
  <2> SUFFICES ASSUME NEW i \in S PROVE IsFiniteSet(0..i) /\ 0..i \subseteq Nat
    BY DEF FiniteSubsetsOf
  <2> QED
    BY FS_Interval
<1>2. T \subseteq FiniteSubsetsOf(Nat) /\ T # {}
  BY <1>1
<1>3. IsWellFoundedOn(R, FiniteSubsetsOf(Nat))
  BY FS_StrictSubsetOrderingWellFounded
<1>4. PICK t \in T : \A u \in T : <<u, t>> \notin R
  <2> HIDE DEF T, R
  <2> QED
    BY <1>2, <1>3, WFMin
<1>5. PICK i \in S : t = 0..i
  OBVIOUS
<1>6. ASSUME NEW j \in S, j < i
      PROVE  FALSE
  <2>1. i \in 0..i /\ i \notin 0..j /\ 0..j \subseteq 0..i
    BY <1>6
  <2>2. <<0..j, 0..i>> \in R
    BY <2>1 DEF StrictSubsetOrdering
  <2> QED
    BY <1>4, <1>5, <2>2
<1> QED
  BY <1>6

\* The table of directories, and what a save adds to it.
LEMMA TableShape ==
    /\ \A t \in DirTable : /\ DOMAIN t \in SUBSET Dirs
                            /\ \A d \in DOMAIN t : t[d] \in Adverts
    /\ NoMap \in DirTable
    /\ \A t \in DirTable, d \in Dirs, a \in Adverts : Put(t, d, a) \in DirTable
<1>1. ASSUME NEW t, NEW D \in SUBSET Dirs, t \in [D -> Adverts]
      PROVE  t \in DirTable
  BY <1>1 DEF DirTable
<1>2. ASSUME NEW t \in DirTable
      PROVE  /\ DOMAIN t \in SUBSET Dirs /\ \A d \in DOMAIN t : t[d] \in Adverts
  <2>1. PICK D \in SUBSET Dirs : t \in [D -> Adverts]
    BY DEF DirTable
  <2> QED
    BY <2>1
<1>3. NoMap \in DirTable
  <2>1. NoMap \in [{} -> Adverts]
    BY DEF NoMap
  <2> QED
    BY <1>1, <2>1
<1>4. ASSUME NEW t \in DirTable, NEW d \in Dirs, NEW a \in Adverts
      PROVE  Put(t, d, a) \in DirTable
  <2>1. Put(t, d, a) \in [DOMAIN t \cup {d} -> Adverts]
    BY <1>2 DEF Put
  <2>2. DOMAIN t \cup {d} \in SUBSET Dirs
    BY <1>2
  <2> QED
    BY <1>1, <2>1, <2>2
<1> QED
  BY <1>2, <1>3, <1>4

LEMMA AddedShape ==
    ASSUME directories \in DirTable, config \in DirTable
    PROVE  WithConfigured \in DirTable
<1>1. WithConfigured \in [DOMAIN directories \cup DOMAIN config -> Adverts]
  BY TableShape DEF WithConfigured
<1>2. DOMAIN directories \cup DOMAIN config \in SUBSET Dirs
  BY TableShape
<1> QED
  BY <1>1, <1>2 DEF DirTable

\* What each await of Node.start has in its locals.
LEMMA NodeShape ==
    ASSUME node \in NodeState
    PROVE  /\ At("validate") => node \in [pc : {"validate"}, dirs : SUBSET Dirs,
                                          valid : DirTable]
           /\ node.pc \in {"clearFiles", "clearDirs", "saveDirs"} =>
                node \in [pc : {"clearFiles", "clearDirs", "saveDirs"},
                          valid : DirTable]
           /\ At("traverse") => node \in [pc : {"traverse"}, dirs : SUBSET Dirs]
           /\ At("lstat") => node \in [pc : {"lstat"}, dirs : SUBSET Dirs, dir : Dirs,
                                       todo : SUBSET Paths]
           /\ At("toModel") =>
                node \in [pc : {"toModel"}, dirs : SUBSET Dirs, dir : Dirs,
                          todo : SUBSET Paths, path : Paths, size : Versions]
           /\ At("up") => node \in [pc : {"up"}, queue : SUBSET Ids]
BY DEF NodeState, At

\* Where the loops of syncSharedDirs lead.
LEMMA NextFileShape ==
    ASSUME NEW dirs \in SUBSET Dirs, NEW dir \in Dirs, NEW todo \in SUBSET Paths
    PROVE  /\ NextFile(dirs, dir, todo) \in NodeState
           /\ NextFile(dirs, dir, todo).pc \in {"lstat", "traverse", "listen"}
BY DEF NextFile, NodeState

LEMMA TypeInit == Init => TypeInv
BY ShareAssumption, TableShape
   DEF Init, TypeInv, TypeOK, Listed, At, NodeState, NoMap, Versions

\* A step of Node.start up to publishFiles: its new state has the right shape.
LEMMA BootShape == ASSUME TypeInv, Boot PROVE node' \in NodeState
<1> USE NodeShape DEF TypeInv, TypeOK, At
<1>0. [pc |-> "failed"] \in NodeState /\ [pc |-> "listen"] \in NodeState
  BY DEF NodeState
<1>1. CASE AddShareDir
  <2>1. DOMAIN WithConfigured \in SUBSET Dirs /\ NoMap \in DirTable
    BY AddedShape, TableShape
  <2> QED
    BY <1>0, <1>1, <2>1 DEF AddShareDir, Fail, NodeState
<1>2. CASE ValidateNone
  BY <1>2, TableShape DEF ValidateNone, NodeState
<1>3. CASE ClearFiles
  BY <1>3 DEF ClearFiles, NodeState
<1>4. CASE ClearDirs
  BY <1>0, <1>4 DEF ClearDirs, Fail, NodeState
<1>5. CASE SaveDirs
  BY <1>0, <1>5, TableShape DEF SaveDirs, NodeState
<1>6. CASE ToModel
  BY <1>0, <1>6, NextFileShape DEF ToModel, Fail
<1>7. CASE Listen \/ Publish
  <2>1. DOMAIN files \subseteq Ids
    BY ShareAssumption DEF Ids
  <2> QED
    BY <1>7, <2>1 DEF Listen, Publish, Published, NodeState
<1>8. ASSUME NEW d \in Dirs, Validate(d)
      PROVE  node' \in NodeState
  <2> DEFINE valid == IF d \in tree THEN Put(node.valid, d, directories[d])
                      ELSE node.valid
  <2>1. /\ node' = IF node.dirs \ {d} # {}
                   THEN [node EXCEPT !.dirs = node.dirs \ {d}, !.valid = valid]
                   ELSE [pc |-> "clearFiles", valid |-> valid]
        /\ node \in [pc : {"validate"}, dirs : SUBSET Dirs, valid : DirTable]
    BY <1>8 DEF Validate
  <2>2. d \in DOMAIN directories
    BY <1>8 DEF Validate, Listed
  <2>3. valid \in DirTable
    BY <2>1, <2>2, TableShape
  <2> HIDE DEF valid
  <2> QED
    BY <2>1, <2>3 DEF NodeState
<1>9. ASSUME NEW d \in Dirs, Traverse(d)
      PROVE  node' \in NodeState
  <2>1. Under[d] \cap DOMAIN fs \in SUBSET Paths /\ node.dirs \ {d} \in SUBSET Dirs
    BY <1>9 DEF Traverse
  <2> QED
    BY <1>0, <1>9, <2>1, NextFileShape DEF Traverse, Fail
<1>10. ASSUME NEW p \in Paths, Lstat(p)
       PROVE  node' \in NodeState
  BY <1>0, <1>10 DEF Lstat, Fail, NodeState
<1> QED
  BY <1>1, <1>2, <1>3, <1>4, <1>5, <1>6, <1>7, <1>8, <1>9, <1>10 DEF Boot

\* What such a step does to the tables.
LEMMA BootTables ==
    ASSUME TypeInv, Boot
    PROVE  /\ directories' \in DirTable
           /\ nextId' \in 1..(MaxId + 1) /\ DOMAIN files' \subseteq 1..(nextId' - 1)
           /\ \A id \in DOMAIN files' : files'[id] \in FileRow
           /\ Listed' /\ UNCHANGED <<disk, peers, starts>>
<1> USE NodeShape DEF TypeInv, TypeOK, Listed, At
<1>1. CASE AddShareDir
  BY <1>1, AddedShape DEF AddShareDir, Fail, tables
<1>2. CASE ValidateNone \/ Listen \/ Publish
  BY <1>2 DEF ValidateNone, Listen, Publish, Published, tables
<1>3. CASE ClearFiles
  BY <1>3 DEF ClearFiles, NoMap, CounterAfterClear
<1>4. CASE ClearDirs
  BY <1>4, TableShape DEF ClearDirs, Fail
<1>5. CASE SaveDirs
  BY <1>5 DEF SaveDirs
<1>6. CASE ToModel
  <2>1. /\ node'.pc \notin {"up", "validate"} /\ nextId \in 1..MaxId
        /\ UNCHANGED <<disk, directories, peers, starts>>
    BY <1>6, NextFileShape, ShareAssumption DEF ToModel, Fail
  <2>2. CASE UNCHANGED <<files, nextId>>
    BY <2>1, <2>2
  <2>3. CASE ~UNCHANGED <<files, nextId>>
    <3> DEFINE row == [path |-> node.path, dir |-> node.dir, size |-> node.size,
                       checksum |-> fs[node.path]]
    <3>1. /\ files' = Put(files, nextId, row) /\ nextId' = nextId + 1
          /\ node.path \in DOMAIN fs
      BY <1>6, <2>3 DEF ToModel, CounterAfterInsert
    <3>2. row \in FileRow
      BY <1>6, <3>1 DEF ToModel, FileRow
    <3> HIDE DEF row
    <3>3. \A id \in DOMAIN files' : files'[id] \in FileRow
      BY <3>1, <3>2 DEF Put
    <3>4. DOMAIN files' \subseteq 1..(nextId' - 1) /\ nextId' \in 1..(MaxId + 1)
      BY <2>1, <3>1, ShareAssumption DEF Put
    <3> QED
      BY <2>1, <3>3, <3>4
  <2> QED
    BY <2>2, <2>3
<1>7. ASSUME NEW d \in Dirs, Validate(d)
      PROVE  Listed' /\ UNCHANGED <<disk, tables, peers, starts>>
  <2>1. node \in [pc : {"validate"}, dirs : SUBSET Dirs, valid : DirTable]
    BY <1>7 DEF Validate
  <2> QED
    BY <1>7, <2>1 DEF Validate, tables
<1>8. ASSUME NEW d \in Dirs, Traverse(d)
      PROVE  node'.pc \notin {"up", "validate"} /\ UNCHANGED <<disk, tables, peers, starts>>
  <2>1. Under[d] \cap DOMAIN fs \in SUBSET Paths /\ node.dirs \ {d} \in SUBSET Dirs
    BY <1>8 DEF Traverse
  <2> QED
    BY <1>8, <2>1, NextFileShape DEF Traverse, Fail
<1>9. ASSUME NEW p \in Paths, Lstat(p)
      PROVE  node'.pc \notin {"up", "validate"} /\ UNCHANGED <<disk, tables, peers, starts>>
  BY <1>9 DEF Lstat, Fail
<1> QED
  BY <1>1, <1>2, <1>3, <1>4, <1>5, <1>6, <1>7, <1>8, <1>9 DEF Boot, tables

LEMMA TypeStep == TypeInv /\ [Next]_vars => TypeInv'
<1> SUFFICES ASSUME TypeInv, [Next]_vars PROVE TypeInv'
  OBVIOUS
<1> USE DEF disk, tables, peers
<1>1. CASE Start
  BY <1>1, TableShape, ShareAssumption DEF Start, TypeInv, TypeOK, Listed, At, NodeState
<1>2. CASE Boot
  BY <1>2, BootShape, BootTables DEF TypeInv, TypeOK
<1>3. CASE Provide
  <2> DEFINE id == CHOOSE i \in node.queue : \A j \in node.queue : i <= j
  <2>1. /\ node \in [pc : {"up"}, queue : SUBSET Ids] /\ node.queue # {}
        /\ node.queue \subseteq DOMAIN files
    BY <1>3, NodeShape DEF Provide, TypeInv, TypeOK, Listed, At
  <2>2. node.queue \subseteq Nat
    BY <2>1, ShareAssumption DEF Ids
  <2>3. id \in DOMAIN files
    BY <2>1, <2>2, Smallest
  <2>4. /\ announced' = announced \cup {Key[files[id].path]}
        /\ node' = [node EXCEPT !.queue = @ \ {id}]
    BY <1>3 DEF Provide
  <2> HIDE DEF id
  <2>5. files[id].path \in Paths
    BY <2>3 DEF TypeInv, TypeOK, FileRow
  <2>6. /\ node' \in [pc : {"up"}, queue : SUBSET Ids]
        /\ node'.queue \subseteq DOMAIN files
    BY <2>1, <2>4
  <2>7. node' \in NodeState
    BY <2>6 DEF NodeState
  <2> QED
    BY <1>3, <2>4, <2>5, <2>6, <2>7 DEF Provide, TypeInv, TypeOK, Listed, At
<1>4. CASE ProvideFails
  <2>1. node' \in [pc : {"up"}, queue : SUBSET Ids] /\ node'.queue = {}
    BY <1>4, NodeShape DEF ProvideFails, TypeInv, TypeOK, At
  <2>2. node' \in NodeState
    BY <2>1 DEF NodeState
  <2> QED
    BY <1>4, <2>1, <2>2 DEF ProvideFails, TypeInv, TypeOK, Listed, At
<1>5. CASE Crash
  BY <1>5 DEF Crash, TypeInv, TypeOK, Listed, At, NodeState
<1>6. CASE Serve
  <2>1. \A id \in DOMAIN files : <<id, files[id].path>> \in Ids \X Paths
    <3> SUFFICES ASSUME NEW id \in DOMAIN files
                 PROVE  id \in Ids /\ files[id].path \in Paths
      OBVIOUS
    <3>1. id \in Ids
      BY ShareAssumption DEF TypeInv, TypeOK, Ids
    <3> QED
      BY <3>1 DEF TypeInv, TypeOK, FileRow
  <2>2. /\ told' \subseteq told \cup {<<id, files[id].path>> : id \in DOMAIN files}
        /\ UNCHANGED <<disk, tables, node, announced, starts>>
    BY <1>6 DEF Serve, FindFile, GetFile, GetFileContent, Healthy
  <2>3. told' \subseteq Ids \X Paths
    BY <2>1, <2>2 DEF TypeInv, TypeOK
  <2> QED
    BY <2>2, <2>3 DEF TypeInv, TypeOK, Listed, At
<1>7. CASE Owner
  <2>1. ASSUME NEW p \in Paths, Write(p)
        PROVE  DOMAIN fs' \subseteq Paths /\ \A q \in DOMAIN fs' : fs'[q] \in Versions
    <3> DEFINE v == IF p \in DOMAIN fs THEN fs[p] + 1 ELSE 1
    <3>1. v \in Versions /\ fs' = Put(fs, p, v)
      BY <2>1, ShareAssumption DEF Write, Versions, TypeInv, TypeOK
    <3> HIDE DEF v
    <3> QED
      BY <3>1 DEF Put, TypeInv, TypeOK
  <2>2. ASSUME NEW p \in Paths, Remove(p)
        PROVE  DOMAIN fs' \subseteq Paths /\ \A q \in DOMAIN fs' : fs'[q] \in Versions
    BY <2>2 DEF Remove, Drop, TypeInv, TypeOK
  <2>3. /\ DOMAIN fs' \subseteq Paths /\ \A q \in DOMAIN fs' : fs'[q] \in Versions
        /\ config' \in DirTable /\ tree' \subseteq Dirs
        /\ touched' \subseteq Paths \cup Dirs
        /\ UNCHANGED <<tables, node, peers, starts>>
    BY <1>7, <2>1, <2>2
       DEF Owner, Write, Remove, RemoveDir, Configure, TypeInv, TypeOK
  <2> QED
    BY <2>3 DEF TypeInv, TypeOK, Listed, At
<1>8. CASE UNCHANGED vars
  BY <1>8 DEF vars, TypeInv, TypeOK, Listed, At
<1> QED
  BY <1>1, <1>2, <1>3, <1>4, <1>5, <1>6, <1>7, <1>8 DEF Next

LEMMA TypeInvariant == Spec => []TypeInv
BY TypeInit, TypeStep, PTL DEF Spec

\* Every variable keeps the shape the code gives it, whatever crashes and
\* changes; in particular the counter stays ahead of every row of the table.
THEOREM TypeCorrect == Spec => []TypeOK
<1>1. TypeInv => TypeOK
  BY DEF TypeInv
<1> QED
  BY <1>1, TypeInvariant, PTL

-----------------------------------------------------------------------------
(* What a start makes of the tables.  Of the disk only what has not been      *)
(* touched since the start is spoken of.                                      *)

Rebuilt == node.pc \in {"traverse", "lstat", "toModel", "listen", "publish", "up"}

\* No configured directory gets lost on its way into the table, and those that
\* are taken for valid are on the disk.
DirsKept ==
    /\ ~At("down") => DOMAIN config \ touched \subseteq tree
    /\ At("validate") => /\ DOMAIN config \ touched \subseteq node.dirs \cup DOMAIN node.valid
                         /\ node.dirs = {} => DOMAIN node.valid = {}
    /\ node.pc \in {"clearFiles", "clearDirs", "saveDirs"} =>
            DOMAIN config \ touched \subseteq DOMAIN node.valid
    /\ node.pc \in {"validate", "clearFiles", "clearDirs", "saveDirs"} =>
            DOMAIN node.valid \ touched \subseteq tree
    /\ Rebuilt => /\ DOMAIN config \ touched \subseteq DOMAIN directories
                  /\ DOMAIN directories \ touched \subseteq tree

\* Rows of an earlier start are gone before the first one is inserted.
Cleared == node.pc \in {"clearDirs", "saveDirs"} => DOMAIN files = {}

\* The walk through the directories of the table.
WalkInv ==
    /\ At("traverse") => node.dirs \subseteq DOMAIN directories
    /\ node.pc \in {"lstat", "toModel"} =>
            /\ node.dirs \subseteq DOMAIN directories
            /\ node.dir \in DOMAIN directories \ node.dirs
            /\ node.todo \subseteq Under[node.dir]
            /\ node.todo \ touched \subseteq DOMAIN fs
    /\ At("toModel") =>
            /\ node.path \in Under[node.dir] \ node.todo
            /\ node.path \notin touched =>
                    node.path \in DOMAIN fs /\ node.size = fs[node.path]

\* The directories that process n has not done with, the paths below the one at
\* hand that it has done with, and thus all paths it has done with.
Undone(n) ==
    CASE n.pc = "traverse" -> n.dirs
      [] n.pc \in {"lstat", "toModel"} -> n.dirs \cup {n.dir}
      [] OTHER -> {}
Read(n) ==
    CASE n.pc = "lstat" -> Under[n.dir] \ n.todo
      [] n.pc = "toModel" -> Under[n.dir] \ (n.todo \cup {n.path})
      [] OTHER -> {}
Below(dirs) == UNION {Under[d] : d \in dirs}
Covered(dirs, n) == Read(n) \cup Below(dirs \ Undone(n))

\* No path has two rows; the paths with a row are those done with.
PathsUnique == \A i, j \in DOMAIN files : files[i].path = files[j].path => i = j
Filled ==
    Rebuilt =>
        /\ \A p \in Paths \ touched :
              p \in PathsInUse <=> p \in DOMAIN fs \cap Covered(DOMAIN directories, node)
        /\ \A id \in DOMAIN files : files[id].path \notin touched =>
              /\ files[id].size = fs[files[id].path]
              /\ files[id].checksum = fs[files[id].path]

HealInv == DirsKept /\ Cleared /\ WalkInv /\ PathsUnique /\ Filled

LEMMA HealInit == Init => HealInv
BY DEF Init, HealInv, DirsKept, Cleared, WalkInv, PathsUnique, Filled, Rebuilt, At, NoMap

\* A step up to the moment the tables are empty, and one that ends a start.
LEMMA EarlyHeals ==
    ASSUME TypeInv, HealInv,
           Start \/ AddShareDir \/ ValidateNone \/ ClearFiles \/ ClearDirs \/ Crash
    PROVE  HealInv'
<1> USE NodeShape DEF TypeInv, TypeOK, At, HealInv, DirsKept, Cleared, WalkInv,
                     PathsUnique, Filled, Rebuilt, disk, tables, peers
<1>1. CASE Start
  BY <1>1 DEF Start
<1>2. CASE AddShareDir
  <2>1. /\ DOMAIN config \subseteq DOMAIN WithConfigured /\ DOMAIN NoMap = {}
        /\ DOMAIN WithConfigured \subseteq Dirs
    BY AddedShape, TableShape DEF WithConfigured, NoMap
  <2> QED
    BY <1>2, <2>1 DEF AddShareDir, Fail
<1>3. CASE ValidateNone
  BY <1>3 DEF ValidateNone, NoMap
<1>4. CASE ClearFiles
  BY <1>4 DEF ClearFiles, NoMap
<1>5. CASE ClearDirs
  BY <1>5 DEF ClearDirs, Fail
<1>6. CASE Crash
  BY <1>6 DEF Crash
<1> QED
  BY <1>1, <1>2, <1>3, <1>4, <1>5, <1>6

LEMMA ValidateHeals ==
    ASSUME TypeInv, HealInv, NEW d \in Dirs, Validate(d)
    PROVE  HealInv'
<1> USE NodeShape DEF TypeInv, TypeOK, At, HealInv, DirsKept, Cleared, WalkInv,
                     PathsUnique, Filled, Rebuilt, disk, tables, peers
<1> DEFINE valid == IF d \in tree THEN Put(node.valid, d, directories[d])
                    ELSE node.valid
<1>1. /\ DOMAIN config \ touched \subseteq (node.dirs \ {d}) \cup DOMAIN valid
      /\ DOMAIN valid \ touched \subseteq tree
  BY DEF Validate, Put
<1>2. /\ node' = IF node.dirs \ {d} # {}
                 THEN [node EXCEPT !.dirs = node.dirs \ {d}, !.valid = valid]
                 ELSE [pc |-> "clearFiles", valid |-> valid]
      /\ UNCHANGED <<disk, tables, peers, starts>>
  BY DEF Validate
<1>3. node \in [pc : {"validate"}, dirs : SUBSET Dirs, valid : DirTable]
  BY DEF Validate
<1> HIDE DEF valid
<1> QED
  BY <1>1, <1>2, <1>3

\* From now on the tables are filled.  What a step to the next file or directory
\* leads to: n is done with what was left of directory dir, but for the files todo.
WalkedTo(n, ds, dirs, dir, todo) ==
    /\ Covered(ds, n) = (Under[dir] \ todo) \cup Below(ds \ (dirs \cup {dir}))
    /\ n.pc \in {"traverse", "lstat", "listen"}
    /\ n.pc = "traverse" => n.dirs = dirs
    /\ n.pc = "lstat" => n.dirs = dirs /\ n.dir = dir /\ n.todo = todo

LEMMA NextFileHeals ==
    ASSUME NEW dirs, NEW dir, NEW todo, NEW ds,
           todo \subseteq Under[dir], dirs \subseteq ds, dir \in ds \ dirs
    PROVE  WalkedTo(NextFile(dirs, dir, todo), ds, dirs, dir, todo)
<1> USE DEF WalkedTo
<1>1. Below(ds \ dirs) = Under[dir] \cup Below(ds \ (dirs \cup {dir}))
  BY DEF Below
<1>2. CASE todo # {}
  BY <1>2 DEF NextFile, Covered, Read, Undone
<1>3. CASE todo = {} /\ dirs # {}
  BY <1>1, <1>3 DEF NextFile, Covered, Read, Undone
<1>4. CASE todo = {} /\ dirs = {}
  BY <1>1, <1>4 DEF NextFile, Covered, Read, Undone
<1> QED
  BY <1>2, <1>3, <1>4

LEMMA SaveDirsHeals == ASSUME TypeInv, HealInv, SaveDirs PROVE HealInv'
<1> DEFINE valid == DOMAIN node.valid
<1>1. /\ DOMAIN files = {} /\ DOMAIN directories' = valid
      /\ DOMAIN config \ touched \subseteq valid /\ valid \ touched \subseteq tree
      /\ UNCHANGED <<disk, files, nextId>>
      /\ node' = IF valid = {} THEN [pc |-> "listen"]
                 ELSE [pc |-> "traverse", dirs |-> valid]
  BY DEF SaveDirs, At, HealInv, Cleared, DirsKept
<1> HIDE DEF valid
<1>2. Covered(DOMAIN directories', node') = {} /\ PathsInUse' = {}
  BY <1>1 DEF Covered, Read, Undone, Below, PathsInUse
<1>3. Filled'
  BY <1>1, <1>2 DEF Filled
<1>4. PathsUnique' /\ Cleared' /\ WalkInv' /\ DirsKept'
  BY <1>1 DEF PathsUnique, Cleared, WalkInv, DirsKept, Rebuilt, At, disk, HealInv, SaveDirs
<1> QED
  BY <1>3, <1>4 DEF HealInv

\* A step that fails leaves nothing to be shown.
LEMMA FailHeals ==
    ASSUME TypeInv, HealInv, Fail, Rebuilt, UNCHANGED <<disk, files, directories>>
    PROVE  HealInv'
BY DEF HealInv, DirsKept, Cleared, WalkInv, PathsUnique, Filled, Rebuilt, At, Fail, disk

\* A step of the walk that leaves the tables and the disk alone, and has gone
\* past no path that is on the disk.
LEMMA WalkHeals ==
    ASSUME TypeInv, HealInv, UNCHANGED <<disk, tables>>, Rebuilt, Rebuilt', WalkInv',
           Covered(DOMAIN directories, node) \cap DOMAIN fs =
               Covered(DOMAIN directories, node') \cap DOMAIN fs
    PROVE  HealInv'
<1>1. Filled'
  BY DEF HealInv, Filled, disk, tables, PathsInUse
<1>2. DirsKept' /\ Cleared' /\ PathsUnique'
  BY DEF HealInv, DirsKept, Cleared, PathsUnique, Rebuilt, At, disk, tables
<1> QED
  BY <1>1, <1>2 DEF HealInv

LEMMA TraverseHeals ==
    ASSUME TypeInv, HealInv, NEW d \in Dirs, Traverse(d)
    PROVE  HealInv'
<1> DEFINE todo == Under[d] \cap DOMAIN fs
           dirs == node.dirs \ {d}
           n == NextFile(dirs, d, todo)
<1>1. /\ node \in [pc : {"traverse"}, dirs : SUBSET Dirs] /\ d \in node.dirs
      /\ node.dirs \subseteq DOMAIN directories /\ DOMAIN directories \subseteq Dirs
      /\ UNCHANGED <<disk, tables>> /\ Rebuilt
  BY NodeShape, TableShape
     DEF Traverse, TypeInv, TypeOK, At, HealInv, WalkInv, Rebuilt
<1>2. CASE Fail
  BY <1>1, <1>2, FailHeals DEF tables
<1>3. CASE node' = n
  <2>1. /\ dirs \in SUBSET Dirs /\ d \in Dirs \ dirs /\ todo \in SUBSET Under[d]
        /\ dirs \subseteq DOMAIN directories /\ d \in DOMAIN directories /\ todo \subseteq DOMAIN fs
        /\ DOMAIN directories \in SUBSET Dirs
        /\ dirs \cup {d} = node.dirs /\ (Under[d] \ todo) \cap DOMAIN fs = {}
    BY <1>1, ShareAssumption
  <2> HIDE DEF todo, dirs
  <2>2. WalkedTo(n, DOMAIN directories, dirs, d, todo)
    BY <2>1, NextFileHeals
  <2> HIDE DEF n
  <2>3. Covered(DOMAIN directories, node) = Below(DOMAIN directories \ node.dirs)
    BY <1>1 DEF Covered, Read, Undone
  <2>4. WalkInv' /\ Rebuilt'
    BY <1>1, <1>3, <2>1, <2>2 DEF WalkedTo, WalkInv, Rebuilt, At, disk, tables
  <2>5. Covered(DOMAIN directories, node) \cap DOMAIN fs =
            Covered(DOMAIN directories, node') \cap DOMAIN fs
    BY <1>3, <2>1, <2>2, <2>3 DEF WalkedTo
  <2> QED
    BY <1>1, <2>4, <2>5, WalkHeals
<1> QED
  BY <1>2, <1>3 DEF Traverse

LEMMA LstatHeals == ASSUME TypeInv, HealInv, NEW p \in Paths, Lstat(p) PROVE HealInv'
<1>1. /\ node \in [pc : {"lstat"}, dirs : SUBSET Dirs, dir : Dirs, todo : SUBSET Paths]
      /\ p \in node.todo /\ UNCHANGED <<disk, tables>> /\ Rebuilt
      /\ node.dirs \subseteq DOMAIN directories /\ node.dir \in DOMAIN directories \ node.dirs
      /\ node.todo \subseteq Under[node.dir] /\ node.todo \ touched \subseteq DOMAIN fs
  BY NodeShape DEF Lstat, TypeInv, TypeOK, At, HealInv, WalkInv, Rebuilt
<1>2. CASE Fail
  BY <1>1, <1>2, FailHeals DEF tables
<1>3. CASE ~Fail
  <2>1. /\ node' = [pc |-> "toModel", dirs |-> node.dirs, dir |-> node.dir,
                    todo |-> node.todo \ {p}, path |-> p, size |-> fs[p]]
        /\ p \in DOMAIN fs
    BY <1>3 DEF Lstat
  <2>2. WalkInv' /\ Rebuilt'
    BY <1>1, <2>1 DEF WalkInv, Rebuilt, At, disk, tables
  <2>3. Read(node') = Read(node) /\ Undone(node') = Undone(node)
    BY <1>1, <2>1 DEF Read, Undone
  <2>4. Covered(DOMAIN directories, node) = Covered(DOMAIN directories, node')
    BY <2>3 DEF Covered
  <2> QED
    BY <1>1, <2>2, <2>4, WalkHeals
<1> QED
  BY <1>2, <1>3

\* The row of a file is inserted.
LEMMA ToModelHeals == ASSUME TypeInv, HealInv, ToModel PROVE HealInv'
<1> DEFINE n == NextFile(node.dirs, node.dir, node.todo)
           row == [path |-> node.path, dir |-> node.dir,
                   size |-> node.size, checksum |-> fs[node.path]]
<1>1. /\ node \in [pc : {"toModel"}, dirs : SUBSET Dirs, dir : Dirs,
                   todo : SUBSET Paths, path : Paths, size : Versions]
      /\ UNCHANGED <<disk, directories>> /\ Rebuilt
      /\ node.dirs \subseteq DOMAIN directories /\ node.dir \in DOMAIN directories \ node.dirs
      /\ node.todo \subseteq Under[node.dir] /\ node.todo \ touched \subseteq DOMAIN fs
      /\ node.path \in Under[node.dir] \ node.todo
      /\ node.path \notin touched => node.size = fs[node.path]
  BY NodeShape DEF ToModel, TypeInv, TypeOK, At, HealInv, WalkInv, Rebuilt
<1>2. CASE Fail /\ UNCHANGED <<files, nextId>>
  BY <1>1, <1>2, FailHeals
<1>3. CASE ~(Fail /\ UNCHANGED <<files, nextId>>)
  <2>1. /\ files' = Put(files, nextId, row) /\ node' = n
        /\ node.path \in DOMAIN fs /\ node.path \notin PathsInUse
    BY <1>3 DEF ToModel
  <2>2. WalkedTo(n, DOMAIN directories, node.dirs, node.dir, node.todo)
    BY <1>1, NextFileHeals
  <2>3. nextId \notin DOMAIN files
    BY ShareAssumption DEF TypeInv, TypeOK
  <2>4. /\ DOMAIN files' = DOMAIN files \cup {nextId} /\ files'[nextId] = row
        /\ \A id \in DOMAIN files : files'[id] = files[id]
    BY <2>1, <2>3 DEF Put
  <2>5. row.path = node.path /\ row.size = node.size /\ row.checksum = fs[node.path]
    OBVIOUS
  <2> HIDE DEF n, row
  <2>6. PathsInUse' = PathsInUse \cup {node.path}
    BY <2>4, <2>5 DEF PathsInUse
  <2>7. PathsUnique'
    BY <2>1, <2>4, <2>5 DEF HealInv, PathsUnique, PathsInUse
  <2>8. Covered(DOMAIN directories, n) = Covered(DOMAIN directories, node) \cup {node.path}
    <3>1. Covered(DOMAIN directories, node) =
              (Under[node.dir] \ (node.todo \cup {node.path}))
                  \cup Below(DOMAIN directories \ (node.dirs \cup {node.dir}))
      BY <1>1 DEF Covered, Read, Undone
    <3> QED
      BY <1>1, <2>2, <3>1 DEF WalkedTo
  <2>9. Filled'
    <3>1. ASSUME NEW q \in Paths \ touched
          PROVE  q \in PathsInUse' <=> q \in DOMAIN fs \cap Covered(DOMAIN directories, n)
      BY <1>1, <2>1, <2>6, <2>8 DEF HealInv, Filled
    <3>2. ASSUME NEW id \in DOMAIN files', files'[id].path \notin touched
          PROVE  /\ files'[id].size = fs[files'[id].path]
                 /\ files'[id].checksum = fs[files'[id].path]
      BY <1>1, <2>4, <2>5, <3>2 DEF HealInv, Filled
    <3> QED
      BY <1>1, <2>1, <3>1, <3>2 DEF Filled, disk
  <2>10. DirsKept' /\ Cleared' /\ WalkInv'
    BY <1>1, <2>1, <2>2
       DEF WalkedTo, HealInv, DirsKept, Cleared, WalkInv, Rebuilt, At, disk
  <2> QED
    BY <2>7, <2>9, <2>10 DEF HealInv
<1> QED
  BY <1>2, <1>3

\* The tables stay as they are when they are filled.
LEMMA LateHeals ==
    ASSUME TypeInv, HealInv, UNCHANGED <<disk, tables>>,
           node.pc \in {"listen", "publish", "up"}, node'.pc \in {"listen", "publish", "up"}
    PROVE  HealInv'
<1>1. Covered(DOMAIN directories, node) = Covered(DOMAIN directories, node')
  BY DEF Covered, Read, Undone
<1>2. Rebuilt /\ Rebuilt' /\ WalkInv'
  BY DEF Rebuilt, WalkInv, At
<1> QED
  BY <1>1, <1>2, WalkHeals

\* What the owner of the disk does is touched from then on.
LEMMA OwnerHeals == ASSUME TypeInv, HealInv, Owner PROVE HealInv'
<1>1. CASE \E shareDirs \in DirTable : Configure(shareDirs)
  BY <1>1 DEF Configure, HealInv, DirsKept, Cleared, WalkInv, PathsUnique, Filled,
              Rebuilt, At, tables
<1>2. CASE ~\E shareDirs \in DirTable : Configure(shareDirs)
  <2>1. /\ UNCHANGED <<config, tables, node>> /\ touched \subseteq touched'
        /\ tree \ touched' \subseteq tree' /\ tree' \subseteq tree
        /\ DOMAIN fs \ touched' = DOMAIN fs' \ touched'
        /\ \A q \in DOMAIN fs \ touched' : fs'[q] = fs[q]
    BY <1>2 DEF Owner, Write, Remove, RemoveDir, Put, Drop
  <2>2. DirsKept' /\ Cleared' /\ PathsUnique'
    BY <2>1 DEF HealInv, DirsKept, Cleared, PathsUnique, Rebuilt, At, tables
  <2>3. WalkInv'
    BY <2>1 DEF HealInv, WalkInv, At, tables
  <2>4. Filled'
    <3>1. PathsInUse' = PathsInUse
          /\ Covered(DOMAIN directories, node)' = Covered(DOMAIN directories, node)
      BY <2>1 DEF PathsInUse, tables
    <3>2. ASSUME Rebuilt, NEW q \in Paths \ touched'
          PROVE  q \in PathsInUse' <=> q \in DOMAIN fs' \cap Covered(DOMAIN directories, node)'
      BY <2>1, <3>1, <3>2 DEF HealInv, Filled
    <3>3. ASSUME Rebuilt, NEW id \in DOMAIN files, files[id].path \notin touched'
          PROVE  /\ files[id].size = fs'[files[id].path]
                 /\ files[id].checksum = fs'[files[id].path]
      <4>1. files[id].path \in Paths \ touched /\ files[id].path \in PathsInUse
        BY <2>1, <3>3 DEF TypeInv, TypeOK, FileRow, PathsInUse
      <4>2. files[id].path \in DOMAIN fs
        BY <3>3, <4>1 DEF HealInv, Filled
      <4> QED
        BY <2>1, <3>3, <4>1, <4>2 DEF HealInv, Filled
    <3> QED
      BY <2>1, <3>2, <3>3 DEF Filled, Rebuilt, tables
  <2> QED
    BY <2>2, <2>3, <2>4 DEF HealInv
<1> QED
  BY <1>1, <1>2

LEMMA HealStep == TypeInv /\ HealInv /\ [Next]_vars => HealInv'
<1> SUFFICES ASSUME TypeInv, HealInv, [Next]_vars PROVE HealInv'
  OBVIOUS
<1>1. CASE Start \/ Crash
  BY <1>1, EarlyHeals
<1>2. CASE Boot
  <2>1. CASE Listen \/ Publish
    BY <2>1, LateHeals DEF Listen, Publish, At
  <2> QED
    BY <1>2, <2>1, EarlyHeals, SaveDirsHeals, ToModelHeals, ValidateHeals,
       TraverseHeals, LstatHeals
       DEF Boot
<1>3. CASE Provide \/ ProvideFails
  <2>1. node \in [pc : {"up"}, queue : SUBSET Ids]
    BY <1>3, NodeShape DEF Provide, ProvideFails, TypeInv, TypeOK, At
  <2> QED
    BY <1>3, <2>1, LateHeals DEF Provide, ProvideFails
<1>4. CASE Serve
  BY <1>4, LateHeals DEF Serve, FindFile, GetFile, GetFileContent, At
<1>5. CASE Owner
  BY <1>5, OwnerHeals
<1>6. CASE UNCHANGED vars
  BY <1>6 DEF vars, HealInv, DirsKept, Cleared, WalkInv, PathsUnique, Filled, Rebuilt,
              At, PathsInUse
<1> QED
  BY <1>1, <1>2, <1>3, <1>4, <1>5, <1>6 DEF Next

LEMMA HealInvariant == Spec => []HealInv
BY HealInit, HealStep, TypeInvariant, PTL DEF Spec

(***************************************************************************)
(* A start makes up for whatever the last crash left: once the peer answers, *)
(* each file that was left alone since the start has exactly one row, with   *)
(* its size and checksum, if it is below a directory of the table, and none  *)
(* otherwise (FileService.syncSharedDirs).                                   *)
(***************************************************************************)
THEOREM StartCorrect == Spec => []StartHeals
<1>1. TypeInv /\ HealInv => StartHeals
  <2> SUFFICES ASSUME TypeInv, HealInv, At("up") PROVE StartHeals
    BY DEF StartHeals
  <2>1. /\ Rebuilt /\ DOMAIN config \ touched \subseteq DOMAIN directories
        /\ Covered(DOMAIN directories, node) = Below(DOMAIN directories)
    BY DEF HealInv, DirsKept, Rebuilt, Covered, Read, Undone, At
  <2>2. ASSUME NEW p \in Paths \ touched
        PROVE  /\ Cardinality(Shared(p)) =
                    IF p \in DOMAIN fs /\ \E d \in DOMAIN directories : p \in Under[d]
                    THEN 1 ELSE 0
               /\ \A id \in Shared(p) : /\ files[id].size = fs[p]
                                        /\ files[id].checksum = fs[p]
    <3>1. p \in PathsInUse <=>
              p \in DOMAIN fs /\ \E d \in DOMAIN directories : p \in Under[d]
      BY <2>1, <2>2 DEF HealInv, Filled, Below
    <3>2. CASE p \in PathsInUse
      <4>1. PICK id \in DOMAIN files : files[id].path = p
        BY <3>2 DEF PathsInUse
      <4>2. Shared(p) = {id}
        BY <4>1 DEF Shared, HealInv, PathsUnique
      <4>3. Cardinality(Shared(p)) = 1
        BY <4>2, FS_Singleton
      <4> QED
        BY <2>1, <2>2, <3>1, <3>2, <4>3 DEF Shared, HealInv, Filled
    <3>3. CASE p \notin PathsInUse
      <4>1. Shared(p) = {}
        BY <3>3 DEF Shared, PathsInUse
      <4> QED
        BY <3>1, <3>3, <4>1, FS_EmptySet
    <3> QED
      BY <3>2, <3>3
  <2> QED
    BY <2>1, <2>2 DEF StartHeals
<1> QED
  BY <1>1, TypeInvariant, HealInvariant, PTL

\* No shared directory lies in another.  (Where one does, the path below both is
\* inserted twice, and the start fails at the second.)
DirsDisjoint == \A d, e \in Dirs : d # e => Under[d] \cap Under[e] = {}

LEMMA FailStep ==
    ASSUME DirsDisjoint, TypeInv, HealInv, FailsForCause, [Next]_vars
    PROVE  FailsForCause'
<1> SUFFICES ASSUME node'.pc = "failed", touched' = {}, ~AdvertisedTwice' PROVE FALSE
  BY DEF FailsForCause, At
<1> USE DEF disk, tables, peers
<1>1. CASE Boot
  <2>0. touched = {}
    BY <1>1, BootTables
  <2>1. CASE ValidateNone \/ Listen \/ Publish
    BY <2>1 DEF ValidateNone, Listen, Publish
  <2>7. CASE AddShareDir
    <3>1. CASE Fail /\ UNCHANGED <<config, directories>>
      <4>1. WithConfigured' = WithConfigured
        BY <3>1 DEF WithConfigured
      <4> QED
        BY <2>7, <3>1, <4>1 DEF AddShareDir, AdvertisedTwice, IsInjective
    <3>2. CASE ~(Fail /\ UNCHANGED <<config, directories>>)
      BY <2>7, <3>2 DEF AddShareDir
    <3> QED
      BY <3>1, <3>2
  <2>2. CASE ClearFiles \/ ClearDirs \/ SaveDirs
    <3>1. /\ node \in [pc : {"clearFiles", "clearDirs", "saveDirs"}, valid : DirTable]
          /\ node.pc = "clearDirs" => DOMAIN files = {}
      BY <2>2, NodeShape
         DEF ClearFiles, ClearDirs, SaveDirs, At, TypeInv, TypeOK, HealInv, Cleared
    <3> QED
      BY <2>2, <3>1 DEF ClearFiles, ClearDirs, SaveDirs, At
  <2>3. ASSUME NEW d \in Dirs, Validate(d)
        PROVE  FALSE
    <3>1. node \in [pc : {"validate"}, dirs : SUBSET Dirs, valid : DirTable]
      BY <2>3, NodeShape DEF Validate, TypeInv, TypeOK
    <3> QED
      BY <2>3, <3>1 DEF Validate
  <2>4. ASSUME NEW d \in Dirs, Traverse(d)
        PROVE  FALSE
    <3>1. d \in tree
      BY <2>0, <2>4 DEF Traverse, HealInv, DirsKept, WalkInv, Rebuilt, At
    <3>2. /\ node' = NextFile(node.dirs \ {d}, d, Under[d] \cap DOMAIN fs)
          /\ node.dirs \in SUBSET Dirs
      BY <2>4, <3>1, NodeShape DEF Traverse, TypeInv, TypeOK, At
    <3>3. node.dirs \ {d} \in SUBSET Dirs /\ Under[d] \cap DOMAIN fs \in SUBSET Paths
      BY <3>2, ShareAssumption
    <3> QED
      BY <3>2, <3>3, NextFileShape
  <2>5. ASSUME NEW p \in Paths, Lstat(p)
        PROVE  FALSE
    <3>1. p \in DOMAIN fs
      BY <2>0, <2>5 DEF Lstat, HealInv, WalkInv, At
    <3> QED
      BY <2>5, <3>1 DEF Lstat
  <2>6. CASE ToModel
    <3>1. /\ node \in [pc : {"toModel"}, dirs : SUBSET Dirs, dir : Dirs,
                       todo : SUBSET Paths, path : Paths, size : Versions]
          /\ node.dir \in DOMAIN directories \ node.dirs /\ DOMAIN directories \subseteq Dirs
          /\ node.path \in Under[node.dir] /\ node.path \in DOMAIN fs
      BY <2>0, <2>6, NodeShape, TableShape
         DEF ToModel, At, TypeInv, TypeOK, HealInv, WalkInv
    <3>2. node.path \notin Covered(DOMAIN directories, node)
      BY <3>1 DEF DirsDisjoint, Covered, Read, Undone, Below
    <3>3. node.path \notin PathsInUse
      BY <2>0, <3>1, <3>2 DEF HealInv, Filled, Rebuilt
    <3>4. node' = NextFile(node.dirs, node.dir, node.todo)
      BY <2>6, <3>1, <3>3 DEF ToModel
    <3> QED
      BY <3>1, <3>4, NextFileShape
  <2> QED
    BY <1>1, <2>1, <2>2, <2>3, <2>4, <2>5, <2>6, <2>7 DEF Boot
<1>2. CASE Start \/ Crash
  BY <1>2 DEF Start, Crash
<1>3. CASE Provide \/ ProvideFails
  <2>1. node \in [pc : {"up"}, queue : SUBSET Ids]
    BY <1>3, NodeShape DEF Provide, ProvideFails, TypeInv, TypeOK, At
  <2> QED
    BY <1>3, <2>1 DEF Provide, ProvideFails
<1>4. CASE Serve \/ Owner \/ UNCHANGED vars
  <2>1. node' = node /\ touched = {} /\ UNCHANGED <<config, directories>>
    BY <1>4 DEF Serve, FindFile, GetFile, GetFileContent, Owner, Write, Remove,
                RemoveDir, Configure, vars, At
  <2>2. AdvertisedTwice' = AdvertisedTwice
    BY <2>1 DEF AdvertisedTwice, WithConfigured, IsInjective
  <2> QED
    BY <2>1, <2>2 DEF FailsForCause, At
<1> QED
  BY <1>1, <1>2, <1>3, <1>4 DEF Next

(***************************************************************************)
(* Unless shared directories lie in one another, a start fails only when the *)
(* disk changes under it, or an advertised path would be in the table twice  *)
(* (UNIQUE, directory.model.ts:20): never because a crash of an earlier      *)
(* start left the tables half filled, nor because of a directory that is not *)
(* there.                                                                    *)
(***************************************************************************)
THEOREM FailuresExplained == DirsDisjoint => (Spec => []FailsForCause)
<1> SUFFICES ASSUME DirsDisjoint PROVE Spec => []FailsForCause
  OBVIOUS
<1>1. Init => FailsForCause
  BY DEF Init, FailsForCause, At
<1>2. TypeInv /\ HealInv /\ FailsForCause /\ [Next]_vars => FailsForCause'
  BY FailStep
<1> QED
  BY <1>1, <1>2, TypeInvariant, HealInvariant, PTL DEF Spec
==============================================================================
