-------------------------- MODULE DriveViewProofs --------------------------
(***************************************************************************)
(* Proofs about DriveView, for any items, numbers of ids, starts and       *)
(* number of tasks that run together: drops are uploaded where they were   *)
(* made, a locked drive shows no names, actions are on the items that were *)
(* chosen, and when nothing is under way the list and the pins are those   *)
(* of the server and every proxy is with its video.  The storage of the    *)
(* server is StorageLedger; what StorageLedgerProofs shows of it is used   *)
(* here.                                                                   *)
(***************************************************************************)
EXTENDS DriveView, FiniteSetTheorems, SequenceTheorems, TLAPS

(***************************************************************************)
(* The ledger                                                              *)
(***************************************************************************)

\* What StorageLedgerProofs proves of the ledger, of this one.
LedgerP == INSTANCE StorageLedgerProofs
             WITH Names <- FileNames, Providers <- {"local"}, MaxSize <- 1,
                  Sizes <- {1}, MetadataCost <- 1, Collectors <- {},
                  MaxStorage <- Cardinality(FileIds)

LEMMA SameSets ==
    /\ Ledger!File = LedgerP!File /\ Ledger!Ages = LedgerP!Ages
    /\ Ledger!Rows = LedgerP!Rows
    /\ Ledger!Live = LedgerP!Live
    /\ Ledger!Trashed = LedgerP!Trashed
    BY DEF Ledger!File, LedgerP!File, Ledger!Ages, LedgerP!Ages,
           Ledger!Uploads, LedgerP!Uploads, Ledger!Rows, LedgerP!Rows,
           Ledger!Live, LedgerP!Live, Ledger!Trashed, LedgerP!Trashed

LEMMA SameTypes == Ledger!TypeOK <=> LedgerP!TypeOK
    BY SameSets DEF Ledger!TypeOK, LedgerP!TypeOK

LEMMA SameSums ==
    /\ \A S : Ledger!Total(S) = LedgerP!Total(S)
    /\ \A x : Ledger!Refunded(x) = LedgerP!Refunded(x)
<1>1. \A row : Ledger!Charge(row) = LedgerP!Charge(row)
    BY DEF Ledger!Charge, LedgerP!Charge
<1>2. \A S : Ledger!Bytes(S) = LedgerP!Bytes(S)
    BY <1>1 DEF Ledger!Bytes, LedgerP!Bytes
<1>3. \A S : Ledger!Cardinality(S) = LedgerP!Cardinality(S)
    BY DEF Ledger!Cardinality, LedgerP!Cardinality
<1>. QED
    BY <1>2, <1>3 DEF Ledger!Total, LedgerP!Total, Ledger!Refunded, LedgerP!Refunded

LEMMA SameTrees ==
    /\ \A d : Ledger!FolderTree(d) = LedgerP!FolderTree(d)
    /\ \A D : Ledger!FolderTrees(D) = LedgerP!FolderTrees(D)
    /\ \A D : Ledger!FilesIn(D) = LedgerP!FilesIn(D)
    /\ \A d : Ledger!LiveFolder(d) <=> LedgerP!LiveFolder(d)
<1>1. \A d : Ledger!FolderTree(d) = LedgerP!FolderTree(d)
    BY DEF Ledger!FolderTree, LedgerP!FolderTree
<1>2. \A D : Ledger!FolderTrees(D) = LedgerP!FolderTrees(D)
    BY <1>1 DEF Ledger!FolderTrees, LedgerP!FolderTrees
<1>. QED
    BY <1>1, <1>2, SameSets DEF Ledger!FilesIn, LedgerP!FilesIn,
       Ledger!LiveFolder, LedgerP!LiveFolder

LEMMA SameTables ==
    /\ \A F : Ledger!Without(F) = LedgerP!Without(F)
    /\ \A F, age : Ledger!WithTrash(F, age) = LedgerP!WithTrash(F, age)
    /\ \A D, age : Ledger!WithAge(D, age) = LedgerP!WithAge(D, age)
    /\ \A n, d, F : Ledger!NameFree(n, d, F) <=> LedgerP!NameFree(n, d, F)
    BY SameSets DEF Ledger!Without, LedgerP!Without, Ledger!WithTrash,
       LedgerP!WithTrash, Ledger!WithAge, LedgerP!WithAge, Ledger!NameFree,
       LedgerP!NameFree

\* The requests are steps of the ledger.
LedgerSteps ==
    \/ \E F \in SUBSET FileIds : Ledger!DeleteFiles(F) \/ Ledger!HardDeleteFiles(F)
    \/ \E f \in FileIds : Ledger!RestoreFile(f)
    \/ \E f \in FileIds, n \in FileNames, d \in Folders \cup {Root} :
          Ledger!UpdateFile(f, n, d)
    \/ Ledger!EmptyTrash
    \/ \E d \in Folders, p \in Folders \cup {Root} :
          Ledger!CreateFolder(d, p) \/ Ledger!UpdateFolder(d, p)
    \/ \E d \in Folders : Ledger!DeleteFolder(d) \/ Ledger!RestoreFolder(d)
    \/ \E D \in SUBSET Folders :
          Ledger!BatchDeleteFolders(D) \/ Ledger!HardDeleteFolders(D)

LEMMA SameSteps == LedgerSteps => LedgerP!Next
<1>1. \A F : /\ Ledger!DeleteFiles(F) => LedgerP!DeleteFiles(F)
             /\ Ledger!HardDeleteFiles(F) => LedgerP!HardDeleteFiles(F)
    BY SameSets, SameSums, SameTables DEF Ledger!DeleteFiles, LedgerP!DeleteFiles,
       Ledger!HardDeleteFiles, LedgerP!HardDeleteFiles
<1>2. \A f : Ledger!RestoreFile(f) => LedgerP!RestoreFile(f)
    BY SameSets, SameTrees, SameTables DEF Ledger!RestoreFile, LedgerP!RestoreFile
<1>3. \A f, n, d : Ledger!UpdateFile(f, n, d) => LedgerP!UpdateFile(f, n, d)
    BY SameSets, SameTables DEF Ledger!UpdateFile, LedgerP!UpdateFile
<1>4. Ledger!EmptyTrash => LedgerP!EmptyTrash
    BY SameSets, SameSums, SameTables, SameTrees DEF Ledger!EmptyTrash, LedgerP!EmptyTrash
<1>5. \A d, p : /\ Ledger!CreateFolder(d, p) => LedgerP!CreateFolder(d, p)
                /\ Ledger!UpdateFolder(d, p) => LedgerP!UpdateFolder(d, p)
    BY SameTrees DEF Ledger!CreateFolder, LedgerP!CreateFolder,
       Ledger!UpdateFolder, LedgerP!UpdateFolder
<1>6. \A d : /\ Ledger!DeleteFolder(d) => LedgerP!DeleteFolder(d)
             /\ Ledger!RestoreFolder(d) => LedgerP!RestoreFolder(d)
    BY SameTrees, SameTables DEF Ledger!DeleteFolder, LedgerP!DeleteFolder,
       Ledger!RestoreFolder, LedgerP!RestoreFolder
<1>7. \A D : /\ Ledger!BatchDeleteFolders(D) => LedgerP!BatchDeleteFolders(D)
             /\ Ledger!HardDeleteFolders(D) => LedgerP!HardDeleteFolders(D)
    BY SameSets, SameSums, SameTrees, SameTables DEF Ledger!BatchDeleteFolders,
       LedgerP!BatchDeleteFolders, Ledger!HardDeleteFolders, LedgerP!HardDeleteFolders
<1>. QED
    BY <1>1, <1>2, <1>3, <1>4, <1>5, <1>6, <1>7 DEF LedgerSteps, LedgerP!Next,
       LedgerP!FileSteps, LedgerP!FolderSteps

\* The assumption of StorageLedger holds of this instance.
LEMMA LedgerAssumed == LedgerP!LedgerAssumption
<1>1. Cardinality(FileIds) \in Nat /\ IsFiniteSet(FileIds)
    BY DriveViewAssumption, FS_CardinalityType
<1>2. \A S : LedgerP!Cardinality(S) = Cardinality(S)
    BY DEF LedgerP!Cardinality, Cardinality
<1>3. \A S : LedgerP!IsFiniteSet(S) <=> IsFiniteSet(S)
    BY DEF LedgerP!IsFiniteSet, IsFiniteSet
<1>4. Absent \notin Nat \cup LedgerP!Ages \cup LedgerP!File
    BY DriveViewAssumption, StartsAssumption, SameSets
<1>5. {1} \subseteq 0..1 /\ 1 \in 0..1 /\ 1 \in Nat /\ Root \notin Folders
    BY DriveViewAssumption
<1>. QED
    BY <1>1, <1>2, <1>3, <1>4, <1>5 DEF LedgerP!LedgerAssumption

\* A deleted folder's tree goes with it, a file's folder is there, and so is
\* a pin's.
ServerInv ==
    /\ LedgerP!FoldersAgree
    /\ \A f \in FileIds :
          files[f] # Absent /\ files[f].folder # Root =>
              folders[files[f].folder] # Absent
    /\ \A d \in pins : folders[d] # Absent
ServerTyped ==
    /\ Ledger!TypeOK
    /\ used <= Cardinality(FileIds)
    /\ pins \in SUBSET Folders

LEMMA LedgerKeeps ==
    ASSUME ServerTyped, ServerInv, LedgerSteps
    PROVE  Ledger!TypeOK' /\ used' <= Cardinality(FileIds) /\ LedgerP!FoldersAgree'
<1>1. LedgerP!TypeOK /\ LedgerP!FoldersAgree /\ LedgerP!Next
    BY SameTypes, SameSteps DEF ServerTyped, ServerInv
<1>2. \A S : LedgerP!Cardinality(S) = Cardinality(S)
    BY DEF LedgerP!Cardinality, Cardinality
<1>3. LedgerP!QuotaNeverExceeded
    BY <1>1, <1>2 DEF ServerTyped, LedgerP!QuotaNeverExceeded, LedgerP!TypeOK
<1>4. LedgerP!TypeOK' /\ LedgerP!QuotaNeverExceeded'
    BY <1>1, <1>3, LedgerAssumed, LedgerP!NextWithinQuota DEF LedgerP!vars
<1>5. LedgerP!FoldersAgree'
    BY <1>1, LedgerAssumed, LedgerP!FoldersAgreeStep DEF LedgerP!vars
<1>6. Ledger!TypeOK'
    BY <1>4, SameTypes DEF Ledger!TypeOK, LedgerP!TypeOK, Ledger!Ages,
       LedgerP!Ages, Ledger!File, LedgerP!File, Ledger!Uploads, LedgerP!Uploads
<1>. QED
    BY <1>2, <1>4, <1>5, <1>6 DEF LedgerP!QuotaNeverExceeded

Housed == \A f \in FileIds :
             files[f] # Absent /\ files[f].folder # Root =>
                folders[files[f].folder] # Absent

LEMMA FileFields ==
    ASSUME Ledger!TypeOK, NEW f \in FileIds, files[f] # Absent
    PROVE  /\ files[f] \in Ledger!File
           /\ files[f].folder \in Folders \cup {Root}
           /\ files[f].trash \in Ledger!Ages
           /\ files[f].name \in FileNames
           /\ \A age : /\ [files[f] EXCEPT !.trash = age].trash = age
                       /\ [files[f] EXCEPT !.trash = age].folder = files[f].folder
                       /\ [files[f] EXCEPT !.trash = age].name = files[f].name
                       /\ age \in Ledger!Ages =>
                             [files[f] EXCEPT !.trash = age] \in Ledger!File
    BY DEF Ledger!TypeOK, Ledger!File

\* What dating and undating the deletion of files leaves as it is.
LEMMA Dated ==
    ASSUME Ledger!TypeOK, NEW F \in SUBSET Ledger!Rows, NEW age \in Ledger!Ages,
           files' = Ledger!WithTrash(F, age)
    PROVE  \A f \in FileIds :
              /\ files'[f] = Absent <=> files[f] = Absent
              /\ files[f] # Absent =>
                    /\ files'[f].folder = files[f].folder
                    /\ files'[f].name = files[f].name
                    /\ files'[f].trash = IF f \in F THEN age ELSE files[f].trash
              /\ f \notin F => files'[f] = files[f]
<1>. SUFFICES ASSUME NEW f \in FileIds
              PROVE  /\ files'[f] = Absent <=> files[f] = Absent
                     /\ files[f] # Absent =>
                          /\ files'[f].folder = files[f].folder
                          /\ files'[f].name = files[f].name
                          /\ files'[f].trash = IF f \in F THEN age ELSE files[f].trash
                     /\ f \notin F => files'[f] = files[f]
    OBVIOUS
<1>1. files'[f] = IF f \in F THEN [files[f] EXCEPT !.trash = age] ELSE files[f]
    BY DEF Ledger!WithTrash
<1>2. f \in F => files[f] # Absent
    BY DEF Ledger!Rows
<1>3. Absent \notin Ledger!File
    BY StartsAssumption
<1>. QED
    BY <1>1, <1>2, <1>3, FileFields

\* What deleting files leaves.
LEMMA Deleted ==
    ASSUME NEW F, files' = Ledger!Without(F)
    PROVE  \A f \in FileIds : files'[f] = IF f \in F THEN Absent ELSE files[f]
    BY DEF Ledger!Without

Renaming(f, n, d) == [files EXCEPT ![f].name = n, ![f].folder = d]
Returning(f, a, d) == [files EXCEPT ![f].trash = a, ![f].folder = d]

\* A file that is renamed or moved.
LEMMA Renamed ==
    ASSUME Ledger!TypeOK, NEW f \in FileIds, files[f] # Absent,
           NEW n \in FileNames, NEW d \in Folders \cup {Root},
           files' = Renaming(f, n, d)
    PROVE  /\ \A g \in FileIds : g # f => files'[g] = files[g]
           /\ files'[f] # Absent /\ files'[f].folder = d
           /\ files'[f].name = n
           /\ files'[f].trash = files[f].trash
<1>1. files \in [FileIds -> Ledger!File \cup {Absent}] /\ files[f] \in Ledger!File
    BY FileFields DEF Ledger!TypeOK
<1>2. Absent \notin Ledger!File
    BY StartsAssumption
<1>3. /\ \A g \in FileIds : g # f => files'[g] = files[g]
      /\ files'[f] = [files[f] EXCEPT !.name = n, !.folder = d]
    BY <1>1 DEF Renaming
<1>4. files'[f] \in Ledger!File
    BY <1>1, <1>3 DEF Ledger!File
<1>. QED
    BY <1>1, <1>2, <1>3, <1>4 DEF Ledger!File

\* A file that is restored.
LEMMA Returned ==
    ASSUME Ledger!TypeOK, NEW f \in FileIds, files[f] # Absent,
           NEW a \in Ledger!Ages, NEW d \in Folders \cup {Root},
           files' = Returning(f, a, d)
    PROVE  /\ \A g \in FileIds : g # f => files'[g] = files[g]
           /\ files'[f] # Absent /\ files'[f].folder = d
           /\ files'[f].trash = a
           /\ files'[f].name = files[f].name
<1>1. files \in [FileIds -> Ledger!File \cup {Absent}] /\ files[f] \in Ledger!File
    BY FileFields DEF Ledger!TypeOK
<1>2. Absent \notin Ledger!File
    BY StartsAssumption
<1>3. /\ \A g \in FileIds : g # f => files'[g] = files[g]
      /\ files'[f] = [files[f] EXCEPT !.trash = a, !.folder = d]
    BY <1>1 DEF Returning
<1>4. files'[f] \in Ledger!File
    BY <1>1, <1>3 DEF Ledger!File
<1>. QED
    BY <1>1, <1>2, <1>3, <1>4 DEF Ledger!File

\* A deletion of folders takes the files in them along.
LEMMA HousedWithout ==
    ASSUME Ledger!TypeOK, Housed, NEW F, NEW D,
           files' = Ledger!Without(F), Ledger!FilesIn(D) \subseteq F,
           \A d \in Folders : d \notin D => folders'[d] = folders[d]
    PROVE  Housed'
    BY Deleted, FileFields DEF Housed, Ledger!FilesIn, Ledger!Rows

LEMMA HousedKept == ASSUME Ledger!TypeOK, Housed, LedgerSteps PROVE Housed'
<1>0. /\ "live" # Absent /\ "recent" # Absent
      /\ "live" \in Ledger!Ages /\ "recent" \in Ledger!Ages
    BY StartsAssumption DEF Ledger!Ages
<1>1. ASSUME NEW F \in SUBSET FileIds, Ledger!DeleteFiles(F) PROVE Housed'
    <2>1. F \in SUBSET Ledger!Rows /\ files' = Ledger!WithTrash(F, "recent")
          /\ folders' = folders
        BY <1>1 DEF Ledger!DeleteFiles, Ledger!Live
    <2>. QED
        BY <2>1, <1>0, Dated DEF Housed
<1>2. ASSUME NEW F \in SUBSET FileIds, Ledger!HardDeleteFiles(F) PROVE Housed'
    BY <1>2, Deleted DEF Housed, Ledger!HardDeleteFiles
<1>3. ASSUME NEW f \in FileIds, Ledger!RestoreFile(f) PROVE Housed'
    <2> DEFINE d == IF Ledger!LiveFolder(files[f].folder) THEN files[f].folder ELSE Root
    <2>1. files[f] # Absent /\ d \in Folders \cup {Root} /\ folders' = folders
          /\ files' = Returning(f, "live", d)
        BY <1>3, FileFields DEF Returning, Ledger!RestoreFile, Ledger!Trashed, Ledger!Rows
    <2>2. d # Root => folders[d] # Absent
        BY <1>0 DEF Ledger!LiveFolder
    <2>3. /\ \A g \in FileIds : g # f => files'[g] = files[g]
          /\ files'[f].folder = d
        <3>. HIDE DEF d
        <3>. QED
            BY <2>1, <1>0, Returned
    <2>. HIDE DEF d
    <2>. QED
        BY <2>1, <2>2, <2>3 DEF Housed
<1>4. ASSUME NEW f \in FileIds, NEW n \in FileNames, NEW d \in Folders \cup {Root},
             Ledger!UpdateFile(f, n, d)
      PROVE  Housed'
    <2>1. files[f] # Absent /\ folders' = folders /\ (d # Root => folders[d] # Absent)
          /\ files' = Renaming(f, n, d)
        BY <1>4 DEF Renaming, Ledger!UpdateFile, Ledger!Live, Ledger!Rows
    <2>. QED
        BY <2>1, Renamed DEF Housed
<1>5. ASSUME Ledger!EmptyTrash PROVE Housed'
    <2> DEFINE doomed == Ledger!FolderTrees({d \in Folders :
                                 folders[d] \in {"recent", "expired"}})
    <2>1. /\ files' = Ledger!Without(Ledger!Trashed \cup Ledger!FilesIn(doomed))
          /\ \A d \in Folders : d \notin doomed => folders'[d] = folders[d]
        BY <1>5 DEF Ledger!EmptyTrash
    <2>. HIDE DEF doomed
    <2>. QED
        BY <2>1, HousedWithout
<1>6. ASSUME NEW d \in Folders, NEW p \in Folders \cup {Root}, Ledger!CreateFolder(d, p)
      PROVE  Housed'
    BY <1>6, <1>0 DEF Housed, Ledger!CreateFolder, Ledger!TypeOK
<1>7. ASSUME NEW d \in Folders, NEW p \in Folders \cup {Root}, Ledger!UpdateFolder(d, p)
      PROVE  Housed'
    BY <1>7 DEF Housed, Ledger!UpdateFolder
<1>8. ASSUME NEW D, NEW age \in {"live", "recent"}, NEW F \in SUBSET Ledger!Rows,
             folders' = Ledger!WithAge(D, age), files' = Ledger!WithTrash(F, age)
      PROVE  Housed'
    <2>1. \A d \in Folders : folders[d] # Absent => folders'[d] # Absent
        BY <1>8, <1>0 DEF Ledger!WithAge
    <2>2. age \in Ledger!Ages
        BY <1>0
    <2>. QED
        BY <1>8, <2>1, <2>2, Dated, FileFields DEF Housed
<1>9. \A D : Ledger!FilesIn(D) \in SUBSET Ledger!Rows
    BY DEF Ledger!FilesIn
<1>10. ASSUME NEW d \in Folders, Ledger!DeleteFolder(d) \/ Ledger!RestoreFolder(d)
       PROVE  Housed'
    BY <1>10, <1>8, <1>9 DEF Ledger!DeleteFolder, Ledger!RestoreFolder
<1>11. ASSUME NEW D \in SUBSET Folders, Ledger!BatchDeleteFolders(D) PROVE Housed'
    <2> DEFINE doomed == Ledger!FolderTrees({d \in D : folders[d] = "live"})
    <2>1. /\ folders' = Ledger!WithAge(doomed, "recent")
          /\ files' = Ledger!WithTrash(Ledger!FilesIn(doomed) \cap Ledger!Live, "recent")
        BY <1>11 DEF Ledger!BatchDeleteFolders
    <2>. HIDE DEF doomed
    <2>2. Ledger!FilesIn(doomed) \cap Ledger!Live \in SUBSET Ledger!Rows
        BY <1>9
    <2>. QED
        BY <2>1, <2>2, <1>8
<1>12. ASSUME NEW D \in SUBSET Folders, Ledger!HardDeleteFolders(D) PROVE Housed'
    <2> DEFINE doomed == Ledger!FolderTrees({d \in D : folders[d] \in {"recent", "expired"}})
    <2>1. /\ files' = Ledger!Without(Ledger!FilesIn(doomed))
          /\ folders' = Ledger!WithAge(doomed, Absent)
        BY <1>12 DEF Ledger!HardDeleteFolders
    <2>2. \A d \in Folders : d \notin doomed => folders'[d] = folders[d]
        BY <2>1 DEF Ledger!WithAge
    <2>. HIDE DEF doomed
    <2>. QED
        BY <2>1, <2>2, HousedWithout
<1>. QED
    BY <1>1, <1>2, <1>3, <1>4, <1>5, <1>6, <1>7, <1>10, <1>11, <1>12 DEF LedgerSteps

(***************************************************************************)
(* Tasks and their steps                                                   *)
(***************************************************************************)

Places == Folders \cup {Root}
FileRows == [is : {"file"}, key : FileIds, up : Places, name : FileNames,
             named : BOOLEAN]
FolderRows == [is : {"folder"}, key : Folders, up : Places, name : {Absent},
               named : BOOLEAN]

\* The steps by what they are about and with what.
FileCalls == [do : {"trashFile", "trashFiles", "restoreFile", "purgeFile",
                    "purgeFiles"},
              on : SUBSET FileIds, with : {Absent}]
FolderCalls == [do : {"trashFolder", "trashFolders", "restoreFolder",
                      "purgeFolder", "purgeFolders", "renameFolder", "pin",
                      "unpin"},
                on : SUBSET Folders, with : {Absent}]
Renames == [do : {"renameFile"}, on : SUBSET FileIds, with : FileNames]
FileMoves == [do : {"moveFile"}, on : SUBSET FileIds, with : Places]
FolderMoves == [do : {"moveFolder"}, on : SUBSET Folders, with : Places]
Creations == [do : {"create"}, on : {{}}, with : Places]
Plain == [do : {"empty"} \cup Loads, on : {{}}, with : {Absent}]
Keeping == [do : {"kept"}, on : SUBSET Folders, with : {Absent, Root}]

\* The request for a proxy that goes with a step of TwinSteps.
TwinDo == [twinTrash |-> "trashFile", twinRename |-> "renameFile",
           twinRestore |-> "restoreFile", twinPurge |-> "purgeFile"]
Twins == {s \in [do : TwinSteps, on : SUBSET FileIds,
                 with : [row : FileRows, call : FileCalls \cup Renames]] :
            /\ s.on = {s.with.row.key}
            /\ s.with.call.do = TwinDo[s.do]}

StepSet == FileCalls \cup FolderCalls \cup Renames \cup FileMoves
             \cup FolderMoves \cup Creations \cup Plain \cup Keeping \cup Twins
TaskSet == [todo : Seq(StepSet), rows : SUBSET Row, at : Nat,
            got : {"nothing", "served", "named"},
            fails : {"stops", "loads", "all"},
            clears : BOOLEAN, joins : BOOLEAN]

FileDoes == {"trashFile", "trashFiles", "restoreFile", "purgeFile",
             "purgeFiles", "renameFile", "moveFile"}
FolderDoes == {"trashFolder", "trashFolders", "restoreFolder", "purgeFolder",
               "purgeFolders", "renameFolder", "moveFolder", "pin", "unpin",
               "kept"}
Placing == {"moveFile", "moveFolder", "create"}

LEMMA RowKinds == Row = FileRows \cup FolderRows
    BY DEF Row, FileRows, FolderRows, Places

\* What a step is about, by what it asks for.
LEMMA StepTypes ==
    ASSUME NEW s \in StepSet
    PROVE  /\ s.do \in FileDoes => s.on \in SUBSET FileIds
           /\ s.do \in FolderDoes => s.on \in SUBSET Folders
           /\ s.do \in Placing => s.with \in Places
           /\ s.do = "renameFile" => s.with \in FileNames
           /\ s.do = "kept" => s.with \in {Absent, Root}
           /\ s.do \in TwinSteps => s \in Twins
           /\ s.do \in Loads \cup {"empty", "create"} => s.on = {}
           /\ s = Step(s.do, s.on, s.with)
    BY DEF StepSet, FileCalls, FolderCalls, Renames, FileMoves, FolderMoves,
       Creations, Plain, Keeping, Twins, FileDoes, FolderDoes, Placing,
       TwinSteps, Loads, Step

LEMMA RequestSteps ==
    ASSUME NEW s \in StepSet, Ledger!TypeOK, Effect(s.do, s.on, s.with)
    PROVE  LedgerSteps
<1>1. /\ s.do \in FileDoes => s.on \in SUBSET FileIds
      /\ s.do \in FolderDoes => s.on \in SUBSET Folders
      /\ s.do \in Placing => s.with \in Places
      /\ s.do = "renameFile" => s.with \in FileNames
    BY StepTypes
<1>2. CASE s.do \in {"trashFile", "trashFiles", "purgeFile", "purgeFiles"}
    <2>1. s.on \in SUBSET FileIds
        BY <1>1, <1>2 DEF FileDoes
    <2>2. \A F : s.on \cap F \in SUBSET FileIds
        BY <2>1
    <2>. QED
        BY <1>2, <2>1, <2>2 DEF Effect, LedgerSteps
<1>3. CASE s.do \in {"restoreFile", "renameFile", "moveFile"}
    <2>1. s.on \in SUBSET FileIds
        BY <1>1, <1>3 DEF FileDoes
    <2>2. CASE s.do = "restoreFile"
        <3>1. PICK f \in s.on : Ledger!RestoreFile(f)
            BY <2>2 DEF Effect
        <3>. QED
            BY <2>1, <3>1 DEF LedgerSteps
    <2>3. CASE s.do = "renameFile"
        <3>1. PICK f \in s.on \cap Ledger!Live :
                 Ledger!UpdateFile(f, s.with, files[f].folder)
            BY <2>3 DEF Effect
        <3>2. f \in FileIds /\ files[f].folder \in Folders \cup {Root}
            BY <2>1, FileFields DEF Ledger!Live, Ledger!Rows
        <3>. QED
            BY <1>1, <2>3, <3>1, <3>2 DEF LedgerSteps
    <2>4. CASE s.do = "moveFile"
        <3>1. PICK f \in s.on \cap Ledger!Live :
                 Ledger!UpdateFile(f, NameOf(f), s.with)
            BY <2>4 DEF Effect
        <3>2. f \in FileIds /\ NameOf(f) \in FileNames
            BY <2>1, FileFields DEF Ledger!Live, Ledger!Rows, NameOf
        <3>. QED
            BY <1>1, <2>4, <3>1, <3>2 DEF LedgerSteps, Placing, Places
    <2>. QED
        BY <1>3, <2>2, <2>3, <2>4
<1>4. CASE s.do \in {"trashFolder", "trashFolders", "restoreFolder",
                     "purgeFolder", "purgeFolders", "moveFolder"}
    <2>1. s.on \in SUBSET Folders
        BY <1>1, <1>4 DEF FolderDoes
    <2>. QED
        BY <1>1, <1>4, <2>1 DEF Effect, LedgerSteps, Placing, Places
<1>5. CASE s.do \in {"empty", "create"}
    BY <1>1, <1>5 DEF Effect, LedgerSteps, Placing, Places
<1>. QED
    BY <1>2, <1>3, <1>4, <1>5 DEF Effect

\* The tasks have their types.
TasksTyped == tasks \in [Tasks -> TaskSet]

LEMMA TaskFields ==
    ASSUME NEW task \in TaskSet
    PROVE  /\ task.todo \in Seq(StepSet)
           /\ task.rows \in SUBSET Row
           /\ task.at \in Nat
           /\ task.got \in {"nothing", "served", "named"}
           /\ task.clears \in BOOLEAN /\ task.joins \in BOOLEAN
    BY DEF TaskSet

\* A task that is begun.
LEMMA BareTask ==
    ASSUME NEW todo \in Seq(StepSet),
           NEW how \in {"stops", "loads", "all"},
           NEW yes \in BOOLEAN, NEW no \in BOOLEAN,
           NEW task, \/ task = Task(todo)
                     \/ task = [Task(todo) EXCEPT !.fails = how, !.clears = yes]
                     \/ task = [Task(todo) EXCEPT !.clears = yes, !.joins = no]
    PROVE  /\ task \in TaskSet
           /\ task.todo = todo /\ task.rows = {} /\ task.at = 0
           /\ task.got = "nothing"
<1>1. Idle \in TaskSet
    BY EmptySeq DEF Idle, TaskSet
<1>2. Task(todo) \in TaskSet
    BY <1>1 DEF Task, TaskSet
<1>3. /\ Task(todo).todo = todo /\ Task(todo).rows = {} /\ Task(todo).at = 0
      /\ Task(todo).got = "nothing"
    BY DEF Task, Idle
<1>. QED
    BY <1>2, <1>3 DEF TaskSet

LEMMA IdleTask ==
    /\ Idle \in TaskSet
    /\ Idle.todo = <<>> /\ Idle.rows = {} /\ Idle.at = 0 /\ Idle.got = "nothing"
    BY EmptySeq DEF Idle, TaskSet

\* The step that a task is at, and those after it.
LEMMA NowOf ==
    ASSUME TasksTyped, NEW t \in Tasks, Busy(t)
    PROVE  LET todo == tasks[t].todo IN
           /\ todo \in Seq(StepSet) /\ Len(todo) \in Nat \ {0}
           /\ DOMAIN todo = 1..Len(todo)
           /\ Now(t) \in StepSet /\ Now(t) = todo[1]
           /\ Tail(todo) \in Seq(StepSet) /\ Len(Tail(todo)) = Len(todo) - 1
           /\ \A i \in 1..Len(Tail(todo)) : Tail(todo)[i] = todo[i + 1]
           /\ \A i \in 1..Len(todo) : todo[i] \in StepSet
<1>1. tasks[t].todo \in Seq(StepSet) /\ tasks[t].todo # <<>>
    BY TaskFields DEF TasksTyped, Busy
<1>2. \A i \in 1..Len(tasks[t].todo) : tasks[t].todo[i] \in StepSet
    BY <1>1, ElementOfSeq
<1>3. Len(tasks[t].todo) \in Nat \ {0} /\ DOMAIN tasks[t].todo = 1..Len(tasks[t].todo)
    BY <1>1, EmptySeq, LenProperties
<1>4. Now(t) = tasks[t].todo[1]
    BY <1>1, <1>3 DEF Now
<1>. QED
    BY <1>1, <1>2, <1>3, <1>4, HeadTailProperties

\* A part of a sequence.
LEMMA Part ==
    ASSUME NEW S, NEW s \in Seq(S), NEW m \in Nat \ {0}, NEW n \in Nat,
           m <= n + 1, n <= Len(s)
    PROVE  /\ SubSeq(s, m, n) \in Seq(S) /\ Len(SubSeq(s, m, n)) = n - m + 1
           /\ \A i \in 1..(n - m + 1) : SubSeq(s, m, n)[i] = s[m + i - 1]
<1>1. Len(s) \in Nat /\ \A i \in m..n : i \in 1..Len(s)
    BY LenProperties
<1>2. \A i \in m..n : s[i] \in S
    BY <1>1, ElementOfSeq
<1>3. m \in Int /\ n \in Int
    OBVIOUS
<1>4. /\ SubSeq(s, m, n) \in Seq(S)
      /\ Len(SubSeq(s, m, n)) = IF m <= n THEN n - m + 1 ELSE 0
      /\ \A i \in 1..(n - m + 1) : SubSeq(s, m, n)[i] = s[m + i - 1]
    BY <1>2, <1>3, SubSeqProperties
<1>. QED
    BY <1>4

\* What may be left of a task after a failure are steps that it still had.
LEMMA LeftOf ==
    ASSUME TasksTyped, NEW t \in Tasks, Busy(t), NEW rest \in Left(t)
    PROVE  /\ rest \in Seq(StepSet)
           /\ Len(rest) <= Len(Tail(tasks[t].todo))
           /\ \A i \in DOMAIN rest : \E j \in 1..Len(Tail(tasks[t].todo)) :
                 rest[i] = Tail(tasks[t].todo)[j]
<1> DEFINE tail == Tail(tasks[t].todo)
<1> DEFINE loads(n) == SubSeq(tail, n + 1, Len(tail))
<1> DEFINE calls(n) == SubSeq(tail, 1, n)
<1>1. tail \in Seq(StepSet) /\ Len(tail) \in Nat
      /\ \A i \in 1..Len(tail) : tail[i] \in StepSet
    BY NowOf, LenProperties, ElementOfSeq
<1>2. \/ rest = <<>> \/ rest = tail
      \/ \E n \in 0..Len(tail) : rest = loads(n) \/ rest = loads(n) \o calls(n)
    <2>1. tasks[t].fails \in {"stops", "loads", "all"}
        BY DEF TasksTyped, TaskSet
    <2>. QED
        BY <2>1 DEF Left
<1>. HIDE DEF tail
<1>3. ASSUME NEW n \in 0..Len(tail)
      PROVE  /\ loads(n) \in Seq(StepSet) /\ Len(loads(n)) = Len(tail) - n
             /\ \A i \in 1..(Len(tail) - n) : loads(n)[i] = tail[n + i]
             /\ calls(n) \in Seq(StepSet) /\ Len(calls(n)) = n
             /\ \A i \in 1..n : calls(n)[i] = tail[i]
    <2>1. n + 1 \in Int /\ Len(tail) \in Int /\ n \in Nat /\ 1 \in Int
        BY <1>1, <1>3
    <2>2. n + 1 \in Nat \ {0} /\ n + 1 <= Len(tail) + 1 /\ Len(tail) <= Len(tail)
          /\ 1 \in Nat \ {0} /\ 1 <= n + 1 /\ n <= Len(tail)
        BY <1>1, <1>3
    <2>3. /\ loads(n) \in Seq(StepSet)
          /\ Len(loads(n)) = Len(tail) - (n + 1) + 1
          /\ \A i \in 1..(Len(tail) - (n + 1) + 1) : loads(n)[i] = tail[(n + 1) + i - 1]
        BY <1>1, <2>1, <2>2, Part
    <2>4. /\ calls(n) \in Seq(StepSet)
          /\ Len(calls(n)) = n - 1 + 1
          /\ \A i \in 1..(n - 1 + 1) : calls(n)[i] = tail[1 + i - 1]
        BY <1>1, <2>1, <2>2, Part
    <2>. HIDE DEF loads, calls
    <2>. QED
        BY <2>1, <2>3, <2>4, <1>3, <1>1
<1>. HIDE DEF loads, calls
<1>4. CASE rest = <<>>
    BY <1>1, <1>4, EmptySeq
<1>5. CASE rest = tail
    BY <1>1, <1>5, LenProperties DEF tail
<1>6. ASSUME NEW n \in 0..Len(tail), rest = loads(n)
      PROVE  /\ rest \in Seq(StepSet) /\ Len(rest) <= Len(tail)
             /\ \A i \in DOMAIN rest : \E j \in 1..Len(tail) : rest[i] = tail[j]
    <2>1. DOMAIN rest = 1..(Len(tail) - n) /\ n \in Nat
        BY <1>3, <1>6, LenProperties
    <2>2. \A i \in 1..(Len(tail) - n) : n + i \in 1..Len(tail)
        BY <1>1, <2>1
    <2>3. /\ rest \in Seq(StepSet) /\ Len(rest) = Len(tail) - n
          /\ \A i \in 1..(Len(tail) - n) : rest[i] = tail[n + i]
        BY <1>3, <1>6
    <2>. QED
        BY <1>1, <2>1, <2>2, <2>3
<1>7. ASSUME NEW n \in 0..Len(tail), rest = loads(n) \o calls(n)
      PROVE  /\ rest \in Seq(StepSet) /\ Len(rest) <= Len(tail)
             /\ \A i \in DOMAIN rest : \E j \in 1..Len(tail) : rest[i] = tail[j]
    <2>0. /\ loads(n) \in Seq(StepSet) /\ calls(n) \in Seq(StepSet)
          /\ Len(loads(n)) = Len(tail) - n /\ Len(calls(n)) = n /\ n \in Nat
        BY <1>3, <1>7
    <2>1. /\ rest \in Seq(StepSet) /\ Len(rest) = Len(tail)
          /\ \A i \in 1..Len(tail) :
                rest[i] = IF i <= Len(tail) - n THEN loads(n)[i]
                          ELSE calls(n)[i - (Len(tail) - n)]
        <3>1. PICK a \in Seq(StepSet) : a = loads(n)
            BY <2>0
        <3>2. PICK b \in Seq(StepSet) : b = calls(n)
            BY <2>0
        <3>3. rest = a \o b
            BY <1>7, <3>1, <3>2
        <3>4. /\ rest \in Seq(StepSet) /\ Len(rest) = Len(a) + Len(b)
              /\ \A i \in 1..(Len(a) + Len(b)) :
                    rest[i] = IF i <= Len(a) THEN a[i] ELSE b[i - Len(a)]
            BY <3>3, ConcatProperties
        <3>5. Len(a) = Len(tail) - n /\ Len(b) = n /\ Len(a) + Len(b) = Len(tail)
            BY <2>0, <1>1, <3>1, <3>2
        <3>. QED
            BY <3>1, <3>2, <3>4, <3>5
    <2>2. DOMAIN rest = 1..Len(tail)
        BY <2>1, LenProperties
    <2>3. ASSUME NEW i \in 1..Len(tail) PROVE \E j \in 1..Len(tail) : rest[i] = tail[j]
        <3>1. CASE i <= Len(tail) - n
            <4>1. i \in 1..(Len(tail) - n) /\ n + i \in 1..Len(tail)
                BY <3>1, <2>0, <1>1
            <4>. QED
                BY <4>1, <3>1, <2>1, <1>3
        <3>2. CASE ~(i <= Len(tail) - n)
            <4>1. i - (Len(tail) - n) \in 1..n /\ i - (Len(tail) - n) \in 1..Len(tail)
                BY <3>2, <2>0, <1>1
            <4>. QED
                BY <4>1, <3>2, <2>1, <1>3
        <3>. QED
            BY <3>1, <3>2
    <2>. QED
        BY <2>1, <2>2, <2>3, <1>1
<1>. QED
    BY <1>2, <1>4, <1>5, <1>6, <1>7 DEF tail

\* A task that goes on: it has the rest still to do, and nothing loaded; the
\* others keep all but what they share of a drop.
GoesOn(t, rest) ==
    /\ TasksTyped'
    /\ tasks'[t].todo = rest /\ tasks'[t].rows = {}
    /\ tasks'[t].at = 0 /\ tasks'[t].got = "nothing"
    /\ \A u \in Tasks \ {t} :
          /\ tasks'[u].todo = tasks[u].todo
          /\ tasks'[u].rows = tasks[u].rows
          /\ tasks'[u].at = tasks[u].at
          /\ tasks'[u].got = tasks[u].got
SelectionEnds == \/ selected' = {} /\ picked' = {}
                 \/ selected' = selected /\ picked' = picked

LEMMA Continued ==
    ASSUME TasksTyped, NEW t \in Tasks, NEW rest \in Seq(StepSet),
           NEW failed \in BOOLEAN, Continues(t, rest, failed)
    PROVE  GoesOn(t, rest) /\ SelectionEnds
<1> DEFINE apart == [u \in Tasks |-> IF tasks[u].joins
                                     THEN [tasks[u] EXCEPT !.clears = FALSE,
                                                           !.joins = FALSE]
                                     ELSE tasks[u]]
<1> DEFINE next == IF rest = <<>> THEN Idle
                   ELSE [tasks[t] EXCEPT !.todo = rest, !.rows = {},
                                         !.at = 0, !.got = "nothing"]
<1>1. \/ tasks' = [tasks EXCEPT ![t] = next]
      \/ tasks' = [apart EXCEPT ![t] = next]
    BY DEF Continues
<1>2. next \in TaskSet /\ next.todo = rest /\ next.rows = {} /\ next.at = 0
      /\ next.got = "nothing"
    <2>1. tasks[t] \in TaskSet
        BY DEF TasksTyped
    <2>. QED
        BY <2>1, IdleTask DEF TaskSet
<1>3. \A u \in Tasks : /\ apart[u] \in TaskSet
                        /\ apart[u].todo = tasks[u].todo
                        /\ apart[u].rows = tasks[u].rows
                        /\ apart[u].at = tasks[u].at
                        /\ apart[u].got = tasks[u].got
    BY DEF TasksTyped, TaskSet
<1>4. DOMAIN apart = Tasks /\ tasks \in [Tasks -> TaskSet]
    BY DEF TasksTyped
<1>5. apart = [u \in Tasks |-> apart[u]]
    OBVIOUS
<1>6. SelectionEnds
    BY DEF Continues, SelectionEnds
<1>. HIDE DEF apart, next
<1>7. CASE tasks' = [tasks EXCEPT ![t] = next]
    BY <1>2, <1>4, <1>6, <1>7 DEF TasksTyped, GoesOn
<1>8. CASE tasks' = [apart EXCEPT ![t] = next]
    <2>1. apart \in [Tasks -> TaskSet]
        BY <1>3, <1>5
    <2>. QED
        BY <1>2, <1>3, <1>6, <1>8, <2>1 DEF TasksTyped, GoesOn
<1>. QED
    BY <1>1, <1>7, <1>8

(***************************************************************************)
(* What the user's methods have to do                                      *)
(***************************************************************************)

\* The steps after which a method loads the tree.
Changing == {"trashFile", "trashFiles", "trashFolder", "trashFolders",
             "restoreFile", "restoreFolder", "renameFile", "moveFile",
             "moveFolder", "create", "twinTrash", "twinRename", "twinRestore"}
Reloads(todo) ==
    \A i \in DOMAIN todo : todo[i].do \in Changing =>
        \E j \in DOMAIN todo : i < j /\ todo[j].do = "tree"

\* Pins, their first load and the names after an unlock are not for methods
\* that act on items.
PinSteps == {"pin", "unpin", "kept"}
Apart == PinSteps \cup {"pins", "names"}
Common(todo) == \A i \in DOMAIN todo : todo[i].do \notin Apart
Plan(todo) == todo \in Seq(StepSet) /\ todo # <<>> /\ Common(todo) /\ Reloads(todo)

LEMMA LoadTypes ==
    /\ \A what \in Loads : Load(what) \in StepSet /\ Load(what).do = what
    /\ Tree \in Seq(StepSet) /\ Len(Tree) = 1 /\ Tree[1] = Load("tree")
    /\ Trash \in Seq(StepSet) /\ Len(Trash) = 1 /\ Trash[1] = Load("trash")
<1>1. \A what \in Loads : Load(what) \in StepSet /\ Load(what).do = what
    BY DEF Load, Step, StepSet, Plain
<1>. QED
    BY <1>1 DEF Loads, Tree, Trash

\* Requests of which the trees, or the trash, are loaded afterwards.
LEMMA PlanLoads ==
    ASSUME NEW calls \in Seq(StepSet), Common(calls)
    PROVE  /\ Plan(calls \o Tree)
           /\ calls \o Trash \in Seq(StepSet) /\ Common(calls \o Trash)
           /\ (\A i \in DOMAIN calls : calls[i].do \notin Changing)
              => Plan(calls \o Trash)
<1>0. Len(calls) \in Nat /\ DOMAIN calls = 1..Len(calls)
    BY LenProperties
<1>1. ASSUME NEW last \in Seq(StepSet), Len(last) = 1, last[1].do \in {"tree", "trash"}
      PROVE  /\ calls \o last \in Seq(StepSet) /\ calls \o last # <<>>
             /\ DOMAIN (calls \o last) = 1..(Len(calls) + 1)
             /\ \A i \in 1..Len(calls) : (calls \o last)[i] = calls[i]
             /\ (calls \o last)[Len(calls) + 1] = last[1]
             /\ Common(calls \o last)
    <2>1. /\ calls \o last \in Seq(StepSet) /\ Len(calls \o last) = Len(calls) + 1
          /\ \A i \in 1..(Len(calls) + 1) : (calls \o last)[i] =
                 IF i <= Len(calls) THEN calls[i] ELSE last[i - Len(calls)]
        BY <1>1, ConcatProperties
    <2>2. DOMAIN (calls \o last) = 1..(Len(calls) + 1) /\ calls \o last # <<>>
        BY <2>1, <1>0, LenProperties, EmptySeq
    <2>3. \A i \in 1..Len(calls) : (calls \o last)[i] = calls[i]
        BY <2>1, <1>0
    <2>4. (calls \o last)[Len(calls) + 1] = last[1]
        BY <2>1, <1>0
    <2>5. \A i \in 1..(Len(calls) + 1) : i \in 1..Len(calls) \/ i = Len(calls) + 1
        BY <1>0
    <2>6. Common(calls \o last)
        BY <2>2, <2>3, <2>4, <2>5, <1>0, <1>1 DEF Common, Apart, PinSteps
    <2>. QED
        BY <2>1, <2>2, <2>3, <2>4, <2>6
<1>2. Tree[1].do = "tree" /\ Trash[1].do = "trash"
    BY LoadTypes DEF Loads
<1>3. Plan(calls \o Tree)
    <2>1. Reloads(calls \o Tree)
        <3>1. PICK work : work = calls \o Tree
            OBVIOUS
        <3>2. /\ DOMAIN work = 1..(Len(calls) + 1)
              /\ work[Len(calls) + 1].do = "tree"
            BY <1>1, <1>2, <3>1, LoadTypes
        <3>3. \A i \in DOMAIN work : i = Len(calls) + 1 \/ i < Len(calls) + 1
            BY <1>0, <3>2
        <3>4. Len(calls) + 1 \in DOMAIN work
            BY <1>0, <3>2
        <3>5. "tree" \notin Changing
            BY DEF Changing
        <3>. QED
            BY <3>1, <3>2, <3>3, <3>4, <3>5 DEF Reloads
    <2>. QED
        BY <1>1, <1>2, <2>1, LoadTypes DEF Plan
<1>4. calls \o Trash \in Seq(StepSet) /\ Common(calls \o Trash)
    BY <1>1, <1>2, LoadTypes
<1>5. ASSUME \A i \in DOMAIN calls : calls[i].do \notin Changing
      PROVE  Plan(calls \o Trash)
    <2>1. \A i \in 1..(Len(calls) + 1) : i \in 1..Len(calls) \/ i = Len(calls) + 1
        BY <1>0
    <2>2. Reloads(calls \o Trash)
        BY <1>0, <1>1, <1>2, <1>5, <2>1, LoadTypes DEF Reloads, Changing
    <2>. QED
        BY <1>1, <1>2, <2>2, LoadTypes DEF Plan
<1>. QED
    BY <1>3, <1>4, <1>5

LEMMA CallTypes ==
    /\ \A f \in FileIds : \A do \in {"trashFile", "restoreFile", "purgeFile"} :
          Call(do, f, Absent) \in FileCalls
    /\ \A d \in Folders : \A do \in {"trashFolder", "restoreFolder",
                 "purgeFolder", "renameFolder", "pin", "unpin"} :
          Call(do, d, Absent) \in FolderCalls
    /\ \A f \in FileIds, n \in FileNames : Call("renameFile", f, n) \in Renames
    /\ \A f \in FileIds, d \in Places : Call("moveFile", f, d) \in FileMoves
    /\ \A e \in Folders, d \in Places : Call("moveFolder", e, d) \in FolderMoves
    /\ \A d \in Folders, w \in {Absent, Root} : Call("kept", d, w) \in Keeping
    BY DEF Call, Step, FileCalls, FolderCalls, Renames, FileMoves, FolderMoves,
           Keeping

LEMMA RowCases ==
    ASSUME NEW row \in Row
    PROVE  /\ row.is \in {"file", "folder"}
           /\ row.is = "file" => row \in FileRows /\ row.key \in FileIds
           /\ row.is # "file" => row \in FolderRows /\ row.key \in Folders
           /\ row.is = "folder" <=> row.is # "file"
           /\ row.up \in Places /\ row.named \in BOOLEAN
    BY RowKinds DEF FileRows, FolderRows

\* A call for a video and then the one for its proxy.
LEMMA TwinTypes ==
    ASSUME NEW row \in FileRows, NEW twin \in TwinSteps, NEW c \in FileCalls \cup Renames,
           c.do = TwinDo[twin]
    PROVE  Twin(twin, row, c) \in Twins
    BY DEF Twin, Step, Twins, FileRows

LEMMA OneOrTwo ==
    /\ \A a \in StepSet : <<a>> \in Seq(StepSet) /\ DOMAIN <<a>> = {1} /\ <<a>>[1] = a
    /\ \A a, b \in StepSet : /\ <<a, b>> \in Seq(StepSet) /\ DOMAIN <<a, b>> = {1, 2}
                             /\ <<a, b>>[1] = a /\ <<a, b>>[2] = b
    OBVIOUS

LEMMA ItemPlans ==
    ASSUME NEW row \in Row
    PROVE  /\ Plan(TrashItem(row)) /\ Plan(PermanentDeleteItem(row))
           /\ Plan(RestoreItem(row))
           /\ \A b \in Bases : Plan(RenameItem(row, b))
           /\ \A d \in Places : Plan(MoveItem(row, d))
<1>1. CASE row.is # "file"
    <2>0. row.key \in Folders /\ row.is = "folder"
        BY <1>1, RowCases
    <2>1. ASSUME NEW c \in StepSet, c.do \notin Apart
          PROVE  /\ Plan(<<c>> \o Tree) /\ Plan(<<c>> \o Trash \o Tree)
                 /\ c.do \notin Changing => Plan(<<c>> \o Trash)
        <3>1. <<c>> \in Seq(StepSet) /\ Common(<<c>>)
            BY <2>1, OneOrTwo DEF Common
        <3>2. c.do \notin Changing => \A i \in DOMAIN <<c>> : <<c>>[i].do \notin Changing
            BY <2>1, OneOrTwo
        <3>. QED
            BY <3>1, <3>2, PlanLoads
    <2>2. \A do \in {"trashFolder", "restoreFolder", "purgeFolder", "renameFolder"} :
             /\ Call(do, row.key, Absent) \in StepSet
             /\ Call(do, row.key, Absent).do = do /\ do \notin Apart
        BY <2>0, CallTypes DEF StepSet, Call, Step, Apart, PinSteps
    <2>3. \A d \in Places : /\ Call("moveFolder", row.key, d) \in StepSet
                            /\ Call("moveFolder", row.key, d).do = "moveFolder"
                            /\ "moveFolder" \notin Apart
        BY <2>0, CallTypes DEF StepSet, Call, Step, Apart, PinSteps
    <2>4. "purgeFolder" \notin Changing
        BY DEF Changing
    <2>. QED
        BY <2>0, <2>1, <2>2, <2>3, <2>4 DEF TrashItem, PermanentDeleteItem,
           RestoreItem, RenameItem, MoveItem
<1>2. CASE row.is = "file"
    <2>0. row \in FileRows /\ row.key \in FileIds
        BY <1>2, RowCases
    <2>1. ASSUME NEW c \in StepSet, c.do \notin Apart, NEW e \in StepSet, e.do \notin Apart
          PROVE  /\ Plan(<<c, e>> \o Tree) /\ Plan(<<c, e>> \o Trash \o Tree)
                 /\ c.do \notin Changing /\ e.do \notin Changing => Plan(<<c, e>> \o Trash)
        <3>1. <<c, e>> \in Seq(StepSet) /\ Common(<<c, e>>)
            BY <2>1, OneOrTwo DEF Common
        <3>2. c.do \notin Changing /\ e.do \notin Changing =>
                \A i \in DOMAIN <<c, e>> : <<c, e>>[i].do \notin Changing
            BY <2>1, OneOrTwo
        <3>. QED
            BY <3>1, <3>2, PlanLoads
    <2>2. ASSUME NEW twin \in TwinSteps, NEW c \in FileCalls \cup Renames,
                 NEW e \in FileCalls \cup Renames, c.do = TwinDo[twin], e.do = TwinDo[twin]
          PROVE  /\ c \in StepSet /\ c.do \notin Apart
                 /\ Twin(twin, row, e) \in StepSet /\ Twin(twin, row, e).do = twin
                 /\ twin \notin Apart
                 /\ twin = "twinPurge" => twin \notin Changing /\ c.do \notin Changing
        BY <2>0, <2>2, TwinTypes DEF StepSet, Twin, Step, TwinSteps, Apart, PinSteps, TwinDo,
           Changing
    <2>3. ASSUME NEW twin \in {"twinTrash", "twinRestore", "twinPurge"}
          PROVE  /\ TwinDo[twin] \in {"trashFile", "restoreFile", "purgeFile"}
                 /\ twin \in TwinSteps
                 /\ Call(TwinDo[twin], row.key, Absent) \in FileCalls
                 /\ Call(TwinDo[twin], row.key, Absent).do = TwinDo[twin]
        <3>1. TwinDo[twin] \in {"trashFile", "restoreFile", "purgeFile"} /\ twin \in TwinSteps
            BY DEF TwinDo, TwinSteps
        <3>. QED
            BY <3>1, <2>0, CallTypes DEF Call, Step
    <2>4. /\ TwinDo["twinTrash"] = "trashFile" /\ TwinDo["twinRestore"] = "restoreFile"
          /\ TwinDo["twinPurge"] = "purgeFile" /\ TwinDo["twinRename"] = "renameFile"
        BY DEF TwinDo
    <2>5. Plan(TrashItem(row)) /\ Plan(PermanentDeleteItem(row)) /\ Plan(RestoreItem(row))
        <3>1. /\ Plan(<<Call("trashFile", row.key, Absent),
                        Twin("twinTrash", row, Call("trashFile", row.key, Absent))>> \o Tree)
            BY <2>1, <2>2, <2>3, <2>4
        <3>2. /\ Plan(<<Call("purgeFile", row.key, Absent),
                        Twin("twinPurge", row, Call("purgeFile", row.key, Absent))>> \o Trash)
            BY <2>1, <2>2, <2>3, <2>4
        <3>3. /\ Plan(<<Call("restoreFile", row.key, Absent),
                        Twin("twinRestore", row, Call("restoreFile", row.key, Absent))>>
                      \o Trash \o Tree)
            BY <2>1, <2>2, <2>3, <2>4
        <3>. QED
            BY <1>2, <3>1, <3>2, <3>3 DEF TrashItem, PermanentDeleteItem, RestoreItem
    <2>6. ASSUME NEW b \in Bases PROVE Plan(RenameItem(row, b))
        <3>1. \A form \in {"own", "proxy"} :
                /\ Call("renameFile", row.key, [base |-> b, form |-> form]) \in Renames
                /\ Call("renameFile", row.key, [base |-> b, form |-> form]).do = "renameFile"
            BY <2>0, CallTypes DEF FileNames, Call, Step
        <3>2. "twinRename" \in TwinSteps
            BY DEF TwinSteps
        <3>3. Plan(<<Call("renameFile", row.key, [base |-> b, form |-> "own"]),
                     Twin("twinRename", row, Call("renameFile", row.key,
                          [base |-> b, form |-> "proxy"]))>> \o Tree)
            BY <2>1, <2>2, <2>4, <3>1, <3>2
        <3>. QED
            BY <1>2, <3>3 DEF RenameItem
    <2>7. ASSUME NEW d \in Places PROVE Plan(MoveItem(row, d))
        <3>1. /\ Call("moveFile", row.key, d) \in StepSet
              /\ Call("moveFile", row.key, d).do \notin Apart
            BY <2>0, CallTypes DEF StepSet, Call, Step, Apart, PinSteps
        <3>2. <<Call("moveFile", row.key, d)>> \in Seq(StepSet)
              /\ Common(<<Call("moveFile", row.key, d)>>)
            BY <3>1, OneOrTwo DEF Common
        <3>. QED
            BY <1>2, <3>2, PlanLoads DEF MoveItem
    <2>. QED
        BY <2>5, <2>6, <2>7
<1>. QED
    BY <1>1, <1>2

LEMMA FiniteRows == IsFiniteSet(Row)
<1> DEFINE Keyed == FileIds \cup Folders
<1> DEFINE Fields == (({"file", "folder"} \X Keyed) \X (Places \X BOOLEAN))
                     \X ((Bases \X {"own", "proxy", "legacy"}) \cup {Absent})
<1> DEFINE entry == [r \in Row |->
                      << << <<r.is, r.key>>, <<r.up, r.named>> >>,
                         IF r.is = "file" THEN <<r.name.base, r.name.form>> ELSE Absent >>]
<1>1. IsFiniteSet({"file", "folder"}) /\ IsFiniteSet(Keyed) /\ IsFiniteSet(Places)
      /\ IsFiniteSet(BOOLEAN) /\ IsFiniteSet({"own", "proxy", "legacy"})
    <2>0. \A a, b, c : IsFiniteSet({a, b}) /\ IsFiniteSet({a, b, c})
        <3>. TAKE a, b, c
        <3>1. {a, b} = {a} \cup {b} /\ {a, b, c} = {a, b} \cup {c}
            OBVIOUS
        <3>2. IsFiniteSet({a})
            BY FS_Singleton
        <3>3. IsFiniteSet({a} \cup {b})
            BY <3>2, FS_AddElement
        <3>4. IsFiniteSet({a, b} \cup {c})
            BY <3>1, <3>3, FS_AddElement
        <3>. QED
            BY <3>1, <3>3, <3>4
    <2>1. IsFiniteSet({"file", "folder"}) /\ IsFiniteSet({TRUE, FALSE})
        BY <2>0
    <2>2. BOOLEAN = {TRUE, FALSE}
        OBVIOUS
    <2>3. IsFiniteSet({"own", "proxy", "legacy"})
        BY <2>0
    <2>. QED
        BY <2>1, <2>2, <2>3, DriveViewAssumption, FS_Union, FS_AddElement DEF Places
<1>. HIDE DEF Keyed
<1>2. IsFiniteSet(Fields)
    <2>1. IsFiniteSet(({"file", "folder"} \X Keyed) \X (Places \X BOOLEAN))
        BY <1>1, FS_Product
    <2>2. IsFiniteSet((Bases \X {"own", "proxy", "legacy"}) \cup {Absent})
        BY <1>1, DriveViewAssumption, FS_Product, FS_AddElement
    <2>. QED
        BY <2>1, <2>2, FS_Product
<1>3. entry \in [Row -> Fields]
    <2>1. ASSUME NEW r \in Row PROVE entry[r] \in Fields
        <3>1. CASE r.is = "file"
            <4>1. r \in FileRows /\ r.name \in FileNames
                BY <3>1, RowCases DEF FileRows
            <4>. QED
                BY <3>1, <4>1, RowCases DEF FileRows, FileNames, Keyed
        <3>2. CASE r.is # "file"
            BY <3>2, RowCases DEF FolderRows, Keyed
        <3>. QED
            BY <3>1, <3>2
    <2>. QED
        BY <2>1
<1>4. ASSUME NEW r \in Row, NEW s \in Row, entry[r] = entry[s] PROVE r = s
    <2>1. r.is = s.is /\ r.key = s.key /\ r.up = s.up /\ r.named = s.named
        BY <1>4
    <2>2. CASE r.is = "file"
        <3>1. r \in FileRows /\ s \in FileRows
            BY <2>1, <2>2, RowCases
        <3>2. r.name.base = s.name.base /\ r.name.form = s.name.form
            BY <1>4, <2>1, <2>2
        <3>. QED
            BY <2>1, <3>1, <3>2 DEF FileRows, FileNames
    <2>3. CASE r.is # "file"
        <3>1. r \in FolderRows /\ s \in FolderRows
            BY <2>1, <2>3, RowCases
        <3>. QED
            BY <2>1, <3>1 DEF FolderRows
    <2>. QED
        BY <2>2, <2>3
<1>. HIDE DEF entry, Fields
<1>5. entry \in Injection(Row, Fields)
    BY <1>3, <1>4 DEF Injection, IsInjective
<1>. QED
    BY <1>2, <1>5, FS_Injection

\* The requests of a batch.
LEMMA BatchTypes ==
    /\ \A rows \in SUBSET FileRows : \A do \in {"trashFiles", "purgeFiles"} :
          /\ Batch(do, rows) \in Seq(StepSet) /\ Common(Batch(do, rows))
          /\ \A i \in DOMAIN Batch(do, rows) : Batch(do, rows)[i].do = do
    /\ \A rows \in SUBSET FolderRows : \A do \in {"trashFolders", "purgeFolders"} :
          /\ Batch(do, rows) \in Seq(StepSet) /\ Common(Batch(do, rows))
          /\ \A i \in DOMAIN Batch(do, rows) : Batch(do, rows)[i].do = do
<1>1. ASSUME NEW rows, NEW do, do \notin Apart, Step(do, Keys(rows), Absent) \in StepSet
      PROVE  /\ Batch(do, rows) \in Seq(StepSet) /\ Common(Batch(do, rows))
             /\ \A i \in DOMAIN Batch(do, rows) : Batch(do, rows)[i].do = do
    BY <1>1, OneOrTwo, EmptySeq DEF Batch, Common, Step
<1>2. ASSUME NEW rows \in SUBSET FileRows, NEW do \in {"trashFiles", "purgeFiles"}
      PROVE  do \notin Apart /\ Step(do, Keys(rows), Absent) \in StepSet
    BY DEF Step, StepSet, FileCalls, Keys, FileRows, Apart, PinSteps
<1>3. ASSUME NEW rows \in SUBSET FolderRows, NEW do \in {"trashFolders", "purgeFolders"}
      PROVE  do \notin Apart /\ Step(do, Keys(rows), Absent) \in StepSet
    BY DEF Step, StepSet, FolderCalls, Keys, FolderRows, Apart, PinSteps
<1>. QED
    BY <1>1, <1>2, <1>3

\* A task as it is begun.
Asked(task) ==
    /\ task \in TaskSet /\ task.rows = {} /\ task.at = 0 /\ task.got = "nothing"

LEMMA AskedTasks ==
    ASSUME NEW todo \in Seq(StepSet)
    PROVE  /\ Asked(Task(todo)) /\ Task(todo).todo = todo
           /\ \A how \in {"stops", "loads", "all"} :
                 LET task == [Task(todo) EXCEPT !.fails = how, !.clears = TRUE]
                 IN  Asked(task) /\ task.todo = todo
           /\ LET task == [Task(todo) EXCEPT !.clears = TRUE, !.joins = TRUE]
              IN  Asked(task) /\ task.todo = todo
<1>1. Asked(Task(todo)) /\ Task(todo).todo = todo
    <2>1. Task(todo) \in TaskSet
        BY IdleTask DEF Task, TaskSet
    <2>2. Task(todo).todo = todo
        BY DEF Task, Idle
    <2>3. Task(todo).rows = {} /\ Task(todo).at = 0 /\ Task(todo).got = "nothing"
        BY DEF Task, Idle
    <2>. QED
        BY <2>1, <2>2, <2>3 DEF Asked
<1>. QED
    BY <1>1 DEF Asked, TaskSet

\* Two sequences of requests, one after the other.
LEMMA Joined ==
    ASSUME NEW a \in Seq(StepSet), NEW b \in Seq(StepSet)
    PROVE  /\ a \o b \in Seq(StepSet)
           /\ \A i \in DOMAIN (a \o b) :
                 \/ \E j \in DOMAIN a : (a \o b)[i] = a[j]
                 \/ \E j \in DOMAIN b : (a \o b)[i] = b[j]
<1>1. /\ a \o b \in Seq(StepSet) /\ Len(a \o b) = Len(a) + Len(b)
      /\ \A i \in 1..(Len(a) + Len(b)) :
            (a \o b)[i] = IF i <= Len(a) THEN a[i] ELSE b[i - Len(a)]
    BY ConcatProperties
<1>2. /\ DOMAIN (a \o b) = 1..(Len(a) + Len(b)) /\ Len(a) \in Nat /\ Len(b) \in Nat
      /\ DOMAIN a = 1..Len(a) /\ DOMAIN b = 1..Len(b)
    BY <1>1, LenProperties
<1>3. ASSUME NEW i \in 1..(Len(a) + Len(b))
      PROVE  \/ \E j \in DOMAIN a : (a \o b)[i] = a[j]
             \/ \E j \in DOMAIN b : (a \o b)[i] = b[j]
    <2>1. CASE i <= Len(a)
        BY <1>1, <1>2, <1>3, <2>1
    <2>2. CASE ~(i <= Len(a))
        <3>1. i - Len(a) \in 1..Len(b)
            BY <1>2, <1>3, <2>2
        <3>. QED
            BY <1>1, <1>2, <1>3, <2>2, <3>1
    <2>. QED
        BY <2>1, <2>2
<1>. QED
    BY <1>1, <1>2, <1>3

LEMMA KindsOfRows ==
    ASSUME NEW rows \in SUBSET Row
    PROVE  /\ FilesOf(rows) \in SUBSET FileRows
           /\ FoldersOf(rows) \in SUBSET FolderRows
           /\ \A r \in rows : \A forms : Proxies(r, rows, forms) \in SUBSET rows
           /\ \A r, forms : Proxies(r, rows, forms) \in SUBSET FileRows
    BY RowCases DEF FilesOf, FoldersOf, Proxies

LEMMA BatchPlans ==
    ASSUME NEW rows \in SUBSET Row, trash.rows \in SUBSET Row
    PROVE  /\ Asked(BatchTrashItems(rows)) /\ Plan(BatchTrashItems(rows).todo)
           /\ Asked(BatchPermanentDeleteItems(rows))
           /\ Plan(BatchPermanentDeleteItems(rows).todo)
<1>1. FilesOf(rows) \in SUBSET FileRows /\ FoldersOf(rows) \in SUBSET FolderRows
    BY KindsOfRows
<1>2. FilesOf(WithProxies(rows)) \in SUBSET FileRows
    <2>0. \A r : Proxies(r, trash.rows, BothForms) \in SUBSET FileRows
        BY KindsOfRows
    <2>1. WithProxies(rows) \in SUBSET Row
        BY <2>0, RowKinds DEF WithProxies
    <2>. QED
        BY <2>1, KindsOfRows
<1>3. ASSUME NEW a \in Seq(StepSet), Common(a), NEW b \in Seq(StepSet), Common(b)
      PROVE  a \o b \in Seq(StepSet) /\ Common(a \o b)
    BY <1>3, Joined DEF Common
<1>4. Plan(BatchTrashItems(rows).todo) /\ Asked(BatchTrashItems(rows))
    <2> DEFINE calls == Batch("trashFiles", FilesOf(rows))
                        \o Batch("trashFolders", FoldersOf(rows))
    <2>1. calls \in Seq(StepSet) /\ Common(calls)
        BY <1>1, <1>3, BatchTypes
    <2>. HIDE DEF calls
    <2>2. Plan(calls \o Tree)
        BY <2>1, PlanLoads
    <2>3. BatchTrashItems(rows) =
             [Task(calls \o Tree) EXCEPT !.fails = "loads", !.clears = TRUE]
        BY DEF BatchTrashItems, calls
    <2>. QED
        BY <2>2, <2>3, AskedTasks DEF Plan
<1>5. Plan(BatchPermanentDeleteItems(rows).todo) /\ Asked(BatchPermanentDeleteItems(rows))
    <2> DEFINE a == Batch("purgeFiles", FilesOf(WithProxies(rows)))
    <2> DEFINE b == Batch("purgeFolders", FoldersOf(rows))
    <2>1. /\ a \in Seq(StepSet) /\ Common(a) /\ \A i \in DOMAIN a : a[i].do = "purgeFiles"
          /\ b \in Seq(StepSet) /\ Common(b) /\ \A i \in DOMAIN b : b[i].do = "purgeFolders"
        BY <1>1, <1>2, BatchTypes
    <2>2. BatchPermanentDeleteItems(rows) =
             [Task(a \o b \o Trash) EXCEPT !.fails = "loads", !.clears = TRUE]
        BY DEF BatchPermanentDeleteItems
    <2>. HIDE DEF a, b
    <2>3. /\ a \o b \in Seq(StepSet) /\ Common(a \o b)
          /\ \A i \in DOMAIN (a \o b) : (a \o b)[i].do \notin Changing
        BY <2>1, <1>3, Joined DEF Changing
    <2>4. Plan(a \o b \o Trash)
        BY <2>3, PlanLoads
    <2>. QED
        BY <2>2, <2>4, AskedTasks DEF Plan
<1>. QED
    BY <1>4, <1>5

LEMMA RestorePlans ==
    ASSUME NEW rows \in SUBSET Row, trash.rows \in SUBSET Row,
           NEW order \in RestoreOrders(rows)
    PROVE  Asked(BatchRestoreItems(order)) /\ Plan(BatchRestoreItems(order).todo)
<1> DEFINE call(r) == Call(IF r.is = "file" THEN "restoreFile"
                                            ELSE "restoreFolder", r.key, Absent)
<1> DEFINE calls == [i \in DOMAIN order |-> call(order[i][2])]
<1>1. Turns(rows) \in SUBSET (Row \X Row)
    <2>1. \A r : Proxies(r, trash.rows, BothForms) \in SUBSET Row
        BY KindsOfRows, RowKinds
    <2>2. \A turn \in Turns(rows) : \E r, p \in Row : turn = <<r, p>>
        BY <2>1 DEF Turns, FilesOf
    <2>. QED
        BY <2>2
<1>2. IsFiniteSet(Turns(rows))
    BY <1>1, FiniteRows, FS_Product, FS_Subset
<1>3. order \in [1..Cardinality(Turns(rows)) -> Turns(rows)]
    BY DEF RestoreOrders, Orders
<1>4. Cardinality(Turns(rows)) \in Nat
    BY <1>2, FS_CardinalityType
<1>5. \A r \in Row : call(r) \in StepSet /\ call(r).do \notin Apart
    BY RowCases, CallTypes DEF StepSet, Call, Step, Apart, PinSteps
<1>6. \A i \in DOMAIN order : order[i][2] \in Row
    BY <1>1, <1>3
<1>. HIDE DEF call
<1>7. calls \in Seq(StepSet)
    BY <1>3, <1>4, <1>5, <1>6, SeqDef
<1>8. Common(calls)
    BY <1>5, <1>6 DEF Common
<1>9. BatchRestoreItems(order) =
         [Task(calls \o Trash \o Tree) EXCEPT !.fails = "all", !.clears = TRUE]
    BY DEF BatchRestoreItems, call
<1>. HIDE DEF calls
<1>10. Plan(calls \o Trash \o Tree)
    <2>1. calls \o Trash \in Seq(StepSet) /\ Common(calls \o Trash)
        BY <1>7, <1>8, PlanLoads
    <2>. QED
        BY <2>1, PlanLoads
<1>. QED
    BY <1>9, <1>10, AskedTasks DEF Plan

(***************************************************************************)
(* Types                                                                   *)
(***************************************************************************)

Dialogs == [do : {"trash", "purge", "rename", "bulkTrash", "bulkPurge",
                  "empty", "create"}, rows : SUBSET Row]

ServerOK == ServerTyped /\ ServerInv /\ clock \in Nat
CopiesOK == list \in Copy /\ trash \in Copy /\ list.at <= clock
PlaceOK ==
    /\ view \in Views /\ current \in Places
    /\ back \in Seq(Places) /\ forward \in Seq(Places)
    /\ selected \subseteq Nat
ScreenOK ==
    /\ menu \in Nat /\ dialog \in Dialogs \cup {Absent}
    /\ dragged \in SUBSET Row
PinsOK == pinned \subseteq Folders /\ pending \subseteq Folders
ShownOK ==
    /\ locked \in BOOLEAN
    /\ thumbs \subseteq Pictures /\ fetching \subseteq Pictures
    /\ dropInto \in Places \cup {Absent}
    /\ odd \subseteq Reasons
TasksOK ==
    /\ TasksTyped /\ budget \in Nat
    /\ \A t \in Tasks : tasks[t].at <= clock
    /\ \A t \in Tasks : Busy(t) /\ Now(t).do = "pins" =>
                            tasks[t].rows \in SUBSET FolderRows

Typed == /\ ServerOK /\ CopiesOK /\ PlaceOK /\ ScreenOK /\ PinsOK /\ ShownOK
         /\ TasksOK

LEMMA TypedTypes == Typed => TypeOK
    BY TaskFields DEF Typed, TypeOK, ServerOK, ServerTyped, CopiesOK, PlaceOK, ScreenOK,
       PinsOK, ShownOK, TasksOK, TasksTyped, Places

LEMMA ServerKept ==
    ASSUME UNCHANGED server
    PROVE  /\ ServerOK => ServerOK'
           /\ TreeRows' = TreeRows /\ TrashRows' = TrashRows
           /\ clock' = clock /\ pins' = pins /\ folders' = folders /\ files' = files
           /\ UNCHANGED ledger
    BY DEF server, ledger, ServerOK, ServerTyped, ServerInv, LedgerP!FoldersAgree,
       Ledger!TypeOK, Ledger!File, Ledger!Ages, Ledger!Uploads, TreeRows, TrashRows,
       FileRow, FolderRow, Ledger!Live, Ledger!Trashed, Ledger!Rows

\* What the server answers are rows.
LEMMA RowsTyped ==
    ASSUME ServerOK
    PROVE  /\ TreeRows \in SUBSET Row /\ TrashRows \in SUBSET Row
           /\ \A d \in Folders : FolderRow(d) \in Row
           /\ \A r \in TreeRows \cup TrashRows : ~r.named
<1>1. \A f \in FileIds : files[f] # Absent => FileRow(f) \in FileRows /\ ~FileRow(f).named
    BY FileFields DEF ServerOK, ServerTyped, FileRow, FileRows, Places
<1>2. \A d \in Folders : FolderRow(d) \in FolderRows /\ ~FolderRow(d).named
    BY DEF ServerOK, ServerTyped, Ledger!TypeOK, FolderRow, FolderRows, Places
<1>. QED
    BY <1>1, <1>2, RowKinds DEF TreeRows, TrashRows, Ledger!Live, Ledger!Trashed, Ledger!Rows

LEMMA NamedRows ==
    ASSUME NEW rows \in SUBSET Row, NEW yes \in BOOLEAN
    PROVE  /\ Named(rows, yes) \in SUBSET Row
           /\ \A r \in Named(rows, yes) : r.named = yes
           /\ \A no \in BOOLEAN : Named(Named(rows, yes), no) = Named(rows, no)
           /\ (\A r \in rows : r.named = yes) => Named(rows, yes) = rows
<1> DEFINE as(r, b) == [r EXCEPT !.named = b]
<1>1. ASSUME NEW r \in rows
      PROVE  /\ as(r, yes) \in Row /\ as(r, yes).named = yes
             /\ \A c \in BOOLEAN : as(as(r, yes), c) = as(r, c)
             /\ r.named = yes => as(r, yes) = r
    <2>1. r \in Row
        OBVIOUS
    <2>. QED
        BY <2>1, RowKinds DEF FileRows, FolderRows
<1>2. \A S, b : Named(S, b) = {as(r, b) : r \in S}
    BY DEF Named
<1>. HIDE DEF as
<1>3. Named(rows, yes) \in SUBSET Row /\ \A r \in Named(rows, yes) : r.named = yes
    <2>1. \A x \in Named(rows, yes) : \E r \in rows : x = as(r, yes)
        BY <1>2
    <2>2. \A x \in Named(rows, yes) : x \in Row /\ x.named = yes
        <3>1. \A r \in rows : as(r, yes) \in Row /\ as(r, yes).named = yes
            BY <1>1
        <3>. QED
            BY <2>1, <3>1, Zenon
    <2>. QED
        BY <2>2
<1>4. ASSUME NEW no \in BOOLEAN PROVE Named(Named(rows, yes), no) = Named(rows, no)
    <2>1. Named(Named(rows, yes), no) = {as(as(r, yes), no) : r \in rows}
        BY <1>2
    <2>2. Named(rows, no) = {as(r, no) : r \in rows}
        BY <1>2
    <2>3. \A r \in rows : as(as(r, yes), no) = as(r, no)
        BY <1>1, <1>4, Zenon
    <2>4. \A x : (\E r \in rows : x = as(as(r, yes), no)) <=> (\E r \in rows : x = as(r, no))
        BY <2>3, Zenon
    <2>. QED
        BY <2>1, <2>2, <2>4
<1>5. (\A r \in rows : r.named = yes) => Named(rows, yes) = rows
    <2>1. SUFFICES ASSUME \A r \in rows : r.named = yes PROVE Named(rows, yes) = rows
        OBVIOUS
    <2>2. \A r \in rows : as(r, yes) = r
        BY <1>1, <2>1
    <2>. QED
        BY <1>2, <2>2
<1>. QED
    BY <1>3, <1>4, <1>5

\* What is on the screen are rows of the copies.
LEMMA ShownRows ==
    ASSUME CopiesOK, PlaceOK
    PROVE  /\ Shown \in SUBSET Row
           /\ SelectedFiles \in SUBSET Row /\ ActiveMenuFile \in SUBSET Row
           /\ \A d \in Folders : RowOf(d) \in SUBSET FolderRows
           /\ \A d : Above(d) \in Places
<1>1. list.rows \in SUBSET Row /\ trash.rows \in SUBSET Row
    BY DEF CopiesOK, Copy
<1>2. Shown \in SUBSET Row
    BY <1>1 DEF PlaceOK, Views, Shown, CurrentFolderFiles, CurrentTrashFolderFiles,
       CurrentStorageFiles, FilesOf
<1>3. SelectedFiles \in SUBSET Row
    BY <1>1 DEF SelectedFiles
<1>4. ActiveMenuFile \in SUBSET Row
    BY <1>1 DEF ActiveMenuFile, FoldersOf
<1>5. \A d : RowOf(d) \in SUBSET FolderRows
    BY <1>1, KindsOfRows DEF RowOf
<1>6. \A d : Above(d) \in Places
    BY <1>5 DEF Above, FolderRows, Places
<1>. QED
    BY <1>2, <1>3, <1>4, <1>5, <1>6

LEMMA Numbered ==
    /\ \A k \in FileIds \cup Folders : Number[k] \in Nat \ {0}
    /\ \A r \in Row : r.key \in FileIds \cup Folders
    /\ \A rows \in SUBSET Row : /\ Numbers(rows) \subseteq Nat
                                /\ Keys(rows) \subseteq FileIds \cup Folders
<1>1. \A k \in FileIds \cup Folders : Number[k] \in Nat \ {0}
    BY DriveViewAssumption
<1>2. \A r \in Row : r.key \in FileIds \cup Folders
    BY RowKinds DEF FileRows, FolderRows
<1>. QED
    BY <1>1, <1>2 DEF Numbers, Keys

(***************************************************************************)
(* What the user does: the server, the copies and the pins stay, and tasks *)
(* are begun                                                               *)
(***************************************************************************)

TasksBegun ==
    /\ TasksTyped'
    /\ \A t \in Tasks : \/ tasks'[t] = tasks[t]
                        \/ ~Busy(t) /\ Asked(tasks'[t]) /\ Plan(tasks'[t].todo)
UserStep ==
    /\ UNCHANGED <<server, list, trash, locked, pinned, pending>>
    /\ odd \subseteq odd'
    /\ TasksBegun

LEMMA NoneBegun ==
    ASSUME TasksTyped, UNCHANGED tasks
    PROVE  TasksBegun
    BY DEF TasksTyped, TasksBegun

LEMMA OneBegun ==
    ASSUME TasksTyped, NEW task, Asked(task), Plan(task.todo),
           NEW t \in Free, tasks' = [tasks EXCEPT ![t] = task]
    PROVE  TasksBegun
    BY DEF TasksTyped, TasksBegun, Free, Asked

LEMMA Begun ==
    ASSUME TasksOK, NEW task, Asked(task), Plan(task.todo), Begins(task)
    PROVE  TasksBegun /\ budget' \in Nat
<1>1. PICK t \in Free : tasks' = [tasks EXCEPT ![t] = task]
    BY DEF Begins
<1>2. TasksBegun
    BY <1>1, OneBegun DEF TasksOK
<1>3. budget' \in Nat
    BY DEF Begins, TasksOK
<1>. QED
    BY <1>2, <1>3

LEMMA UserTyped ==
    ASSUME Typed, UserStep, PlaceOK', ScreenOK', ShownOK', budget' \in Nat
    PROVE  Typed'
<1>1. ServerOK' /\ clock' = clock
    BY ServerKept DEF Typed, UserStep
<1>2. CopiesOK' /\ PinsOK'
    BY <1>1 DEF Typed, CopiesOK, PinsOK, UserStep, Copy
<1>3. TasksOK'
    BY <1>1 DEF Typed, TasksOK, UserStep, TasksBegun, Asked, ServerOK, Busy, Now
<1>. QED
    BY <1>1, <1>2, <1>3 DEF Typed

LEMMA BackTypes ==
    ASSUME NEW q \in Seq(Places), q # <<>>
    PROVE  SubSeq(q, 1, Len(q) - 1) \in Seq(Places) /\ q[Len(q)] \in Places
<1>1. Len(q) \in Nat \ {0}
    BY EmptySeq
<1>2. SubSeq(q, 1, Len(q) - 1) \in Seq(Places)
    BY <1>1, Part
<1>. QED
    BY <1>1, <1>2, ElementOfSeq

LEMMA Navigated ==
    ASSUME PlaceOK, NEW d \in Places, NavigateTo(d)
    PROVE  /\ current' \in Places /\ back' \in Seq(Places) /\ forward' \in Seq(Places)
           /\ selected' \subseteq Nat
<1>1. CASE d = current
    BY <1>1 DEF NavigateTo, PlaceOK
<1>2. CASE d # current
    BY <1>2, AppendProperties, EmptySeq DEF NavigateTo, PlaceOK, SetCurrentFolder
<1>. QED
    BY <1>1, <1>2

LEMMA NavigationTypes == ASSUME Typed, NavigationSteps PROVE UserStep /\ Typed'
<1>. USE DEF Typed
<1>0. \A d : Above(d) \in Places
    BY ShownRows
<1>1. CASE GoBack
    <2>1. UserStep /\ budget' \in Nat
        BY <1>1, NoneBegun DEF GoBack, UserStep, progress, pinning, TasksOK
    <2>2. PlaceOK'
        BY <1>1, BackTypes, AppendProperties DEF GoBack, SetCurrentFolder, PlaceOK
    <2>3. ScreenOK' /\ ShownOK'
        BY <1>1 DEF GoBack, screen, pictures, dropping, ScreenOK, ShownOK, Dialogs
    <2>. QED
        BY <2>1, <2>2, <2>3, UserTyped
<1>2. CASE GoForward
    <2>1. UserStep /\ budget' \in Nat
        BY <1>2, NoneBegun DEF GoForward, UserStep, progress, pinning, TasksOK
    <2>2. PlaceOK'
        BY <1>2, BackTypes, AppendProperties DEF GoForward, SetCurrentFolder, PlaceOK
    <2>3. ScreenOK' /\ ShownOK'
        BY <1>2 DEF GoForward, screen, pictures, dropping, ScreenOK, ShownOK, Dialogs
    <2>. QED
        BY <2>1, <2>2, <2>3, UserTyped
<1>3. CASE NavigateUp
    <2>1. UserStep /\ budget' \in Nat
        BY <1>3, NoneBegun DEF NavigateUp, UserStep, progress, pinning, TasksOK, Keeps
    <2>2. PlaceOK'
        BY <1>0, <1>3, AppendProperties, EmptySeq DEF NavigateUp, PlaceOK
    <2>3. ScreenOK' /\ ShownOK'
        BY <1>3 DEF NavigateUp, screen, pictures, dropping, ScreenOK, ShownOK, Keeps, Reasons,
           Dialogs
    <2>. QED
        BY <2>1, <2>2, <2>3, UserTyped
<1>4. ASSUME NEW d \in Folders \cup {Root}, OpenFolder(d) PROVE UserStep /\ Typed'
    <2>1. UserStep /\ budget' \in Nat
        BY <1>4, NoneBegun DEF OpenFolder, UserStep, progress, pinning, TasksOK
    <2>2. PlaceOK'
        BY <1>4, Navigated DEF OpenFolder, PlaceOK, Places
    <2>3. ScreenOK' /\ ShownOK'
        BY <1>4 DEF OpenFolder, screen, pictures, dropping, ScreenOK, ShownOK, Dialogs
    <2>. QED
        BY <2>1, <2>2, <2>3, UserTyped
<1>5. ASSUME NEW d \in Folders \cup {Root}, ShowsFolder(d) PROVE UserStep /\ Typed'
    <2>1. UserStep /\ budget' \in Nat
        BY <1>5, NoneBegun DEF ShowsFolder, UserStep, progress, pinning, TasksOK
    <2>2. PlaceOK'
        BY <1>5, Navigated DEF ShowsFolder, PlaceOK, Places, Views
    <2>3. ScreenOK' /\ ShownOK'
        BY <1>5 DEF ShowsFolder, screen, pictures, dropping, ScreenOK, ShownOK, Reasons, Dialogs
    <2>. QED
        BY <2>1, <2>2, <2>3, UserTyped
<1>6. ASSUME NEW v \in {"drive", "trash", "storage", "transfers"}, ViewChange(v)
      PROVE  UserStep /\ Typed'
    <2>1. TasksBegun
        <3>1. CASE v = "trash"
            <4>1. PICK t \in Free : tasks' = [tasks EXCEPT ![t] = Task(<<Load("trash")>>)]
                BY <1>6, <3>1 DEF ViewChange
            <4>2. <<Load("trash")>> \in Seq(StepSet) /\ Plan(<<Load("trash")>>)
                BY LoadTypes, OneOrTwo DEF Loads, Plan, Common, Reloads, Changing, Apart, PinSteps
            <4>. QED
                BY <4>1, <4>2, OneBegun, AskedTasks DEF TasksOK
        <3>2. CASE v # "trash"
            BY <1>6, <3>2, NoneBegun DEF ViewChange, TasksOK
        <3>. QED
            BY <3>1, <3>2
    <2>2. UserStep /\ budget' \in Nat
        BY <1>6, <2>1 DEF ViewChange, UserStep, pinning, TasksOK
    <2>3. PlaceOK'
        BY <1>6, Navigated DEF ViewChange, PlaceOK, Places, Views
    <2>4. ScreenOK' /\ ShownOK'
        BY <1>6 DEF ViewChange, screen, pictures, dropping, ScreenOK, ShownOK, Reasons, Dialogs
    <2>. QED
        BY <2>2, <2>3, <2>4, UserTyped
<1>. QED
    BY <1>1, <1>2, <1>3, <1>4, <1>5, <1>6 DEF NavigationSteps

\* A choice changes the selection, a menu, a dialog or what is dragged.
LEMMA ChoiceMade ==
    ASSUME Typed, UNCHANGED <<server, list, trash, locked, pictures, pinning,
                              dropping, progress>>,
           odd \subseteq odd', odd' \subseteq Reasons, PlaceOK', ScreenOK'
    PROVE  UserStep /\ Typed'
<1>1. UserStep /\ budget' \in Nat
    BY NoneBegun DEF Typed, UserStep, progress, pinning, TasksOK
<1>2. ShownOK'
    BY DEF Typed, pictures, dropping, ShownOK
<1>. QED
    BY <1>1, <1>2, UserTyped

LEMMA OddKept ==
    ASSUME Typed
    PROVE  /\ odd' = odd => odd \subseteq odd' /\ odd' \subseteq Reasons
           /\ \A rows, keys : Chosen(rows, keys) => odd \subseteq odd' /\ odd' \subseteq Reasons
    BY DEF Typed, ShownOK, Chosen, Others, Reasons

LEMMA DialogTypes ==
    /\ \A do \in {"trash", "purge", "rename", "bulkTrash", "bulkPurge", "empty", "create"} :
          \A rows \in SUBSET Row : Dialog(do, rows) \in Dialogs
    BY DEF Dialog, Dialogs

LEMMA ChoiceTypes == ASSUME Typed, ChoiceSteps PROVE UserStep /\ Typed'
<1>0. /\ Shown \in SUBSET Row /\ SelectedFiles \in SUBSET Row /\ ActiveMenuFile \in SUBSET Row
      /\ \A d \in Folders : RowOf(d) \in SUBSET FolderRows
    BY ShownRows DEF Typed
<1>1. ASSUME NEW row \in Shown, Click(row) \/ CtrlClick(row) PROVE UserStep /\ Typed'
    <2>1. Number[row.key] \in Nat
        BY <1>0, Numbered
    <2>2. PlaceOK'
        BY <1>1, <2>1 DEF Click, CtrlClick, Typed, PlaceOK
    <2>3. ScreenOK'
        BY <1>1 DEF Click, CtrlClick, Typed, ScreenOK, screen, Dialogs
    <2>. QED
        BY <1>1, <2>2, <2>3, OddKept, ChoiceMade DEF Click, CtrlClick
<1>2. ASSUME NEW row \in Shown, OpenMenu(row) PROVE UserStep /\ Typed'
    <2>1. Number[row.key] \in Nat
        BY <1>0, Numbered
    <2>2. PlaceOK'
        BY <1>2 DEF OpenMenu, Typed, PlaceOK, place
    <2>3. ScreenOK'
        BY <1>2, <2>1 DEF OpenMenu, Typed, ScreenOK, Dialogs
    <2>. QED
        BY <1>2, <2>2, <2>3, OddKept, ChoiceMade DEF OpenMenu
<1>3. ASSUME NEW row \in Shown, DragStart(row) PROVE UserStep /\ Typed'
    <2>2. PlaceOK'
        BY <1>3 DEF DragStart, Typed, PlaceOK, place
    <2>3. ScreenOK'
        BY <1>3, <1>0 DEF DragStart, Typed, ScreenOK, Dialogs
    <2>. QED
        BY <1>3, <2>2, <2>3, OddKept, ChoiceMade DEF DragStart
<1>4. ASSUME NEW rows \in SUBSET Shown, NEW ctrl \in BOOLEAN, DrawBox(rows, ctrl)
      PROVE UserStep /\ Typed'
    <2>1. Numbers(rows) \subseteq Nat
        BY <1>0, Numbered
    <2>2. PlaceOK'
        BY <1>4, <2>1 DEF DrawBox, Typed, PlaceOK
    <2>3. ScreenOK'
        BY <1>4 DEF DrawBox, Typed, ScreenOK, screen, Dialogs
    <2>. QED
        BY <1>4, <2>2, <2>3, OddKept, ChoiceMade DEF DrawBox
<1>5. CASE CloseMenu
    <2>2. PlaceOK' /\ ScreenOK'
        BY <1>5 DEF CloseMenu, Typed, PlaceOK, place, ScreenOK, Dialogs
    <2>. QED
        BY <1>5, <2>2, OddKept, ChoiceMade DEF CloseMenu
<1>6. CASE DragEnd
    <2>2. PlaceOK' /\ ScreenOK'
        BY <1>6 DEF DragEnd, Typed, PlaceOK, place, ScreenOK, Dialogs
    <2>. QED
        BY <1>6, <2>2, OddKept, ChoiceMade DEF DragEnd
<1>7. ASSUME NEW do \in {"trash", "purge", "rename"}, MenuAsks(do) PROVE UserStep /\ Typed'
    <2>1. PICK row \in ActiveMenuFile : dialog' = Dialog(do, {row}) /\ Chosen({row}, pointed)
        BY <1>7 DEF MenuAsks
    <2>2. dialog' \in Dialogs
        BY <1>0, <2>1, DialogTypes
    <2>3. PlaceOK'
        BY <1>7 DEF MenuAsks, Typed, PlaceOK, place
    <2>4. ScreenOK'
        BY <1>7, <2>2 DEF MenuAsks, Typed, ScreenOK, Dialogs
    <2>. QED
        BY <1>7, <2>1, <2>3, <2>4, OddKept, ChoiceMade DEF MenuAsks
<1>8. CASE BulkAsks
    <2>2. dialog' \in Dialogs
        BY <1>0, <1>8, DialogTypes DEF BulkAsks
    <2>3. PlaceOK'
        BY <1>8 DEF BulkAsks, Typed, PlaceOK, place
    <2>4. ScreenOK'
        BY <1>8, <2>2 DEF BulkAsks, Typed, ScreenOK, Dialogs
    <2>. QED
        BY <1>8, <2>3, <2>4, OddKept, ChoiceMade DEF BulkAsks
<1>9. ASSUME NEW do \in {"empty", "create"}, DriveAsks(do) PROVE UserStep /\ Typed'
    <2>2. dialog' \in Dialogs
        BY <1>9, DialogTypes DEF DriveAsks
    <2>3. PlaceOK'
        BY <1>9 DEF DriveAsks, Typed, PlaceOK, place
    <2>4. ScreenOK'
        BY <1>9, <2>2 DEF DriveAsks, Typed, ScreenOK, Dialogs
    <2>. QED
        BY <1>9, <2>3, <2>4, OddKept, ChoiceMade DEF DriveAsks
<1>10. ASSUME NEW d \in Folders, NEW do \in {"trash", "rename"}, PinAsks(d, do)
       PROVE  UserStep /\ Typed'
    <2>2. dialog' \in Dialogs
        BY <1>0, <1>10, DialogTypes, RowKinds DEF PinAsks
    <2>3. PlaceOK'
        BY <1>10 DEF PinAsks, Typed, PlaceOK, place
    <2>4. ScreenOK'
        BY <1>10, <2>2 DEF PinAsks, Typed, ScreenOK, Dialogs
    <2>. QED
        BY <1>10, <2>3, <2>4, OddKept, ChoiceMade DEF PinAsks
<1>11. CASE Cancel
    <2>2. PlaceOK' /\ ScreenOK'
        BY <1>11 DEF Cancel, Typed, PlaceOK, place, ScreenOK, Dialogs
    <2>. QED
        BY <1>11, <2>2, OddKept, ChoiceMade DEF Cancel
<1>. QED
    BY <1>1, <1>2, <1>3, <1>4, <1>5, <1>6, <1>7, <1>8, <1>9, <1>10, <1>11
       DEF ChoiceSteps, RowSteps

\* What is confirmed, restored or dropped.
LEMMA Requested ==
    ASSUME Typed, UNCHANGED <<server, list, trash, locked, pictures, pinning, dropping>>,
           odd \subseteq odd', odd' \subseteq Reasons, PlaceOK', ScreenOK',
           TasksBegun, budget' \in Nat
    PROVE  UserStep /\ Typed'
<1>1. UserStep
    BY DEF UserStep, pinning
<1>2. ShownOK'
    BY DEF Typed, pictures, dropping, ShownOK
<1>. QED
    BY <1>1, <1>2, UserTyped

LEMMA PlannedTasks ==
    ASSUME NEW todo, Plan(todo)
    PROVE  /\ Asked(Task(todo)) /\ Task(todo).todo = todo
           /\ LET task == [Task(todo) EXCEPT !.clears = TRUE, !.joins = TRUE]
              IN  Asked(task) /\ task.todo = todo
    BY AskedTasks DEF Plan

LEMMA ConfirmTypes == ASSUME Typed, Confirm PROVE UserStep /\ Typed'
<1>1. /\ dialog \in Dialogs /\ dialog.rows \in SUBSET Row /\ current \in Places
      /\ trash.rows \in SUBSET Row
    BY DEF Confirm, Typed, ScreenOK, Dialogs, PlaceOK, CopiesOK, Copy
<1>2. /\ UNCHANGED <<server, list, trash, locked, pictures, pinning, dropping>>
      /\ UNCHANGED place /\ UNCHANGED <<menu, dragged>> /\ dialog' = Absent
    BY DEF Confirm
<1>3. PlaceOK' /\ ScreenOK'
    BY <1>2 DEF Typed, PlaceOK, place, ScreenOK, Dialogs
<1>4. \A yes : Strays(yes) => odd \subseteq odd' /\ odd' \subseteq Reasons
    BY DEF Strays, Typed, ShownOK, Reasons
<1>5. ASSUME NEW todo, Plan(todo), Begins(Task(todo))
      PROVE  TasksBegun /\ budget' \in Nat
    BY <1>5, PlannedTasks, Begun DEF Typed
<1>10. TasksBegun /\ budget' \in Nat
    <2>0. \/ \E r \in dialog.rows : Begins(Task(TrashItem(r)))
          \/ \E r \in dialog.rows : Begins(Task(PermanentDeleteItem(r)))
          \/ \E r \in dialog.rows, b \in Bases : Begins(Task(RenameItem(r, b)))
          \/ Begins(BatchTrashItems(dialog.rows))
          \/ Begins(BatchPermanentDeleteItems(dialog.rows))
          \/ Begins(Task(<<Step("empty", {}, Absent)>> \o Trash))
          \/ Begins(Task(<<Step("create", {}, current)>> \o Tree))
        BY DEF Confirm
    <2>1. ASSUME NEW r \in dialog.rows
          PROVE  /\ Plan(TrashItem(r)) /\ Plan(PermanentDeleteItem(r))
                 /\ \A b \in Bases : Plan(RenameItem(r, b))
        BY <1>1, ItemPlans
    <2>2. ASSUME NEW task \in {BatchTrashItems(dialog.rows), BatchPermanentDeleteItems(dialog.rows)},
                 Begins(task)
          PROVE  TasksBegun /\ budget' \in Nat
        <3>1. Asked(task) /\ Plan(task.todo)
            BY <1>1, BatchPlans
        <3>. QED
            BY <2>2, <3>1, Begun DEF Typed
    <2>3. /\ Plan(<<Step("empty", {}, Absent)>> \o Trash)
          /\ Plan(<<Step("create", {}, current)>> \o Tree)
        <3>1. /\ Step("empty", {}, Absent) \in StepSet /\ Step("empty", {}, Absent).do = "empty"
              /\ Step("create", {}, current) \in StepSet
              /\ Step("create", {}, current).do = "create"
            BY <1>1 DEF Step, StepSet, Plain, Creations
        <3>2. /\ Common(<<Step("empty", {}, Absent)>>)
              /\ Common(<<Step("create", {}, current)>>)
              /\ \A i \in DOMAIN <<Step("empty", {}, Absent)>> :
                    <<Step("empty", {}, Absent)>>[i].do \notin Changing
            BY <3>1, OneOrTwo DEF Common, Apart, PinSteps, Changing
        <3>. QED
            BY <3>1, <3>2, OneOrTwo, PlanLoads
    <2>. QED
        BY <1>5, <2>0, <2>1, <2>2, <2>3
<1>11. odd \subseteq odd' /\ odd' \subseteq Reasons
    BY <1>4 DEF Confirm, Typed, ShownOK
<1>. QED
    BY <1>2, <1>3, <1>10, <1>11, Requested

LEMMA RestoreTypes == ASSUME Typed, MenuRestores \/ BulkRestores PROVE UserStep /\ Typed'
<1>1. /\ ActiveMenuFile \in SUBSET Row /\ SelectedFiles \in SUBSET Row
      /\ trash.rows \in SUBSET Row
    BY ShownRows DEF Typed, CopiesOK, Copy
<1>2. CASE MenuRestores
    <2>1. PICK row \in ActiveMenuFile :
             /\ Begins(Task(RestoreItem(row)))
             /\ odd' = odd \cup Others({row}, pointed)
                        \cup IF Lone({row}) THEN {"strays"} ELSE {}
        BY <1>2 DEF MenuRestores
    <2>2. TasksBegun /\ budget' \in Nat
        BY <1>1, <2>1, ItemPlans, PlannedTasks, Begun DEF Typed
    <2>3. odd \subseteq odd' /\ odd' \subseteq Reasons
        BY <2>1 DEF Typed, ShownOK, Others, Reasons
    <2>4. PlaceOK' /\ ScreenOK'
        BY <1>2 DEF MenuRestores, Typed, PlaceOK, place, ScreenOK, Dialogs
    <2>. QED
        BY <1>2, <2>2, <2>3, <2>4, Requested DEF MenuRestores
<1>3. CASE BulkRestores
    <2>1. PICK order \in RestoreOrders(SelectedFiles) : Begins(BatchRestoreItems(order))
        BY <1>3 DEF BulkRestores
    <2>2. TasksBegun /\ budget' \in Nat
        BY <1>1, <2>1, RestorePlans, Begun DEF Typed
    <2>3. odd \subseteq odd' /\ odd' \subseteq Reasons
        BY <1>3 DEF BulkRestores, Typed, ShownOK, Others, Reasons
    <2>4. PlaceOK' /\ ScreenOK'
        BY <1>3 DEF BulkRestores, Typed, PlaceOK, place, ScreenOK, screen, Dialogs
    <2>. QED
        BY <1>3, <2>2, <2>3, <2>4, Requested DEF BulkRestores
<1>. QED
    BY <1>2, <1>3

LEMMA DropOnTypes ==
    ASSUME Typed, NEW d \in Folders \cup {Root}, DropOn(d)
    PROVE  UserStep /\ Typed'
<1> DEFINE move(t, at) == [Task(MoveItem(CHOOSE r \in dragged : at[r] = t, d))
                           EXCEPT !.clears = TRUE, !.joins = TRUE]
<1>1. PICK at \in [dragged -> Free] :
         tasks' = [t \in Tasks |-> IF \E r \in dragged : at[r] = t THEN move(t, at)
                                   ELSE tasks[t]]
    BY DEF DropOn
<1>2. ASSUME NEW t \in Tasks, \E r \in dragged : at[r] = t
      PROVE  ~Busy(t) /\ Asked(move(t, at)) /\ Plan(move(t, at).todo)
    <2>1. (CHOOSE r \in dragged : at[r] = t) \in dragged
        BY <1>2
    <2>2. Plan(MoveItem(CHOOSE r \in dragged : at[r] = t, d))
        BY <2>1, ItemPlans DEF Typed, ScreenOK, Places
    <2>3. ~Busy(t)
        BY <1>2 DEF Free
    <2>. QED
        BY <2>2, <2>3, PlannedTasks
<1>. HIDE DEF move
<1>3. TasksBegun
    <2>1. tasks' \in [Tasks -> TaskSet]
        BY <1>1, <1>2 DEF Asked, Typed, TasksOK, TasksTyped
    <2>. QED
        BY <1>1, <1>2, <2>1 DEF TasksBegun, TasksTyped
<1>4. budget' \in Nat /\ odd \subseteq odd' /\ odd' \subseteq Reasons
    <2>1. budget > 0 /\ budget' = budget - 1 /\ budget \in Nat
        BY DEF DropOn, Typed, TasksOK
    <2>2. odd' \in {odd \cup {"strays"}, odd \cup {}} /\ odd \subseteq Reasons
        BY DEF DropOn, Strays, Typed, ShownOK
    <2>. QED
        BY <2>1, <2>2 DEF Reasons
<1>5. PlaceOK' /\ ScreenOK'
    BY DEF DropOn, Typed, PlaceOK, place, ScreenOK, Dialogs
<1>. QED
    BY <1>3, <1>4, <1>5, Requested DEF DropOn

LEMMA DropTypes ==
    ASSUME Typed,
           \/ DropStarted
           \/ \E drop \in drops : Dropped(drop) \/ DropUnread(drop)
           \/ \E f \in Pictures : ThumbnailAsked(f) \/ ThumbnailRead(f)
    PROVE  UserStep /\ Typed'
<1>1. /\ UNCHANGED <<server, list, trash, locked, place, screen, pinning, progress>>
      /\ odd \subseteq odd'
    BY DEF DropStarted, Dropped, DropUnread, ThumbnailAsked, ThumbnailRead
<1>2. UserStep /\ budget' \in Nat
    BY <1>1, NoneBegun DEF UserStep, Typed, TasksOK, progress, pinning
<1>3. PlaceOK' /\ ScreenOK'
    BY <1>1 DEF Typed, PlaceOK, place, ScreenOK, screen, Dialogs
<1>4. ShownOK'
    BY DEF DropStarted, Dropped, DropUnread, ThumbnailAsked, ThumbnailRead, Typed, ShownOK,
       PlaceOK, Reasons, pictures, dropping
<1>. QED
    BY <1>2, <1>3, <1>4, UserTyped

\* A folder is to be pinned or its pin removed.
PinTodos(d) == {<<Call("pin", d, Absent), Call("kept", d, Root)>>,
                <<Call("unpin", d, Absent), Call("kept", d, Absent)>>}
PinAsked ==
    /\ UNCHANGED <<server, list, trash, locked, pinned>>
    /\ odd \subseteq odd'
    /\ \E d \in Folders \ pending, t \in Free :
          /\ pending' = pending \cup {d}
          /\ \E todo \in PinTodos(d) : tasks' = [tasks EXCEPT ![t] = Task(todo)]

LEMMA PinTodoTypes ==
    ASSUME NEW d \in Folders, NEW todo \in PinTodos(d)
    PROVE  todo \in Seq(StepSet) /\ Reloads(todo) /\ Len(todo) = 2
<1>1. /\ Call("pin", d, Absent) \in StepSet /\ Call("pin", d, Absent).do = "pin"
      /\ Call("unpin", d, Absent) \in StepSet /\ Call("unpin", d, Absent).do = "unpin"
      /\ \A w \in {Absent, Root} : Call("kept", d, w) \in StepSet /\ Call("kept", d, w).do = "kept"
    BY CallTypes DEF StepSet, Call, Step
<1>2. ASSUME NEW a \in StepSet, NEW b \in StepSet, todo = <<a, b>>,
             a.do \notin Changing, b.do \notin Changing
      PROVE  todo \in Seq(StepSet) /\ Reloads(todo) /\ Len(todo) = 2
    BY <1>2, OneOrTwo DEF Reloads
<1>. QED
    BY <1>1, <1>2 DEF PinTodos, Changing

LEMMA PinTypes ==
    ASSUME Typed, TogglePinned \/ \E d \in Folders : PinUnpins(d)
    PROVE  PinAsked /\ Typed'
<1>0. ActiveMenuFile \in SUBSET Row
    BY ShownRows DEF Typed
<1>1. PinAsked
    <2>1. CASE TogglePinned
        <3>1. PICK row \in FoldersOf(ActiveMenuFile) :
                 /\ row.key \notin pending /\ pending' = pending \cup {row.key}
                 /\ Chosen({row}, pointed)
                 /\ Begins(Task(IF row.key \in pinned
                         THEN <<Call("unpin", row.key, Absent),
                                Call("kept", row.key, Absent)>>
                         ELSE <<Call("pin", row.key, Absent),
                                Call("kept", row.key, Root)>>))
            BY <2>1 DEF TogglePinned
        <3>2. row.key \in Folders
            BY <1>0, KindsOfRows DEF FolderRows
        <3>3. PICK todo \in PinTodos(row.key) : Begins(Task(todo))
            BY <3>1 DEF PinTodos
        <3>. QED
            BY <2>1, <3>1, <3>2, <3>3, OddKept DEF TogglePinned, PinAsked, Begins
    <2>2. ASSUME NEW d \in Folders, PinUnpins(d) PROVE PinAsked
        <3>1. PICK todo \in PinTodos(d) : Begins(Task(todo))
            BY <2>2 DEF PinTodos, PinUnpins
        <3>. QED
            BY <2>2, <3>1 DEF PinUnpins, PinAsked, Begins
    <2>. QED
        BY <2>1, <2>2
<1>2. budget' \in Nat
    <2>1. \A task : Begins(task) => budget' \in Nat
        BY DEF Begins, Typed, TasksOK
    <2>. QED
        BY <2>1 DEF TogglePinned, PinUnpins
<1>3. PlaceOK' /\ ScreenOK'
    <2>1. UNCHANGED <<place, dialog, dragged>> /\ menu' \in {menu, 0}
        BY DEF TogglePinned, PinUnpins, screen
    <2>. QED
        BY <2>1 DEF Typed, PlaceOK, place, ScreenOK, Dialogs
<1>4. ShownOK'
    BY OddKept DEF TogglePinned, PinUnpins, Typed, ShownOK, pictures, dropping
<1>5. PICK d \in Folders \ pending, t \in Free :
         /\ pending' = pending \cup {d}
         /\ \E todo \in PinTodos(d) : tasks' = [tasks EXCEPT ![t] = Task(todo)]
    BY <1>1 DEF PinAsked
<1>. PICK todo \in PinTodos(d) : tasks' = [tasks EXCEPT ![t] = Task(todo)]
    BY <1>5
<1>6. Asked(Task(todo))
    BY PinTodoTypes, AskedTasks
<1>7. ServerOK' /\ clock' = clock
    BY <1>1, ServerKept DEF PinAsked, Typed
<1>8. TasksOK'
    BY <1>2, <1>5, <1>6, <1>7 DEF Typed, TasksOK, TasksTyped, Asked, Free, ServerOK, Busy, Now
<1>9. CopiesOK' /\ PinsOK'
    BY <1>1, <1>5, <1>7 DEF PinAsked, Typed, CopiesOK, Copy, PinsOK
<1>. QED
    BY <1>1, <1>3, <1>4, <1>7, <1>8, <1>9 DEF Typed

(***************************************************************************)
(* What the tasks do                                                       *)
(***************************************************************************)

LEMMA MadeKeeps ==
    ASSUME ServerOK, NEW s \in StepSet, Made(s)
    PROVE  ServerOK' /\ clock' = clock + 1
<1>1. CASE /\ Effect(s.do, s.on, s.with)
           /\ pins' = {d \in pins : folders'[d] # Absent}
    <2>1. LedgerSteps /\ ServerTyped /\ ServerInv /\ Housed
        BY <1>1, RequestSteps DEF ServerOK, ServerTyped, ServerInv, Housed
    <2>2. Ledger!TypeOK' /\ used' <= Cardinality(FileIds) /\ LedgerP!FoldersAgree' /\ Housed'
        BY <2>1, LedgerKeeps, HousedKept DEF ServerTyped
    <2>. QED
        BY <1>1, <2>2 DEF ServerOK, ServerTyped, ServerInv, Housed, Made
<1>2. CASE PinEffect(s.do, s.on) /\ UNCHANGED ledger
    <2>1. pins' \in SUBSET Folders /\ \A d \in pins' : folders[d] # Absent
        <3>1. s.on \in SUBSET Folders
            BY <1>2, StepTypes DEF PinEffect, FolderDoes
        <3>2. "live" # Absent
            BY StartsAssumption DEF Ledger!Ages
        <3>. QED
            BY <1>2, <3>1, <3>2 DEF PinEffect, ServerOK, ServerTyped, ServerInv
    <2>2. /\ files' = files /\ folders' = folders /\ parent' = parent
          /\ used' = used /\ refund' = refund /\ clock' = clock + 1
        BY <1>2 DEF ledger, Made
    <2>3. Ledger!TypeOK' /\ LedgerP!FoldersAgree'
        BY <2>2 DEF ServerOK, ServerTyped, ServerInv, Ledger!TypeOK, Ledger!File, Ledger!Ages,
           Ledger!Uploads, LedgerP!FoldersAgree
    <2>. QED
        BY <2>1, <2>2, <2>3 DEF ServerOK, ServerTyped, ServerInv
<1>. QED
    BY <1>1, <1>2 DEF Made

\* A task goes on.
LEMMA TaskTyped ==
    ASSUME Typed, NEW t \in Tasks, NEW rest, GoesOn(t, rest), SelectionEnds,
           UNCHANGED <<view, current, back, forward, screen, pictures, locked,
                       dropping, budget>>,
           ServerOK', clock' \in {clock, clock + 1}, CopiesOK', PinsOK',
           odd' \subseteq Reasons
    PROVE  Typed'
<1>1. PlaceOK'
    BY DEF SelectionEnds, Typed, PlaceOK
<1>2. ScreenOK'
    BY DEF Typed, ScreenOK, screen, Dialogs
<1>3. ShownOK'
    BY DEF Typed, ShownOK, pictures, dropping
<1>4. TasksOK'
    <2>1. clock <= clock' /\ clock \in Nat /\ clock' \in Nat
        BY DEF Typed, ServerOK
    <2>2. \A u \in Tasks : tasks'[u].at \in {tasks[u].at, 0} /\ tasks[u].at \in Nat
        BY TaskFields DEF GoesOn, Typed, TasksOK, TasksTyped
    <2>3. \A u \in Tasks : tasks'[u].rows = {} \/
                            (tasks'[u].rows = tasks[u].rows /\ tasks'[u].todo = tasks[u].todo)
        <3>1. \A u \in Tasks : u = t \/ u \in Tasks \ {t}
            OBVIOUS
        <3>. QED
            BY <3>1 DEF GoesOn
    <2>4. \A u \in Tasks : (Busy(u) /\ Now(u).do = "pins")' =>
                            tasks'[u].rows \in SUBSET FolderRows
        <3>. TAKE u \in Tasks
        <3>1. CASE tasks'[u].rows = {}
            BY <3>1
        <3>2. CASE tasks'[u].rows = tasks[u].rows /\ tasks'[u].todo = tasks[u].todo
            BY <3>2 DEF Typed, TasksOK, Busy, Now
        <3>. QED
            BY <2>3, <3>1, <3>2
    <2>. QED
        BY <2>1, <2>2, <2>4 DEF GoesOn, Typed, TasksOK
<1>. QED
    BY <1>1, <1>2, <1>3, <1>4 DEF Typed

LEMMA CopiesKept ==
    ASSUME CopiesOK, UNCHANGED <<list, trash>>, clock' \in {clock, clock + 1}, clock \in Nat
    PROVE  CopiesOK'
    BY DEF CopiesOK, Copy

LEMMA RequestTypes ==
    ASSUME Typed, NEW t \in Tasks, RequestMade(t)
    PROVE  GoesOn(t, Tail(tasks[t].todo)) /\ SelectionEnds /\ Typed'
<1>1. /\ Busy(t) /\ Now(t) \in StepSet /\ Tail(tasks[t].todo) \in Seq(StepSet)
    BY NowOf DEF RequestMade, Typed, TasksOK
<1>2. GoesOn(t, Tail(tasks[t].todo)) /\ SelectionEnds
    BY <1>1, Continued DEF RequestMade, Typed, TasksOK
<1>3. ServerOK' /\ clock' \in {clock, clock + 1}
    BY <1>1, MadeKeeps, ServerKept DEF RequestMade, Typed
<1>4. CopiesOK' /\ PinsOK'
    BY <1>3, CopiesKept DEF RequestMade, Typed, PinsOK, pinning, ServerOK
<1>5. odd' \subseteq Reasons
    <2>1. Notes(t) \subseteq Reasons
        BY DEF Notes, Reasons
    <2>. QED
        BY <2>1 DEF RequestMade, Typed, ShownOK
<1>6. Typed'
    BY <1>2, <1>3, <1>4, <1>5, TaskTyped DEF RequestMade
<1>. QED
    BY <1>2, <1>6

LEMMA FailureTypes ==
    ASSUME Typed, NEW t \in Tasks, RequestFails(t)
    PROVE  /\ \E rest \in Left(t) : GoesOn(t, rest)
           /\ SelectionEnds /\ Typed'
<1>1. /\ Busy(t) /\ Now(t) \in StepSet
    BY NowOf DEF RequestFails, Typed, TasksOK
<1>2. PICK rest \in Left(t) : Continues(t, rest, TRUE)
    BY DEF RequestFails
<1>3. rest \in Seq(StepSet)
    BY <1>1, LeftOf DEF Typed, TasksOK
<1>4. GoesOn(t, rest) /\ SelectionEnds
    BY <1>2, <1>3, Continued DEF Typed, TasksOK
<1>5. ServerOK' /\ clock' \in {clock, clock + 1}
    BY <1>1, MadeKeeps, ServerKept DEF RequestFails, Typed
<1>6. CopiesOK' /\ PinsOK'
    BY <1>5, CopiesKept DEF RequestFails, Typed, PinsOK, NoLongerPending, ServerOK
<1>7. odd' \subseteq Reasons
    BY DEF RequestFails, Typed, ShownOK, Reasons
<1>8. Typed'
    BY <1>4, <1>5, <1>6, <1>7, TaskTyped DEF RequestFails
<1>. QED
    BY <1>2, <1>4, <1>8

\* The request for a proxy that has been found.
LEMMA ProxyCall ==
    ASSUME NEW s \in Twins, NEW p \in FileRows
    PROVE  /\ [s.with.call EXCEPT !.on = {p.key}] \in FileCalls \cup Renames
           /\ [s.with.call EXCEPT !.on = {p.key}].do = TwinDo[s.do]
           /\ [s.with.call EXCEPT !.on = {p.key}].on = {p.key}
           /\ [s.with.call EXCEPT !.on = {p.key}].with = s.with.call.with
    BY DEF Twins, FileCalls, Renames, FileRows

LEMMA TwinFoundTypes ==
    ASSUME Typed, NEW t \in Tasks, TwinFound(t)
    PROVE  /\ \/ GoesOn(t, Tail(tasks[t].todo))
              \/ \E p \in FileRows :
                    GoesOn(t, <<[Now(t).with.call EXCEPT !.on = {p.key}]>>
                              \o Tail(tasks[t].todo))
           /\ SelectionEnds /\ Typed'
<1>1. /\ Busy(t) /\ Now(t) \in StepSet /\ Tail(tasks[t].todo) \in Seq(StepSet)
      /\ Now(t) \in Twins
    BY NowOf, StepTypes DEF TwinFound, Typed, TasksOK
<1>2. list.rows \in SUBSET Row /\ trash.rows \in SUBSET Row
    BY DEF Typed, CopiesOK, Copy
<1>3. \/ Continues(t, Tail(tasks[t].todo), FALSE)
      \/ \E p \in FileRows : Continues(t, <<[Now(t).with.call EXCEPT !.on = {p.key}]>>
                                          \o Tail(tasks[t].todo), FALSE)
    <2>1. \A r, forms : /\ Proxies(r, list.rows, forms) \in SUBSET FileRows
                        /\ Proxies(r, trash.rows, forms) \in SUBSET FileRows
        BY <1>2, KindsOfRows
    <2>. QED
        BY <2>1 DEF TwinFound
<1>4. /\ \/ GoesOn(t, Tail(tasks[t].todo))
         \/ \E p \in FileRows :
               GoesOn(t, <<[Now(t).with.call EXCEPT !.on = {p.key}]>>
                         \o Tail(tasks[t].todo))
      /\ SelectionEnds
    <2>1. CASE Continues(t, Tail(tasks[t].todo), FALSE)
        BY <1>1, <2>1, Continued DEF Typed, TasksOK
    <2>2. ASSUME NEW p \in FileRows,
                 Continues(t, <<[Now(t).with.call EXCEPT !.on = {p.key}]>>
                              \o Tail(tasks[t].todo), FALSE)
          PROVE  GoesOn(t, <<[Now(t).with.call EXCEPT !.on = {p.key}]>>
                           \o Tail(tasks[t].todo)) /\ SelectionEnds
        <3> DEFINE c == [Now(t).with.call EXCEPT !.on = {p.key}]
        <3>1. c \in StepSet
            BY <1>1, ProxyCall DEF StepSet
        <3>. HIDE DEF c
        <3>2. <<c>> \in Seq(StepSet)
            BY <3>1, OneOrTwo
        <3>3. <<c>> \o Tail(tasks[t].todo) \in Seq(StepSet)
            BY <1>1, <3>2, ConcatProperties
        <3>4. Continues(t, <<c>> \o Tail(tasks[t].todo), FALSE)
            BY <2>2 DEF c
        <3>5. GoesOn(t, <<c>> \o Tail(tasks[t].todo)) /\ SelectionEnds
            BY <3>3, <3>4, Continued DEF Typed, TasksOK
        <3>. QED
            BY <3>5 DEF c
    <2>. QED
        BY <1>3, <2>1, <2>2
<1>5. ServerOK' /\ clock' = clock
    BY ServerKept DEF TwinFound, Typed
<1>6. CopiesOK' /\ PinsOK'
    BY <1>5, CopiesKept DEF TwinFound, Typed, PinsOK, pinning, ServerOK
<1>7. odd' \subseteq Reasons
    BY DEF TwinFound, Typed, ShownOK, Reasons
<1>8. Typed'
    BY <1>4, <1>5, <1>6, <1>7, TaskTyped DEF TwinFound
<1>. QED
    BY <1>4, <1>8

\* A copy is shown, or a load fails.
LEMMA ShownTypes ==
    ASSUME Typed, NEW t \in Tasks,
           TreeShown(t) \/ TrashShown(t) \/ PinsShown(t) \/ LoadFails(t) \/ PinKept(t)
    PROVE  GoesOn(t, Tail(tasks[t].todo)) /\ SelectionEnds /\ Typed'
<1>1. Busy(t) /\ Continues(t, Tail(tasks[t].todo), FALSE)
    BY DEF TreeShown, TrashShown, PinsShown, LoadFails, PinKept
<1>2. /\ Now(t) \in StepSet /\ Tail(tasks[t].todo) \in Seq(StepSet)
    BY <1>1, NowOf DEF Typed, TasksOK
<1>3. GoesOn(t, Tail(tasks[t].todo)) /\ SelectionEnds
    BY <1>1, <1>2, Continued DEF Typed, TasksOK
<1>4. /\ UNCHANGED server
      /\ UNCHANGED <<view, current, back, forward, screen, pictures, locked, dropping, budget>>
    BY DEF TreeShown, TrashShown, PinsShown, LoadFails, PinKept
<1>5. ServerOK' /\ clock' = clock
    BY <1>4, ServerKept DEF Typed
<1>6. tasks[t].rows \in SUBSET Row /\ tasks[t].at \in Nat /\ tasks[t].at <= clock
    BY TaskFields DEF Typed, TasksOK, TasksTyped
<1>7. CopiesOK'
    <2>1. /\ list' \in {list, [rows |-> tasks[t].rows, at |-> tasks[t].at]}
          /\ trash' \in {trash, [rows |-> tasks[t].rows, at |-> tasks[t].at]}
        BY DEF TreeShown, TrashShown, PinsShown, LoadFails, PinKept
    <2>2. [rows |-> tasks[t].rows, at |-> tasks[t].at] \in Copy
        BY <1>6 DEF Copy
    <2>3. list \in Copy /\ trash \in Copy /\ list.at <= clock
        BY DEF Typed, CopiesOK
    <2>4. list'.at <= clock
        BY <1>6, <2>1, <2>3
    <2>. QED
        BY <1>5, <2>1, <2>2, <2>3, <2>4 DEF CopiesOK
<1>8. PinsOK'
    <2>1. CASE TreeShown(t) \/ TrashShown(t) \/ LoadFails(t)
        BY <2>1 DEF TreeShown, TrashShown, LoadFails, Typed, PinsOK, pinning
    <2>2. CASE PinsShown(t)
        <3>1. pinned' = Keys(tasks[t].rows) /\ pending' = pending
            BY <2>2 DEF PinsShown
        <3>2. tasks[t].rows \in SUBSET FolderRows
            BY <2>2 DEF PinsShown, Typed, TasksOK
        <3>. QED
            BY <3>1, <3>2 DEF Keys, FolderRows, PinsOK, Typed
    <2>3. CASE PinKept(t)
        <3>1. Now(t).on \in SUBSET Folders
            BY <1>2, <2>3, StepTypes DEF PinKept, FolderDoes
        <3>. QED
            BY <2>3, <3>1 DEF PinKept, NoLongerPending, Typed, PinsOK
    <2>. QED
        BY <2>1, <2>2, <2>3
<1>9. odd' \subseteq Reasons
    BY DEF TreeShown, TrashShown, PinsShown, LoadFails, PinKept, Typed, ShownOK, Reasons, Remarks
<1>10. Typed'
    BY <1>3, <1>4, <1>5, <1>7, <1>8, <1>9, TaskTyped
<1>. QED
    BY <1>3, <1>10

\* The answer of a load, and its names.
LoadsOn(t) ==
    /\ TasksTyped'
    /\ tasks'[t].todo = tasks[t].todo
    /\ \A u \in Tasks \ {t} : tasks'[u] = tasks[u]
    /\ UNCHANGED <<server, list, trash, locked, place, screen, pictures, pinning,
                   dropping, budget, odd, play>>

LEMMA LoadServedTypes ==
    ASSUME Typed, NEW t \in Tasks, LoadServed(t)
    PROVE  /\ LoadsOn(t) /\ Typed'
           /\ tasks'[t].at = clock /\ tasks'[t].got = "served"
           /\ tasks'[t].rows = CASE Now(t).do = "tree" -> TreeRows
                     [] Now(t).do = "trash" -> TrashRows
                     [] Now(t).do = "pins" ->
                          {FolderRow(d) : d \in {e \in pins : folders[e] = "live"}}
<1> DEFINE rows == CASE Now(t).do = "tree" -> TreeRows
                     [] Now(t).do = "trash" -> TrashRows
                     [] Now(t).do = "pins" ->
                          {FolderRow(d) : d \in {e \in pins : folders[e] = "live"}}
<1>1. /\ tasks' = [tasks EXCEPT ![t].rows = rows, ![t].at = clock, ![t].got = "served"]
      /\ UNCHANGED <<server, list, trash, locked, place, screen, pictures, pinning,
                     dropping, budget, odd, play>>
      /\ Now(t).do \in {"tree", "trash", "pins"}
    BY DEF LoadServed
<1>2. pins \in SUBSET Folders /\ \A d \in Folders : FolderRow(d) \in FolderRows
    BY DEF Typed, ServerOK, ServerTyped, Ledger!TypeOK, FolderRow, FolderRows, Places
<1>3. rows \in SUBSET Row /\ (Now(t).do = "pins" => rows \in SUBSET FolderRows)
    BY <1>1, <1>2, RowsTyped DEF Typed
<1>. HIDE DEF rows
<1>4. tasks \in [Tasks -> TaskSet] /\ clock \in Nat
    BY DEF Typed, TasksOK, TasksTyped, ServerOK
<1>5. /\ tasks' \in [Tasks -> TaskSet]
      /\ tasks'[t].todo = tasks[t].todo /\ tasks'[t].rows = rows
      /\ tasks'[t].at = clock /\ tasks'[t].got = "served"
      /\ \A u \in Tasks \ {t} : tasks'[u] = tasks[u]
    <2>1. PICK new : new = [tasks[t] EXCEPT !.rows = rows, !.at = clock, !.got = "served"]
        OBVIOUS
    <2>2. new \in TaskSet
        BY <1>3, <1>4, <2>1 DEF TaskSet
    <2>3. /\ new.todo = tasks[t].todo /\ new.rows = rows
          /\ new.at = clock /\ new.got = "served"
        BY <1>4, <2>1 DEF TaskSet
    <2>4. tasks' = [tasks EXCEPT ![t] = new]
        BY <1>1, <1>4, <2>1
    <2>. QED
        BY <1>4, <2>2, <2>3, <2>4
<1>6. LoadsOn(t)
    BY <1>1, <1>5 DEF LoadsOn, TasksTyped
<1>7. ServerOK' /\ clock' = clock
    BY <1>1, ServerKept DEF Typed
<1>8. TasksOK'
    <2>1. \A u \in Tasks : tasks'[u].at <= clock
        BY <1>4, <1>5 DEF Typed, TasksOK
    <2>2. \A u \in Tasks : (Busy(u) /\ Now(u).do = "pins")' =>
                            tasks'[u].rows \in SUBSET FolderRows
        BY <1>3, <1>5 DEF Typed, TasksOK, Busy, Now
    <2>. QED
        BY <1>1, <1>5, <1>7, <2>1, <2>2 DEF Typed, TasksOK, TasksTyped
<1>9. CopiesOK' /\ PinsOK' /\ PlaceOK' /\ ScreenOK' /\ ShownOK'
    BY <1>1, <1>7 DEF Typed, CopiesOK, Copy, PinsOK, pinning, PlaceOK, place, ScreenOK, screen,
       Dialogs, ShownOK, pictures, dropping
<1>. QED
    BY <1>5, <1>6, <1>7, <1>8, <1>9 DEF Typed, rows

LEMMA LoadNamedTypes ==
    ASSUME Typed, NEW t \in Tasks, LoadNamed(t)
    PROVE  /\ LoadsOn(t) /\ Typed'
           /\ tasks'[t].at = tasks[t].at /\ tasks'[t].got = "named"
           /\ tasks'[t].rows = Named(tasks[t].rows, ~locked)
<1>1. /\ tasks' = [tasks EXCEPT ![t].rows = Named(@, ~locked), ![t].got = "named"]
      /\ UNCHANGED <<server, list, trash, locked, place, screen, pictures, pinning,
                     dropping, budget, odd, play>>
      /\ Now(t).do # "pins"
    BY DEF LoadNamed
<1>2. tasks \in [Tasks -> TaskSet] /\ tasks[t].rows \in SUBSET Row
    BY TaskFields DEF Typed, TasksOK, TasksTyped
<1>3. (~locked) \in BOOLEAN
    OBVIOUS
<1> DEFINE rows == Named(tasks[t].rows, ~locked)
<1>4. rows \in SUBSET Row
    BY <1>2, <1>3, NamedRows
<1>5. tasks' = [tasks EXCEPT ![t].rows = rows, ![t].got = "named"]
    BY <1>1, <1>2
<1>. HIDE DEF rows
<1>6. /\ tasks' \in [Tasks -> TaskSet]
      /\ tasks'[t].todo = tasks[t].todo /\ tasks'[t].rows = rows
      /\ tasks'[t].at = tasks[t].at /\ tasks'[t].got = "named"
      /\ \A u \in Tasks \ {t} : tasks'[u] = tasks[u]
    BY <1>2, <1>4, <1>5 DEF TaskSet
<1>7. LoadsOn(t)
    BY <1>1, <1>6 DEF LoadsOn, TasksTyped
<1>8. ServerOK' /\ clock' = clock
    BY <1>1, ServerKept DEF Typed
<1>9. TasksOK'
    <2>1. \A u \in Tasks : tasks'[u].at <= clock
        BY <1>6 DEF Typed, TasksOK
    <2>2. \A u \in Tasks : (Busy(u) /\ Now(u).do = "pins")' =>
                            tasks'[u].rows \in SUBSET FolderRows
        BY <1>1, <1>6 DEF Typed, TasksOK, Busy, Now
    <2>. QED
        BY <1>1, <1>6, <1>8, <2>1, <2>2 DEF Typed, TasksOK, TasksTyped
<1>10. CopiesOK' /\ PinsOK' /\ PlaceOK' /\ ScreenOK' /\ ShownOK'
    BY <1>1, <1>8 DEF Typed, CopiesOK, Copy, PinsOK, pinning, PlaceOK, place, ScreenOK, screen,
       Dialogs, ShownOK, pictures, dropping
<1>. QED
    BY <1>6, <1>7, <1>8, <1>9, <1>10 DEF Typed, rows

LEMMA LockTypes ==
    ASSUME Typed, LockDrive
    PROVE  /\ Typed' /\ UNCHANGED server /\ tasks' = tasks /\ odd' = odd
           /\ locked' = TRUE /\ list'.at = list.at
           /\ list'.rows = Named(list.rows, FALSE)
<1>1. /\ UNCHANGED server /\ UNCHANGED <<trash, view, screen, fetching, pinning, dropping,
                                          tasks, odd, play>>
      /\ locked' = TRUE /\ thumbs' = {} /\ NavigateTo(Root)
      /\ list' = [list EXCEPT !.rows = Named(@, FALSE)]
      /\ budget > 0 /\ budget' = budget - 1
    BY DEF LockDrive
<1>2. list \in Copy /\ list.rows \in SUBSET Row
    BY DEF Typed, CopiesOK, Copy
<1>3. Named(list.rows, FALSE) \in SUBSET Row
    BY <1>2, NamedRows
<1>4. /\ list' \in Copy /\ list'.at = list.at /\ list'.rows = Named(list.rows, FALSE)
    BY <1>1, <1>2, <1>3 DEF Copy
<1>5. ServerOK' /\ clock' = clock
    BY <1>1, ServerKept DEF Typed
<1>6. CopiesOK'
    BY <1>1, <1>4, <1>5 DEF Typed, CopiesOK, Copy
<1>7. PlaceOK'
    BY <1>1, Navigated DEF Typed, PlaceOK, Places
<1>8. ScreenOK' /\ PinsOK' /\ ShownOK'
    BY <1>1 DEF Typed, ScreenOK, screen, Dialogs, PinsOK, pinning, ShownOK, dropping
<1>9. TasksOK'
    BY <1>1, <1>5 DEF Typed, TasksOK, TasksTyped, Busy, Now
<1>. QED
    BY <1>1, <1>4, <1>5, <1>6, <1>7, <1>8, <1>9 DEF Typed

\* After an unlock the names of the copy are read, if it has any.
NamesAsked(t) ==
    /\ ~Busy(t)
    /\ tasks'[t].todo = <<Load("names")>> /\ tasks'[t].rows = list.rows
    /\ tasks'[t].at = list.at /\ tasks'[t].got = "served"
    /\ \A u \in Tasks \ {t} : tasks'[u] = tasks[u]

LEMMA UnlockTypes ==
    ASSUME Typed, Unlock
    PROVE  /\ Typed' /\ UNCHANGED <<server, list, trash, pinning, odd>>
           /\ locked' = FALSE
           /\ \/ list.rows = {} /\ tasks' = tasks
              \/ \E t \in Tasks : NamesAsked(t)
<1>1. /\ UNCHANGED server /\ UNCHANGED <<list, trash, place, screen, pictures, pinning,
                                          dropping, budget, odd, play>>
      /\ locked' = FALSE
    BY DEF Unlock
<1>2. list.rows \in SUBSET Row /\ list.at \in Nat /\ list.at <= clock
    BY DEF Typed, CopiesOK, Copy
<1>3. ServerOK' /\ clock' = clock
    BY <1>1, ServerKept DEF Typed
<1>4. CopiesOK' /\ PlaceOK' /\ ScreenOK' /\ PinsOK' /\ ShownOK'
    BY <1>1, <1>3 DEF Typed, CopiesOK, Copy, PlaceOK, place, ScreenOK, screen, Dialogs,
       PinsOK, pinning, ShownOK, pictures, dropping
<1>5. CASE list.rows = {} /\ tasks' = tasks
    <2>1. TasksOK'
        BY <1>1, <1>3, <1>5 DEF Typed, TasksOK, TasksTyped, Busy, Now
    <2>. QED
        BY <1>1, <1>3, <1>4, <1>5, <2>1 DEF Typed
<1>6. CASE list.rows # {}
    <2>1. PICK t \in Free :
             tasks' = [tasks EXCEPT ![t] = [Task(<<Load("names")>>) EXCEPT
                           !.rows = list.rows, !.at = list.at, !.got = "served"]]
        BY <1>6 DEF Unlock
    <2> DEFINE task == [Task(<<Load("names")>>) EXCEPT
                           !.rows = list.rows, !.at = list.at, !.got = "served"]
    <2>2. /\ <<Load("names")>> \in Seq(StepSet) /\ Load("names").do = "names"
          /\ Head(<<Load("names")>>) = Load("names")
        BY LoadTypes, OneOrTwo DEF Loads
    <2>3. Task(<<Load("names")>>) \in TaskSet
          /\ Task(<<Load("names")>>).todo = <<Load("names")>>
        BY <2>2, AskedTasks DEF Asked
    <2>4. /\ task \in TaskSet /\ task.todo = <<Load("names")>> /\ task.rows = list.rows
          /\ task.at = list.at /\ task.got = "served"
        BY <1>2, <2>3 DEF TaskSet
    <2>. HIDE DEF task
    <2>5. NamesAsked(t) /\ TasksTyped'
        BY <2>1, <2>4 DEF NamesAsked, Free, Typed, TasksOK, TasksTyped, task
    <2>6. TasksOK'
        <3>1. \A u \in Tasks : tasks'[u].at <= clock
            BY <1>2, <2>5 DEF NamesAsked, Typed, TasksOK
        <3>2. \A u \in Tasks : (Busy(u) /\ Now(u).do = "pins")' =>
                                tasks'[u].rows \in SUBSET FolderRows
            <4>. TAKE u \in Tasks
            <4>1. CASE u = t
                BY <2>2, <2>5, <4>1 DEF NamesAsked, Now
            <4>2. CASE u # t
                BY <2>5, <4>2 DEF NamesAsked, Typed, TasksOK, Busy, Now
            <4>. QED
                BY <4>1, <4>2
        <3>. QED
            BY <1>1, <1>3, <2>5, <3>1, <3>2 DEF Typed, TasksOK
    <2>7. t \in Tasks
        BY DEF Free
    <2>. QED
        BY <1>1, <1>3, <1>4, <2>5, <2>6, <2>7 DEF Typed
<1>. QED
    BY <1>5, <1>6 DEF Unlock

\* The steps there are, by what they do to the tasks.
TaskStep(t) ==
    \/ RequestMade(t) \/ RequestFails(t) \/ TwinFound(t)
    \/ LoadServed(t) \/ LoadNamed(t) \/ LoadFails(t)
    \/ TreeShown(t) \/ TrashShown(t) \/ PinsShown(t) \/ PinKept(t)

LEMMA Kinds ==
    ASSUME Typed, [Next]_vars
    PROVE  /\ Typed'
           /\ \/ UserStep \/ PinAsked \/ LockDrive \/ Unlock
              \/ \E t \in Tasks : TaskStep(t)
<1>1. CASE TaskSteps
    BY <1>1, RequestTypes, FailureTypes, TwinFoundTypes, LoadServedTypes, LoadNamedTypes,
       ShownTypes DEF TaskSteps, TaskStep
<1>2. CASE NavigationSteps \/ ChoiceSteps
    BY <1>2, NavigationTypes, ChoiceTypes
<1>3. CASE LockSteps
    BY <1>3, LockTypes, UnlockTypes, DropTypes DEF LockSteps
<1>4. CASE UserSteps
    BY <1>4, ConfirmTypes, RestoreTypes, DropOnTypes, DropTypes, PinTypes DEF UserSteps
<1>5. CASE UNCHANGED vars
    <2>1. UNCHANGED <<server, list, trash, locked, place, screen, pictures, pinning,
                      dropping, progress>> /\ odd' = odd
        BY <1>5 DEF vars
    <2>2. PlaceOK' /\ ScreenOK'
        BY <2>1 DEF Typed, PlaceOK, place, ScreenOK, screen, Dialogs
    <2>. QED
        BY <2>1, <2>2, OddKept, ChoiceMade
<1>. QED
    BY <1>1, <1>2, <1>3, <1>4, <1>5 DEF Next

LEMMA InitTyped == Init => Typed
<1>. SUFFICES ASSUME Init PROVE Typed
    OBVIOUS
<1>1. PICK start \in Starts :
          /\ files = start.files /\ folders = start.folders
          /\ parent = start.parent /\ pins = start.pins
          /\ used = Cardinality({f \in FileIds : start.files[f] # Absent})
          /\ budget = start.budget
    BY DEF Init
<1>2. ServerOK
    <2>1. used \in Nat /\ used <= Cardinality(FileIds)
        <3>1. {f \in FileIds : start.files[f] # Absent} \in SUBSET FileIds
            OBVIOUS
        <3>. QED
            BY <1>1, <3>1, DriveViewAssumption, FS_Subset, FS_CardinalityType
    <2>2. Ledger!TypeOK
        <3>1. refund \in [{} -> Nat \cup {Absent}]
            BY DEF Init
        <3>. QED
            BY <1>1, <2>1, <3>1, StartsAssumption DEF Ledger!TypeOK
    <2>3. ServerInv /\ pins \in SUBSET Folders
        BY <1>1, StartsAssumption DEF ServerInv, LedgerP!FoldersAgree
    <2>. QED
        BY <2>1, <2>2, <2>3 DEF ServerOK, ServerTyped, Init
<1>3. CopiesOK /\ PlaceOK /\ ScreenOK /\ PinsOK /\ ShownOK
    BY EmptySeq DEF Init, CopiesOK, Copy, PlaceOK, Views, Places, ScreenOK, PinsOK, ShownOK
<1>4. TasksOK
    <2>1. PICK t \in Tasks, u \in Tasks : t # u /\
             tasks = [v \in Tasks |-> CASE v = t -> Task(Tree)
                                        [] v = u -> Task(<<Load("pins")>>)
                                        [] OTHER -> Idle]
        BY DEF Init
    <2>2. <<Load("pins")>> \in Seq(StepSet)
        BY LoadTypes, OneOrTwo DEF Loads
    <2>3. Asked(Task(Tree)) /\ Asked(Task(<<Load("pins")>>)) /\ Asked(Idle)
        BY <2>2, LoadTypes, AskedTasks, IdleTask DEF Asked
    <2>4. \A v \in Tasks : Asked(tasks[v])
        BY <2>1, <2>3
    <2>5. budget \in Nat /\ clock = 1
        BY <1>1, StartsAssumption DEF Init
    <2>6. tasks \in [Tasks -> TaskSet]
        BY <2>1, <2>4 DEF Asked
    <2>. QED
        BY <2>4, <2>5, <2>6 DEF TasksOK, TasksTyped, Asked
<1>. QED
    BY <1>2, <1>3, <1>4 DEF Typed

\* The view and the storage it talks to keep their types, whatever is clicked
\* and in whatever order the answers come (DriveStore and the drive page).
THEOREM DriveTyped == Spec => []TypeOK
<1>1. Typed /\ [Next]_vars => Typed'
    BY Kinds
<1>. QED
    BY <1>1, InitTyped, TypedTypes, PTL DEF Spec

\* The same with what types rest on: the tables of the server fit together
\* (FolderManager, FileManager), every task has steps of the methods of
\* DriveStore, and no copy is newer than the server.
THEOREM AlwaysTyped == Spec => []Typed
<1>1. Typed /\ [Next]_vars => Typed'
    BY Kinds
<1>. QED
    BY <1>1, InitTyped, PTL DEF Spec

(***************************************************************************)
(* Drops, names and choices                                                *)
(***************************************************************************)

\* What the steps note, and what they leave alone.
DropNotes == {"dropsMeet", "dropLost", "dropAstray"}
LEMMA Elsewhere ==
    ASSUME [Next]_vars
    PROVE  /\ odd \subseteq odd'
           /\ \/ DropStarted \/ \E drop \in drops : Dropped(drop) \/ DropUnread(drop)
              \/ UNCHANGED dropping /\ odd' \cap DropNotes \subseteq odd
           /\ \/ \E f \in Pictures : ThumbnailRead(f)
              \/ LockDrive
              \/ UNCHANGED thumbs
<1>1. ASSUME NEW t \in Tasks, TaskStep(t)
      PROVE  /\ UNCHANGED <<dropping, thumbs>> /\ odd \subseteq odd'
             /\ odd' \cap DropNotes \subseteq odd
    BY <1>1 DEF TaskStep, RequestMade, RequestFails, TwinFound, LoadServed, LoadNamed,
       LoadFails, TreeShown, TrashShown, PinsShown, PinKept, Notes, Remarks, DropNotes, pictures
<1>2. ASSUME NavigationSteps
      PROVE  /\ UNCHANGED <<dropping, thumbs>> /\ odd \subseteq odd'
             /\ odd' \cap DropNotes \subseteq odd
    BY <1>2 DEF NavigationSteps, GoBack, GoForward, NavigateUp, OpenFolder, ShowsFolder,
       ViewChange, Keeps, DropNotes, pictures
<1>3. ASSUME LockSteps
      PROVE  /\ UNCHANGED dropping /\ odd \subseteq odd'
             /\ odd' \cap DropNotes \subseteq odd
             /\ \/ \E f \in Pictures : ThumbnailRead(f)
                \/ LockDrive
                \/ UNCHANGED thumbs
    BY <1>3 DEF LockSteps, LockDrive, Unlock, ThumbnailAsked, ThumbnailRead, DropNotes, pictures
<1>4. ASSUME ChoiceSteps
      PROVE  /\ UNCHANGED <<dropping, thumbs>> /\ odd \subseteq odd'
             /\ odd' \cap DropNotes \subseteq odd
    BY <1>4 DEF ChoiceSteps, RowSteps, Click, CtrlClick, OpenMenu, DragStart, DrawBox, CloseMenu,
       DragEnd, MenuAsks, BulkAsks, DriveAsks, PinAsks, Cancel, Chosen, Others, DropNotes, pictures
<1>5. ASSUME UserSteps
      PROVE  /\ UNCHANGED thumbs /\ odd \subseteq odd'
             /\ \/ DropStarted \/ \E drop \in drops : Dropped(drop) \/ DropUnread(drop)
                \/ UNCHANGED dropping /\ odd' \cap DropNotes \subseteq odd
    <2>1. ASSUME Confirm \/ MenuRestores \/ BulkRestores \/ TogglePinned
          PROVE  /\ UNCHANGED <<dropping, thumbs>> /\ odd \subseteq odd'
                 /\ odd' \cap DropNotes \subseteq odd
        <3>1. CASE Confirm
            BY <3>1 DEF Confirm, Strays, DropNotes, pictures
        <3>2. CASE MenuRestores \/ BulkRestores \/ TogglePinned
            BY <3>2 DEF MenuRestores, BulkRestores, TogglePinned, Chosen, Others, DropNotes,
               pictures
        <3>. QED
            BY <2>1, <3>1, <3>2
    <2>2. ASSUME NEW d \in Folders \cup {Root}, PinUnpins(d) \/ DropOn(d)
          PROVE  /\ UNCHANGED <<dropping, thumbs>> /\ odd \subseteq odd'
                 /\ odd' \cap DropNotes \subseteq odd
        BY <2>2 DEF PinUnpins, DropOn, Strays, DropNotes, pictures
    <2>3. ASSUME DropStarted \/ \E drop \in drops : Dropped(drop) \/ DropUnread(drop)
          PROVE  UNCHANGED thumbs /\ odd \subseteq odd'
        BY <2>3 DEF DropStarted, Dropped, DropUnread, pictures
    <2>. QED
        BY <1>5, <2>1, <2>2, <2>3 DEF UserSteps
<1>6. CASE UNCHANGED vars
    BY <1>6 DEF vars, dropping, pictures
<1>. QED
    BY <1>1, <1>2, <1>3, <1>4, <1>5, <1>6 DEF Next, TaskSteps, TaskStep

DropsInv ==
    "dropsMeet" \notin odd =>
        /\ {"dropLost", "dropAstray"} \cap odd = {}
        /\ \A drop \in drops : drop.onto = dropInto /\ drop.onto \in Places
        /\ \A one, two \in drops : one = two

LEMMA DropsStep == ASSUME Typed, DropsInv, [Next]_vars PROVE DropsInv'
<1>1. CASE DropStarted
    <2>1. current \in Places
        BY DEF Typed, PlaceOK
    <2>. QED
        BY <1>1, <2>1 DEF DropStarted, DropsInv
<1>2. ASSUME NEW drop \in drops, Dropped(drop) PROVE DropsInv'
    <2>1. Absent \notin Places
        BY DriveViewAssumption DEF Places
    <2>. QED
        BY <1>2, <2>1 DEF Dropped, DropsInv
<1>3. ASSUME NEW drop \in drops, DropUnread(drop) PROVE DropsInv'
    BY <1>3 DEF DropUnread, DropsInv
<1>4. CASE UNCHANGED dropping /\ odd' \cap DropNotes \subseteq odd
    BY <1>4, Elsewhere DEF DropsInv, DropNotes, dropping
<1>. QED
    BY <1>1, <1>2, <1>3, <1>4, Elsewhere

\* A drop is uploaded into the folder it was made on, and neither it nor the
\* one before it is lost, unless a slower reading of an earlier drop says
\* otherwise (DriveDropZoneDirective.onDrop, driveStore.stageUploadFiles).
THEOREM DropsLandWhereMade == Spec => []DropsLand
<1>1. Init => DropsInv
    BY DEF Init, DropsInv
<1>2. Typed /\ DropsInv /\ [Next]_vars => DropsInv'
    BY DropsStep
<1>3. DropsInv => DropsLand
    BY DEF DropsInv, DropsLand
<1>. QED
    BY <1>1, <1>2, <1>3, AlwaysTyped, PTL DEF Spec

LEMMA NamesHiddenStep == ASSUME Typed, NamesHidden, [Next]_vars PROVE NamesHidden'
<1>0. odd \subseteq odd'
    BY Elsewhere
<1>1. CASE \E f \in Pictures : ThumbnailRead(f)
    BY <1>0, <1>1 DEF ThumbnailRead, NamesHidden
<1>2. CASE LockDrive
    <2>1. list.rows \in SUBSET Row /\ list'.rows = Named(list.rows, FALSE)
        BY <1>2, LockTypes DEF Typed, CopiesOK, Copy
    <2>2. \A r \in Named(list.rows, FALSE) : r.named = FALSE
        BY <2>1, NamedRows
    <2>. QED
        BY <1>2, <2>1, <2>2 DEF LockDrive, NamesHidden
<1>3. ASSUME UNCHANGED thumbs, NEW t \in Tasks, TaskStep(t) PROVE NamesHidden'
    <2>1. CASE TreeShown(t)
        <3>1. /\ list'.rows = tasks[t].rows /\ locked' = locked
              /\ odd' = odd \cup Remarks(tasks[t])
            BY <2>1 DEF TreeShown
        <3>. QED
            BY <1>3, <3>1 DEF NamesHidden, Remarks
    <2>2. CASE ~TreeShown(t)
        <3>1. list' = list /\ locked' = locked
            BY <1>3, <2>2 DEF TaskStep, RequestMade, RequestFails, TwinFound, LoadServed, LoadNamed,
               LoadFails, TrashShown, PinsShown, PinKept
        <3>. QED
            BY <1>0, <1>3, <3>1 DEF NamesHidden
    <2>. QED
        BY <2>1, <2>2
<1>4. CASE UNCHANGED thumbs /\ (UserStep \/ PinAsked)
    BY <1>0, <1>4 DEF UserStep, PinAsked, NamesHidden
<1>5. CASE Unlock
    BY <1>5, UnlockTypes DEF NamesHidden
<1>. QED
    BY <1>1, <1>2, <1>3, <1>4, <1>5, Elsewhere, Kinds

\* While the drive is locked no name and no thumbnail is shown, although a
\* reload may be reading names when it is locked (DriveStore.lockVault,
\* decryptFiles).
THEOREM NamesStayHidden == Spec => []NamesHidden
<1>1. Init => NamesHidden
    BY DEF Init, NamesHidden
<1>2. Typed /\ NamesHidden /\ [Next]_vars => NamesHidden'
    BY NamesHiddenStep
<1>. QED
    BY <1>1, <1>2, AlwaysTyped, PTL DEF Spec

\* What has the number of something chosen is no other than it, as far as the
\* page can tell.
NumbersOf(keys) == {Number[k] : k \in keys}
PickInv ==
    "kept" \notin odd => "another" \notin odd /\ selected \subseteq NumbersOf(picked)
PointInv == menu # 0 => NumbersOf(pointed) = {menu}

LEMMA Chooses ==
    ASSUME NEW rows, NEW keys
    PROVE  Numbers(rows) \subseteq NumbersOf(keys) => "another" \notin Others(rows, keys)
    BY DEF Others, NumbersOf

LEMMA FoundByNumber ==
    /\ \A row \in ActiveMenuFile : Numbers({row}) = {menu}
    /\ Numbers(SelectedFiles) \subseteq selected
    BY DEF ActiveMenuFile, FoldersOf, SelectedFiles, Numbers

LEMMA PickFrame ==
    ASSUME PickInv, PointInv, odd \subseteq odd', "another" \in odd' => "another" \in odd
    PROVE  /\ SelectionEnds => PickInv'
           /\ UNCHANGED <<menu, pointed>> => PointInv'
           /\ menu' = 0 => PointInv'
    BY DEF PickInv, PointInv, SelectionEnds, NumbersOf

LEMMA PickNavigation ==
    ASSUME PickInv, PointInv, NavigationSteps \/ LockSteps
    PROVE  PickInv' /\ PointInv'
<1>0. \A d : NavigateTo(d) => SelectionEnds
    BY DEF NavigateTo, SetCurrentFolder, SelectionEnds
<1>1. odd \subseteq odd' /\ ("another" \in odd' => "another" \in odd)
      /\ UNCHANGED screen
    BY DEF NavigationSteps, GoBack, GoForward, NavigateUp, OpenFolder, ShowsFolder, ViewChange,
       LockSteps, LockDrive, Unlock, ThumbnailAsked, ThumbnailRead, Keeps
<1>2. PointInv'
    BY <1>1, PickFrame DEF screen
<1>3. CASE NavigateUp
    BY <1>2, <1>3 DEF NavigateUp, Keeps, PickInv
<1>4. CASE GoBack \/ GoForward
    BY <1>1, <1>2, <1>4, PickFrame DEF GoBack, GoForward, SetCurrentFolder, SelectionEnds
<1>5. CASE \E d \in Folders \cup {Root} : OpenFolder(d) \/ ShowsFolder(d)
    BY <1>0, <1>1, <1>2, <1>5, PickFrame DEF OpenFolder, ShowsFolder
<1>6. ASSUME NEW v \in {"drive", "trash", "storage", "transfers"}, ViewChange(v) PROVE PickInv'
    <2>1. CASE v = "drive" \/ v = view
        BY <1>0, <1>1, <1>6, <2>1, PickFrame DEF ViewChange, SelectionEnds
    <2>2. CASE v # "drive" /\ v # view
        BY <1>6, <2>2 DEF ViewChange, PickInv
    <2>. QED
        BY <2>1, <2>2
<1>7. CASE LockSteps
    BY <1>0, <1>1, <1>2, <1>7, PickFrame DEF LockSteps, LockDrive, Unlock, ThumbnailAsked, ThumbnailRead,
       place, SelectionEnds
<1>. QED
    BY <1>2, <1>3, <1>4, <1>5, <1>6, <1>7 DEF NavigationSteps

LEMMA PickChoice ==
    ASSUME Typed, PickInv, PointInv, ChoiceSteps
    PROVE  PickInv' /\ PointInv'
<1>0. odd \subseteq odd' /\ Shown \in SUBSET Row
    BY Elsewhere, ShownRows DEF Next, Typed
<1>1. ASSUME NEW row \in Shown, Click(row) \/ CtrlClick(row) PROVE PickInv' /\ PointInv'
    <2>1. UNCHANGED <<screen, odd>>
        BY <1>1 DEF Click, CtrlClick
    <2>2. PointInv'
        BY <1>0, <2>1, PickFrame DEF screen
    <2>3. PickInv'
        BY <1>1, <2>1 DEF Click, CtrlClick, PickInv, NumbersOf
    <2>. QED
        BY <2>2, <2>3
<1>2. ASSUME NEW rows \in SUBSET Shown, NEW ctrl \in BOOLEAN, DrawBox(rows, ctrl)
      PROVE  PickInv' /\ PointInv'
    <2>1. UNCHANGED <<screen, odd>>
        BY <1>2 DEF DrawBox
    <2>2. PointInv'
        BY <1>0, <2>1, PickFrame DEF screen
    <2>3. Numbers(rows) \subseteq NumbersOf(Keys(rows))
        BY DEF Numbers, NumbersOf, Keys
    <2>4. PickInv'
        BY <1>2, <2>1, <2>3 DEF DrawBox, PickInv, NumbersOf
    <2>. QED
        BY <2>2, <2>4
<1>3. ASSUME NEW row \in Shown, OpenMenu(row) PROVE PickInv' /\ PointInv'
    <2>1. PickInv'
        BY <1>0, <1>3, PickFrame DEF OpenMenu, place, SelectionEnds
    <2>2. PointInv'
        BY <1>3 DEF OpenMenu, PointInv, NumbersOf
    <2>. QED
        BY <2>1, <2>2
<1>4. ASSUME NEW row \in Shown, DragStart(row) PROVE PickInv' /\ PointInv'
    <2>1. PICK rows : /\ rows = IF Number[row.key] \in selected THEN SelectedFiles ELSE {row}
                      /\ Chosen(rows, picked \cup {row.key})
        BY <1>4 DEF DragStart
    <2>2. "kept" \notin odd => Numbers(rows) \subseteq NumbersOf(picked \cup {row.key})
        BY <2>1, FoundByNumber DEF PickInv, NumbersOf, Numbers
    <2>3. "kept" \notin odd => ("another" \in odd' => "another" \in odd)
        BY <2>1, <2>2, Chooses DEF Chosen
    <2>4. PickInv'
        BY <1>0, <1>4, <2>3 DEF DragStart, place, PickInv
    <2>5. PointInv'
        BY <1>4 DEF DragStart, PointInv
    <2>. QED
        BY <2>4, <2>5
<1>5. ASSUME \/ CloseMenu \/ DragEnd \/ Cancel
             \/ \E do \in {"empty", "create"} : DriveAsks(do)
             \/ \E d \in Folders, do \in {"trash", "rename"} : PinAsks(d, do)
      PROVE  PickInv' /\ PointInv'
    <2>1. UNCHANGED <<place, odd>> /\ (menu' = 0 \/ UNCHANGED <<menu, pointed>>)
        BY <1>5 DEF CloseMenu, DragEnd, Cancel, DriveAsks, PinAsks
    <2>. QED
        BY <1>0, <2>1, PickFrame DEF place, SelectionEnds
<1>6. ASSUME NEW do \in {"trash", "purge", "rename"}, MenuAsks(do) PROVE PickInv' /\ PointInv'
    <2>1. PICK row \in ActiveMenuFile : Chosen({row}, pointed)
        BY <1>6 DEF MenuAsks
    <2>2. Numbers({row}) \subseteq NumbersOf(pointed)
        BY <1>6, FoundByNumber DEF MenuAsks, PointInv
    <2>3. "another" \in odd' => "another" \in odd
        BY <2>1, <2>2, Chooses DEF Chosen
    <2>. QED
        BY <1>0, <1>6, <2>3, PickFrame DEF MenuAsks, place, SelectionEnds
<1>7. CASE BulkAsks
    <2>1. Chosen(SelectedFiles, picked)
        BY <1>7 DEF BulkAsks
    <2>2. "kept" \notin odd => Numbers(SelectedFiles) \subseteq NumbersOf(picked)
        BY FoundByNumber DEF PickInv
    <2>3. "kept" \notin odd => ("another" \in odd' => "another" \in odd)
        BY <2>1, <2>2, Chooses DEF Chosen
    <2>4. PickInv'
        BY <1>0, <1>7, <2>3 DEF BulkAsks, place, PickInv
    <2>5. PointInv'
        BY <1>7 DEF BulkAsks, PointInv
    <2>. QED
        BY <2>4, <2>5
<1>. QED
    BY <1>1, <1>2, <1>3, <1>4, <1>5, <1>6, <1>7 DEF ChoiceSteps, RowSteps

LEMMA PickUse ==
    ASSUME PickInv, PointInv, UserSteps
    PROVE  PickInv' /\ PointInv'
<1>0. odd \subseteq odd'
    BY Elsewhere DEF Next
<1>1. ASSUME \/ Confirm \/ DropStarted
             \/ \E drop \in drops : Dropped(drop) \/ DropUnread(drop)
             \/ \E d \in Folders : PinUnpins(d)
             \/ \E d \in Folders \cup {Root} : DropOn(d)
      PROVE  PickInv' /\ PointInv'
    <2>1. /\ UNCHANGED <<place, menu, pointed>>
          /\ "another" \in odd' => "another" \in odd
        <3>1. CASE Confirm
            BY <3>1 DEF Confirm, Strays
        <3>2. CASE ~Confirm
            BY <1>1, <3>2 DEF DropStarted, Dropped, DropUnread, PinUnpins, DropOn, Strays, screen
        <3>. QED
            BY <3>1, <3>2
    <2>. QED
        BY <1>0, <2>1, PickFrame DEF place, SelectionEnds
<1>2. CASE MenuRestores \/ TogglePinned
    <2>1. PICK row \in ActiveMenuFile :
             odd' \subseteq odd \cup Others({row}, pointed) \cup {"strays"}
        BY <1>2 DEF MenuRestores, TogglePinned, Chosen, FoldersOf
    <2>2. Numbers({row}) \subseteq NumbersOf(pointed)
        BY <1>2, FoundByNumber DEF MenuRestores, TogglePinned, PointInv
    <2>3. "another" \in odd' => "another" \in odd
        BY <2>1, <2>2, Chooses
    <2>4. UNCHANGED place /\ menu' = 0
        BY <1>2 DEF MenuRestores, TogglePinned
    <2>. QED
        BY <1>0, <2>3, <2>4, PickFrame DEF place, SelectionEnds
<1>3. CASE BulkRestores
    <2>1. odd' \subseteq odd \cup Others(SelectedFiles, picked) \cup {"strays"}
        BY <1>3 DEF BulkRestores
    <2>2. "kept" \notin odd => Numbers(SelectedFiles) \subseteq NumbersOf(picked)
        BY FoundByNumber DEF PickInv
    <2>3. "kept" \notin odd => ("another" \in odd' => "another" \in odd)
        BY <2>1, <2>2, Chooses
    <2>4. UNCHANGED place /\ UNCHANGED screen
        BY <1>3 DEF BulkRestores
    <2>5. PickInv'
        BY <1>0, <2>3, <2>4 DEF place, PickInv
    <2>6. PointInv'
        BY <2>4 DEF screen, PointInv
    <2>. QED
        BY <2>5, <2>6
<1>. QED
    BY <1>1, <1>2, <1>3 DEF UserSteps

LEMMA PickStep ==
    ASSUME Typed, PickInv, PointInv, [Next]_vars
    PROVE  PickInv' /\ PointInv'
<1>1. ASSUME NEW t \in Tasks, TaskStep(t) PROVE PickInv' /\ PointInv'
    <2>1. UNCHANGED screen /\ ("another" \in odd' => "another" \in odd)
        BY <1>1 DEF TaskStep, RequestMade, RequestFails, TwinFound, LoadServed, LoadNamed,
           LoadFails, TreeShown, TrashShown, PinsShown, PinKept, Notes, Remarks
    <2>2. SelectionEnds
        BY <1>1, RequestTypes, FailureTypes, TwinFoundTypes, ShownTypes
           DEF TaskStep, LoadServed, LoadNamed, place, SelectionEnds
    <2>. QED
        BY <2>1, <2>2, PickFrame, Elsewhere DEF screen
<1>2. CASE UNCHANGED vars
    BY <1>2 DEF vars, place, screen, PickInv, PointInv
<1>. QED
    BY <1>1, <1>2, PickNavigation, PickChoice, PickUse DEF Next, TaskSteps, TaskStep

\* What a dialog, a menu or the bulk bar acts on is what was chosen, or an
\* item that has the same number (getSelectedFiles and activeMenuFile of
\* FileListComponent look items up by their numbers alone).
THEOREM ActsOnChosen == Spec => []ActsOnPicked
<1>1. Init => PickInv /\ PointInv
    BY DEF Init, PickInv, PointInv
<1>2. Typed /\ PickInv /\ PointInv /\ [Next]_vars => PickInv' /\ PointInv'
    BY PickStep
<1>3. PickInv => ActsOnPicked
    BY DEF PickInv, ActsOnPicked
<1>. QED
    BY <1>1, <1>2, <1>3, AlwaysTyped, PTL DEF Spec

(***************************************************************************)
(* The list shows what the server has                                      *)
(***************************************************************************)

LEMMA SameTree ==
    ASSUME parent' = parent,
           \A f \in FileIds : files'[f] = files[f] \/
                              (f \notin Ledger!Live /\ f \notin Ledger!Live'),
           \A d \in Folders : folders'[d] = folders[d] \/
                              (folders[d] # "live" /\ folders'[d] # "live")
    PROVE  TreeRows' = TreeRows
<1>1. \A f \in FileIds : /\ f \in Ledger!Live' <=> f \in Ledger!Live
                         /\ f \in Ledger!Live => FileRow(f)' = FileRow(f)
    BY DEF Ledger!Live, Ledger!Rows, FileRow
<1>2. \A d \in Folders : /\ folders'[d] = "live" <=> folders[d] = "live"
                         /\ FolderRow(d)' = FolderRow(d)
    BY DEF FolderRow
<1>3. Ledger!Live \subseteq FileIds /\ Ledger!Live' \subseteq FileIds
    BY DEF Ledger!Live, Ledger!Rows
<1>4. {FileRow(f) : f \in Ledger!Live}' = {FileRow(f) : f \in Ledger!Live}
    BY <1>1, <1>3
<1>5. {FolderRow(d) : d \in {e \in Folders : folders[e] = "live"}}' =
      {FolderRow(d) : d \in {e \in Folders : folders[e] = "live"}}
    BY <1>2
<1>. QED
    BY <1>4, <1>5 DEF TreeRows

\* The trees of folders in the trash are in the trash.
LEMMA DoomedTrees ==
    ASSUME ServerOK, NEW D \in SUBSET Folders,
           \A d \in D : folders[d] \in {"recent", "expired"}
    PROVE  \A e \in Ledger!FolderTrees(D) : folders[e] # "live"
<1>1. LedgerP!TypeOK /\ LedgerP!FoldersAgree
    BY SameTypes DEF ServerOK, ServerTyped, ServerInv
<1>2. LedgerP!Closed({d \in Folders : folders[d] \in {"recent", "expired"}})
    BY <1>1, LedgerAssumed, LedgerP!AgesClosed
<1> DEFINE trashed == {d \in Folders : folders[d] \in {"recent", "expired"}}
<1>3. D \subseteq trashed /\ trashed \in SUBSET Folders /\ LedgerP!Closed(trashed)
    BY <1>2
<1>. HIDE DEF trashed
<1>4. LedgerP!FolderTrees(D) \subseteq trashed
    BY <1>3, LedgerAssumed, LedgerP!TreesLeast
<1>. QED
    BY <1>4, SameTrees DEF trashed

\* A request that no load of the tree follows changes nothing that it shows,
\* unless it takes a live file along.
LEMMA TreeStays ==
    ASSUME ServerOK, NEW s \in StepSet, s.do \notin Changing, s.do \notin Loads, Made(s),
           \A f \in Ledger!Live : files'[f] # Absent
    PROVE  TreeRows' = TreeRows
<1>1. ASSUME NEW F, NEW D,
             parent' = parent,
             files' = Ledger!Without(F),
             \A d \in Folders : folders'[d] = IF d \in D THEN Absent ELSE folders[d],
             \A d \in D : folders[d] # "live"
      PROVE  TreeRows' = TreeRows
    <2>1. \A f \in FileIds : files'[f] = files[f] \/
                              (f \notin Ledger!Live /\ f \notin Ledger!Live')
        BY <1>1, Deleted DEF Ledger!Live, Ledger!Rows
    <2>2. "live" # Absent
        BY StartsAssumption DEF Ledger!Ages
    <2>3. \A d \in Folders : folders'[d] = folders[d] \/
                              (folders[d] # "live" /\ folders'[d] # "live")
        BY <1>1, <2>2
    <2>. QED
        BY <1>1, <2>1, <2>3, SameTree
<1>2. ASSUME NEW F, Ledger!HardDeleteFiles(F) PROVE TreeRows' = TreeRows
    <2> DEFINE none == {}
    <2>1. /\ parent' = parent /\ files' = Ledger!Without(F)
          /\ \A d \in Folders : folders'[d] = IF d \in none THEN Absent ELSE folders[d]
          /\ \A d \in none : folders[d] # "live"
        BY <1>2 DEF Ledger!HardDeleteFiles
    <2>. HIDE DEF none
    <2>. QED
        BY <2>1, <1>1
<1>3. ASSUME NEW D \in SUBSET Folders, Ledger!HardDeleteFolders(D) PROVE TreeRows' = TreeRows
    <2> DEFINE chosen == {d \in D : folders[d] \in {"recent", "expired"}}
    <2> DEFINE doomed == Ledger!FolderTrees(chosen)
    <2>1. /\ parent' = parent /\ files' = Ledger!Without(Ledger!FilesIn(doomed))
          /\ folders' = Ledger!WithAge(doomed, Absent)
        BY <1>3 DEF Ledger!HardDeleteFolders
    <2>2. chosen \in SUBSET Folders /\ \A d \in chosen : folders[d] \in {"recent", "expired"}
        OBVIOUS
    <2>. HIDE DEF chosen
    <2>3. \A d \in doomed : folders[d] # "live"
        BY <2>2, DoomedTrees
    <2>. HIDE DEF doomed
    <2>4. \A d \in Folders : folders'[d] = IF d \in doomed THEN Absent ELSE folders[d]
        BY <2>1 DEF Ledger!WithAge
    <2>. QED
        BY <2>1, <2>3, <2>4, <1>1
<1>4. ASSUME Ledger!EmptyTrash PROVE TreeRows' = TreeRows
    <2> DEFINE chosen == {d \in Folders : folders[d] \in {"recent", "expired"}}
    <2> DEFINE doomed == Ledger!FolderTrees(chosen)
    <2>1. /\ parent' = parent
          /\ files' = Ledger!Without(Ledger!Trashed \cup Ledger!FilesIn(doomed))
          /\ folders' = [d \in Folders |-> IF d \in doomed THEN Absent ELSE folders[d]]
        BY <1>4 DEF Ledger!EmptyTrash
    <2>2. chosen \in SUBSET Folders /\ \A d \in chosen : folders[d] \in {"recent", "expired"}
        OBVIOUS
    <2>. HIDE DEF chosen
    <2>3. \A d \in doomed : folders[d] # "live"
        BY <2>2, DoomedTrees
    <2>. HIDE DEF doomed
    <2>4. \A d \in Folders : folders'[d] = IF d \in doomed THEN Absent ELSE folders[d]
        BY <2>1
    <2>. QED
        BY <2>1, <2>3, <2>4, <1>1
<1>5. CASE PinEffect(s.do, s.on) /\ UNCHANGED ledger
    <2>1. UNCHANGED <<files, folders, parent>>
        BY <1>5 DEF ledger
    <2>. QED
        BY <2>1, SameTree
<1>6. CASE Effect(s.do, s.on, s.with)
    <2>1. s.do \in {"purgeFolder", "purgeFolders"} => s.on \in SUBSET Folders
        BY StepTypes DEF FolderDoes
    <2>2. \/ \E F : Ledger!HardDeleteFiles(F)
          \/ s.do \in {"purgeFolder", "purgeFolders"} /\ Ledger!HardDeleteFolders(s.on)
          \/ Ledger!EmptyTrash
        BY <1>6 DEF Effect, Changing
    <2>. QED
        BY <2>1, <2>2, <1>2, <1>3, <1>4
<1>. QED
    BY <1>5, <1>6 DEF Made

Served(t) == /\ Busy(t) /\ Now(t).do \in {"tree", "names"}
             /\ tasks[t].got # "nothing"

\* What the server had when it made its nth change and since is what it has.
FreshFrom(n) ==
    /\ list.at >= n => Named(list.rows, FALSE) = TreeRows
    /\ \A t \in Tasks : Served(t) /\ tasks[t].at >= n =>
          Named(tasks[t].rows, FALSE) = TreeRows

\* It is shown, or will be.
Due(n) ==
    \/ list.at >= n
    \/ \E t \in Tasks : \E i \in DOMAIN tasks[t].todo :
          /\ tasks[t].todo[i].do = "tree"
          /\ i = 1 => tasks[t].got = "nothing" \/ tasks[t].at >= n
Fresh(n) == n <= clock /\ FreshFrom(n) /\ Due(n)

ViewInv ==
    But({"failed", "overtaken", "swept"}) =>
        /\ \A t \in Tasks : Reloads(tasks[t].todo)
        /\ \E n \in Nat : Fresh(n)

LEMMA ReloadsTail ==
    ASSUME TasksTyped, NEW t \in Tasks, Busy(t), Reloads(tasks[t].todo)
    PROVE  Reloads(Tail(tasks[t].todo))
<1> DEFINE todo == tasks[t].todo
<1> DEFINE rest == Tail(tasks[t].todo)
<1>1. /\ Len(todo) \in Nat \ {0} /\ DOMAIN todo = 1..Len(todo)
      /\ rest \in Seq(StepSet) /\ Len(rest) = Len(todo) - 1
      /\ \A i \in 1..Len(rest) : rest[i] = todo[i + 1]
    BY NowOf
<1>2. DOMAIN rest = 1..(Len(todo) - 1)
    BY <1>1, LenProperties
<1>3. Reloads(todo)
    OBVIOUS
<1>. HIDE DEF todo, rest
<1>4. SUFFICES ASSUME NEW i \in DOMAIN rest, rest[i].do \in Changing
               PROVE  \E j \in DOMAIN rest : i < j /\ rest[j].do = "tree"
    BY DEF Reloads, rest
<1>5. i + 1 \in DOMAIN todo /\ todo[i + 1].do \in Changing
    BY <1>1, <1>2, <1>4
<1>6. PICK j \in DOMAIN todo : i + 1 < j /\ todo[j].do = "tree"
    BY <1>3, <1>5 DEF Reloads
<1>7. j - 1 \in DOMAIN rest /\ i < j - 1 /\ rest[j - 1] = todo[(j - 1) + 1]
      /\ (j - 1) + 1 = j
    BY <1>1, <1>2, <1>4, <1>6
<1>. QED
    BY <1>6, <1>7

\* The requests of a task that goes on have their load, and a tree that was
\* still to be loaded later is so now.
Onward(todo, rest) ==
    /\ Reloads(rest)
    /\ \A i \in DOMAIN todo : i # 1 /\ todo[i].do = "tree" =>
          \E j \in DOMAIN rest : rest[j].do = "tree"

LEMMA TailOnward ==
    ASSUME TasksTyped, NEW t \in Tasks, Busy(t), Reloads(tasks[t].todo)
    PROVE  Onward(tasks[t].todo, Tail(tasks[t].todo))
<1> DEFINE todo == tasks[t].todo
<1> DEFINE rest == Tail(tasks[t].todo)
<1>1. /\ Len(todo) \in Nat \ {0} /\ DOMAIN todo = 1..Len(todo)
      /\ rest \in Seq(StepSet) /\ Len(rest) = Len(todo) - 1
      /\ \A i \in 1..Len(rest) : rest[i] = todo[i + 1]
    BY NowOf
<1>2. DOMAIN rest = 1..(Len(todo) - 1)
    BY <1>1, LenProperties
<1>3. Reloads(rest)
    BY ReloadsTail
<1>. HIDE DEF todo, rest
<1>4. ASSUME NEW i \in DOMAIN todo, i # 1
      PROVE  i - 1 \in DOMAIN rest /\ rest[i - 1] = todo[i]
    <2>1. i - 1 \in 1..Len(rest) /\ (i - 1) + 1 = i
        BY <1>1, <1>2, <1>4
    <2>. QED
        BY <1>1, <1>2, <2>1
<1>. QED
    BY <1>3, <1>4 DEF Onward, todo, rest

\* A task goes on whose step was no load of the tree: nothing else changes
\* that the list may come to show.
LEMMA StaysFresh ==
    ASSUME TasksTyped, NEW t \in Tasks, Busy(t), NEW rest, GoesOn(t, rest),
           Now(t).do # "tree", Onward(tasks[t].todo, rest),
           UNCHANGED list, TreeRows' = TreeRows, NEW n \in Nat
    PROVE  /\ FreshFrom(n) => FreshFrom(n)'
           /\ Due(n) => Due(n)'
<1>1. ASSUME NEW u \in Tasks \ {t}
      PROVE  /\ tasks'[u].todo = tasks[u].todo /\ tasks'[u].rows = tasks[u].rows
             /\ tasks'[u].at = tasks[u].at /\ tasks'[u].got = tasks[u].got
             /\ Served(u)' <=> Served(u)
    BY DEF GoesOn, Served, Busy, Now
<1>2. ~Served(t)' /\ tasks'[t].got = "nothing" /\ tasks'[t].todo = rest
    BY DEF GoesOn, Served
<1>3. ASSUME FreshFrom(n) PROVE FreshFrom(n)'
    <2>1. list'.at >= n => Named(list'.rows, FALSE) = TreeRows'
        BY <1>3 DEF FreshFrom
    <2>2. ASSUME NEW u \in Tasks, Served(u)', tasks'[u].at >= n
          PROVE  Named(tasks'[u].rows, FALSE) = TreeRows'
        <3>1. u # t
            BY <1>2, <2>2
        <3>. QED
            BY <3>1, <1>1, <1>3, <2>2 DEF FreshFrom
    <2>3. \A S : Named(S, FALSE)' = Named(S, FALSE)
        BY DEF Named
    <2>. QED
        BY <2>1, <2>2 DEF FreshFrom, Named
<1>4. ASSUME Due(n) PROVE Due(n)'
    <2>1. CASE list.at >= n
        BY <2>1 DEF Due
    <2>2. ASSUME NEW u \in Tasks, NEW i \in DOMAIN tasks[u].todo, tasks[u].todo[i].do = "tree",
                 i = 1 => tasks[u].got = "nothing" \/ tasks[u].at >= n
          PROVE  Due(n)'
        <3>1. CASE u # t
            BY <2>2, <3>1, <1>1 DEF Due
        <3>2. CASE u = t
            <4>1. i # 1
                BY <2>2, <3>2, NowOf
            <4>2. PICK j \in DOMAIN rest : rest[j].do = "tree"
                BY <2>2, <3>2, <4>1 DEF Onward
            <4>. QED
                BY <4>2, <1>2 DEF Due
        <3>. QED
            BY <3>1, <3>2
    <2>. QED
        BY <1>4, <2>1, <2>2 DEF Due
<1>. QED
    BY <1>3, <1>4

\* A copy that is read again, with names or without, is the same copy.
LEMMA UnnamedTree ==
    ASSUME ServerOK
    PROVE  Named(TreeRows, FALSE) = TreeRows
<1>1. TreeRows \in SUBSET Row /\ \A r \in TreeRows : ~r.named
    BY RowsTyped
<1>2. \A r \in TreeRows : r.named = FALSE
    BY <1>1, RowCases
<1>. QED
    BY <1>1, <1>2, NamedRows

LEMMA MadeOnward ==
    ASSUME Typed, ViewInv, NEW t \in Tasks, RequestMade(t),
           But({"failed", "overtaken", "swept"})'
    PROVE  \E n \in Nat : Fresh(n)'
<1>1. But({"failed", "overtaken", "swept"}) /\ Busy(t) /\ IsCall(Now(t))
    BY DEF RequestMade, But
<1>2. PICK n \in Nat : Fresh(n)
    BY <1>1 DEF ViewInv
<1>3. Reloads(tasks[t].todo) /\ Onward(tasks[t].todo, Tail(tasks[t].todo))
    BY <1>1, TailOnward DEF ViewInv, Typed, TasksOK
<1>4. GoesOn(t, Tail(tasks[t].todo)) /\ Typed' /\ UNCHANGED list
    BY RequestTypes DEF RequestMade
<1>5. Now(t) \in StepSet /\ Now(t).do \notin Loads /\ Now(t) = tasks[t].todo[1]
      /\ 1 \in DOMAIN tasks[t].todo /\ Now(t).do # "tree"
    BY <1>1, NowOf DEF IsCall, IsLoad, Typed, TasksOK, Loads
<1>6. clock \in Nat /\ list.at <= clock /\ (\A u \in Tasks : tasks[u].at <= clock)
      /\ \A u \in Tasks : tasks[u].at \in Nat /\ list.at \in Nat
    BY TaskFields DEF Typed, ServerOK, CopiesOK, Copy, TasksOK, TasksTyped
<1>7. ASSUME TreeRows' = TreeRows, clock' \in {clock, clock + 1}
      PROVE  Fresh(n)'
    <2>1. FreshFrom(n)' /\ Due(n)'
        BY <1>1, <1>2, <1>3, <1>4, <1>5, <1>7, StaysFresh DEF Fresh, Typed, TasksOK
    <2>2. n <= clock'
        BY <1>2, <1>6, <1>7 DEF Fresh
    <2>. QED
        BY <2>1, <2>2 DEF Fresh
<1>8. CASE UNCHANGED server
    BY <1>2, <1>7, <1>8, ServerKept
<1>9. CASE Made(Now(t)) /\ Now(t).do \notin Changing
    <2>1. \A f \in Ledger!Live : files'[f] # Absent
        BY DEF RequestMade, Notes, But
    <2>2. TreeRows' = TreeRows /\ clock' = clock + 1
        BY <1>5, <1>9, <2>1, TreeStays, MadeKeeps DEF Typed
    <2>. QED
        BY <1>2, <1>7, <2>2
<1>10. CASE Made(Now(t)) /\ Now(t).do \in Changing
    <2>0. PICK m \in Nat : m = clock + 1
        BY <1>6
    <2>1. clock' = m
        BY <1>10, <2>0 DEF Made
    <2>2. FreshFrom(m)'
        <3>1. ~(list'.at >= m)
            BY <1>4, <1>6, <2>0
        <3>2. \A u \in Tasks : ~(tasks'[u].at >= m)
            <4>1. \A u \in Tasks : tasks'[u].at \in {tasks[u].at, 0}
                BY <1>4 DEF GoesOn
            <4>. QED
                BY <4>1, <1>6, <2>0
        <3>. QED
            BY <3>1, <3>2 DEF FreshFrom
    <2>3. PICK j \in DOMAIN tasks[t].todo : 1 < j /\ tasks[t].todo[j].do = "tree"
        BY <1>3, <1>5, <1>10 DEF Reloads
    <2>4. \E i \in DOMAIN Tail(tasks[t].todo) : Tail(tasks[t].todo)[i].do = "tree"
        BY <1>3, <2>3 DEF Onward
    <2>5. Due(m)'
        BY <1>4, <2>4 DEF GoesOn, Due
    <2>. QED
        BY <2>1, <2>2, <2>5, <1>6 DEF Fresh
<1>. QED
    BY <1>8, <1>9, <1>10 DEF RequestMade

\* A task goes on in the copy it has: a proxy looked up, a load of the trash
\* or of the pins shown, a pin kept.
LEMMA StillFresh ==
    ASSUME Typed, ViewInv, NEW t \in Tasks, NEW rest, GoesOn(t, rest), Busy(t),
           Now(t).do # "tree", Onward(tasks[t].todo, rest),
           UNCHANGED <<server, list>>, odd \subseteq odd'
    PROVE  ViewInv'
<1>1. TreeRows' = TreeRows /\ clock' = clock
    BY ServerKept
<1>2. SUFFICES ASSUME But({"failed", "overtaken", "swept"})'
               PROVE  /\ \A u \in Tasks : Reloads(tasks'[u].todo)
                      /\ \E n \in Nat : Fresh(n)'
    BY DEF ViewInv
<1>3. But({"failed", "overtaken", "swept"})
    BY <1>2 DEF But
<1>4. \A u \in Tasks : Reloads(tasks'[u].todo)
    <2>1. \A u \in Tasks : u = t \/ u \in Tasks \ {t}
        OBVIOUS
    <2>. QED
        BY <1>3, <2>1 DEF ViewInv, GoesOn, Onward
<1>5. PICK n \in Nat : Fresh(n)
    BY <1>3 DEF ViewInv
<1>6. Fresh(n)'
    BY <1>1, <1>5, StaysFresh DEF Fresh, Typed, TasksOK
<1>. QED
    BY <1>4, <1>6

\* Tasks are begun, that have loaded nothing, or none is.
LEMMA BegunFresh ==
    ASSUME Typed, ViewInv, UNCHANGED <<server, list>>, odd \subseteq odd',
           \A t \in Tasks : \/ tasks'[t] = tasks[t]
                            \/ /\ ~Busy(t) /\ tasks'[t].got = "nothing"
                               /\ Reloads(tasks'[t].todo)
    PROVE  ViewInv'
<1>1. TreeRows' = TreeRows /\ clock' = clock
    BY ServerKept
<1>2. SUFFICES ASSUME But({"failed", "overtaken", "swept"})'
               PROVE  /\ \A u \in Tasks : Reloads(tasks'[u].todo)
                      /\ \E n \in Nat : Fresh(n)'
    BY DEF ViewInv
<1>3. But({"failed", "overtaken", "swept"})
    BY <1>2 DEF But
<1>4. \A u \in Tasks : Reloads(tasks'[u].todo)
    <2>1. \A u \in Tasks : tasks'[u] = tasks[u] \/ Reloads(tasks'[u].todo)
        OBVIOUS
    <2>. QED
        BY <1>3, <2>1, Zenon DEF ViewInv
<1>5. PICK n \in Nat : Fresh(n)
    BY <1>3 DEF ViewInv
<1>6. \A u \in Tasks : Served(u)' => Served(u) /\ tasks'[u] = tasks[u]
    BY DEF Served, Busy, Now
<1>7. FreshFrom(n)'
    <2>1. list'.at >= n => Named(list'.rows, FALSE) = TreeRows'
        BY <1>1, <1>5 DEF Fresh, FreshFrom
    <2>2. \A u \in Tasks : Served(u)' /\ tasks'[u].at >= n => Named(tasks'[u].rows, FALSE) = TreeRows'
        BY <1>1, <1>5, <1>6 DEF Fresh, FreshFrom
    <2>. QED
        BY <2>1, <2>2 DEF FreshFrom, Named
<1>8. Due(n)'
    <2>1. CASE list.at >= n
        BY <2>1 DEF Due
    <2>2. ASSUME NEW u \in Tasks, NEW i \in DOMAIN tasks[u].todo, tasks[u].todo[i].do = "tree",
                 i = 1 => tasks[u].got = "nothing" \/ tasks[u].at >= n
          PROVE  Due(n)'
        <3>1. tasks'[u] = tasks[u]
            BY DEF Busy
        <3>. QED
            BY <2>2, <3>1 DEF Due
    <2>. QED
        BY <1>5, <2>1, <2>2 DEF Fresh, Due
<1>. QED
    BY <1>1, <1>4, <1>5, <1>7, <1>8 DEF Fresh

LEMMA LockFresh == ASSUME Typed, ViewInv, LockDrive PROVE ViewInv'
<1>1. /\ UNCHANGED server /\ tasks' = tasks /\ odd' = odd /\ list'.at = list.at
      /\ list'.rows = Named(list.rows, FALSE) /\ list.rows \in SUBSET Row
    BY LockTypes DEF Typed, CopiesOK, Copy
<1>2. TreeRows' = TreeRows /\ clock' = clock
    BY <1>1, ServerKept
<1>3. Named(list'.rows, FALSE) = Named(list.rows, FALSE)
    BY <1>1, NamedRows
<1>4. ASSUME NEW n \in Nat, Fresh(n) PROVE Fresh(n)'
    <2>1. \A u \in Tasks : Served(u)' <=> Served(u)
        BY <1>1 DEF Served, Busy, Now
    <2>2. list'.at >= n => Named(list'.rows, FALSE) = TreeRows'
        BY <1>1, <1>2, <1>3, <1>4 DEF Fresh, FreshFrom
    <2>3. \A u \in Tasks : Served(u)' /\ tasks'[u].at >= n => Named(tasks'[u].rows, FALSE) = TreeRows'
        BY <1>1, <1>2, <1>4, <2>1 DEF Fresh, FreshFrom
    <2>4. FreshFrom(n)'
        BY <2>2, <2>3 DEF FreshFrom, Named
    <2>5. Due(n)'
        BY <1>1, <1>4 DEF Fresh, Due
    <2>. QED
        BY <1>2, <1>4, <2>4, <2>5 DEF Fresh
<1>. QED
    BY <1>1, <1>4 DEF ViewInv, But

LEMMA UnlockFresh == ASSUME Typed, ViewInv, Unlock PROVE ViewInv'
<1>1. UNCHANGED <<server, list, odd>>
    BY UnlockTypes
<1>2. CASE tasks' = tasks
    BY <1>1, <1>2, BegunFresh
<1>3. ASSUME NEW t \in Tasks, NamesAsked(t) PROVE ViewInv'
    <2>1. TreeRows' = TreeRows /\ clock' = clock
        BY <1>1, ServerKept
    <2>2. <<Load("names")>> \in Seq(StepSet) /\ DOMAIN <<Load("names")>> = {1}
          /\ <<Load("names")>>[1].do = "names"
        BY LoadTypes, OneOrTwo DEF Loads
    <2>3. Reloads(tasks'[t].todo)
        BY <1>3, <2>2 DEF NamesAsked, Reloads, Changing
    <2>4. ASSUME NEW n \in Nat, Fresh(n) PROVE Fresh(n)'
        <3>1. \A u \in Tasks \ {t} : Served(u)' <=> Served(u)
            BY <1>3 DEF Served, Busy, Now, NamesAsked
        <3>2. ASSUME NEW u \in Tasks, Served(u)', tasks'[u].at >= n
              PROVE  Named(tasks'[u].rows, FALSE) = TreeRows'
            <4>1. CASE u = t
                BY <1>3, <2>1, <2>4, <3>2, <4>1 DEF Fresh, FreshFrom, NamesAsked
            <4>2. CASE u # t
                BY <1>3, <2>1, <2>4, <3>1, <3>2, <4>2 DEF Fresh, FreshFrom, NamesAsked
            <4>. QED
                BY <4>1, <4>2
        <3>3. list'.at >= n => Named(list'.rows, FALSE) = TreeRows'
            BY <1>1, <2>1, <2>4 DEF Fresh, FreshFrom
        <3>4. FreshFrom(n)'
            BY <3>2, <3>3 DEF FreshFrom, Named
        <3>5. Due(n)'
            <4>1. CASE list.at >= n
                BY <1>1, <4>1 DEF Due
            <4>2. ASSUME NEW u \in Tasks, NEW i \in DOMAIN tasks[u].todo, tasks[u].todo[i].do = "tree",
                         i = 1 => tasks[u].got = "nothing" \/ tasks[u].at >= n
                  PROVE  Due(n)'
                <5>1. u # t
                    BY <1>3 DEF NamesAsked, Busy
                <5>2. tasks'[u] = tasks[u]
                    BY <1>3, <5>1 DEF NamesAsked
                <5>. QED
                    BY <4>2, <5>2 DEF Due
            <4>. QED
                BY <2>4, <4>1, <4>2 DEF Fresh, Due
        <3>. QED
            BY <2>1, <2>4, <3>4, <3>5 DEF Fresh
    <2>5. \A u \in Tasks : u # t => tasks'[u] = tasks[u]
        BY <1>3 DEF NamesAsked
    <2>6. But({"failed", "overtaken", "swept"}) => \A u \in Tasks : Reloads(tasks'[u].todo)
        BY <2>3, <2>5 DEF ViewInv
    <2>. QED
        BY <1>1, <2>4, <2>6 DEF ViewInv, But
<1>. QED
    BY <1>2, <1>3, UnlockTypes

\* The answer of a load comes, or its names are read.
LEMMA LoadFresh ==
    ASSUME Typed, ViewInv, NEW t \in Tasks, LoadServed(t) \/ LoadNamed(t)
    PROVE  ViewInv'
<1>1. /\ LoadsOn(t) /\ Busy(t)
      /\ \/ /\ tasks'[t].at = clock
            /\ Now(t).do = "tree" => tasks'[t].rows = TreeRows
            /\ Now(t).do # "names"
         \/ /\ tasks'[t].at = tasks[t].at /\ tasks[t].got # "nothing"
            /\ Named(tasks'[t].rows, FALSE) = Named(tasks[t].rows, FALSE)
    <2>1. CASE LoadServed(t)
        <3>1. Now(t).do = "tree" => tasks'[t].rows = TreeRows
            BY <2>1, LoadServedTypes
        <3>. QED
            BY <2>1, <3>1, LoadServedTypes DEF LoadServed
    <2>2. CASE LoadNamed(t)
        <3>1. tasks'[t].rows = Named(tasks[t].rows, ~locked) /\ tasks'[t].at = tasks[t].at
              /\ LoadsOn(t)
            BY <2>2, LoadNamedTypes
        <3>2. tasks[t].rows \in SUBSET Row
            BY TaskFields DEF Typed, TasksOK, TasksTyped
        <3>3. (~locked) \in BOOLEAN
            OBVIOUS
        <3>4. Named(tasks'[t].rows, FALSE) = Named(tasks[t].rows, FALSE)
            BY <3>1, <3>2, <3>3, NamedRows
        <3>. QED
            BY <2>2, <3>1, <3>4 DEF LoadNamed
    <2>. QED
        BY <2>1, <2>2
<1>2. UNCHANGED <<server, list, odd>>
    BY <1>1 DEF LoadsOn
<1>3. TreeRows' = TreeRows /\ clock' = clock
    BY <1>2, ServerKept
<1>4. \A u \in Tasks : tasks'[u].todo = tasks[u].todo
    <2>1. \A u \in Tasks : u = t \/ u \in Tasks \ {t}
        OBVIOUS
    <2>. QED
        BY <1>1, <2>1 DEF LoadsOn
<1>5. ASSUME NEW n \in Nat, Fresh(n) PROVE Fresh(n)'
    <2>1. ASSUME NEW u \in Tasks, Served(u)', tasks'[u].at >= n
          PROVE  Named(tasks'[u].rows, FALSE) = TreeRows
        <3>1. CASE u = t
            <4>1. Now(t).do \in {"tree", "names"}
                BY <1>4, <2>1, <3>1 DEF Served, Now
            <4>2. CASE tasks'[t].rows = TreeRows
                BY <3>1, <4>2, UnnamedTree DEF Typed
            <4>3. CASE /\ tasks'[t].at = tasks[t].at /\ tasks[t].got # "nothing"
                       /\ Named(tasks'[t].rows, FALSE) = Named(tasks[t].rows, FALSE)
                <5>1. Served(t)
                    BY <1>1, <4>1, <4>3 DEF Served
                <5>. QED
                    BY <1>5, <2>1, <3>1, <4>3, <5>1 DEF Fresh, FreshFrom
            <4>. QED
                BY <1>1, <4>1, <4>2, <4>3
        <3>2. CASE u # t
            <4>1. tasks'[u] = tasks[u]
                BY <1>1, <3>2 DEF LoadsOn
            <4>. QED
                BY <1>5, <2>1, <4>1 DEF Fresh, FreshFrom, Served, Busy, Now
        <3>. QED
            BY <3>1, <3>2
    <2>2. FreshFrom(n)'
        <3>1. list'.at >= n => Named(list'.rows, FALSE) = TreeRows'
            BY <1>2, <1>3, <1>5 DEF Fresh, FreshFrom
        <3>. QED
            BY <1>3, <2>1, <3>1 DEF FreshFrom, Named
    <2>3. Due(n)'
        <3>1. CASE list.at >= n
            BY <1>2, <3>1 DEF Due
        <3>2. ASSUME NEW u \in Tasks, NEW i \in DOMAIN tasks[u].todo, tasks[u].todo[i].do = "tree",
                     i = 1 => tasks[u].got = "nothing" \/ tasks[u].at >= n
              PROVE  Due(n)'
            <4>1. CASE u = t
                <5>1. tasks'[t].at = clock \/ (tasks'[t].at = tasks[t].at /\ tasks[t].got # "nothing")
                    BY <1>1
                <5>2. n <= clock /\ clock \in Nat
                    BY <1>5 DEF Fresh, Typed, ServerOK
                <5>3. i = 1 => tasks'[t].at >= n
                    BY <3>2, <4>1, <5>1, <5>2
                <5>. QED
                    BY <1>4, <3>2, <4>1, <5>3 DEF Due
            <4>2. CASE u # t
                <5>1. tasks'[u] = tasks[u]
                    BY <1>1, <4>2 DEF LoadsOn
                <5>. QED
                    BY <3>2, <5>1 DEF Due
            <4>. QED
                BY <4>1, <4>2
        <3>. QED
            BY <1>5, <3>1, <3>2 DEF Fresh, Due
    <2>. QED
        BY <1>3, <1>5, <2>2, <2>3 DEF Fresh
<1>6. But({"failed", "overtaken", "swept"}) => \A u \in Tasks : Reloads(tasks'[u].todo)
    BY <1>4 DEF ViewInv
<1>. QED
    BY <1>2, <1>5, <1>6 DEF ViewInv, But

\* The list of what a task has to do with another first step.
LEMMA Replaced ==
    ASSUME TasksTyped, NEW t \in Tasks, Busy(t), NEW c \in StepSet
    PROVE  LET todo == tasks[t].todo
               rest == <<c>> \o Tail(tasks[t].todo)
           IN  /\ rest \in Seq(StepSet) /\ DOMAIN rest = DOMAIN todo
               /\ Len(rest) = Len(todo) /\ DOMAIN todo = 1..Len(todo)
               /\ rest[1] = c /\ 1 \in DOMAIN todo
               /\ \A i \in DOMAIN todo : i # 1 => rest[i] = todo[i]
<1> DEFINE todo == tasks[t].todo
<1> DEFINE tail == Tail(tasks[t].todo)
<1> DEFINE rest == <<c>> \o tail
<1>1. /\ Len(todo) \in Nat \ {0} /\ DOMAIN todo = 1..Len(todo)
      /\ tail \in Seq(StepSet) /\ Len(tail) = Len(todo) - 1
      /\ \A i \in 1..Len(tail) : tail[i] = todo[i + 1]
    BY NowOf
<1>2. <<c>> \in Seq(StepSet) /\ Len(<<c>>) = 1 /\ <<c>>[1] = c
    OBVIOUS
<1>. HIDE DEF todo, tail
<1>3. /\ rest \in Seq(StepSet) /\ Len(rest) = Len(todo)
      /\ \A i \in 1..Len(todo) : rest[i] = IF i <= 1 THEN <<c>>[i] ELSE tail[i - 1]
    <2> DEFINE first == <<c>>
    <2>1. first \in Seq(StepSet) /\ Len(first) = 1
        BY <1>2
    <2>. HIDE DEF first
    <2>2. /\ first \o tail \in Seq(StepSet)
          /\ Len(first \o tail) = Len(first) + Len(tail)
          /\ \A i \in 1..(Len(first) + Len(tail)) :
                (first \o tail)[i] = IF i <= Len(first) THEN first[i] ELSE tail[i - Len(first)]
        BY <2>1, <1>1, ConcatProperties
    <2>3. Len(first) + Len(tail) = Len(todo)
        BY <2>1, <1>1
    <2>. QED
        BY <2>1, <2>2, <2>3 DEF first
<1>4. DOMAIN rest = 1..Len(todo)
    BY <1>3, LenProperties
<1>. HIDE DEF rest
<1>5. rest[1] = c /\ 1 \in DOMAIN todo
    BY <1>1, <1>2, <1>3
<1>6. ASSUME NEW i \in DOMAIN todo, i # 1 PROVE rest[i] = todo[i]
    <2>1. i - 1 \in 1..Len(tail) /\ (i - 1) + 1 = i /\ ~(i <= 1)
        BY <1>1, <1>6
    <2>. QED
        BY <1>1, <1>3, <2>1
<1>. QED
    BY <1>1, <1>3, <1>4, <1>5, <1>6 DEF todo, tail, rest

LEMMA TwinOnward ==
    ASSUME Typed, NEW t \in Tasks, Busy(t), Now(t) \in Twins, NEW p \in FileRows,
           Reloads(tasks[t].todo)
    PROVE  Onward(tasks[t].todo, <<[Now(t).with.call EXCEPT !.on = {p.key}]>>
                                 \o Tail(tasks[t].todo))
<1> DEFINE c == [Now(t).with.call EXCEPT !.on = {p.key}]
<1> DEFINE todo == tasks[t].todo
<1>1. c \in StepSet /\ c.do = TwinDo[Now(t).do]
    BY ProxyCall DEF StepSet
<1>2. c.do \in Changing => Now(t).do \in Changing
    BY <1>1 DEF TwinDo, Changing, Twins, TwinSteps
<1>. HIDE DEF c
<1> DEFINE rest == <<c>> \o Tail(todo)
<1>3. /\ DOMAIN rest = DOMAIN todo /\ rest[1] = c /\ 1 \in DOMAIN todo
      /\ DOMAIN todo = 1..Len(todo)
      /\ \A i \in DOMAIN todo : i # 1 => rest[i] = todo[i]
    BY <1>1, Replaced DEF Typed, TasksOK
<1>4. Now(t) = todo[1] /\ Len(todo) \in Nat
    BY NowOf DEF Typed, TasksOK
<1>5. Reloads(todo)
    OBVIOUS
<1>. HIDE DEF rest, todo
<1>6. ASSUME NEW i \in DOMAIN rest, rest[i].do \in Changing
      PROVE  \E j \in DOMAIN rest : i < j /\ rest[j].do = "tree"
    <2>1. todo[i].do \in Changing
        BY <1>2, <1>3, <1>4, <1>6
    <2>2. PICK j \in DOMAIN todo : i < j /\ todo[j].do = "tree"
        BY <1>3, <1>5, <1>6, <2>1 DEF Reloads
    <2>3. j # 1
        BY <1>3, <1>4, <1>6, <2>2
    <2>. QED
        BY <1>3, <2>2, <2>3
<1>7. Onward(todo, rest)
    BY <1>3, <1>6 DEF Onward, Reloads
<1>. QED
    BY <1>7 DEF todo, rest, c

\* A copy is shown that is not older than the one it replaces.
LEMMA ShownFresh == ASSUME Typed, ViewInv, NEW t \in Tasks, TreeShown(t) PROVE ViewInv'
<1>1. /\ GoesOn(t, Tail(tasks[t].todo)) /\ Busy(t) /\ tasks[t].got = "named"
      /\ list' = [rows |-> tasks[t].rows, at |-> tasks[t].at]
      /\ odd' = odd \cup Remarks(tasks[t]) /\ Served(t) /\ UNCHANGED server
    BY ShownTypes DEF TreeShown, Served
<1>2. TreeRows' = TreeRows /\ clock' = clock
    BY <1>1, ServerKept
<1>3. SUFFICES ASSUME But({"failed", "overtaken", "swept"})'
               PROVE  /\ \A u \in Tasks : Reloads(tasks'[u].todo)
                      /\ \E n \in Nat : Fresh(n)'
    BY DEF ViewInv
<1>4. But({"failed", "overtaken", "swept"}) /\ ~(tasks[t].at < list.at)
    BY <1>1, <1>3 DEF But, Remarks
<1>5. tasks[t].at \in Nat /\ list.at \in Nat /\ tasks[t].at >= list.at
    <2>1. tasks[t].at \in Nat /\ list.at \in Nat
        BY TaskFields DEF Typed, TasksOK, TasksTyped, CopiesOK, Copy
    <2>. QED
        BY <1>4, <2>1
<1>6. Onward(tasks[t].todo, Tail(tasks[t].todo))
    BY <1>1, <1>4, TailOnward DEF ViewInv, Typed, TasksOK
<1>7. \A u \in Tasks : Reloads(tasks'[u].todo)
    <2>1. \A u \in Tasks : u = t \/ u \in Tasks \ {t}
        OBVIOUS
    <2>. QED
        BY <1>1, <1>4, <1>6, <2>1 DEF ViewInv, GoesOn, Onward
<1>8. PICK n \in Nat : Fresh(n)
    BY <1>4 DEF ViewInv
<1>9. FreshFrom(n)'
    <2>1. list'.at >= n => Named(list'.rows, FALSE) = TreeRows'
        BY <1>1, <1>2, <1>8 DEF Fresh, FreshFrom
    <2>2. ASSUME NEW u \in Tasks, Served(u)', tasks'[u].at >= n
          PROVE  Named(tasks'[u].rows, FALSE) = TreeRows'
        <3>1. u # t
            BY <1>1, <2>2 DEF GoesOn, Served
        <3>2. Served(u) /\ tasks'[u].at = tasks[u].at /\ tasks'[u].rows = tasks[u].rows
            BY <1>1, <2>2, <3>1 DEF GoesOn, Served, Busy, Now
        <3>. QED
            BY <1>2, <1>8, <2>2, <3>2 DEF Fresh, FreshFrom
    <2>. QED
        BY <2>1, <2>2 DEF FreshFrom, Named
<1>10. Due(n)'
    <2>0. list'.at = tasks[t].at
        BY <1>1
    <2>1. CASE list.at >= n
        BY <1>5, <2>0, <2>1 DEF Due
    <2>2. ASSUME NEW u \in Tasks, NEW i \in DOMAIN tasks[u].todo, tasks[u].todo[i].do = "tree",
                 i = 1 => tasks[u].got = "nothing" \/ tasks[u].at >= n
          PROVE  Due(n)'
        <3>1. CASE u # t
            BY <1>1, <2>2, <3>1 DEF GoesOn, Due
        <3>2. CASE u = t /\ i = 1
            BY <1>1, <2>0, <2>2, <3>2 DEF Due
        <3>3. CASE u = t /\ i # 1
            <4>1. PICK j \in DOMAIN Tail(tasks[t].todo) : Tail(tasks[t].todo)[j].do = "tree"
                BY <1>6, <2>2, <3>3 DEF Onward
            <4>. QED
                BY <1>1, <4>1 DEF GoesOn, Due
        <3>. QED
            BY <3>1, <3>2, <3>3
    <2>. QED
        BY <1>8, <2>1, <2>2 DEF Fresh, Due
<1>. QED
    BY <1>2, <1>7, <1>8, <1>9, <1>10 DEF Fresh

LEMMA TaskFresh == ASSUME Typed, ViewInv, NEW t \in Tasks, TaskStep(t) PROVE ViewInv'
<1>1. CASE RequestMade(t)
    <2>1. SUFFICES ASSUME But({"failed", "overtaken", "swept"})'
                   PROVE  /\ \A u \in Tasks : Reloads(tasks'[u].todo)
                          /\ \E n \in Nat : Fresh(n)'
        BY DEF ViewInv
    <2>2. But({"failed", "overtaken", "swept"}) /\ Busy(t)
        BY <1>1, <2>1 DEF RequestMade, But
    <2>3. Reloads(Tail(tasks[t].todo)) /\ GoesOn(t, Tail(tasks[t].todo))
        BY <1>1, <2>2, ReloadsTail, RequestTypes DEF ViewInv, Typed, TasksOK
    <2>4. \A u \in Tasks : u = t \/ u \in Tasks \ {t}
        OBVIOUS
    <2>5. \A u \in Tasks : Reloads(tasks'[u].todo)
        BY <2>2, <2>3, <2>4 DEF ViewInv, GoesOn
    <2>. QED
        BY <1>1, <2>1, <2>5, MadeOnward
<1>2. CASE RequestFails(t) \/ LoadFails(t)
    BY <1>2 DEF RequestFails, LoadFails, ViewInv, But
<1>3. CASE LoadServed(t) \/ LoadNamed(t)
    BY <1>3, LoadFresh
<1>4. CASE TreeShown(t)
    BY <1>4, ShownFresh
<1>5. CASE ~But({"failed", "overtaken", "swept"}) /\ odd \subseteq odd'
    BY <1>5 DEF ViewInv, But
<1>6. ASSUME But({"failed", "overtaken", "swept"}), TwinFound(t) PROVE ViewInv'
    <2>1. Busy(t) /\ Now(t) \in StepSet /\ Now(t).do \in TwinSteps /\ Now(t) \in Twins
        BY <1>6, NowOf, StepTypes DEF TwinFound, Typed, TasksOK
    <2>2. Reloads(tasks[t].todo) /\ Now(t).do # "tree"
        BY <1>6, <2>1 DEF ViewInv, TwinSteps
    <2>3. UNCHANGED <<server, list>> /\ odd \subseteq odd'
        BY <1>6 DEF TwinFound
    <2>4. CASE GoesOn(t, Tail(tasks[t].todo))
        BY <2>1, <2>2, <2>3, <2>4, TailOnward, StillFresh DEF Typed, TasksOK
    <2>5. ASSUME NEW p \in FileRows,
                 GoesOn(t, <<[Now(t).with.call EXCEPT !.on = {p.key}]>>
                           \o Tail(tasks[t].todo))
          PROVE  ViewInv'
        BY <2>1, <2>2, <2>3, <2>5, TwinOnward, StillFresh
    <2>. QED
        BY <1>6, <2>4, <2>5, TwinFoundTypes
<1>7. ASSUME But({"failed", "overtaken", "swept"}),
             TrashShown(t) \/ PinsShown(t) \/ PinKept(t)
      PROVE  ViewInv'
    <2>1. /\ Busy(t) /\ Now(t).do # "tree" /\ UNCHANGED <<server, list>> /\ odd \subseteq odd'
        BY <1>7 DEF TrashShown, PinsShown, PinKept
    <2>2. Reloads(tasks[t].todo) /\ GoesOn(t, Tail(tasks[t].todo))
        BY <1>7, ShownTypes DEF ViewInv
    <2>. QED
        BY <2>1, <2>2, TailOnward, StillFresh DEF Typed, TasksOK
<1>8. odd \subseteq odd'
    BY DEF TaskStep, RequestMade, RequestFails, TwinFound, LoadServed, LoadNamed,
       LoadFails, TreeShown, TrashShown, PinsShown, PinKept
<1>. QED
    BY <1>1, <1>2, <1>3, <1>4, <1>5, <1>6, <1>7, <1>8 DEF TaskStep

LEMMA ViewStep == ASSUME Typed, ViewInv, [Next]_vars PROVE ViewInv'
<1>1. CASE UserStep
    BY <1>1, BegunFresh DEF UserStep, TasksBegun, Asked, Plan
<1>2. CASE PinAsked
    <2>1. PICK d \in Folders, t \in Free :
             \E todo \in PinTodos(d) : tasks' = [tasks EXCEPT ![t] = Task(todo)]
        BY <1>2 DEF PinAsked
    <2>2. PICK todo \in PinTodos(d) : tasks' = [tasks EXCEPT ![t] = Task(todo)]
        BY <2>1
    <2>3. Reloads(Task(todo).todo) /\ Task(todo).got = "nothing"
        <3>1. todo \in Seq(StepSet) /\ Reloads(todo)
            BY PinTodoTypes
        <3>. QED
            BY <3>1, AskedTasks DEF Asked
    <2>4. \A u \in Tasks : \/ tasks'[u] = tasks[u]
                           \/ /\ ~Busy(u) /\ tasks'[u].got = "nothing"
                              /\ Reloads(tasks'[u].todo)
        BY <2>2, <2>3 DEF Free, Typed, TasksOK, TasksTyped
    <2>. QED
        BY <1>2, <2>4, BegunFresh DEF PinAsked
<1>. QED
    BY <1>1, <1>2, LockFresh, UnlockFresh, TaskFresh, Kinds

\* While the drive is unlocked the names are shown, or are being read.
NamedInv ==
    ~locked /\ But({"failed", "nameless"}) =>
        \/ \A r \in list.rows : r.named
        \/ \E t \in Tasks : Busy(t) /\ Now(t).do = "names"

LEMMA NamedKept ==
    ASSUME NamedInv, UNCHANGED <<list, locked>>, odd \subseteq odd',
           \A t \in Tasks : Busy(t) /\ Now(t).do = "names" => tasks'[t].todo = tasks[t].todo
    PROVE  NamedInv'
    BY DEF NamedInv, But, Busy, Now

LEMMA NamedStep == ASSUME Typed, NamedInv, [Next]_vars PROVE NamedInv'
<1>0. odd \subseteq odd'
    BY Elsewhere
<1>1. CASE UserStep
    <2>1. \A t \in Tasks : Busy(t) => tasks'[t].todo = tasks[t].todo
        BY <1>1 DEF UserStep, TasksBegun
    <2>. QED
        BY <1>0, <1>1, <2>1, NamedKept DEF UserStep
<1>2. CASE PinAsked
    <2>1. \A t \in Tasks : Busy(t) => tasks'[t].todo = tasks[t].todo
        BY <1>2 DEF PinAsked, Free, Typed, TasksOK, TasksTyped
    <2>. QED
        BY <1>0, <1>2, <2>1, NamedKept DEF PinAsked
<1>3. CASE LockDrive
    BY <1>3, LockTypes DEF NamedInv
<1>4. CASE Unlock
    <2>1. CASE list.rows = {}
        BY <1>4, <2>1, UnlockTypes DEF NamedInv
    <2>2. ASSUME NEW t \in Tasks, NamesAsked(t) PROVE NamedInv'
        <3>1. /\ <<Load("names")>> # <<>> /\ Head(<<Load("names")>>) = Load("names")
              /\ Load("names").do = "names"
            BY LoadTypes DEF Loads
        <3>. QED
            BY <2>2, <3>1 DEF NamesAsked, NamedInv, Busy, Now
    <2>. QED
        BY <1>4, <2>1, <2>2, UnlockTypes
<1>5. ASSUME NEW t \in Tasks, TaskStep(t) PROVE NamedInv'
    <2>1. CASE TreeShown(t)
        <3>1. /\ list'.rows = tasks[t].rows /\ locked' = locked
              /\ odd' = odd \cup Remarks(tasks[t])
            BY <2>1 DEF TreeShown
        <3>. QED
            BY <3>1 DEF NamedInv, But, Remarks
    <2>2. CASE RequestFails(t) \/ LoadFails(t)
        BY <2>2 DEF RequestFails, LoadFails, NamedInv, But
    <2>3. CASE LoadServed(t) \/ LoadNamed(t)
        <3>1. LoadsOn(t)
            BY <2>3, LoadServedTypes, LoadNamedTypes
        <3>2. \A u \in Tasks : tasks'[u].todo = tasks[u].todo
            <4>1. \A u \in Tasks : u = t \/ u \in Tasks \ {t}
                OBVIOUS
            <4>. QED
                BY <3>1, <4>1 DEF LoadsOn
        <3>. QED
            BY <1>0, <3>1, <3>2, NamedKept DEF LoadsOn
    <2>4. CASE RequestMade(t) \/ TwinFound(t) \/ TrashShown(t) \/ PinsShown(t) \/ PinKept(t)
        <3>1. UNCHANGED <<list, locked>> /\ Now(t).do # "names"
            BY <2>4 DEF RequestMade, TwinFound, TrashShown, PinsShown, PinKept, IsCall, IsLoad,
               Loads, TwinSteps
        <3>2. \E rest : GoesOn(t, rest)
            BY <2>4, RequestTypes, TwinFoundTypes, ShownTypes
        <3>3. \A u \in Tasks : u # t => tasks'[u].todo = tasks[u].todo
            BY <3>2 DEF GoesOn
        <3>4. \A u \in Tasks : Busy(u) /\ Now(u).do = "names" => tasks'[u].todo = tasks[u].todo
            BY <3>1, <3>3
        <3>. QED
            BY <1>0, <3>1, <3>4, NamedKept
    <2>. QED
        BY <1>5, <2>1, <2>2, <2>3, <2>4 DEF TaskStep
<1>. QED
    BY <1>1, <1>2, <1>3, <1>4, <1>5, Kinds

LEMMA ViewInit == Init => ViewInv /\ NamedInv
<1>. SUFFICES ASSUME Init PROVE ViewInv /\ NamedInv
    OBVIOUS
<1>1. PICK t \in Tasks, u \in Tasks : t # u /\
         tasks = [v \in Tasks |-> CASE v = t -> Task(Tree)
                                    [] v = u -> Task(<<Load("pins")>>)
                                    [] OTHER -> Idle]
    BY DEF Init
<1>2. /\ <<Load("pins")>> \in Seq(StepSet) /\ DOMAIN <<Load("pins")>> = {1}
      /\ <<Load("pins")>>[1].do = "pins"
    BY LoadTypes, OneOrTwo DEF Loads
<1>3. Tree \in Seq(StepSet) /\ DOMAIN Tree = {1} /\ Tree[1].do = "tree"
    <2>1. Tree \in Seq(StepSet) /\ Len(Tree) = 1 /\ Tree[1].do = "tree"
        BY LoadTypes DEF Loads
    <2>. QED
        BY <2>1, LenProperties
<1>4. /\ Task(Tree).todo = Tree /\ Task(Tree).got = "nothing"
      /\ Task(<<Load("pins")>>).todo = <<Load("pins")>>
      /\ Task(<<Load("pins")>>).got = "nothing"
      /\ Idle.todo = <<>> /\ Idle.got = "nothing"
    BY <1>2, <1>3, AskedTasks, IdleTask DEF Asked
<1>5. \A v \in Tasks : tasks[v].todo \in {Tree, <<Load("pins")>>, <<>>}
                        /\ tasks[v].got = "nothing"
    BY <1>1, <1>4
<1>6. Reloads(Tree) /\ Reloads(<<Load("pins")>>) /\ Reloads(<<>>)
    BY <1>2, <1>3 DEF Reloads, Changing
<1>7. \A v \in Tasks : Reloads(tasks[v].todo)
    BY <1>5, <1>6
<1>8. clock = 1 /\ list.rows = {} /\ list.at = 0
    BY DEF Init
<1>9. FreshFrom(1)
    <2>1. ~(list.at >= 1)
        BY <1>8
    <2>2. \A v \in Tasks : ~Served(v)
        BY <1>5 DEF Served
    <2>. QED
        BY <2>1, <2>2, Zenon DEF FreshFrom
<1>10. tasks[t].todo = Tree /\ tasks[t].got = "nothing"
    BY <1>1, <1>4
<1>11. Due(1)
    BY <1>3, <1>10 DEF Due
<1>. QED
    BY <1>7, <1>8, <1>9, <1>11 DEF ViewInv, NamedInv, Fresh

\* When no method of DriveStore is under way and none has failed or was
\* overtaken, the list is what the server has, with names if the drive is
\* unlocked: every change is followed by a loadTree that is not lost.
THEOREM ListFollowsServer == Spec => []ViewSettles
<1>1. Typed /\ ViewInv /\ [Next]_vars => ViewInv'
    BY ViewStep
<1>2. Typed /\ NamedInv /\ [Next]_vars => NamedInv'
    BY NamedStep
<1>3. Typed /\ ViewInv /\ NamedInv => ViewSettles
    <2>. SUFFICES ASSUME Typed, ViewInv, NamedInv, Settled,
                         But({"failed", "overtaken", "swept"})
                  PROVE  /\ Named(list.rows, FALSE) = TreeRows
                         /\ ~locked /\ But({"nameless"}) => \A r \in list.rows : r.named
        BY DEF ViewSettles
    <2>1. PICK n \in Nat : Fresh(n)
        BY DEF ViewInv
    <2>2. \A t \in Tasks : tasks[t].todo = <<>>
        BY DEF Settled, Busy
    <2>3. list.at >= n
        BY <2>1, <2>2 DEF Fresh, Due
    <2>4. Named(list.rows, FALSE) = TreeRows
        BY <2>1, <2>3 DEF Fresh, FreshFrom
    <2>5. ~locked /\ But({"nameless"}) => \A r \in list.rows : r.named
        BY DEF NamedInv, But, Settled
    <2>. QED
        BY <2>4, <2>5
<1>. QED
    BY <1>1, <1>2, <1>3, ViewInit, AlwaysTyped, PTL DEF Spec

(***************************************************************************)
(* The pins that are shown are the server's                                *)
(***************************************************************************)

\* What a task of a pin has still to do.
PinWork(d) == PinTodos(d) \cup {<<Call("kept", d, Root)>>, <<Call("kept", d, Absent)>>}
PinTask(t, d) == tasks[t].todo \in PinWork(d)
PinLoad == \E t \in Tasks : Busy(t) /\ Now(t).do = "pins"
PinFree(todo) == \A i \in DOMAIN todo : todo[i].do \notin PinSteps

\* Each pin that is waited for has its task, and no other has pin steps.
PinTasksAgree ==
    /\ \A t \in Tasks : PinFree(tasks[t].todo) \/ \E d \in pending : PinTask(t, d)
    /\ \A d \in pending : \E t \in Tasks : PinTask(t, d)
    /\ \A d \in Folders : \A t, u \in Tasks :
          PinTask(t, d) /\ PinTask(u, d) => t = u

\* What is shown of a folder that is not waited for, and what the server has
\* confirmed.
PinsAgree ==
    /\ \A d \in Folders \ pending :
          folders[d] # Absent /\ ~PinLoad =>
              /\ d \in pinned => d \in pins
              /\ folders[d] = "live" /\ d \in pins => d \in pinned
    /\ \A d \in Folders, t \in Tasks :
          folders[d] # Absent =>
              /\ tasks[t].todo = <<Call("kept", d, Root)>> => d \in pins
              /\ tasks[t].todo = <<Call("kept", d, Absent)>> => d \notin pins

PinInv ==
    But({"failed", "pinsOvertaken", "repinned"}) => PinTasksAgree /\ PinsAgree

LEMMA PinWorks ==
    ASSUME NEW d \in Folders, NEW todo \in PinWork(d)
    PROVE  /\ todo # <<>> /\ 1 \in DOMAIN todo /\ Head(todo) = todo[1]
           /\ todo[1].do \in PinSteps /\ todo[1].on = {d}
           /\ \A e \in Folders : todo \in PinWork(e) => e = d
           /\ todo[1].do = "kept" =>
                 /\ Tail(todo) = <<>>
                 /\ \/ todo[1].with = Root /\ todo = <<Call("kept", d, Root)>>
                    \/ todo[1].with = Absent /\ todo = <<Call("kept", d, Absent)>>
           /\ todo[1].do = "pin" => Tail(todo) = <<Call("kept", d, Root)>>
           /\ todo[1].do = "unpin" => Tail(todo) = <<Call("kept", d, Absent)>>
<1> DEFINE pin(e) == Call("pin", e, Absent)
<1> DEFINE unpin(e) == Call("unpin", e, Absent)
<1> DEFINE shown(e) == Call("kept", e, Root)
<1> DEFINE gone(e) == Call("kept", e, Absent)
<1>1. \A e : /\ pin(e).do = "pin" /\ pin(e).on = {e}
             /\ unpin(e).do = "unpin" /\ unpin(e).on = {e}
             /\ shown(e).do = "kept" /\ shown(e).on = {e} /\ shown(e).with = Root
             /\ gone(e).do = "kept" /\ gone(e).on = {e} /\ gone(e).with = Absent
    BY DEF Call, Step
<1>2. \A e : PinWork(e) = {<<pin(e), shown(e)>>, <<unpin(e), gone(e)>>,
                           <<shown(e)>>, <<gone(e)>>}
    BY DEF PinWork, PinTodos
<1>. HIDE DEF pin, unpin, shown, gone
<1>3. \A e : \A q \in PinWork(e) : q # <<>> /\ 1 \in DOMAIN q /\ Head(q) = q[1] /\ q[1].on = {e}
    <2>1. \A a, b : /\ <<a, b>> # <<>> /\ 1 \in DOMAIN <<a, b>>
                    /\ Head(<<a, b>>) = <<a, b>>[1] /\ <<a, b>>[1] = a
                    /\ <<a>> # <<>> /\ 1 \in DOMAIN <<a>>
                    /\ Head(<<a>>) = <<a>>[1] /\ <<a>>[1] = a
        OBVIOUS
    <2>. QED
        BY <1>1, <1>2, <2>1
<1>4. \A e : todo \in PinWork(e) => e = d
    BY <1>3
<1>5. \/ todo = <<pin(d), shown(d)>> /\ todo[1] = pin(d) /\ Tail(todo) = <<shown(d)>>
      \/ todo = <<unpin(d), gone(d)>> /\ todo[1] = unpin(d) /\ Tail(todo) = <<gone(d)>>
      \/ todo = <<shown(d)>> /\ todo[1] = shown(d) /\ Tail(todo) = <<>>
      \/ todo = <<gone(d)>> /\ todo[1] = gone(d) /\ Tail(todo) = <<>>
    <2>1. \A a, b : /\ <<a, b>>[1] = a /\ Tail(<<a, b>>) = <<b>>
                    /\ <<a>>[1] = a /\ Tail(<<a>>) = <<>>
        OBVIOUS
    <2>. QED
        BY <1>2, <2>1
<1>. QED
    BY <1>1, <1>3, <1>4, <1>5 DEF PinSteps, shown, gone

\* A task that is not of a pin has no steps of one.
LEMMA OtherTasks ==
    ASSUME Typed, PinTasksAgree, NEW t \in Tasks, Busy(t)
    PROVE  \/ PinFree(tasks[t].todo) /\ Now(t).do \notin PinSteps
              /\ PinFree(Tail(tasks[t].todo))
           \/ \E d \in pending : d \in Folders /\ PinTask(t, d) /\ Now(t).do \in PinSteps
<1> DEFINE todo == tasks[t].todo
<1>1. /\ Len(todo) \in Nat \ {0} /\ DOMAIN todo = 1..Len(todo) /\ Now(t) = todo[1]
      /\ Tail(todo) \in Seq(StepSet) /\ Len(Tail(todo)) = Len(todo) - 1
      /\ \A i \in 1..Len(Tail(todo)) : Tail(todo)[i] = todo[i + 1]
    BY NowOf DEF Typed, TasksOK
<1>2. CASE PinFree(todo)
    <2>1. DOMAIN Tail(todo) = 1..(Len(todo) - 1)
        BY <1>1, LenProperties
    <2>2. \A i \in 1..(Len(todo) - 1) : i + 1 \in 1..Len(todo) /\ i \in 1..Len(Tail(todo))
        BY <1>1
    <2>3. 1 \in DOMAIN todo
        BY <1>1
    <2>. HIDE DEF todo
    <2>. QED
        BY <1>1, <1>2, <2>1, <2>2, <2>3 DEF PinFree, todo
<1>3. ASSUME NEW d \in pending, PinTask(t, d)
      PROVE  d \in Folders /\ Now(t).do \in PinSteps
    <2>1. d \in Folders
        BY DEF Typed, PinsOK
    <2>. QED
        BY <1>1, <1>3, <2>1, PinWorks DEF PinTask
<1>. QED
    BY <1>2, <1>3 DEF PinTasksAgree

\* Tasks that have no pin steps are begun or go on.
LEMMA AgreeStill ==
    ASSUME PinTasksAgree, pending' = pending, pending \subseteq Folders,
           \A t \in Tasks : \/ tasks'[t].todo = tasks[t].todo
                            \/ PinFree(tasks[t].todo) /\ PinFree(tasks'[t].todo)
    PROVE  /\ PinTasksAgree'
           /\ \A t \in Tasks, d \in Folders :
                 PinTask(t, d)' => PinTask(t, d) /\ tasks'[t].todo = tasks[t].todo
<1>1. \A d \in Folders : \A todo \in PinWork(d) : ~PinFree(todo)
    BY PinWorks DEF PinFree
<1>2. ASSUME NEW t \in Tasks, NEW d \in Folders
      PROVE  /\ PinTask(t, d)' <=> PinTask(t, d)
             /\ PinTask(t, d)' => tasks'[t].todo = tasks[t].todo
    <2>1. /\ PinTask(t, d) <=> tasks[t].todo \in PinWork(d)
          /\ PinTask(t, d)' <=> tasks'[t].todo \in PinWork(d)
        BY DEF PinTask, PinWork, PinTodos
    <2>. QED
        BY <1>1, <2>1
<1>3. \A t \in Tasks : PinFree(tasks[t].todo) => PinFree(tasks'[t].todo)
    OBVIOUS
<1>. QED
    BY <1>2, <1>3 DEF PinTasksAgree

\* A folder that comes to be has an id that is neither shown as pinned nor
\* waited for.
LEMMA FoldersCome ==
    ASSUME ServerOK, NEW s \in StepSet, Effect(s.do, s.on, s.with)
    PROVE  \A d \in Folders :
              folders[d] = Absent /\ folders'[d] # Absent => d \notin pinned \cup pending
<1>0. LedgerP!TypeOK /\ "live" # Absent /\ "recent" # Absent /\ "expired" # Absent
    BY SameTypes, StartsAssumption DEF ServerOK, ServerTyped, Ledger!Ages
<1>1. ASSUME NEW D \in SUBSET Folders, NEW age,
             \A d \in D : folders[d] # Absent,
             folders' = Ledger!WithAge(Ledger!FolderTrees(D), age)
      PROVE  \A d \in Folders : folders[d] = Absent => folders'[d] = Absent
    <2>1. \A d \in LedgerP!FolderTrees(D) : d \notin D => folders[d] # Absent
        BY LedgerAssumed, LedgerP!TreesParents
    <2>2. \A d \in Folders : folders'[d] = IF d \in LedgerP!FolderTrees(D) THEN age ELSE folders[d]
        BY <1>1, SameTrees DEF Ledger!WithAge
    <2>. QED
        BY <1>1, <2>1, <2>2
<1>2. ASSUME NEW d \in Folders, Ledger!DeleteFolder(d) \/ Ledger!RestoreFolder(d)
      PROVE  \A e \in Folders : folders[e] = Absent => folders'[e] = Absent
    <2>1. folders[d] # Absent
        BY <1>0, <1>2 DEF Ledger!DeleteFolder, Ledger!RestoreFolder
    <2>2. Ledger!FolderTree(d) = Ledger!FolderTrees({d})
        BY DEF Ledger!FolderTrees
    <2>3. PICK age : folders' = Ledger!WithAge(Ledger!FolderTrees({d}), age)
        BY <1>2, <2>2 DEF Ledger!DeleteFolder, Ledger!RestoreFolder
    <2> DEFINE D == {d}
    <2>4. D \in SUBSET Folders /\ (\A e \in D : folders[e] # Absent)
          /\ folders' = Ledger!WithAge(Ledger!FolderTrees(D), age)
        BY <2>1, <2>3
    <2>. HIDE DEF D
    <2>. QED
        BY <2>4, <1>1
<1>3. ASSUME NEW D \in SUBSET Folders, Ledger!BatchDeleteFolders(D) \/ Ledger!HardDeleteFolders(D)
      PROVE  \A e \in Folders : folders[e] = Absent => folders'[e] = Absent
    <2>1. PICK E, age :
             /\ E \in SUBSET D
             /\ \A e \in E : folders[e] # Absent
             /\ folders' = Ledger!WithAge(Ledger!FolderTrees(E), age)
        <3>1. ASSUME Ledger!BatchDeleteFolders(D)
              PROVE  folders' = Ledger!WithAge(Ledger!FolderTrees({d \in D : folders[d] = "live"}),
                                               "recent")
            BY <3>1 DEF Ledger!BatchDeleteFolders
        <3>2. ASSUME Ledger!HardDeleteFolders(D)
              PROVE  folders' = Ledger!WithAge(Ledger!FolderTrees(
                                  {d \in D : folders[d] \in {"recent", "expired"}}), Absent)
            BY <3>2 DEF Ledger!HardDeleteFolders
        <3> DEFINE live == {d \in D : folders[d] = "live"}
        <3> DEFINE trashed == {d \in D : folders[d] \in {"recent", "expired"}}
        <3>3. /\ live \in SUBSET D /\ \A e \in live : folders[e] # Absent
              /\ trashed \in SUBSET D /\ \A e \in trashed : folders[e] # Absent
            BY <1>0
        <3>. HIDE DEF live, trashed
        <3>. QED
            BY <1>3, <3>1, <3>2, <3>3 DEF live, trashed
    <2>2. E \in SUBSET Folders
        BY <2>1
    <2>. QED
        BY <2>1, <2>2, <1>1
<1>4. CASE s.do \in {"trashFolder", "restoreFolder", "trashFolders", "purgeFolder", "purgeFolders"}
    <2>1. s.on \in SUBSET Folders
        BY <1>4, StepTypes DEF FolderDoes
    <2>2. \/ \E d \in s.on : Ledger!DeleteFolder(d) \/ Ledger!RestoreFolder(d)
          \/ Ledger!BatchDeleteFolders(s.on) \/ Ledger!HardDeleteFolders(s.on)
        BY <1>4 DEF Effect
    <2>. QED
        BY <2>1, <2>2, <1>2, <1>3
<1>5. CASE s.do = "empty"
    <2>1. folders' = [d \in Folders |->
             IF d \in Ledger!FolderTrees({e \in Folders : folders[e] \in {"recent", "expired"}})
             THEN Absent ELSE folders[d]]
        BY <1>5 DEF Effect, Ledger!EmptyTrash
    <2>. QED
        BY <2>1
<1>6. CASE s.do = "create"
    <2>1. PICK d \in Folders \ (pinned \cup pending) : Ledger!CreateFolder(d, s.with)
        BY <1>6 DEF Effect
    <2>2. \A e \in Folders : e # d => folders'[e] = folders[e]
        BY <2>1 DEF Ledger!CreateFolder, ServerOK, ServerTyped, Ledger!TypeOK
    <2>. QED
        BY <2>1, <2>2
<1>7. CASE s.do \notin {"trashFolder", "restoreFolder", "trashFolders", "purgeFolder",
                        "purgeFolders", "empty", "create"}
    <2>1. folders' = folders
        BY <1>7 DEF Effect, Ledger!DeleteFiles, Ledger!RestoreFile, Ledger!HardDeleteFiles,
           Ledger!UpdateFile, Ledger!UpdateFolder
    <2>. QED
        BY <2>1
<1>. QED
    BY <1>4, <1>5, <1>6, <1>7

\* A request about files or folders, or one that changes nothing.
LEMMA PinsAgreeMade ==
    ASSUME Typed, PinTasksAgree, PinsAgree, NEW t \in Tasks, RequestMade(t),
           Now(t).do \notin PinSteps, "repinned" \notin odd',
           \A u \in Tasks, d \in Folders :
              PinTask(u, d)' => PinTask(u, d) /\ tasks'[u].todo = tasks[u].todo
    PROVE  PinsAgree'
<1>1. Busy(t) /\ Now(t) \in StepSet /\ IsCall(Now(t)) /\ UNCHANGED pinning
    BY NowOf DEF RequestMade, Typed, TasksOK
<1>2. pinned' = pinned /\ pending' = pending
    BY <1>1 DEF pinning
<1>3. ~PinLoad' => ~PinLoad
    <2>1. \A u \in Tasks : u # t => tasks'[u].todo = tasks[u].todo
        BY RequestTypes DEF GoesOn
    <2>2. Now(t).do # "pins"
        BY <1>1 DEF IsCall, IsLoad, Loads
    <2>. QED
        BY <2>1, <2>2 DEF PinLoad, Busy, Now
<1>4. ASSUME NEW d \in Folders, NEW u \in Tasks, NEW w \in {Root, Absent},
             tasks'[u].todo = <<Call("kept", d, w)>>
      PROVE  tasks[u].todo = <<Call("kept", d, w)>> /\ d \in pending
    <2>1. PinTask(u, d)'
        BY <1>4 DEF PinTask, PinWork
    <2>2. PinTask(u, d) /\ tasks'[u].todo = tasks[u].todo
        BY <2>1
    <2>3. Busy(u)
        BY <2>2, PinWorks DEF PinTask, Busy
    <2>4. ~PinFree(tasks[u].todo)
        BY <2>2, PinWorks DEF PinTask, PinFree
    <2>5. PICK e \in pending : PinTask(u, e)
        BY <2>4 DEF PinTasksAgree
    <2>6. e \in Folders
        BY DEF Typed, PinsOK
    <2>7. e = d
        BY <2>2, <2>5, <2>6, PinWorks DEF PinTask
    <2>. QED
        BY <1>4, <2>2, <2>5, <2>7
<1>5. CASE UNCHANGED server
    <2>1. pins' = pins /\ folders' = folders
        BY <1>5, ServerKept
    <2>. QED
        BY <1>2, <1>3, <1>4, <2>1 DEF PinsAgree
<1>6. ASSUME Effect(Now(t).do, Now(t).on, Now(t).with),
             pins' = {d \in pins : folders'[d] # Absent}
      PROVE  PinsAgree'
    <2>1. \A d \in Folders :
             folders[d] = Absent /\ folders'[d] # Absent => d \notin pinned \cup pending
        BY <1>1, <1>6, FoldersCome DEF Typed
    <2>2. \A d \in pins : folders[d] # Absent
        BY DEF Typed, ServerOK, ServerInv
    <2>3. \A d \in pins \ (pinned \cup pending) :
             folders'[d] = "live" /\ ~PinLoad => folders[d] = "live"
        BY DEF RequestMade, Notes, PinLoad
    <2>4. ASSUME NEW d \in Folders \ pending, folders'[d] # Absent, ~PinLoad'
          PROVE  /\ d \in pinned => d \in pins'
                 /\ folders'[d] = "live" /\ d \in pins' => d \in pinned
        <3>1. CASE folders[d] = Absent
            BY <1>6, <2>1, <2>2, <2>4, <3>1
        <3>2. CASE folders[d] # Absent
            BY <1>3, <1>6, <2>3, <2>4, <3>2 DEF PinsAgree
        <3>. QED
            BY <3>1, <3>2
    <2>5. ASSUME NEW d \in Folders, NEW u \in Tasks, folders'[d] # Absent
          PROVE  /\ tasks'[u].todo = <<Call("kept", d, Root)>> => d \in pins'
                 /\ tasks'[u].todo = <<Call("kept", d, Absent)>> => d \notin pins'
        BY <1>4, <1>6, <2>1, <2>5 DEF PinsAgree
    <2>. QED
        BY <1>2, <2>4, <2>5 DEF PinsAgree
<1>7. ~PinEffect(Now(t).do, Now(t).on)
    BY DEF PinEffect, PinSteps
<1>. QED
    BY <1>5, <1>6, <1>7 DEF RequestMade, Made

\* A pin or its removal is confirmed.
LEMMA PinMade ==
    ASSUME Typed, PinTasksAgree, PinsAgree, NEW t \in Tasks, RequestMade(t),
           NEW d \in pending, d \in Folders, PinTask(t, d)
    PROVE  PinTasksAgree' /\ PinsAgree'
<1> DEFINE todo == tasks[t].todo
<1>1. /\ Busy(t) /\ Now(t) = todo[1] /\ todo \in PinWork(d) /\ pinned' = pinned
      /\ pending' = pending /\ GoesOn(t, Tail(todo))
    BY RequestTypes, NowOf DEF RequestMade, Typed, TasksOK, PinTask, pinning
<1>2. Now(t).do \in PinSteps /\ Now(t).on = {d}
    BY <1>1, PinWorks
<1>3. ~Effect(Now(t).do, Now(t).on, Now(t).with)
    BY <1>2 DEF Effect, PinSteps
<1>4. /\ UNCHANGED ledger /\ Now(t).do \in {"pin", "unpin"}
      /\ pins' \in SUBSET Folders
      /\ \A e \in Folders : e # d => (e \in pins' <=> e \in pins)
      /\ Now(t).do = "pin" => d \in pins'
      /\ Now(t).do = "unpin" => d \notin pins'
    <2>1. CASE Made(Now(t))
        <3>1. PinEffect(Now(t).do, Now(t).on) /\ UNCHANGED ledger
            BY <1>3, <2>1 DEF Made
        <3>2. pins \in SUBSET Folders
            BY DEF Typed, ServerOK, ServerTyped
        <3>. QED
            BY <1>2, <3>1, <3>2 DEF PinEffect
    <2>2. CASE Vacuous(Now(t).do, Now(t).on, Now(t).with) /\ UNCHANGED server
        <3>1. Now(t).do = "pin" /\ d \in pins
            BY <1>2, <2>2 DEF Vacuous, PinSteps
        <3>2. pins' = pins /\ UNCHANGED ledger /\ pins \in SUBSET Folders
            BY <2>2, ServerKept DEF Typed, ServerOK, ServerTyped
        <3>. QED
            BY <3>1, <3>2
    <2>. QED
        BY <2>1, <2>2 DEF RequestMade
<1>5. \A e : PinWork(e)' = PinWork(e)
    BY DEF PinWork, PinTodos
<1> DEFINE rest == Tail(todo)
<1>6. /\ rest \in PinWork(d) /\ rest # <<>>
      /\ rest = <<Call("kept", d, Root)>> \/ rest = <<Call("kept", d, Absent)>>
      /\ rest = <<Call("kept", d, Root)>> => d \in pins'
      /\ rest = <<Call("kept", d, Absent)>> => d \notin pins'
    <2>1. \/ Now(t).do = "pin" /\ rest = <<Call("kept", d, Root)>>
          \/ Now(t).do = "unpin" /\ rest = <<Call("kept", d, Absent)>>
        <3>1. /\ todo[1].do = "pin" => Tail(todo) = <<Call("kept", d, Root)>>
              /\ todo[1].do = "unpin" => Tail(todo) = <<Call("kept", d, Absent)>>
            BY <1>1, PinWorks
        <3>. QED
            BY <1>1, <1>4, <3>1
    <2>2. Root # Absent
        BY DriveViewAssumption
    <2>3. <<Call("kept", d, Root)>> # <<Call("kept", d, Absent)>>
        <3>1. Call("kept", d, Root) # Call("kept", d, Absent)
            BY <2>2 DEF Call, Step
        <3>. QED
            BY <3>1
    <2>. QED
        BY <1>4, <2>1, <2>3 DEF PinWork
<1>7. \A u \in Tasks : IF u = t THEN tasks'[u].todo = rest ELSE tasks'[u].todo = tasks[u].todo
    BY <1>1 DEF GoesOn
<1>. HIDE DEF rest, todo
<1>8. \A u \in Tasks, e \in Folders : PinTask(u, e)' <=> PinTask(u, e)
    <2>. TAKE u \in Tasks, e \in Folders
    <2>1. PinTask(u, e)' <=> tasks'[u].todo \in PinWork(e)
        BY <1>5 DEF PinTask
    <2>2. CASE u = t
        <3>1. PinTask(t, e) <=> e = d
            BY <1>1, PinWorks DEF PinTask, todo
        <3>2. rest \in PinWork(e) <=> e = d
            BY <1>6, PinWorks
        <3>. QED
            BY <1>7, <2>1, <2>2, <3>1, <3>2
    <2>3. CASE u # t
        BY <1>7, <2>1, <2>3 DEF PinTask
    <2>. QED
        BY <2>2, <2>3
<1>9. pending \subseteq Folders
    BY DEF Typed, PinsOK
<1>10. PinTasksAgree'
    <2>1. ASSUME NEW u \in Tasks
          PROVE  PinFree(tasks'[u].todo) \/ \E e \in pending : PinTask(u, e)'
        <3>1. CASE u = t
            BY <1>8, <3>1
        <3>2. CASE u # t
            BY <1>7, <1>8, <1>9, <3>2 DEF PinTasksAgree
        <3>. QED
            BY <3>1, <3>2
    <2>2. \A e \in pending : \E u \in Tasks : PinTask(u, e)'
        BY <1>8, <1>9 DEF PinTasksAgree
    <2>3. \A e \in Folders : \A u, v \in Tasks : PinTask(u, e)' /\ PinTask(v, e)' => u = v
        BY <1>8 DEF PinTasksAgree
    <2>. QED
        BY <1>1, <2>1, <2>2, <2>3 DEF PinTasksAgree
<1>11. PinsAgree'
    <2>1. ~PinLoad' => ~PinLoad
        <3>1. Now(t).do # "pins"
            BY <1>2 DEF PinSteps
        <3>. QED
            BY <1>7, <3>1 DEF PinLoad, Busy, Now
    <2>2. folders' = folders
        BY <1>4 DEF ledger
    <2>3. ASSUME NEW e \in Folders, e \notin pending, folders'[e] # Absent, ~PinLoad'
          PROVE  /\ e \in pinned => e \in pins'
                 /\ folders'[e] = "live" /\ e \in pins' => e \in pinned
        BY <1>4, <2>1, <2>2, <2>3 DEF PinsAgree
    <2>4. ASSUME NEW e \in Folders, NEW u \in Tasks, folders'[e] # Absent,
                 NEW w \in {Root, Absent}, tasks'[u].todo = <<Call("kept", e, w)>>
          PROVE  \/ u = t /\ e = d
                 \/ tasks[u].todo = <<Call("kept", e, w)>> /\ e # d
        <3>1. PinTask(u, e)'
            BY <2>4 DEF PinTask, PinWork
        <3>2. PinTask(u, e)
            BY <1>8, <3>1
        <3>3. CASE u = t
            BY <3>2, <3>3, <1>1, PinWorks DEF PinTask, todo
        <3>4. CASE u # t
            <4>1. e # d
                BY <3>2, <3>4 DEF PinTasksAgree
            <4>. QED
                BY <1>7, <2>4, <3>4, <4>1
        <3>. QED
            BY <3>3, <3>4
    <2>5. ASSUME NEW e \in Folders, NEW u \in Tasks, folders'[e] # Absent,
                 tasks'[u].todo = <<Call("kept", e, Root)>>
          PROVE  e \in pins'
        <3>1. CASE u = t /\ e = d
            BY <1>6, <1>7, <2>5, <3>1
        <3>2. CASE tasks[u].todo = <<Call("kept", e, Root)>> /\ e # d
            BY <1>4, <2>2, <2>5, <3>2 DEF PinsAgree
        <3>. QED
            BY <2>4, <2>5, <3>1, <3>2
    <2>6. ASSUME NEW e \in Folders, NEW u \in Tasks, folders'[e] # Absent,
                 tasks'[u].todo = <<Call("kept", e, Absent)>>
          PROVE  e \notin pins'
        <3>1. CASE u = t /\ e = d
            BY <1>6, <1>7, <2>6, <3>1
        <3>2. CASE tasks[u].todo = <<Call("kept", e, Absent)>> /\ e # d
            BY <1>4, <2>2, <2>6, <3>2 DEF PinsAgree
        <3>. QED
            BY <2>4, <2>6, <3>1, <3>2
    <2>. QED
        BY <1>1, <2>3, <2>5, <2>6 DEF PinsAgree
<1>. QED
    BY <1>10, <1>11

\* A pin is shown, or no longer.
LEMMA PinShown ==
    ASSUME Typed, PinTasksAgree, PinsAgree, NEW t \in Tasks, PinKept(t),
           NEW d \in pending, d \in Folders, PinTask(t, d)
    PROVE  PinTasksAgree' /\ PinsAgree'
<1> DEFINE todo == tasks[t].todo
<1>1. /\ Busy(t) /\ Now(t) = todo[1] /\ todo \in PinWork(d)
      /\ Now(t).do = "kept" /\ GoesOn(t, Tail(todo)) /\ UNCHANGED server
    BY ShownTypes, NowOf DEF PinKept, Typed, TasksOK, PinTask
<1>2. /\ Now(t).on = {d} /\ Tail(todo) = <<>>
      /\ \/ Now(t).with = Root /\ todo = <<Call("kept", d, Root)>>
         \/ Now(t).with = Absent /\ todo = <<Call("kept", d, Absent)>>
    BY <1>1, PinWorks
<1>3. /\ pending' = pending \ {d} /\ Root # Absent
      /\ pinned' = IF Now(t).with = Absent THEN pinned \ {d} ELSE pinned \cup {d}
    BY <1>1, <1>2, DriveViewAssumption DEF PinKept, NoLongerPending
<1>4. pins' = pins /\ folders' = folders /\ pending \subseteq Folders
    BY <1>1, ServerKept DEF Typed, PinsOK
<1>5. \A u \in Tasks : IF u = t THEN tasks'[u].todo = <<>> ELSE tasks'[u].todo = tasks[u].todo
    BY <1>1, <1>2 DEF GoesOn
<1>6. \A u \in Tasks, e \in Folders :
         PinTask(u, e)' <=> PinTask(u, e) /\ u # t
    <2>. TAKE u \in Tasks, e \in Folders
    <2>1. PinTask(u, e)' <=> tasks'[u].todo \in PinWork(e)
        BY DEF PinTask, PinWork, PinTodos
    <2>2. <<>> \notin PinWork(e)
        BY PinWorks
    <2>. QED
        BY <1>5, <2>1, <2>2 DEF PinTask
<1>7. \A e \in Folders : PinTask(t, e) => e = d
    BY <1>1, PinWorks DEF PinTask
<1>8. PinTasksAgree'
    <2>1. ASSUME NEW u \in Tasks
          PROVE  PinFree(tasks'[u].todo) \/ \E e \in pending' : PinTask(u, e)'
        <3>1. CASE u = t
            BY <1>5, <3>1 DEF PinFree
        <3>2. CASE u # t
            <4>1. CASE PinFree(tasks[u].todo)
                BY <1>5, <3>2, <4>1
            <4>2. ASSUME NEW e \in pending, PinTask(u, e) PROVE \E f \in pending' : PinTask(u, f)'
                <5>1. e # d
                    BY <1>4, <3>2, <4>2 DEF PinTasksAgree
                <5>. QED
                    BY <1>3, <1>4, <1>6, <3>2, <4>2, <5>1
            <4>. QED
                BY <4>1, <4>2 DEF PinTasksAgree
        <3>. QED
            BY <3>1, <3>2
    <2>2. \A e \in pending' : \E u \in Tasks : PinTask(u, e)'
        BY <1>3, <1>4, <1>6, <1>7 DEF PinTasksAgree
    <2>3. \A e \in Folders : \A u, v \in Tasks : PinTask(u, e)' /\ PinTask(v, e)' => u = v
        BY <1>6 DEF PinTasksAgree
    <2>. QED
        BY <2>1, <2>2, <2>3 DEF PinTasksAgree
<1>9. PinsAgree'
    <2>1. ~PinLoad' => ~PinLoad
        BY <1>1, <1>5 DEF PinLoad, Busy, Now
    <2>2. ASSUME NEW e \in Folders, e \notin pending', folders'[e] # Absent, ~PinLoad'
          PROVE  /\ e \in pinned' => e \in pins'
                 /\ folders'[e] = "live" /\ e \in pins' => e \in pinned'
        <3>1. CASE e = d
            BY <1>2, <1>3, <1>4, <2>2, <3>1 DEF PinsAgree
        <3>2. CASE e # d
            BY <1>3, <1>4, <2>1, <2>2, <3>2 DEF PinsAgree
        <3>. QED
            BY <3>1, <3>2
    <2>3. ASSUME NEW e \in Folders, NEW u \in Tasks, folders'[e] # Absent
          PROVE  /\ tasks'[u].todo = <<Call("kept", e, Root)>> => e \in pins'
                 /\ tasks'[u].todo = <<Call("kept", e, Absent)>> => e \notin pins'
        <3>1. CASE u = t
            <4>1. tasks'[u].todo = <<>>
                BY <1>5, <3>1
            <4>2. \A x : <<x>> # <<>>
                OBVIOUS
            <4>. QED
                BY <4>1, <4>2
        <3>2. CASE u # t
            <4>1. tasks'[u].todo = tasks[u].todo /\ pins' = pins /\ folders[e] # Absent
                BY <1>4, <1>5, <2>3, <3>2
            <4>2. /\ tasks[u].todo = <<Call("kept", e, Root)>> => e \in pins
                  /\ tasks[u].todo = <<Call("kept", e, Absent)>> => e \notin pins
                BY <4>1 DEF PinsAgree
            <4>. QED
                BY <4>1, <4>2
        <3>. QED
            BY <3>1, <3>2
    <2>. QED
        BY <2>2, <2>3 DEF PinsAgree
<1>. QED
    BY <1>8, <1>9

\* Nothing changes of pins, and only tasks without pin steps go on.
LEMMA PinsStill ==
    ASSUME Typed, PinInv, UNCHANGED <<server, pinned, pending>>, odd \subseteq odd',
           \A t \in Tasks : \/ tasks'[t].todo = tasks[t].todo
                            \/ /\ PinTasksAgree =>
                                    PinFree(tasks[t].todo) /\ PinFree(tasks'[t].todo)
                               /\ Busy(t) => Now(t).do # "pins"
    PROVE  PinInv'
<1>. SUFFICES ASSUME PinTasksAgree, PinsAgree PROVE PinTasksAgree' /\ PinsAgree'
    BY DEF PinInv, But
<1>1. pins' = pins /\ folders' = folders /\ pending \subseteq Folders
    BY ServerKept DEF Typed, PinsOK
<1>2. /\ PinTasksAgree'
      /\ \A t \in Tasks, d \in Folders :
            PinTask(t, d)' => PinTask(t, d) /\ tasks'[t].todo = tasks[t].todo
    BY <1>1, AgreeStill
<1>3. ~PinLoad' => ~PinLoad
    <2>1. \A t \in Tasks : Busy(t) /\ Now(t).do = "pins" => tasks'[t].todo = tasks[t].todo
        OBVIOUS
    <2>. QED
        BY <2>1 DEF PinLoad, Busy, Now
<1>4. \A t \in Tasks, d \in Folders, w \in {Root, Absent} :
         tasks'[t].todo = <<Call("kept", d, w)>> => tasks[t].todo = <<Call("kept", d, w)>>
    BY <1>2 DEF PinTask, PinWork
<1>. QED
    BY <1>1, <1>2, <1>3, <1>4 DEF PinsAgree

\* The pins that were loaded are shown, and are those that the server has.
LEMMA PinsRead == ASSUME Typed, PinInv, NEW t \in Tasks, PinsShown(t) PROVE PinInv'
<1>. SUFFICES ASSUME But({"failed", "pinsOvertaken", "repinned"})', PinTasksAgree, PinsAgree
              PROVE  PinTasksAgree' /\ PinsAgree'
    BY DEF PinInv, But, PinsShown
<1>1. /\ GoesOn(t, Tail(tasks[t].todo)) /\ Busy(t) /\ Now(t).do = "pins"
      /\ UNCHANGED server /\ pending' = pending /\ pending \subseteq Folders
      /\ pinned' = {d \in pins : folders[d] = "live"}
    BY ShownTypes DEF PinsShown, But, Typed, PinsOK
<1>2. PinFree(tasks[t].todo) /\ PinFree(Tail(tasks[t].todo))
    BY <1>1, OtherTasks DEF PinSteps
<1>3. \A u \in Tasks : \/ tasks'[u].todo = tasks[u].todo
                       \/ PinFree(tasks[u].todo) /\ PinFree(tasks'[u].todo)
    BY <1>1, <1>2 DEF GoesOn
<1>4. /\ PinTasksAgree'
      /\ \A u \in Tasks, d \in Folders :
            PinTask(u, d)' => PinTask(u, d) /\ tasks'[u].todo = tasks[u].todo
    BY <1>1, <1>3, AgreeStill
<1>5. pins' = pins /\ folders' = folders
    BY <1>1, ServerKept
<1>6. \A u \in Tasks, d \in Folders, w \in {Root, Absent} :
         tasks'[u].todo = <<Call("kept", d, w)>> => tasks[u].todo = <<Call("kept", d, w)>>
    BY <1>4 DEF PinTask, PinWork
<1>7. \A d \in Folders \ pending' : folders'[d] # Absent /\ ~PinLoad' =>
                     /\ d \in pinned' => d \in pins'
                     /\ folders'[d] = "live" /\ d \in pins' => d \in pinned'
    BY <1>1, <1>5
<1>8. \A d \in Folders, u \in Tasks : folders'[d] # Absent =>
              /\ tasks'[u].todo = <<Call("kept", d, Root)>> => d \in pins'
              /\ tasks'[u].todo = <<Call("kept", d, Absent)>> => d \notin pins'
    BY <1>5, <1>6 DEF PinsAgree
<1>. QED
    BY <1>4, <1>7, <1>8 DEF PinsAgree

\* A folder's pin is to change that is not waited for.
LEMMA PinAskedAgrees == ASSUME Typed, PinInv, PinAsked PROVE PinInv'
<1>. SUFFICES ASSUME PinTasksAgree, PinsAgree PROVE PinTasksAgree' /\ PinsAgree'
    BY DEF PinInv, But, PinAsked
<1>1. PICK d \in Folders \ pending, t \in Free :
         /\ pending' = pending \cup {d}
         /\ \E todo \in PinTodos(d) : tasks' = [tasks EXCEPT ![t] = Task(todo)]
    BY DEF PinAsked
<1>2. PICK todo \in PinTodos(d) : tasks' = [tasks EXCEPT ![t] = Task(todo)]
    BY <1>1
<1>3. todo \in Seq(StepSet) /\ Len(todo) = 2 /\ todo \in PinWork(d) /\ todo # <<>>
    BY PinTodoTypes, PinWorks DEF PinWork
<1>4. Task(todo).todo = todo
    BY <1>3, AskedTasks
<1>5. /\ \A u \in Tasks : IF u = t THEN tasks'[u].todo = todo ELSE tasks'[u].todo = tasks[u].todo
      /\ t \in Tasks /\ tasks[t].todo = <<>>
    BY <1>2, <1>4 DEF Free, Busy, Typed, TasksOK, TasksTyped
<1>6. pins' = pins /\ folders' = folders /\ pinned' = pinned /\ pending \subseteq Folders
    BY ServerKept DEF PinAsked, Typed, PinsOK
<1>7. \A u \in Tasks, e \in Folders : PinTask(u, e)' <=> IF u = t THEN e = d ELSE PinTask(u, e)
    <2>. TAKE u \in Tasks, e \in Folders
    <2>1. PinTask(u, e)' <=> tasks'[u].todo \in PinWork(e)
        BY DEF PinTask, PinWork, PinTodos
    <2>2. todo \in PinWork(e) <=> e = d
        BY <1>3, PinWorks
    <2>. QED
        BY <1>5, <2>1, <2>2 DEF PinTask
<1>8. \A u \in Tasks : ~PinTask(u, d)
    <2>. SUFFICES ASSUME NEW u \in Tasks, PinTask(u, d) PROVE FALSE
        OBVIOUS
    <2>1. ~PinFree(tasks[u].todo)
        BY PinWorks DEF PinTask, PinFree
    <2>2. PICK e \in pending : PinTask(u, e)
        BY <2>1 DEF PinTasksAgree
    <2>3. e = d
        BY <1>6, <2>2, PinWorks DEF PinTask
    <2>. QED
        BY <1>1, <2>2, <2>3
<1>9. ~PinTask(t, d) /\ \A e \in Folders : ~PinTask(t, e)
    BY <1>5, PinWorks DEF PinTask
<1>10. PinTasksAgree'
    <2>1. ASSUME NEW u \in Tasks
          PROVE  PinFree(tasks'[u].todo) \/ \E e \in pending' : PinTask(u, e)'
        <3>1. CASE u = t
            BY <1>1, <1>7, <3>1
        <3>2. CASE u # t
            BY <1>1, <1>5, <1>6, <1>7, <3>2 DEF PinTasksAgree
        <3>. QED
            BY <3>1, <3>2
    <2>2. \A e \in pending' : \E u \in Tasks : PinTask(u, e)'
        <3>. TAKE e \in pending'
        <3>1. CASE e = d
            BY <1>5, <1>7, <3>1
        <3>2. CASE e \in pending
            BY <1>6, <1>7, <1>9, <3>2 DEF PinTasksAgree
        <3>. QED
            BY <1>1, <3>1, <3>2
    <2>3. \A e \in Folders : \A u, v \in Tasks : PinTask(u, e)' /\ PinTask(v, e)' => u = v
        BY <1>7, <1>8 DEF PinTasksAgree
    <2>. QED
        BY <2>1, <2>2, <2>3 DEF PinTasksAgree
<1>11. PinsAgree'
    <2>1. ~PinLoad' => ~PinLoad
        <3>1. \A u \in Tasks : Busy(u) => u # t
            BY <1>5 DEF Busy
        <3>. QED
            BY <1>5, <3>1 DEF PinLoad, Busy, Now
    <2>2. \A e : /\ todo # <<Call("kept", e, Root)>> /\ todo # <<Call("kept", e, Absent)>>
        <3>1. \A a : Len(<<a>>) = 1
            OBVIOUS
        <3>. QED
            BY <1>3, <3>1
    <2>3. \A e \in Folders \ pending' : folders'[e] # Absent /\ ~PinLoad' =>
                     /\ e \in pinned' => e \in pins'
                     /\ folders'[e] = "live" /\ e \in pins' => e \in pinned'
        BY <1>1, <1>6, <2>1 DEF PinsAgree
    <2>4. ASSUME NEW e \in Folders, NEW u \in Tasks, folders'[e] # Absent
          PROVE  /\ tasks'[u].todo = <<Call("kept", e, Root)>> => e \in pins'
                 /\ tasks'[u].todo = <<Call("kept", e, Absent)>> => e \notin pins'
        <3>1. CASE u = t
            BY <1>5, <2>2, <3>1
        <3>2. CASE u # t
            BY <1>5, <1>6, <2>4, <3>2 DEF PinsAgree
        <3>. QED
            BY <3>1, <3>2
    <2>. QED
        BY <2>3, <2>4 DEF PinsAgree
<1>. QED
    BY <1>10, <1>11

LEMMA PinTaskStep == ASSUME Typed, PinInv, NEW t \in Tasks, TaskStep(t) PROVE PinInv'
<1>0. odd \subseteq odd'
    BY DEF TaskStep, RequestMade, RequestFails, TwinFound, LoadServed, LoadNamed,
       LoadFails, TreeShown, TrashShown, PinsShown, PinKept
<1>1. SUFFICES ASSUME But({"failed", "pinsOvertaken", "repinned"})', PinTasksAgree, PinsAgree
               PROVE  PinInv'
    BY <1>0 DEF PinInv, But
<1>2. CASE RequestMade(t)
    <2>1. /\ Busy(t) /\ GoesOn(t, Tail(tasks[t].todo)) /\ pending' = pending
          /\ pending \subseteq Folders /\ "repinned" \notin odd'
        BY <1>1, <1>2, RequestTypes DEF RequestMade, pinning, Typed, PinsOK, But
    <2>2. CASE /\ PinFree(tasks[t].todo) /\ Now(t).do \notin PinSteps
               /\ PinFree(Tail(tasks[t].todo))
        <3>1. \A u \in Tasks : \/ tasks'[u].todo = tasks[u].todo
                               \/ PinFree(tasks[u].todo) /\ PinFree(tasks'[u].todo)
            BY <2>1, <2>2 DEF GoesOn
        <3>2. /\ PinTasksAgree'
              /\ \A u \in Tasks, d \in Folders :
                    PinTask(u, d)' => PinTask(u, d) /\ tasks'[u].todo = tasks[u].todo
            BY <1>1, <2>1, <3>1, AgreeStill
        <3>3. PinsAgree'
            BY <1>1, <1>2, <2>1, <2>2, <3>2, PinsAgreeMade
        <3>. QED
            BY <3>2, <3>3 DEF PinInv
    <2>3. ASSUME NEW d \in pending, d \in Folders, PinTask(t, d) PROVE PinInv'
        BY <1>1, <1>2, <2>3, PinMade DEF PinInv
    <2>. QED
        BY <1>1, <2>1, <2>2, <2>3, OtherTasks
<1>3. CASE RequestFails(t) \/ LoadFails(t)
    BY <1>3 DEF RequestFails, LoadFails, PinInv, But
<1>4. CASE PinsShown(t)
    BY <1>4, PinsRead
<1>5. CASE PinKept(t)
    <2>1. Busy(t) /\ Now(t).do \in PinSteps
        BY <1>5 DEF PinKept, PinSteps
    <2>2. PICK d \in pending : d \in Folders /\ PinTask(t, d)
        BY <1>1, <2>1, OtherTasks
    <2>. QED
        BY <1>1, <1>5, <2>2, PinShown DEF PinInv
<1>6. CASE LoadServed(t) \/ LoadNamed(t)
    <2>1. LoadsOn(t)
        BY <1>6, LoadServedTypes, LoadNamedTypes
    <2>2. \A u \in Tasks : tasks'[u].todo = tasks[u].todo
        <3>1. \A u \in Tasks : u = t \/ u \in Tasks \ {t}
            OBVIOUS
        <3>. QED
            BY <2>1, <3>1 DEF LoadsOn
    <2>. QED
        BY <1>0, <2>1, <2>2, PinsStill DEF LoadsOn, pinning
<1>7. CASE TwinFound(t) \/ TreeShown(t) \/ TrashShown(t)
    <2>1. /\ Busy(t) /\ Now(t).do \notin PinSteps /\ Now(t).do # "pins"
          /\ UNCHANGED <<server, pinned, pending>>
        BY <1>7 DEF TwinFound, TreeShown, TrashShown, PinSteps, TwinSteps, pinning
    <2>2. PinFree(tasks[t].todo) /\ PinFree(Tail(tasks[t].todo))
        BY <1>1, <2>1, OtherTasks
    <2>3. \E rest : GoesOn(t, rest) /\ PinFree(rest)
        <3>1. CASE GoesOn(t, Tail(tasks[t].todo))
            BY <2>2, <3>1
        <3>2. ASSUME NEW p \in FileRows, TwinFound(t),
                     GoesOn(t, <<[Now(t).with.call EXCEPT !.on = {p.key}]>>
                               \o Tail(tasks[t].todo))
              PROVE  PinFree(<<[Now(t).with.call EXCEPT !.on = {p.key}]>>
                               \o Tail(tasks[t].todo))
            <4> DEFINE c == [Now(t).with.call EXCEPT !.on = {p.key}]
            <4>1. Now(t) \in StepSet /\ Now(t).do \in TwinSteps /\ Now(t) \in Twins
                BY <2>1, <3>2, NowOf, StepTypes DEF TwinFound, Typed, TasksOK
            <4>2. c \in StepSet /\ c.do = TwinDo[Now(t).do]
                BY <4>1, ProxyCall DEF StepSet
            <4>3. c.do \notin PinSteps
                BY <4>1, <4>2 DEF TwinDo, TwinSteps, PinSteps
            <4>. HIDE DEF c
            <4> DEFINE rest == <<c>> \o Tail(tasks[t].todo)
            <4>4. /\ DOMAIN rest = DOMAIN tasks[t].todo /\ rest[1] = c
                  /\ \A i \in DOMAIN tasks[t].todo : i # 1 => rest[i] = tasks[t].todo[i]
                BY <2>1, <4>2, Replaced DEF Typed, TasksOK
            <4>. HIDE DEF rest
            <4>5. PinFree(rest)
                BY <2>2, <4>3, <4>4 DEF PinFree
            <4>. QED
                BY <4>5 DEF rest, c
        <3>. QED
            BY <1>7, <3>1, <3>2, TwinFoundTypes, ShownTypes
    <2>4. PICK rest : GoesOn(t, rest) /\ PinFree(rest)
        BY <2>3
    <2>5. \A u \in Tasks : \/ tasks'[u].todo = tasks[u].todo
                           \/ /\ PinFree(tasks[u].todo) /\ PinFree(tasks'[u].todo)
                              /\ Now(u).do # "pins"
        BY <2>1, <2>2, <2>4 DEF GoesOn
    <2>. QED
        BY <1>0, <2>1, <2>5, PinsStill
<1>. QED
    BY <1>2, <1>3, <1>4, <1>5, <1>6, <1>7 DEF TaskStep

LEMMA PinStep == ASSUME Typed, PinInv, [Next]_vars PROVE PinInv'
<1>0. odd \subseteq odd' /\ PinFree(<<>>)
    BY Elsewhere DEF PinFree
<1>1. CASE UserStep
    <2>1. \A u \in Tasks : \/ tasks'[u].todo = tasks[u].todo
                           \/ ~Busy(u) /\ PinFree(tasks[u].todo) /\ PinFree(tasks'[u].todo)
        BY <1>0, <1>1 DEF UserStep, TasksBegun, Plan, Common, PinFree, Apart, Busy
    <2>. QED
        BY <1>0, <1>1, <2>1, PinsStill DEF UserStep
<1>2. CASE LockDrive
    <2>1. tasks' = tasks /\ UNCHANGED <<server, pinned, pending>>
        BY <1>2 DEF LockDrive, pinning
    <2>. QED
        BY <1>0, <2>1, PinsStill
<1>3. CASE Unlock
    <2>1. UNCHANGED <<server, pinned, pending>>
        BY <1>3, UnlockTypes DEF pinning
    <2>2. CASE tasks' = tasks
        BY <1>0, <2>1, <2>2, PinsStill
    <2>3. ASSUME NEW t \in Tasks, NamesAsked(t) PROVE PinInv'
        <3>1. /\ <<Load("names")>> \in Seq(StepSet) /\ DOMAIN <<Load("names")>> = {1}
              /\ <<Load("names")>>[1].do = "names"
            BY LoadTypes, OneOrTwo DEF Loads
        <3>2. PinFree(<<Load("names")>>)
            BY <3>1 DEF PinFree, PinSteps
        <3>3. \A u \in Tasks : \/ tasks'[u].todo = tasks[u].todo
                               \/ ~Busy(u) /\ PinFree(tasks[u].todo) /\ PinFree(tasks'[u].todo)
            BY <1>0, <2>3, <3>2 DEF NamesAsked, Busy
        <3>. QED
            BY <1>0, <2>1, <3>3, PinsStill
    <2>. QED
        BY <1>3, <2>2, <2>3, UnlockTypes
<1>4. CASE PinAsked
    BY <1>4, PinAskedAgrees
<1>. QED
    BY <1>1, <1>2, <1>3, <1>4, PinTaskStep, Kinds

LEMMA PinInit == Init => PinInv
<1>. SUFFICES ASSUME Init PROVE PinTasksAgree /\ PinsAgree
    BY DEF PinInv
<1>1. PICK t \in Tasks, u \in Tasks : t # u /\
         tasks = [v \in Tasks |-> CASE v = t -> Task(Tree)
                                    [] v = u -> Task(<<Load("pins")>>)
                                    [] OTHER -> Idle]
    BY DEF Init
<1>2. /\ <<Load("pins")>> \in Seq(StepSet) /\ DOMAIN <<Load("pins")>> = {1}
      /\ <<Load("pins")>>[1].do = "pins" /\ <<Load("pins")>> # <<>>
      /\ Head(<<Load("pins")>>).do = "pins"
    BY LoadTypes, OneOrTwo DEF Loads
<1>3. Tree \in Seq(StepSet) /\ DOMAIN Tree = {1} /\ Tree[1].do = "tree"
    <2>1. Tree \in Seq(StepSet) /\ Len(Tree) = 1 /\ Tree[1].do = "tree"
        BY LoadTypes DEF Loads
    <2>. QED
        BY <2>1, LenProperties
<1>4. /\ Task(Tree).todo = Tree /\ Task(<<Load("pins")>>).todo = <<Load("pins")>>
      /\ Idle.todo = <<>>
    BY <1>2, <1>3, AskedTasks, IdleTask DEF Asked
<1>5. PinFree(Tree) /\ PinFree(<<Load("pins")>>) /\ PinFree(<<>>)
    BY <1>2, <1>3 DEF PinFree, PinSteps
<1>6. \A v \in Tasks : PinFree(tasks[v].todo)
    BY <1>1, <1>4, <1>5
<1>7. \A v \in Tasks, d \in Folders : ~PinTask(v, d)
    BY <1>6, PinWorks DEF PinTask, PinFree
<1>8. tasks[u].todo = <<Load("pins")>>
    BY <1>1, <1>4
<1>9. PinLoad
    BY <1>2, <1>8 DEF PinLoad, Busy, Now
<1>10. pending = {}
    BY DEF Init
<1>11. \A v \in Tasks, d \in Folders, w \in {Root, Absent} : tasks[v].todo # <<Call("kept", d, w)>>
    BY <1>7 DEF PinTask, PinWork
<1>. QED
    BY <1>6, <1>7, <1>9, <1>10, <1>11 DEF PinTasksAgree, PinsAgree

\* When no method is under way and none has failed or was overtaken, the
\* folders shown as pinned are those that the server has as pinned, and none
\* is waited for (PinnedFoldersStore.togglePin, loadPinnedFolders).
THEOREM PinsFollowServer == Spec => []PinsSettle
<1>1. Typed /\ PinInv /\ [Next]_vars => PinInv'
    BY PinStep
<1>2. Typed /\ PinInv => PinsSettle
    <2>. SUFFICES ASSUME Typed, PinTasksAgree, PinsAgree, Settled
                  PROVE  /\ pending = {}
                         /\ {d \in pinned : folders[d] = "live"} =
                            {d \in pins : folders[d] = "live"}
        BY DEF PinInv, PinsSettle
    <2>1. pinned \subseteq Folders /\ pending \subseteq Folders /\ pins \subseteq Folders
          /\ "live" # Absent
        BY StartsAssumption DEF Typed, PinsOK, ServerOK, ServerTyped, Ledger!Ages
    <2>2. pending = {}
        BY <2>1, PinWorks DEF PinTasksAgree, Settled, Busy, PinTask
    <2>3. ~PinLoad
        BY DEF PinLoad, Settled
    <2>. QED
        BY <2>1, <2>2, <2>3 DEF PinsAgree
<1>. QED
    BY <1>1, <1>2, PinInit, AlwaysTyped, PTL DEF Spec

(***************************************************************************)
(* A video and its proxy                                                   *)
(***************************************************************************)

\* A step is about neither of a pair, or about both in one request.
Clear(s, pair) == pair.of \notin s.on /\ pair.proxy \notin s.on
Both(s, pair) == /\ s.do \in {"trashFiles", "purgeFiles"}
                 /\ pair.of \in s.on /\ pair.proxy \in s.on
Quiet(todo, pair) ==
    \A i \in DOMAIN todo : Clear(todo[i], pair) \/ Both(todo[i], pair)

\* A method for one item: its request is to come, and then one for its proxy.
ItemDoes == {"trashFile", "restoreFile", "purgeFile", "renameFile"}
Opens(todo, pair) ==
    /\ 1 \in DOMAIN todo /\ 2 \in DOMAIN todo
    /\ todo[1].do \in ItemDoes /\ todo[1].on = {pair.of}
    /\ todo[2].do \in TwinSteps /\ todo[2].on = {pair.of}
    /\ TwinDo[todo[2].do] = todo[1].do
    /\ todo[1].do = "renameFile" => todo[2].with.call.with.base = todo[1].with.base
    /\ \A i \in DOMAIN todo : i > 2 => Clear(todo[i], pair)

\* That request has been made, and the one for the proxy has not.
OwedCall(s) == IF s.do \in TwinSteps THEN s.with.call ELSE s
OwesOne(todo, pair) ==
    /\ 1 \in DOMAIN todo
    /\ IF todo[1].do \in TwinSteps THEN todo[1].on = {pair.of}
       ELSE todo[1].do \in ItemDoes /\ todo[1].on = {pair.proxy}
    /\ \A i \in DOMAIN todo : i > 1 => Clear(todo[i], pair)

\* A batch restores both, the video first: before that, and in between.
Restores(todo, pair) ==
    \A i \in DOMAIN todo :
        /\ todo[i].do \in {"restoreFile", "restoreFolder"} \cup Loads
        /\ \/ Clear(todo[i], pair)
           \/ todo[i].do = "restoreFile" /\ todo[i].on \in {{pair.of}, {pair.proxy}}
Restoring(todo, pair) ==
    /\ Restores(todo, pair)
    /\ \E i \in DOMAIN todo :
          /\ todo[i].on = {pair.of}
          /\ \A j \in DOMAIN todo : todo[j].on = {pair.of} => j = i
          /\ \A j \in DOMAIN todo : todo[j].on = {pair.proxy} => i < j
          /\ \E j \in DOMAIN todo : todo[j].on = {pair.proxy}
OwesTurn(todo, pair) ==
    /\ Restores(todo, pair)
    /\ \A i \in DOMAIN todo : todo[i].on # {pair.of}
    /\ \E i \in DOMAIN todo : todo[i].on = {pair.proxy}

OwesIt(todo, pair) == OwesOne(todo, pair) \/ OwesTurn(todo, pair)
Starting(todo, pair) ==
    Quiet(todo, pair) \/ Opens(todo, pair) \/ Restoring(todo, pair)
Regular(todo, pair) == Starting(todo, pair) \/ OwesIt(todo, pair)

\* What the request for the proxy needs, to leave the two together.
Ready(do, with, video, proxy) ==
    \/ /\ do = "trashFile"
       /\ video # Absent /\ proxy # Absent
       /\ proxy.folder = video.folder /\ proxy.name.base = video.name.base
       /\ video.trash # "live"
    \/ /\ do = "renameFile"
       /\ video # Absent /\ proxy # Absent
       /\ proxy.folder = video.folder /\ with.base = video.name.base
       /\ (proxy.trash = "live") = (video.trash = "live")
    \/ /\ do = "restoreFile"
       /\ proxy # Absent
       /\ proxy.trash # "live" =>
             /\ video # Absent /\ video.trash = "live"
             /\ proxy.name.base = video.name.base
             /\ video.folder = IF Ledger!LiveFolder(proxy.folder)
                               THEN proxy.folder ELSE Root
    \/ do = "purgeFile" /\ video = Absent

\* What is owed can be made good as things are.
Good(todo, pair) ==
    /\ OwesOne(todo, pair) =>
          Ready(OwedCall(todo[1]).do, OwedCall(todo[1]).with,
                files[pair.of], files[pair.proxy])
    /\ OwesTurn(todo, pair) =>
          Ready("restoreFile", Absent, files[pair.of], files[pair.proxy])

Paired(pair) == Together(files[pair.of], files[pair.proxy])

\* A video and its proxy are together but while a single task still owes the
\* request for the proxy, which will bring them together again.
PairInv(pair) ==
    /\ \A t \in Tasks : Regular(tasks[t].todo, pair) /\ Good(tasks[t].todo, pair)
    /\ \A t, u \in Tasks :
          OwesIt(tasks[t].todo, pair) /\ OwesIt(tasks[u].todo, pair) => t = u
    /\ Paired(pair) \/ \E t \in Tasks : OwesIt(tasks[t].todo, pair)
TwinInv == But({"failed", "strays", "crossed"}) => \A pair \in Pairs : PairInv(pair)

LEMMA PairIds ==
    ASSUME NEW pair \in Pairs
    PROVE  /\ pair.of \in FileIds /\ pair.proxy \in FileIds
           /\ pair.of # pair.proxy
           /\ pair.of \notin Folders /\ pair.proxy \notin Folders
           /\ pair = [of |-> pair.of, proxy |-> pair.proxy]
           /\ \A other \in Pairs :
                 other # pair => {pair.of, pair.proxy} \cap {other.of, other.proxy} = {}
BY StartsAssumption, DriveViewAssumption

\* Of a beginning nothing is owed yet, and what is owed is so for the model.
LEMMA Exclusive ==
    ASSUME NEW pair \in Pairs, NEW todo \in Seq(StepSet)
    PROVE  /\ Starting(todo, pair) => ~OwesIt(todo, pair)
           /\ ~OwesIt(<<>>, pair) /\ Quiet(<<>>, pair)
<1>1. pair.of # pair.proxy
    BY PairIds
<1>2. Quiet(todo, pair) => ~OwesIt(todo, pair)
    BY <1>1 DEF Quiet, OwesIt, OwesOne, OwesTurn, Clear, Both
<1>3. Opens(todo, pair) => ~OwesIt(todo, pair)
    BY <1>1 DEF Opens, OwesIt, OwesOne, OwesTurn, ItemDoes, TwinSteps
<1>4. Restoring(todo, pair) => ~OwesTurn(todo, pair)
    BY DEF Restoring, OwesTurn
<1>5. ASSUME Restoring(todo, pair), OwesOne(todo, pair)
      PROVE  FALSE
    <2>1. PICK i \in DOMAIN todo : todo[i].on = {pair.of}
        BY <1>5 DEF Restoring
    <2>2. todo[1].do \notin TwinSteps
        BY <1>5 DEF Restoring, Restores, OwesOne, TwinSteps, Loads
    <2>3. todo[1].on = {pair.proxy} /\ \A j \in DOMAIN todo : j > 1 => Clear(todo[j], pair)
        BY <1>5, <2>2 DEF OwesOne
    <2>4. i \in Nat /\ i >= 1
        BY <2>1
    <2>. QED
        BY <1>1, <2>1, <2>3, <2>4 DEF Clear
<1>6. DOMAIN <<>> = {}
    OBVIOUS
<1>7. ~OwesIt(<<>>, pair) /\ Quiet(<<>>, pair)
    BY <1>6 DEF OwesIt, OwesOne, OwesTurn, Quiet
<1>. QED
    BY <1>2, <1>3, <1>4, <1>5, <1>7 DEF Starting, OwesIt

\* What is left of each kind of work when its first step is done.
LEMMA RestOf ==
    ASSUME NEW todo \in Seq(StepSet), todo # <<>>
    PROVE  /\ DOMAIN todo = 1..Len(todo) /\ Len(todo) \in Nat \ {0}
           /\ Tail(todo) \in Seq(StepSet)
           /\ DOMAIN Tail(todo) = 1..(Len(todo) - 1)
           /\ \A i \in DOMAIN Tail(todo) :
                 i + 1 \in DOMAIN todo /\ Tail(todo)[i] = todo[i + 1]
           /\ \A i \in DOMAIN todo : i # 1 =>
                 i - 1 \in DOMAIN Tail(todo) /\ Tail(todo)[i - 1] = todo[i]
           /\ 1 \in DOMAIN todo /\ Head(todo) = todo[1]
OBVIOUS

LEMMA QuietRest ==
    ASSUME NEW pair \in Pairs, NEW todo \in Seq(StepSet), todo # <<>>
    PROVE  /\ Quiet(todo, pair) => /\ Clear(todo[1], pair) \/ Both(todo[1], pair)
                                   /\ Quiet(Tail(todo), pair)
           /\ OwesOne(todo, pair) => Quiet(Tail(todo), pair)
           /\ Opens(todo, pair) => /\ OwesOne(Tail(todo), pair)
                                   /\ ~OwesTurn(Tail(todo), pair)
                                   /\ Tail(todo)[1] = todo[2]
<1>1. Quiet(todo, pair) => /\ Clear(todo[1], pair) \/ Both(todo[1], pair)
                           /\ Quiet(Tail(todo), pair)
    BY RestOf DEF Quiet
<1>2. ASSUME OwesOne(todo, pair)
      PROVE  Quiet(Tail(todo), pair)
    <2>1. \A i \in DOMAIN Tail(todo) : i + 1 > 1
        BY RestOf
    <2>. QED
        BY <1>2, <2>1, RestOf DEF OwesOne, Quiet
<1>3. ASSUME Opens(todo, pair)
      PROVE  /\ OwesOne(Tail(todo), pair) /\ ~OwesTurn(Tail(todo), pair)
             /\ Tail(todo)[1] = todo[2]
    <2>1. /\ 1 \in DOMAIN Tail(todo) /\ Tail(todo)[1] = todo[2]
          /\ \A i \in DOMAIN Tail(todo) : i > 1 => i + 1 > 2
        <3>1. 2 \in DOMAIN todo /\ 2 # 1
            BY <1>3 DEF Opens
        <3>2. 2 - 1 = 1
            OBVIOUS
        <3>. QED
            BY <3>1, <3>2, RestOf
    <2>2. todo[2].do \in TwinSteps /\ todo[2].on = {pair.of}
          /\ \A i \in DOMAIN todo : i > 2 => Clear(todo[i], pair)
        BY <1>3 DEF Opens
    <2>3. \A i \in DOMAIN Tail(todo) : i > 1 => Clear(Tail(todo)[i], pair)
        BY <2>1, <2>2, RestOf
    <2>4. ~OwesTurn(Tail(todo), pair)
        BY <2>1, <2>2 DEF OwesTurn
    <2>. QED
        BY <2>1, <2>2, <2>3, <2>4 DEF OwesOne
<1>. QED
    BY <1>1, <1>2, <1>3

LEMMA TurnRest ==
    ASSUME NEW pair \in Pairs, NEW todo \in Seq(StepSet), todo # <<>>
    PROVE  /\ Restores(todo, pair) => Restores(Tail(todo), pair)
           /\ Restoring(todo, pair) =>
                 \/ Clear(todo[1], pair) /\ Restoring(Tail(todo), pair)
                 \/ /\ todo[1].on = {pair.of} /\ todo[1].do = "restoreFile"
                    /\ OwesTurn(Tail(todo), pair)
           /\ OwesTurn(todo, pair) =>
                 \/ Clear(todo[1], pair) /\ OwesTurn(Tail(todo), pair)
                 \/ /\ todo[1].on = {pair.proxy} /\ todo[1].do = "restoreFile"
                    /\ OwesTurn(Tail(todo), pair) \/ Quiet(Tail(todo), pair)
<1>1. Restores(todo, pair) => Restores(Tail(todo), pair)
    BY RestOf DEF Restores
<1>2. pair.of # pair.proxy
    BY PairIds
<1>3. ASSUME Restoring(todo, pair)
      PROVE  \/ Clear(todo[1], pair) /\ Restoring(Tail(todo), pair)
             \/ /\ todo[1].on = {pair.of} /\ todo[1].do = "restoreFile"
                /\ OwesTurn(Tail(todo), pair)
    <2>1. PICK i \in DOMAIN todo :
             /\ todo[i].on = {pair.of}
             /\ \A j \in DOMAIN todo : todo[j].on = {pair.of} => j = i
             /\ \A j \in DOMAIN todo : todo[j].on = {pair.proxy} => i < j
             /\ \E j \in DOMAIN todo : todo[j].on = {pair.proxy}
        BY <1>3 DEF Restoring
    <2>2. PICK k \in DOMAIN todo : todo[k].on = {pair.proxy}
        BY <2>1
    <2>3. i \in Nat /\ k \in Nat /\ i >= 1 /\ i < k /\ k # 1
        BY <2>1, <2>2, RestOf
    <2>4. k - 1 \in DOMAIN Tail(todo) /\ Tail(todo)[k - 1].on = {pair.proxy}
        BY <2>2, <2>3, RestOf
    <2>5. Restores(todo, pair) /\ Restores(Tail(todo), pair)
        BY <1>1, <1>3 DEF Restoring
    <2>6. ASSUME i = 1
          PROVE  /\ todo[1].on = {pair.of} /\ todo[1].do = "restoreFile"
                 /\ OwesTurn(Tail(todo), pair)
        <3>1. todo[1].on = {pair.of} /\ todo[1].do = "restoreFile"
            BY <2>1, <2>5, <2>6 DEF Restores, Clear
        <3>2. \A j \in DOMAIN Tail(todo) : Tail(todo)[j].on # {pair.of}
            <4>1. \A j \in DOMAIN Tail(todo) : j + 1 # 1
                BY RestOf
            <4>. QED
                BY <2>1, <2>6, <4>1, RestOf
        <3>. QED
            BY <2>4, <2>5, <3>1, <3>2 DEF OwesTurn
    <2>7. ASSUME i # 1
          PROVE  Clear(todo[1], pair) /\ Restoring(Tail(todo), pair)
        <3>1. todo[1].on # {pair.of} /\ todo[1].on # {pair.proxy}
            BY <2>1, <2>3, <2>7, RestOf
        <3>2. Clear(todo[1], pair)
            BY <2>5, <3>1, RestOf DEF Restores
        <3>3. /\ i - 1 \in DOMAIN Tail(todo) /\ Tail(todo)[i - 1].on = {pair.of}
              /\ \A j \in DOMAIN Tail(todo) : Tail(todo)[j].on = {pair.of} => j = i - 1
              /\ \A j \in DOMAIN Tail(todo) : Tail(todo)[j].on = {pair.proxy} => i - 1 < j
            <4>1. \A j \in DOMAIN Tail(todo) : j \in Nat /\ (j + 1 = i => j = i - 1)
                                               /\ (i < j + 1 => i - 1 < j)
                BY <2>3, RestOf
            <4>2. i - 1 \in DOMAIN Tail(todo) /\ Tail(todo)[i - 1] = todo[i]
                BY <2>7, RestOf
            <4>3. \A j \in DOMAIN Tail(todo) :
                     j + 1 \in DOMAIN todo /\ Tail(todo)[j] = todo[j + 1]
                BY RestOf
            <4>. QED
                BY <2>1, <4>1, <4>2, <4>3
        <3>. QED
            BY <2>4, <2>5, <3>2, <3>3 DEF Restoring
    <2>. QED
        BY <2>6, <2>7
<1>4. ASSUME OwesTurn(todo, pair)
      PROVE  \/ Clear(todo[1], pair) /\ OwesTurn(Tail(todo), pair)
             \/ /\ todo[1].on = {pair.proxy} /\ todo[1].do = "restoreFile"
                /\ OwesTurn(Tail(todo), pair) \/ Quiet(Tail(todo), pair)
    <2>1. Restores(todo, pair) /\ Restores(Tail(todo), pair)
          /\ \A j \in DOMAIN Tail(todo) : Tail(todo)[j].on # {pair.of}
        BY <1>1, <1>4, RestOf DEF OwesTurn
    <2>2. (\E j \in DOMAIN Tail(todo) : Tail(todo)[j].on = {pair.proxy})
             => OwesTurn(Tail(todo), pair)
        BY <2>1 DEF OwesTurn
    <2>3. (\A j \in DOMAIN Tail(todo) : Tail(todo)[j].on # {pair.proxy})
             => Quiet(Tail(todo), pair)
        BY <2>1 DEF Restores, Quiet
    <2>4. PICK i \in DOMAIN todo : todo[i].on = {pair.proxy}
        BY <1>4 DEF OwesTurn
    <2>5. i # 1 => OwesTurn(Tail(todo), pair)
        <3>1. i # 1 => i - 1 \in DOMAIN Tail(todo) /\ Tail(todo)[i - 1] = todo[i]
            BY RestOf
        <3>. QED
            BY <2>2, <2>4, <3>1
    <2>6. \/ Clear(todo[1], pair)
          \/ todo[1].on = {pair.proxy} /\ todo[1].do = "restoreFile"
        BY <1>4, <2>1, RestOf DEF OwesTurn, Restores
    <2>7. i = 1 => ~Clear(todo[1], pair)
        BY <2>4 DEF Clear
    <2>. QED
        BY <2>2, <2>3, <2>5, <2>6, <2>7
<1>. QED
    BY <1>1, <1>3, <1>4

\* What is owed is owed for the model too.
LEMMA OwesIts ==
    ASSUME NEW pair \in Pairs, NEW t \in Tasks, OwesIt(tasks[t].todo, pair),
           tasks[t].todo \in Seq(StepSet)
    PROVE  Owes(t, pair)
<1>1. pair.of # pair.proxy
    BY PairIds
<1>2. CASE OwesOne(tasks[t].todo, pair)
    <2>1. 1 \in DOMAIN tasks[t].todo /\ \A j \in 1..1 : j = 1
        BY <1>2 DEF OwesOne
    <2>2. CASE tasks[t].todo[1].do \in TwinSteps
        BY <1>2, <2>1, <2>2 DEF OwesOne, Owes
    <2>3. CASE tasks[t].todo[1].do \notin TwinSteps
        BY <1>1, <1>2, <2>1, <2>3 DEF OwesOne, Owes
    <2>. QED
        BY <2>2, <2>3
<1>3. CASE OwesTurn(tasks[t].todo, pair)
    <2>1. PICK i \in DOMAIN tasks[t].todo : tasks[t].todo[i].on = {pair.proxy}
        BY <1>3 DEF OwesTurn
    <2>2. \A j \in 1..i : j \in DOMAIN tasks[t].todo
        BY <2>1
    <2>3. \A j \in DOMAIN tasks[t].todo : /\ tasks[t].todo[j].do \notin TwinSteps
                                          /\ pair.of \notin tasks[t].todo[j].on
        BY <1>1, <1>3 DEF OwesTurn, Restores, Clear, TwinSteps, Loads
    <2>. QED
        BY <2>1, <2>2, <2>3 DEF Owes
<1>. QED
    BY <1>2, <1>3 DEF OwesIt

\* What changes of a video and its proxy alike leaves them together.
LEMMA PairedSame ==
    ASSUME NEW pair \in Pairs, Paired(pair),
           files'[pair.of] = files[pair.of], files'[pair.proxy] = files[pair.proxy]
    PROVE  Paired(pair)'
BY DEF Paired, Together

LEMMA PairedDated ==
    ASSUME Ledger!TypeOK, NEW pair \in Pairs, Paired(pair),
           NEW F \in SUBSET Ledger!Rows, NEW age \in Ledger!Ages,
           files' = Ledger!WithTrash(F, age), pair.of \in F <=> pair.proxy \in F
    PROVE  Paired(pair)'
<1>1. \A f \in FileIds :
              /\ files'[f] = Absent <=> files[f] = Absent
              /\ files[f] # Absent =>
                    /\ files'[f].folder = files[f].folder
                    /\ files'[f].name = files[f].name
                    /\ files'[f].trash = IF f \in F THEN age ELSE files[f].trash
    BY Dated
<1>. QED
    BY <1>1, PairIds DEF Paired, Together

LEMMA PairedDeleted ==
    ASSUME NEW pair \in Pairs, Paired(pair), NEW F,
           files' = Ledger!Without(F),
           files[pair.of] # Absent => (pair.of \in F <=> pair.proxy \in F)
    PROVE  Paired(pair)'
<1>1. \A f \in FileIds : files'[f] = IF f \in F THEN Absent ELSE files[f]
    BY Deleted
<1>. QED
    BY <1>1, PairIds DEF Paired, Together

\* A video and its proxy are in the same folders, and in the trash or not.
LEMMA PairedAlike ==
    ASSUME NEW pair \in Pairs, Paired(pair)
    PROVE  /\ pair.of \in Ledger!Rows <=> pair.proxy \in Ledger!Rows
           /\ pair.of \in Ledger!Live <=> pair.proxy \in Ledger!Live
           /\ pair.of \in Ledger!Trashed <=> pair.proxy \in Ledger!Trashed
           /\ \A D : pair.of \in Ledger!FilesIn(D) <=> pair.proxy \in Ledger!FilesIn(D)
BY PairIds DEF Paired, Together, Ledger!Rows, Ledger!Live, Ledger!Trashed, Ledger!FilesIn

\* The rows a request for files can change.
LEMMA FileEffects ==
    ASSUME Ledger!TypeOK, NEW s \in StepSet, s.do \in FileDoes,
           Effect(s.do, s.on, s.with)
    PROVE  /\ s.on \in SUBSET FileIds
           /\ UNCHANGED <<folders, parent>>
           /\ \A f \in FileIds \ s.on : files'[f] = files[f]
<1>1. /\ s.on \in SUBSET FileIds /\ (s.do = "renameFile" => s.with \in FileNames)
      /\ (s.do = "moveFile" => s.with \in Places)
    BY StepTypes DEF Placing
<1>2. ASSUME NEW F \in SUBSET FileIds, F \subseteq s.on, Ledger!DeleteFiles(F)
      PROVE  /\ UNCHANGED <<folders, parent>>
             /\ \A f \in FileIds \ s.on : files'[f] = files[f]
    <2>1. F \in SUBSET Ledger!Rows
        BY <1>2 DEF Ledger!DeleteFiles, Ledger!Live
    <2>2. "recent" \in Ledger!Ages
        BY DEF Ledger!Ages
    <2>3. files' = Ledger!WithTrash(F, "recent") /\ UNCHANGED <<folders, parent>>
        BY <1>2 DEF Ledger!DeleteFiles
    <2>. QED
        BY <1>2, <2>1, <2>2, <2>3, Dated
<1>3. ASSUME NEW F \in SUBSET FileIds, F \subseteq s.on, Ledger!HardDeleteFiles(F)
      PROVE  /\ UNCHANGED <<folders, parent>>
             /\ \A f \in FileIds \ s.on : files'[f] = files[f]
    <2>1. files' = Ledger!Without(F) /\ UNCHANGED <<folders, parent>>
        BY <1>3 DEF Ledger!HardDeleteFiles
    <2>. QED
        BY <1>3, <2>1, Deleted
<1>4. ASSUME NEW g \in s.on, Ledger!RestoreFile(g)
      PROVE  /\ UNCHANGED <<folders, parent>>
             /\ \A f \in FileIds \ s.on : files'[f] = files[f]
    <2>1. files[g] # Absent /\ g \in FileIds /\ files[g].folder \in Places
        BY <1>1, <1>4, FileFields DEF Ledger!RestoreFile, Ledger!Trashed, Ledger!Rows, Places
    <2>2. PICK d \in Places : files' = Returning(g, "live", d)
        BY <1>4, <2>1 DEF Ledger!RestoreFile, Returning, Places
    <2>3. \A f \in FileIds : f # g => files'[f] = files[f]
        BY <2>1, <2>2, Returned DEF Ledger!Ages, Places
    <2>. QED
        BY <1>4, <2>3 DEF Ledger!RestoreFile
<1>5. ASSUME NEW g \in s.on \cap Ledger!Live, NEW n \in FileNames, NEW d \in Places,
             Ledger!UpdateFile(g, n, d)
      PROVE  /\ UNCHANGED <<folders, parent>>
             /\ \A f \in FileIds \ s.on : files'[f] = files[f]
    <2>1. files[g] # Absent /\ g \in FileIds /\ files' = Renaming(g, n, d)
        BY <1>1, <1>5 DEF Ledger!UpdateFile, Ledger!Live, Ledger!Rows, Renaming
    <2>2. \A f \in FileIds : f # g => files'[f] = files[f]
        BY <2>1, Renamed DEF Places
    <2>. QED
        BY <1>5, <2>2 DEF Ledger!UpdateFile
<1>6. \A g \in s.on \cap Ledger!Live : NameOf(g) \in FileNames /\ files[g].folder \in Places
    BY <1>1, FileFields DEF Ledger!Live, Ledger!Rows, NameOf, Places
<1>7. CASE s.do \in {"trashFile", "trashFiles"}
    <2>1. \/ Ledger!DeleteFiles(s.on) \/ Ledger!DeleteFiles(s.on \cap Ledger!Live)
        BY <1>7 DEF Effect
    <2>2. s.on \cap Ledger!Live \in SUBSET FileIds
        BY <1>1
    <2>. QED
        BY <1>1, <1>2, <2>1, <2>2
<1>8. CASE s.do \in {"purgeFile", "purgeFiles"}
    <2>1. \/ Ledger!HardDeleteFiles(s.on) \/ Ledger!HardDeleteFiles(s.on \cap Ledger!Trashed)
        BY <1>8 DEF Effect
    <2>2. s.on \cap Ledger!Trashed \in SUBSET FileIds
        BY <1>1
    <2>. QED
        BY <1>1, <1>3, <2>1, <2>2
<1>9. CASE s.do = "restoreFile"
    BY <1>1, <1>4, <1>9 DEF Effect
<1>10. CASE s.do = "renameFile"
    <2>1. \E g \in s.on \cap Ledger!Live : Ledger!UpdateFile(g, s.with, files[g].folder)
        BY <1>10 DEF Effect
    <2>. QED
        BY <1>1, <1>5, <1>6, <1>10, <2>1
<1>11. CASE s.do = "moveFile"
    <2>1. \E g \in s.on \cap Ledger!Live : Ledger!UpdateFile(g, NameOf(g), s.with)
        BY <1>11 DEF Effect
    <2>. QED
        BY <1>1, <1>5, <1>6, <1>11, <2>1
<1>. QED
    BY <1>1, <1>7, <1>8, <1>9, <1>10, <1>11 DEF FileDoes

\* What a request for folders does to the rows: nothing, or the same to all
\* the files in some folders.
TreeDated(age) ==
    \E D \in SUBSET Folders :
        /\ \/ files' = Ledger!WithTrash(Ledger!FilesIn(D), age)
           \/ /\ age = "recent"
              /\ files' = Ledger!WithTrash(Ledger!FilesIn(D) \cap Ledger!Live, age)
        /\ folders' = Ledger!WithAge(D, age)
TreeDeleted ==
    \E D \in SUBSET Folders :
        /\ \/ files' = Ledger!Without(Ledger!FilesIn(D))
           \/ files' = Ledger!Without(Ledger!Trashed \cup Ledger!FilesIn(D))
        /\ folders' = Ledger!WithAge(D, Absent)
TreeUntouched ==
    /\ files' = files
    /\ \A d \in Folders : folders[d] # Absent => folders'[d] = folders[d]

LEMMA FolderEffects ==
    ASSUME Ledger!TypeOK, NEW s \in StepSet, s.do \notin FileDoes,
           Effect(s.do, s.on, s.with)
    PROVE  /\ TreeDated("recent") \/ TreeDated("live") \/ TreeDeleted \/ TreeUntouched
           /\ s.do = "restoreFolder" => TreeDated("live")
<1>1. /\ \A d : Ledger!FolderTree(d) \in SUBSET Folders
      /\ \A D : Ledger!FolderTrees(D) \in SUBSET Folders
    BY DEF Ledger!FolderTree, Ledger!FolderTrees
<1>2. CASE s.do \in {"trashFolder", "trashFolders"}
    <2>1. ASSUME NEW d, Ledger!DeleteFolder(d)
          PROVE  TreeDated("recent")
        BY <1>1, <2>1 DEF Ledger!DeleteFolder, TreeDated
    <2>2. ASSUME Ledger!BatchDeleteFolders(s.on)
          PROVE  TreeDated("recent")
        BY <1>1, <2>2 DEF Ledger!BatchDeleteFolders, TreeDated
    <2>. QED
        BY <1>2, <2>1, <2>2 DEF Effect
<1>3. CASE s.do = "restoreFolder"
    <2>1. ASSUME NEW d, Ledger!RestoreFolder(d)
          PROVE  TreeDated("live")
        BY <1>1, <2>1 DEF Ledger!RestoreFolder, TreeDated
    <2>. QED
        BY <1>3, <2>1 DEF Effect
<1>4. CASE s.do \in {"purgeFolder", "purgeFolders"}
    <2>1. ASSUME Ledger!HardDeleteFolders(s.on)
          PROVE  TreeDeleted
        BY <1>1, <2>1 DEF Ledger!HardDeleteFolders, TreeDeleted
    <2>. QED
        BY <1>4, <2>1 DEF Effect
<1>5. CASE s.do = "empty"
    <2>1. Ledger!EmptyTrash
        BY <1>5 DEF Effect
    <2>. QED
        BY <1>1, <1>5, <2>1 DEF Ledger!EmptyTrash, TreeDeleted, Ledger!WithAge
<1>6. CASE s.do = "moveFolder"
    <2>1. ASSUME NEW d, NEW p, Ledger!UpdateFolder(d, p)
          PROVE  TreeUntouched
        BY <2>1 DEF Ledger!UpdateFolder, TreeUntouched
    <2>. QED
        BY <1>6, <2>1 DEF Effect
<1>7. CASE s.do = "create"
    <2>1. ASSUME NEW d, NEW p, Ledger!CreateFolder(d, p)
          PROVE  TreeUntouched
        <3>1. folders[d] = Absent /\ files' = files /\ folders' = [folders EXCEPT ![d] = "live"]
            BY <2>1 DEF Ledger!CreateFolder
        <3>2. \A e \in Folders : e # d => folders'[e] = folders[e]
            BY <3>1 DEF Ledger!TypeOK
        <3>. QED
            BY <3>1, <3>2 DEF TreeUntouched
    <2>. QED
        BY <1>7, <2>1 DEF Effect
<1>. QED
    BY <1>2, <1>3, <1>4, <1>5, <1>6, <1>7 DEF Effect, FileDoes

\* A request about neither of a pair, or one for both, keeps them together.
LEMMA PairedKept ==
    ASSUME ServerOK, NEW pair \in Pairs, Paired(pair), NEW s \in StepSet, Made(s),
           Clear(s, pair) \/ Both(s, pair)
    PROVE  Paired(pair)'
<1>1. Ledger!TypeOK /\ "recent" \in Ledger!Ages /\ "live" \in Ledger!Ages
    BY DEF ServerOK, ServerTyped, Ledger!Ages
<1>2. CASE UNCHANGED ledger
    BY <1>2, PairedSame DEF ledger
<1>3. ASSUME NEW D \in SUBSET Folders
      PROVE  /\ Ledger!FilesIn(D) \in SUBSET Ledger!Rows
             /\ Ledger!FilesIn(D) \cap Ledger!Live \in SUBSET Ledger!Rows
             /\ pair.of \in Ledger!FilesIn(D) <=> pair.proxy \in Ledger!FilesIn(D)
             /\ pair.of \in Ledger!FilesIn(D) \cap Ledger!Live
                   <=> pair.proxy \in Ledger!FilesIn(D) \cap Ledger!Live
             /\ pair.of \in Ledger!Trashed \cup Ledger!FilesIn(D)
                   <=> pair.proxy \in Ledger!Trashed \cup Ledger!FilesIn(D)
    BY PairedAlike DEF Ledger!FilesIn
<1>4. ASSUME NEW age \in {"recent", "live"}, TreeDated(age)
      PROVE  Paired(pair)'
    <2>1. PICK D \in SUBSET Folders :
             \/ files' = Ledger!WithTrash(Ledger!FilesIn(D), age)
             \/ files' = Ledger!WithTrash(Ledger!FilesIn(D) \cap Ledger!Live, age)
        BY <1>4 DEF TreeDated
    <2>2. age \in Ledger!Ages
        BY <1>1
    <2>3. CASE files' = Ledger!WithTrash(Ledger!FilesIn(D), age)
        BY <1>1, <1>3, <2>2, <2>3, PairedDated
    <2>4. CASE files' = Ledger!WithTrash(Ledger!FilesIn(D) \cap Ledger!Live, age)
        BY <1>1, <1>3, <2>2, <2>4, PairedDated
    <2>. QED
        BY <2>1, <2>3, <2>4
<1>5. ASSUME TreeDeleted
      PROVE  Paired(pair)'
    <2>1. PICK D \in SUBSET Folders :
             \/ files' = Ledger!Without(Ledger!FilesIn(D))
             \/ files' = Ledger!Without(Ledger!Trashed \cup Ledger!FilesIn(D))
        BY <1>5 DEF TreeDeleted
    <2>2. CASE files' = Ledger!Without(Ledger!FilesIn(D))
        BY <1>3, <2>2, PairedDeleted
    <2>3. CASE files' = Ledger!Without(Ledger!Trashed \cup Ledger!FilesIn(D))
        BY <1>3, <2>3, PairedDeleted
    <2>. QED
        BY <2>1, <2>2, <2>3
<1>6. CASE Effect(s.do, s.on, s.with) /\ s.do \notin FileDoes
    <2>1. TreeDated("recent") \/ TreeDated("live") \/ TreeDeleted \/ TreeUntouched
        BY <1>1, <1>6, FolderEffects
    <2>. QED
        BY <1>4, <1>5, <2>1, PairedSame DEF TreeUntouched
<1>7. CASE Effect(s.do, s.on, s.with) /\ s.do \in FileDoes /\ Clear(s, pair)
    BY <1>1, <1>7, FileEffects, PairIds, PairedSame DEF Clear
<1>8. CASE Effect(s.do, s.on, s.with) /\ Both(s, pair)
    <2>1. \/ Ledger!DeleteFiles(s.on \cap Ledger!Live)
          \/ Ledger!HardDeleteFiles(s.on \cap Ledger!Trashed)
        BY <1>8 DEF Effect, Both
    <2>2. /\ s.on \cap Ledger!Live \in SUBSET Ledger!Rows
          /\ pair.of \in s.on \cap Ledger!Live <=> pair.proxy \in s.on \cap Ledger!Live
          /\ pair.of \in s.on \cap Ledger!Trashed <=> pair.proxy \in s.on \cap Ledger!Trashed
        BY <1>8, PairedAlike DEF Both, Ledger!Live
    <2>3. CASE Ledger!DeleteFiles(s.on \cap Ledger!Live)
        BY <1>1, <2>2, <2>3, PairedDated DEF Ledger!DeleteFiles
    <2>4. CASE Ledger!HardDeleteFiles(s.on \cap Ledger!Trashed)
        BY <2>2, <2>4, PairedDeleted DEF Ledger!HardDeleteFiles
    <2>. QED
        BY <2>1, <2>3, <2>4
<1>. QED
    BY <1>2, <1>6, <1>7, <1>8 DEF Made

\* The request for a video leaves what its proxy's will need.
LEMMA VideoAsked ==
    ASSUME ServerOK, NEW pair \in Pairs, Paired(pair), NEW s \in StepSet,
           s.on = {pair.of}, s.do \in ItemDoes,
           Made(s) \/ (Vacuous(s.do, s.on, s.with) /\ UNCHANGED server),
           NEW with, s.do = "renameFile" => with.base = s.with.base
    PROVE  Ready(s.do, with, files[pair.of], files[pair.proxy])'
<1>1. /\ Ledger!TypeOK /\ pair.of \in FileIds /\ pair.proxy \in FileIds
      /\ pair.of # pair.proxy /\ "recent" \in Ledger!Ages /\ "live" \in Ledger!Ages
      /\ "recent" # "live"
    BY PairIds DEF ServerOK, ServerTyped, Ledger!Ages
<1>2. files[pair.of] # Absent => files[pair.proxy] # Absent
    BY DEF Paired, Together
<1>3. Made(s) => Effect(s.do, s.on, s.with)
    BY DEF Made, PinEffect, ItemDoes
<1>4. CASE s.do = "trashFile"
    <2>1. Ledger!DeleteFiles({pair.of})
        BY <1>3, <1>4 DEF Effect, Vacuous
    <2>2. {pair.of} \in SUBSET Ledger!Rows /\ files[pair.of] # Absent
          /\ files' = Ledger!WithTrash({pair.of}, "recent")
        BY <2>1 DEF Ledger!DeleteFiles, Ledger!Live, Ledger!Rows
    <2>3. /\ files'[pair.proxy] = files[pair.proxy]
          /\ files'[pair.of] # Absent /\ files'[pair.of].trash = "recent"
          /\ files'[pair.of].folder = files[pair.of].folder
          /\ files'[pair.of].name = files[pair.of].name
        <3> DEFINE F == {pair.of}
        <3>1. F \in SUBSET Ledger!Rows /\ files' = Ledger!WithTrash(F, "recent")
              /\ pair.of \in F /\ pair.proxy \notin F
            BY <1>1, <2>2
        <3>. HIDE DEF F
        <3>. QED
            <4>1. \A f \in FileIds :
              /\ files'[f] = Absent <=> files[f] = Absent
              /\ files[f] # Absent =>
                    /\ files'[f].folder = files[f].folder
                    /\ files'[f].name = files[f].name
                    /\ files'[f].trash = IF f \in F THEN "recent" ELSE files[f].trash
              /\ f \notin F => files'[f] = files[f]
                BY <1>1, <3>1, Dated
            <4>. QED
                BY <1>1, <2>2, <3>1, <4>1
    <2>. QED
        BY <1>1, <1>2, <1>4, <2>2, <2>3 DEF Ready, Paired, Together
<1>5. CASE s.do = "purgeFile"
    <2>1. files' = Ledger!Without({pair.of})
        BY <1>3, <1>5 DEF Effect, Vacuous, Ledger!HardDeleteFiles
    <2>2. files'[pair.of] = Absent
        BY <1>1, <2>1, Deleted
    <2>. QED
        BY <1>5, <2>2 DEF Ready
<1>6. CASE s.do = "renameFile"
    <2>1. /\ pair.of \in Ledger!Live /\ s.with \in FileNames
          /\ \/ files' = Renaming(pair.of, s.with, files[pair.of].folder)
             \/ files' = files /\ files[pair.of].name = s.with
        BY <1>3, <1>6, StepTypes DEF Effect, Vacuous, Ledger!UpdateFile, Renaming,
           NameOf, server
    <2>2. files[pair.of] # Absent /\ files[pair.of].folder \in Folders \cup {Root}
        BY <1>1, <2>1, FileFields DEF Ledger!Live, Ledger!Rows
    <2>3. /\ files'[pair.proxy] = files[pair.proxy]
          /\ files'[pair.of] # Absent /\ files'[pair.of].trash = files[pair.of].trash
          /\ files'[pair.of].folder = files[pair.of].folder
          /\ files'[pair.of].name = s.with
        BY <1>1, <2>1, <2>2, Renamed
    <2>. QED
        BY <1>2, <1>6, <2>2, <2>3 DEF Ready, Paired, Together
<1>7. CASE s.do = "restoreFile"
    <2>1. Ledger!RestoreFile(pair.of)
        BY <1>3, <1>7 DEF Effect, Vacuous
    <2>2. /\ files[pair.of] # Absent /\ files[pair.of].trash # "live"
          /\ files[pair.of].folder \in Folders \cup {Root}
        BY <1>1, <2>1, FileFields DEF Ledger!RestoreFile, Ledger!Trashed, Ledger!Rows, Ledger!Live
    <2> DEFINE d == IF Ledger!LiveFolder(files[pair.of].folder)
                    THEN files[pair.of].folder ELSE Root
    <2>3. files' = Returning(pair.of, "live", d) /\ folders' = folders
        BY <2>1 DEF Ledger!RestoreFile, Returning
    <2>4. d \in Folders \cup {Root}
        BY <2>2
    <2>5. files[pair.proxy].folder = files[pair.of].folder
        BY <1>2, <2>2 DEF Paired, Together
    <2>6. d = IF Ledger!LiveFolder(files[pair.proxy].folder)
              THEN files[pair.proxy].folder ELSE Root
        BY <2>5
    <2>. HIDE DEF d
    <2>7. /\ files'[pair.proxy] = files[pair.proxy]
          /\ files'[pair.of] # Absent /\ files'[pair.of].trash = "live"
          /\ files'[pair.of].folder = d
          /\ files'[pair.of].name = files[pair.of].name
        BY <1>1, <2>2, <2>3, <2>4, Returned
    <2>8. files[pair.proxy].name.base = files[pair.of].name.base
        BY <1>2, <2>2 DEF Paired, Together
    <2>9. Ledger!LiveFolder(files[pair.proxy].folder)' <=> Ledger!LiveFolder(files[pair.proxy].folder)
        BY <2>3, <2>7 DEF Ledger!LiveFolder
    <2>. QED
        BY <1>2, <1>7, <2>2, <2>6, <2>7, <2>8, <2>9 DEF Ready
<1>. QED
    BY <1>4, <1>5, <1>6, <1>7 DEF ItemDoes

\* The request for the proxy brings the two together.
LEMMA ProxyAsked ==
    ASSUME ServerOK, NEW pair \in Pairs, NEW s \in StepSet,
           s.on = {pair.proxy}, s.do \in ItemDoes,
           Made(s) \/ (Vacuous(s.do, s.on, s.with) /\ UNCHANGED server),
           Ready(s.do, s.with, files[pair.of], files[pair.proxy])
    PROVE  /\ Paired(pair)'
           /\ s.do = "restoreFile" =>
                 files'[pair.proxy] # Absent /\ files'[pair.proxy].trash = "live"
<1>1. /\ Ledger!TypeOK /\ pair.of \in FileIds /\ pair.proxy \in FileIds
      /\ pair.of # pair.proxy /\ "recent" \in Ledger!Ages /\ "live" \in Ledger!Ages
      /\ "recent" # "live"
    BY PairIds DEF ServerOK, ServerTyped, Ledger!Ages
<1>3. Made(s) => Effect(s.do, s.on, s.with)
    BY DEF Made, PinEffect, ItemDoes
<1>4. CASE s.do = "trashFile"
    <2>1. Ledger!DeleteFiles({pair.proxy})
        BY <1>3, <1>4 DEF Effect, Vacuous
    <2>2. {pair.proxy} \in SUBSET Ledger!Rows /\ files[pair.proxy] # Absent
          /\ files' = Ledger!WithTrash({pair.proxy}, "recent")
        BY <2>1 DEF Ledger!DeleteFiles, Ledger!Live, Ledger!Rows
    <2>3. /\ files'[pair.of] = files[pair.of]
          /\ files'[pair.proxy] # Absent /\ files'[pair.proxy].trash = "recent"
          /\ files'[pair.proxy].folder = files[pair.proxy].folder
          /\ files'[pair.proxy].name = files[pair.proxy].name
        <3> DEFINE F == {pair.proxy}
        <3>1. F \in SUBSET Ledger!Rows /\ files' = Ledger!WithTrash(F, "recent")
              /\ pair.proxy \in F /\ pair.of \notin F
            BY <1>1, <2>2
        <3>. HIDE DEF F
        <3>. QED
            <4>1. \A f \in FileIds :
              /\ files'[f] = Absent <=> files[f] = Absent
              /\ files[f] # Absent =>
                    /\ files'[f].folder = files[f].folder
                    /\ files'[f].name = files[f].name
                    /\ files'[f].trash = IF f \in F THEN "recent" ELSE files[f].trash
              /\ f \notin F => files'[f] = files[f]
                BY <1>1, <3>1, Dated
            <4>. QED
                BY <1>1, <2>2, <3>1, <4>1
    <2>4. /\ files[pair.of] # Absent /\ files[pair.of].trash # "live"
          /\ files[pair.proxy].folder = files[pair.of].folder
          /\ files[pair.proxy].name.base = files[pair.of].name.base
        BY <1>4 DEF Ready
    <2>. QED
        BY <1>1, <1>4, <2>3, <2>4 DEF Paired, Together
<1>5. CASE s.do = "purgeFile"
    <2>1. files' = Ledger!Without({pair.proxy})
        BY <1>3, <1>5 DEF Effect, Vacuous, Ledger!HardDeleteFiles
    <2>2. files'[pair.proxy] = Absent /\ files'[pair.of] = files[pair.of]
        BY <1>1, <2>1, Deleted
    <2>3. files[pair.of] = Absent
        BY <1>5 DEF Ready
    <2>. QED
        BY <1>5, <2>2, <2>3 DEF Paired, Together
<1>6. CASE s.do = "renameFile"
    <2>1. /\ pair.proxy \in Ledger!Live /\ s.with \in FileNames
          /\ \/ files' = Renaming(pair.proxy, s.with, files[pair.proxy].folder)
             \/ files' = files /\ files[pair.proxy].name = s.with
        BY <1>3, <1>6, StepTypes DEF Effect, Vacuous, Ledger!UpdateFile, Renaming,
           NameOf, server
    <2>2. files[pair.proxy] # Absent /\ files[pair.proxy].folder \in Folders \cup {Root}
        BY <1>1, <2>1, FileFields DEF Ledger!Live, Ledger!Rows
    <2>3. /\ files'[pair.of] = files[pair.of]
          /\ files'[pair.proxy] # Absent /\ files'[pair.proxy].trash = files[pair.proxy].trash
          /\ files'[pair.proxy].folder = files[pair.proxy].folder
          /\ files'[pair.proxy].name = s.with
        BY <1>1, <2>1, <2>2, Renamed
    <2>4. /\ files[pair.of] # Absent
          /\ (files[pair.proxy].trash = "live") = (files[pair.of].trash = "live")
          /\ files[pair.proxy].folder = files[pair.of].folder
          /\ s.with.base = files[pair.of].name.base
        BY <1>6 DEF Ready
    <2>. QED
        BY <1>6, <2>3, <2>4 DEF Paired, Together
<1>7. CASE s.do = "restoreFile"
    <2>1. Ledger!RestoreFile(pair.proxy)
        BY <1>3, <1>7 DEF Effect, Vacuous
    <2>2. /\ files[pair.proxy] # Absent /\ files[pair.proxy].trash # "live"
          /\ files[pair.proxy].folder \in Folders \cup {Root}
        BY <1>1, <2>1, FileFields DEF Ledger!RestoreFile, Ledger!Trashed, Ledger!Rows, Ledger!Live
    <2> DEFINE d == IF Ledger!LiveFolder(files[pair.proxy].folder)
                    THEN files[pair.proxy].folder ELSE Root
    <2>3. files' = Returning(pair.proxy, "live", d)
        BY <2>1 DEF Ledger!RestoreFile, Returning
    <2>4. d \in Folders \cup {Root}
        BY <2>2
    <2>5. /\ files[pair.of] # Absent /\ files[pair.of].trash = "live"
          /\ files[pair.of].folder = d
          /\ files[pair.proxy].name.base = files[pair.of].name.base
        BY <1>7, <2>2 DEF Ready
    <2>. HIDE DEF d
    <2>7. /\ files'[pair.of] = files[pair.of]
          /\ files'[pair.proxy] # Absent /\ files'[pair.proxy].trash = "live"
          /\ files'[pair.proxy].folder = d
          /\ files'[pair.proxy].name = files[pair.proxy].name
        BY <1>1, <2>2, <2>3, <2>4, Returned
    <2>. QED
        BY <2>5, <2>7 DEF Paired, Together
<1>. QED
    BY <1>4, <1>5, <1>6, <1>7 DEF ItemDoes

\* What the proxy's request needs stays so while neither row changes.
LEMMA ReadyStays ==
    ASSUME ServerOK, NEW pair \in Pairs, NEW s \in StepSet, Made(s),
           files'[pair.of] = files[pair.of], files'[pair.proxy] = files[pair.proxy],
           NEW do, NEW with, Ready(do, with, files[pair.of], files[pair.proxy])
    PROVE  Ready(do, with, files[pair.of], files[pair.proxy])'
<1>1. /\ Ledger!TypeOK /\ pair.of \in FileIds /\ pair.proxy \in FileIds
      /\ "recent" \in Ledger!Ages /\ "live" \in Ledger!Ages /\ Root \notin Folders
      /\ "recent" # "live" /\ Absent \notin Ledger!Ages
    BY PairIds, DriveViewAssumption, StartsAssumption DEF ServerOK, ServerTyped, Ledger!Ages
<1>2. CASE ~(do = "restoreFile" /\ files[pair.proxy] # Absent
             /\ files[pair.proxy].trash # "live")
    BY <1>2 DEF Ready
<1>3. CASE do = "restoreFile" /\ files[pair.proxy] # Absent
           /\ files[pair.proxy].trash # "live"
    <2> DEFINE d == files[pair.proxy].folder
    <2>1. /\ files[pair.of] # Absent /\ files[pair.of].trash = "live"
          /\ Ledger!LiveFolder(d) => files[pair.of].folder = d
        BY <1>3 DEF Ready
    <2>2. d \in Folders \cup {Root} /\ (d # Root => folders[d] # Absent)
        BY <1>1, <1>3, FileFields DEF ServerOK, ServerInv
    <2>3. CASE folders' = folders \/ d = Root
        <3>1. Ledger!LiveFolder(d)' <=> Ledger!LiveFolder(d)
            BY <2>3 DEF Ledger!LiveFolder
        <3>. QED
            BY <1>3, <3>1 DEF Ready
    <2>4. ASSUME d \in Folders, folders'[d] = "live" <=> folders[d] = "live"
          PROVE  Ready(do, with, files[pair.of], files[pair.proxy])'
        <3>1. Ledger!LiveFolder(d)' <=> Ledger!LiveFolder(d)
            BY <2>4 DEF Ledger!LiveFolder
        <3>. QED
            BY <1>3, <3>1 DEF Ready
    <2>5. ASSUME d \in Folders, NEW age \in {"recent", "live"}, TreeDated(age)
          PROVE  folders'[d] = "live" <=> folders[d] = "live"
        <3>1. PICK D \in SUBSET Folders :
                 /\ \/ files' = Ledger!WithTrash(Ledger!FilesIn(D), age)
                    \/ /\ age = "recent"
                       /\ files' = Ledger!WithTrash(Ledger!FilesIn(D) \cap Ledger!Live, age)
                 /\ folders' = Ledger!WithAge(D, age)
            BY <2>5 DEF TreeDated
        <3> DEFINE F == Ledger!FilesIn(D)
        <3> DEFINE G == Ledger!FilesIn(D) \cap Ledger!Live
        <3>2. F \in SUBSET Ledger!Rows /\ G \in SUBSET Ledger!Rows
            BY DEF Ledger!FilesIn
        <3>3. d \in D => pair.proxy \in F
            BY <1>1, <1>3 DEF Ledger!FilesIn, Ledger!Rows
        <3>4. d \in D /\ folders[d] = "live" => pair.of \in F /\ pair.of \in G
            BY <1>1, <2>1 DEF Ledger!FilesIn, Ledger!Rows, Ledger!Live, Ledger!LiveFolder
        <3>5. folders'[d] = IF d \in D THEN age ELSE folders[d]
            BY <2>5, <3>1 DEF Ledger!WithAge
        <3>6. files' = Ledger!WithTrash(F, age)
              \/ (age = "recent" /\ files' = Ledger!WithTrash(G, age))
            BY <3>1
        <3>. HIDE DEF F, G
        <3>7. CASE files' = Ledger!WithTrash(F, age)
            <4>1. \A f \in FileIds : files[f] # Absent =>
                     files'[f].trash = IF f \in F THEN age ELSE files[f].trash
                BY <1>1, <3>2, <3>7, Dated
            <4>. QED
                BY <1>1, <1>3, <2>1, <3>3, <3>4, <3>5, <4>1
        <3>8. CASE age = "recent" /\ files' = Ledger!WithTrash(G, age)
            <4>1. \A f \in FileIds : files[f] # Absent =>
                     files'[f].trash = IF f \in G THEN age ELSE files[f].trash
                BY <1>1, <3>2, <3>8, Dated
            <4>. QED
                BY <1>1, <1>3, <2>1, <3>4, <3>5, <3>8, <4>1
        <3>. QED
            BY <3>6, <3>7, <3>8
    <2>6. ASSUME d \in Folders, TreeDeleted
          PROVE  folders'[d] = folders[d]
        <3>1. PICK D \in SUBSET Folders :
                 /\ \/ files' = Ledger!Without(Ledger!FilesIn(D))
                    \/ files' = Ledger!Without(Ledger!Trashed \cup Ledger!FilesIn(D))
                 /\ folders' = Ledger!WithAge(D, Absent)
            BY <2>6 DEF TreeDeleted
        <3>2. d \in D => pair.proxy \in Ledger!FilesIn(D)
            BY <1>1, <1>3 DEF Ledger!FilesIn, Ledger!Rows
        <3>3. d \in D => files'[pair.proxy] = Absent
            BY <1>1, <3>1, <3>2, Deleted
        <3>4. folders'[d] = IF d \in D THEN Absent ELSE folders[d]
            BY <2>6, <3>1 DEF Ledger!WithAge
        <3>. QED
            BY <1>3, <3>3, <3>4
    <2>. HIDE DEF d
    <2>7. CASE UNCHANGED ledger
        BY <2>3, <2>7 DEF ledger
    <2>8. CASE Effect(s.do, s.on, s.with) /\ s.do \in FileDoes
        BY <1>1, <2>3, <2>8, FileEffects
    <2>9. CASE Effect(s.do, s.on, s.with) /\ s.do \notin FileDoes
        <3>1. TreeDated("recent") \/ TreeDated("live") \/ TreeDeleted \/ TreeUntouched
            BY <1>1, <2>9, FolderEffects
        <3>2. TreeUntouched /\ d \in Folders => folders'[d] = folders[d]
            BY <1>1, <2>2 DEF TreeUntouched
        <3>. QED
            BY <2>2, <2>3, <2>4, <2>5, <2>6, <3>1, <3>2
    <2>. QED
        BY <2>7, <2>8, <2>9 DEF Made
<1>. QED
    BY <1>2, <1>3

\* The other requests of a batch that restores leave it so, too.
LEMMA OwnRestores ==
    ASSUME ServerOK, NEW pair \in Pairs, NEW s \in StepSet, Made(s), Clear(s, pair),
           s.do \in {"restoreFile", "restoreFolder"},
           Ready("restoreFile", Absent, files[pair.of], files[pair.proxy])
    PROVE  Ready("restoreFile", Absent, files[pair.of], files[pair.proxy])'
<1>1. /\ Ledger!TypeOK /\ pair.of \in FileIds /\ pair.proxy \in FileIds
      /\ "live" \in Ledger!Ages /\ Root \notin Folders
    BY PairIds, DriveViewAssumption DEF ServerOK, ServerTyped, Ledger!Ages
<1>2. Effect(s.do, s.on, s.with)
    BY DEF Made, PinEffect
<1>3. CASE s.do = "restoreFile"
    <2>1. files'[pair.of] = files[pair.of] /\ files'[pair.proxy] = files[pair.proxy]
        BY <1>1, <1>2, <1>3, FileEffects DEF FileDoes, Clear
    <2>. QED
        BY <2>1, ReadyStays
<1>4. CASE s.do = "restoreFolder"
    <2>1. TreeDated("live")
        BY <1>1, <1>2, <1>4, FolderEffects DEF FileDoes
    <2>2. PICK D \in SUBSET Folders :
             /\ files' = Ledger!WithTrash(Ledger!FilesIn(D), "live")
             /\ folders' = Ledger!WithAge(D, "live")
        BY <2>1 DEF TreeDated
    <2> DEFINE F == Ledger!FilesIn(D)
    <2>3. F \in SUBSET Ledger!Rows /\ files' = Ledger!WithTrash(F, "live")
        BY <2>2 DEF Ledger!FilesIn
    <2>4. \A f \in FileIds : files[f] # Absent /\ files[f].folder \in D => f \in F
        BY DEF Ledger!FilesIn, Ledger!Rows
    <2>5. \A d \in Folders : d \notin D => folders'[d] = folders[d]
        BY <2>2 DEF Ledger!WithAge
    <2>. HIDE DEF F
    <2>6. \A f \in FileIds :
              /\ files'[f] = Absent <=> files[f] = Absent
              /\ files[f] # Absent =>
                    /\ files'[f].folder = files[f].folder
                    /\ files'[f].name = files[f].name
                    /\ files'[f].trash = IF f \in F THEN "live" ELSE files[f].trash
        BY <1>1, <2>3, Dated
    <2>7. files[pair.proxy] # Absent /\ files'[pair.proxy] # Absent
        BY <1>1, <2>6 DEF Ready
    <2>8. CASE files'[pair.proxy].trash = "live"
        BY <2>7, <2>8 DEF Ready
    <2>9. CASE files'[pair.proxy].trash # "live"
        <3>1. files[pair.proxy].trash # "live" /\ files[pair.proxy].folder \notin D
            BY <1>1, <2>4, <2>6, <2>7, <2>9
        <3>2. files[pair.proxy].folder \in Folders \cup {Root}
            BY <1>1, <2>7, FileFields
        <3>3. Ledger!LiveFolder(files[pair.proxy].folder)'
                 <=> Ledger!LiveFolder(files[pair.proxy].folder)
            BY <1>1, <2>5, <2>6, <2>7, <3>1, <3>2 DEF Ledger!LiveFolder
        <3>4. /\ files[pair.of] # Absent /\ files[pair.of].trash = "live"
              /\ files[pair.proxy].name.base = files[pair.of].name.base
              /\ files[pair.of].folder = IF Ledger!LiveFolder(files[pair.proxy].folder)
                                         THEN files[pair.proxy].folder ELSE Root
            BY <2>7, <3>1 DEF Ready
        <3>5. /\ files'[pair.of] # Absent /\ files'[pair.of].trash = "live"
              /\ files'[pair.of].folder = files[pair.of].folder
              /\ files'[pair.of].name = files[pair.of].name
              /\ files'[pair.proxy].folder = files[pair.proxy].folder
              /\ files'[pair.proxy].name = files[pair.proxy].name
            BY <1>1, <2>6, <2>7, <3>4
        <3>. QED
            BY <2>7, <3>3, <3>4, <3>5 DEF Ready
    <2>. QED
        BY <2>8, <2>9
<1>. QED
    BY <1>3, <1>4

\* Nothing is owed: then there is nothing to make good.
LEMMA GoodIdle ==
    ASSUME NEW pair, NEW todo, ~OwesIt(todo, pair)
    PROVE  Good(todo, pair) /\ Good(todo, pair)'
BY DEF Good, OwesIt

\* One task goes on with the rest of its work.
LEMMA PairOnward ==
    ASSUME NEW pair \in Pairs, PairInv(pair), NEW t \in Tasks, NEW rest,
           GoesOn(t, rest), Regular(rest, pair), Good(rest, pair)',
           \A u \in Tasks \ {t} : OwesIt(tasks[u].todo, pair) =>
               \A todo : Good(todo, pair) => Good(todo, pair)',
           OwesIt(rest, pair) =>
               \A u \in Tasks \ {t} : ~OwesIt(tasks[u].todo, pair),
           \/ Paired(pair)' \/ OwesIt(rest, pair)
           \/ \E u \in Tasks \ {t} : OwesIt(tasks[u].todo, pair)
    PROVE  PairInv(pair)'
<1>1. tasks'[t].todo = rest /\ \A u \in Tasks \ {t} : tasks'[u].todo = tasks[u].todo
    BY DEF GoesOn
<1>2. \A u \in Tasks : Regular(tasks'[u].todo, pair)
    BY <1>1 DEF PairInv
<1>3. \A u, v \in Tasks :
          OwesIt(tasks'[u].todo, pair) /\ OwesIt(tasks'[v].todo, pair) => u = v
    BY <1>1 DEF PairInv
<1>4. Paired(pair)' \/ \E u \in Tasks : OwesIt(tasks'[u].todo, pair)
    BY <1>1
<1>5. ASSUME NEW u \in Tasks
      PROVE  Good(tasks[u].todo, pair)'
    <2>1. CASE u = t
        BY <1>1, <2>1 DEF Good
    <2>2. CASE u # t
        <3>1. PICK todo : todo = tasks[u].todo
            OBVIOUS
        <3>2. tasks'[u].todo = todo /\ Good(todo, pair)
            BY <1>1, <2>2, <3>1 DEF PairInv
        <3>3. Good(todo, pair)'
            BY <2>2, <3>1, <3>2, GoodIdle
        <3>. QED
            BY <3>2, <3>3 DEF Good
    <2>. QED
        BY <2>1, <2>2
<1>. QED
    BY <1>2, <1>3, <1>4, <1>5 DEF PairInv

\* Nothing is done on the server, and only what is beginning is new.
LEMMA PairStill ==
    ASSUME NEW pair \in Pairs, PairInv(pair), UNCHANGED server, TasksTyped, TasksTyped',
           \A u \in Tasks : \/ tasks'[u].todo = tasks[u].todo
                            \/ ~Busy(u) /\ Starting(tasks'[u].todo, pair)
    PROVE  PairInv(pair)'
<1>1. \A u \in Tasks : tasks'[u].todo \in Seq(StepSet)
    BY TaskFields DEF TasksTyped
<1>2. \A u \in Tasks : \/ tasks'[u].todo = tasks[u].todo
                       \/ /\ ~OwesIt(tasks'[u].todo, pair) /\ ~OwesIt(tasks[u].todo, pair)
                          /\ Regular(tasks'[u].todo, pair)
    <2>1. <<>> \in Seq(StepSet)
        OBVIOUS
    <2>2. ~OwesIt(<<>>, pair)
        BY <2>1, Exclusive
    <2>3. \A u \in Tasks : Starting(tasks'[u].todo, pair) => ~OwesIt(tasks'[u].todo, pair)
        BY <1>1, Exclusive
    <2>4. \A u \in Tasks : ~Busy(u) => tasks[u].todo = <<>>
        BY DEF Busy
    <2>5. \A u \in Tasks : ~Busy(u) => ~OwesIt(tasks[u].todo, pair)
        BY <2>2, <2>4
    <2>6. \A u \in Tasks : Starting(tasks'[u].todo, pair) => Regular(tasks'[u].todo, pair)
        BY DEF Regular
    <2>. QED
        BY <2>3, <2>5, <2>6
<1>3. \A u \in Tasks : OwesIt(tasks'[u].todo, pair) <=> OwesIt(tasks[u].todo, pair)
    BY <1>2
<1>4. \A u \in Tasks : Regular(tasks'[u].todo, pair)
    BY <1>2 DEF PairInv
<1>5. ASSUME NEW u \in Tasks
      PROVE  Good(tasks[u].todo, pair)'
    <2>1. CASE tasks'[u].todo = tasks[u].todo
        BY <2>1, ServerKept DEF PairInv, Good, Ready, server, Ledger!LiveFolder
    <2>2. CASE ~OwesIt(tasks'[u].todo, pair)
        BY <2>2 DEF Good, OwesIt
    <2>. QED
        BY <1>2, <2>1, <2>2
<1>6. Paired(pair)' <=> Paired(pair)
    BY DEF Paired, server
<1>. QED
    BY <1>3, <1>4, <1>5, <1>6 DEF PairInv

\* A batch that restores has the same to make good, whatever its first step.
LEMMA TurnGood ==
    ASSUME NEW todo, NEW pair, OwesTurn(todo, pair)
    PROVE  /\ Ready("restoreFile", Absent, files[pair.of], files[pair.proxy])
                 => Good(todo, pair)
           /\ Ready("restoreFile", Absent, files[pair.of], files[pair.proxy])'
                 => Good(todo, pair)'
<1>1. OwesOne(todo, pair) => OwedCall(todo[1]).do = "restoreFile"
    BY DEF OwesTurn, Restores, OwesOne, OwedCall, TwinSteps, ItemDoes, Loads
<1>2. \A with : /\ Ready("restoreFile", Absent, files[pair.of], files[pair.proxy])
                     => Ready("restoreFile", with, files[pair.of], files[pair.proxy])
                /\ Ready("restoreFile", Absent, files[pair.of], files[pair.proxy])'
                     => Ready("restoreFile", with, files[pair.of], files[pair.proxy])'
    BY DEF Ready
<1>. QED
    BY <1>1, <1>2 DEF Good

\* What a request of task t tells of a pair for which another task owes one.
LEMMA NotCrossed ==
    ASSUME Typed, NEW t \in Tasks, RequestMade(t), "crossed" \notin odd',
           NEW pair \in Pairs, NEW u \in Tasks \ {t}, OwesIt(tasks[u].todo, pair)
    PROVE  /\ Clear(Now(t), pair)
           /\ files'[pair.of] = files[pair.of]
           /\ files'[pair.proxy] = files[pair.proxy]
<1>1. Owes(u, pair)
    BY OwesIts, TaskFields DEF Typed, TasksOK, TasksTyped
<1>2. Notes(t) \subseteq odd'
    BY DEF RequestMade
<1>3. ~ \E f \in {pair.of, pair.proxy} : f \in Now(t).on \/ files'[f] # files[f]
    BY <1>1, <1>2 DEF Notes
<1>. QED
    BY <1>3 DEF Clear

\* A request that is made, for every pair.
LEMMA PairRequest ==
    ASSUME Typed, NEW pair \in Pairs, PairInv(pair), NEW t \in Tasks,
           RequestMade(t), "crossed" \notin odd'
    PROVE  PairInv(pair)'
<1>1. PICK todo : todo = tasks[t].todo
    OBVIOUS
<1>2. PICK s : s = Now(t)
    OBVIOUS
<1>3. PICK rest : rest = Tail(todo)
    OBVIOUS
<1>4. /\ todo \in Seq(StepSet) /\ todo # <<>> /\ s = todo[1] /\ s \in StepSet
      /\ rest \in Seq(StepSet) /\ Busy(t) /\ s.do \notin Loads
    BY <1>1, <1>2, <1>3, NowOf DEF RequestMade, Busy, Typed, TasksOK, IsCall, IsLoad
<1>5. GoesOn(t, rest)
    BY <1>1, <1>3, RequestTypes
<1>6. Made(s) \/ (Vacuous(s.do, s.on, s.with) /\ UNCHANGED server)
    BY <1>2 DEF RequestMade
<1>7. ServerOK /\ Regular(todo, pair) /\ Good(todo, pair)
    BY <1>1 DEF Typed, PairInv
<1>8. s.do \notin TwinSteps
    BY <1>6 DEF Made, Effect, PinEffect, Vacuous, TwinSteps
<1>9. \A u \in Tasks \ {t} : ~(OwesIt(tasks[u].todo, pair) /\ OwesIt(todo, pair))
    BY <1>1 DEF PairInv
<1>10. /\ Quiet(rest, pair) => Starting(rest, pair)
       /\ Restoring(rest, pair) => Starting(rest, pair)
       /\ Starting(rest, pair) => Regular(rest, pair) /\ ~OwesIt(rest, pair)
                                  /\ Good(rest, pair)'
    BY <1>4, Exclusive, GoodIdle DEF Starting, Regular
<1>11. CASE \E u \in Tasks \ {t} : OwesIt(tasks[u].todo, pair)
    <2>1. /\ Clear(s, pair) /\ files'[pair.of] = files[pair.of]
          /\ files'[pair.proxy] = files[pair.proxy] /\ ~OwesIt(todo, pair)
        BY <1>2, <1>9, <1>11, NotCrossed
    <2>2. ~Opens(todo, pair)
        BY <1>4, <2>1 DEF Opens, Clear
    <2>3. Starting(rest, pair)
        <3>1. CASE Quiet(todo, pair)
            BY <1>3, <1>4, <1>10, <3>1, QuietRest
        <3>2. CASE Restoring(todo, pair)
            <4>1. \/ Restoring(Tail(todo), pair)
                  \/ todo[1].on = {pair.of}
                BY <1>4, <3>2, TurnRest
            <4>. QED
                BY <1>3, <1>4, <1>10, <2>1, <4>1 DEF Clear
        <3>. QED
            BY <1>7, <2>1, <2>2, <3>1, <3>2 DEF Regular, Starting
    <2>4. ASSUME NEW work, Good(work, pair)
          PROVE  Good(work, pair)'
        <3>1. CASE UNCHANGED server
            BY <2>4, <3>1 DEF Good, Ready, server, Ledger!LiveFolder
        <3>2. CASE Made(s)
            <4>1. \A do, with : Ready(do, with, files[pair.of], files[pair.proxy])
                     => Ready(do, with, files[pair.of], files[pair.proxy])'
                BY <1>4, <1>7, <2>1, <3>2, ReadyStays
            <4>. QED
                BY <2>4, <4>1 DEF Good
        <3>. QED
            BY <1>6, <3>1, <3>2
    <2>. QED
        BY <1>5, <1>10, <1>11, <2>3, <2>4, PairOnward
<1>12. ASSUME \A u \in Tasks \ {t} : ~OwesIt(tasks[u].todo, pair),
              Regular(rest, pair), Good(rest, pair)', Paired(pair)' \/ OwesIt(rest, pair)
       PROVE  PairInv(pair)'
    BY <1>5, <1>12, PairOnward
<1>13. CASE /\ \A u \in Tasks \ {t} : ~OwesIt(tasks[u].todo, pair)
            /\ OwesOne(todo, pair)
    <2>1. s.do \in ItemDoes /\ s.on = {pair.proxy}
        BY <1>4, <1>8, <1>13 DEF OwesOne
    <2>2. Ready(s.do, s.with, files[pair.of], files[pair.proxy])
        BY <1>4, <1>7, <1>8, <1>13 DEF Good, OwedCall
    <2>3. Paired(pair)'
        BY <1>4, <1>6, <1>7, <2>1, <2>2, ProxyAsked
    <2>4. Quiet(rest, pair)
        BY <1>3, <1>4, <1>13, QuietRest
    <2>. QED
        BY <1>10, <1>12, <1>13, <2>3, <2>4
<1>14. CASE /\ \A u \in Tasks \ {t} : ~OwesIt(tasks[u].todo, pair)
            /\ OwesTurn(todo, pair)
    <2>1. Ready("restoreFile", Absent, files[pair.of], files[pair.proxy])
        BY <1>7, <1>14 DEF Good
    <2>2. s.do \in {"restoreFile", "restoreFolder"} /\ 1 \in DOMAIN todo
        BY <1>4, <1>14, RestOf DEF OwesTurn, Restores
    <2>3. Made(s)
        BY <1>6, <2>2 DEF Vacuous
    <2>4. CASE Clear(s, pair) /\ OwesTurn(rest, pair)
        <3>1. Ready("restoreFile", Absent, files[pair.of], files[pair.proxy])'
            BY <1>4, <1>7, <2>1, <2>2, <2>3, <2>4, OwnRestores
        <3>2. Good(rest, pair)' /\ Regular(rest, pair)
            BY <2>4, <3>1, TurnGood DEF Regular, OwesIt
        <3>. QED
            BY <1>12, <1>14, <2>4, <3>2 DEF OwesIt
    <2>5. CASE /\ s.on = {pair.proxy} /\ s.do = "restoreFile"
               /\ OwesTurn(rest, pair) \/ Quiet(rest, pair)
        <3>1. Ready(s.do, s.with, files[pair.of], files[pair.proxy])
            BY <2>1, <2>5 DEF Ready
        <3>2. Paired(pair)' /\ files'[pair.proxy] # Absent /\ files'[pair.proxy].trash = "live"
            BY <1>4, <1>6, <1>7, <2>5, <3>1, ProxyAsked DEF ItemDoes
        <3>3. Ready("restoreFile", Absent, files[pair.of], files[pair.proxy])'
            BY <3>2 DEF Ready
        <3>4. CASE OwesTurn(rest, pair)
            <4>1. Good(rest, pair)' /\ Regular(rest, pair)
                BY <3>3, <3>4, TurnGood DEF Regular, OwesIt
            <4>. QED
                BY <1>12, <1>14, <3>2, <4>1
        <3>5. CASE Quiet(rest, pair)
            BY <1>10, <1>12, <1>14, <3>2, <3>5
        <3>. QED
            BY <2>5, <3>4, <3>5
    <2>6. \/ Clear(s, pair) /\ OwesTurn(rest, pair)
          \/ /\ s.on = {pair.proxy} /\ s.do = "restoreFile"
             /\ OwesTurn(rest, pair) \/ Quiet(rest, pair)
        BY <1>3, <1>4, <1>14, TurnRest
    <2>. QED
        BY <2>4, <2>5, <2>6
<1>15. CASE \A u \in Tasks : ~OwesIt(tasks[u].todo, pair)
    <2>1. Paired(pair) /\ Starting(todo, pair)
        BY <1>1, <1>7, <1>15 DEF PairInv, Regular
    <2>2. ASSUME Clear(s, pair) \/ Both(s, pair)
          PROVE  Paired(pair)'
        <3>1. CASE UNCHANGED server
            BY <2>1, <3>1, PairedSame DEF server
        <3>2. CASE Made(s)
            BY <1>4, <1>7, <2>1, <2>2, <3>2, PairedKept
        <3>. QED
            BY <1>6, <3>1, <3>2
    <2>3. CASE Quiet(todo, pair)
        <3>1. /\ Clear(s, pair) \/ Both(s, pair)
              /\ Quiet(rest, pair)
            BY <1>3, <1>4, <2>3, QuietRest
        <3>. QED
            BY <1>10, <1>12, <1>15, <2>2, <3>1
    <2>4. CASE Opens(todo, pair)
        <3>1. OwesOne(rest, pair) /\ ~OwesTurn(rest, pair) /\ rest[1] = todo[2]
            BY <1>3, <1>4, <2>4, QuietRest
        <3>2. /\ s.do \in ItemDoes /\ s.on = {pair.of}
              /\ todo[2] \in StepSet /\ todo[2].do \in TwinSteps
              /\ TwinDo[todo[2].do] = s.do
              /\ s.do = "renameFile" => todo[2].with.call.with.base = s.with.base
            BY <1>4, <2>4 DEF Opens
        <3>3. todo[2].with.call.do = s.do
            BY <3>2, StepTypes DEF Twins
        <3> DEFINE with == todo[2].with.call.with
        <3>4. s.do = "renameFile" => with.base = s.with.base
            BY <3>2
        <3>. HIDE DEF with
        <3>5. Ready(s.do, with, files[pair.of], files[pair.proxy])'
            BY <1>4, <1>6, <1>7, <2>1, <3>2, <3>4, VideoAsked
        <3>6. OwedCall(rest[1]).do = s.do /\ OwedCall(rest[1]).with = with
            BY <3>1, <3>2, <3>3 DEF OwedCall, with
        <3>7. Good(rest, pair)'
            BY <3>1, <3>5, <3>6 DEF Good
        <3>. QED
            BY <1>12, <1>15, <3>1, <3>7 DEF Regular, OwesIt
    <2>5. CASE Restoring(todo, pair)
        <3>1. \/ Clear(s, pair) /\ Restoring(rest, pair)
              \/ /\ s.on = {pair.of} /\ s.do = "restoreFile"
                 /\ OwesTurn(rest, pair)
            BY <1>3, <1>4, <2>5, TurnRest
        <3>2. CASE Clear(s, pair) /\ Restoring(rest, pair)
            BY <1>10, <1>12, <1>15, <2>2, <3>2
        <3>3. CASE /\ s.on = {pair.of} /\ s.do = "restoreFile"
                   /\ OwesTurn(rest, pair)
            <4>1. Ready(s.do, Absent, files[pair.of], files[pair.proxy])'
                BY <1>4, <1>6, <1>7, <2>1, <3>3, VideoAsked DEF ItemDoes
            <4>2. Good(rest, pair)' /\ Regular(rest, pair)
                BY <3>3, <4>1, TurnGood DEF Regular, OwesIt
            <4>. QED
                BY <1>12, <1>15, <3>3, <4>2 DEF OwesIt
        <3>. QED
            BY <3>1, <3>2, <3>3
    <2>. QED
        BY <2>1, <2>3, <2>4, <2>5 DEF Starting
<1>. QED
    BY <1>1, <1>11, <1>13, <1>14, <1>15 DEF OwesIt

LEMMA GoodServer ==
    ASSUME UNCHANGED server, NEW pair
    PROVE  /\ \A todo : Good(todo, pair) => Good(todo, pair)'
           /\ Paired(pair) => Paired(pair)'
BY DEF Good, Ready, server, Ledger!LiveFolder, Paired

\* What is found is the proxy, if there is one.
LEMMA TwinSeen ==
    ASSUME NEW row, NEW rows, NEW forms, ~ProxyUnseen(row, rows, forms)
    PROVE  \A p \in FileIds :
              p \in Keys(Proxies(row, rows, forms)) <=>
                 [of |-> row.key, proxy |-> p] \in Pairs /\ files[p] # Absent
<1> DEFINE called == {q \in {q \in rows : q.is = "file" /\ q.up = row.up} :
                         /\ q.name.base = row.name.base
                         /\ q.name.form \in forms}
<1>1. /\ \A q \in called \cup {row} : q.named
      /\ Keys(called) = {p \in FileIds : /\ [of |-> row.key, proxy |-> p] \in Pairs
                                         /\ files[p] # Absent}
    BY DEF ProxyUnseen
<1>2. called = Proxies(row, rows, forms)
    BY <1>1 DEF Proxies, FilesOf
<1>. HIDE DEF called
<1>. QED
    BY <1>1, <1>2

\* A proxy is looked up, for every pair.
LEMMA PairFound ==
    ASSUME Typed, NEW pair \in Pairs, PairInv(pair), NEW t \in Tasks, TwinFound(t),
           "strays" \notin odd'
    PROVE  PairInv(pair)'
<1>1. PICK todo : todo = tasks[t].todo
    OBVIOUS
<1>2. PICK s : s = Now(t)
    OBVIOUS
<1>3. /\ todo \in Seq(StepSet) /\ todo # <<>> /\ s = todo[1] /\ s \in Twins
      /\ s.do \in TwinSteps /\ Busy(t) /\ 1 \in DOMAIN todo
    BY <1>1, <1>2, NowOf, StepTypes DEF TwinFound, Busy, Typed, TasksOK
<1>4. PICK row \in FileRows : row = s.with.row
    BY <1>3 DEF Twins
<1>5. s.on = {row.key} /\ row.key \in FileIds
    BY <1>3, <1>4 DEF Twins, FileRows
<1>6. PICK rows, forms :
         /\ rows \in SUBSET Row
         /\ ~ProxyUnseen(row, rows, forms)
         /\ \/ /\ Proxies(row, rows, forms) = {}
               /\ Continues(t, Tail(tasks[t].todo), FALSE)
            \/ \E p \in Proxies(row, rows, forms) :
                  Continues(t, <<[Now(t).with.call EXCEPT !.on = {p.key}]>>
                               \o Tail(tasks[t].todo), FALSE)
    <2> DEFINE r == IF s.do \in {"twinTrash", "twinRename"} THEN list.rows ELSE trash.rows
    <2> DEFINE g == IF s.do \in {"twinTrash", "twinRename"}
                    THEN {"proxy", "legacy"} ELSE {"legacy"}
    <2>1. r \in SUBSET Row
        BY DEF Typed, CopiesOK, Copy
    <2>2. ~ProxyUnseen(row, r, g)
        BY <1>2, <1>4 DEF TwinFound
    <2>3. \/ /\ Proxies(row, r, g) = {}
             /\ Continues(t, Tail(tasks[t].todo), FALSE)
          \/ \E p \in Proxies(row, r, g) :
                Continues(t, <<[Now(t).with.call EXCEPT !.on = {p.key}]>>
                             \o Tail(tasks[t].todo), FALSE)
        BY <1>2, <1>4 DEF TwinFound
    <2>. HIDE DEF r, g
    <2>. QED
        BY <2>1, <2>2, <2>3
<1>7. /\ \A p \in Proxies(row, rows, forms) : p \in FileRows /\ p.key \in FileIds
      /\ \A p \in FileIds : p \in Keys(Proxies(row, rows, forms)) <=>
            [of |-> row.key, proxy |-> p] \in Pairs /\ files[p] # Absent
    <2>1. rows \in SUBSET Row /\ ~ProxyUnseen(row, rows, forms)
        BY <1>6
    <2>2. Proxies(row, rows, forms) \in SUBSET FileRows
        BY <2>1, KindsOfRows
    <2>3. \A p \in FileRows : p.key \in FileIds
        BY DEF FileRows
    <2>4. \A p \in FileIds : p \in Keys(Proxies(row, rows, forms)) <=>
            [of |-> row.key, proxy |-> p] \in Pairs /\ files[p] # Absent
        BY <2>1, TwinSeen
    <2>. QED
        BY <2>2, <2>3, <2>4
<1>8. UNCHANGED server
    BY DEF TwinFound
<1>9. PICK tail \in Seq(StepSet) : tail = Tail(todo)
    BY <1>3, RestOf
<1>10. \/ /\ GoesOn(t, tail) /\ Proxies(row, rows, forms) = {}
       \/ \E p \in Proxies(row, rows, forms), c \in FileCalls \cup Renames :
             /\ c.do = TwinDo[s.do] /\ c.on = {p.key} /\ c.with = s.with.call.with
             /\ <<c>> \o tail \in Seq(StepSet)
             /\ GoesOn(t, <<c>> \o tail)
    <2>1. TasksTyped
        BY DEF Typed, TasksOK
    <2>2. CASE Proxies(row, rows, forms) = {} /\ Continues(t, Tail(tasks[t].todo), FALSE)
        BY <1>1, <1>9, <2>1, <2>2, Continued
    <2>3. ASSUME NEW p \in Proxies(row, rows, forms),
                 Continues(t, <<[Now(t).with.call EXCEPT !.on = {p.key}]>>
                               \o Tail(tasks[t].todo), FALSE)
          PROVE  \E c \in FileCalls \cup Renames :
             /\ c.do = TwinDo[s.do] /\ c.on = {p.key} /\ c.with = s.with.call.with
             /\ <<c>> \o tail \in Seq(StepSet)
             /\ GoesOn(t, <<c>> \o tail)
        <3> DEFINE c == [s.with.call EXCEPT !.on = {p.key}]
        <3>1. /\ c \in FileCalls \cup Renames /\ c.do = TwinDo[s.do]
              /\ c.on = {p.key} /\ c.with = s.with.call.with
            BY <1>3, <1>7, ProxyCall
        <3>2. Continues(t, <<c>> \o tail, FALSE)
            BY <1>1, <1>2, <1>9, <2>3
        <3>. HIDE DEF c
        <3>3. c \in StepSet
            BY <3>1 DEF StepSet
        <3>4. <<c>> \o tail \in Seq(StepSet)
            BY <1>9, <3>3
        <3>5. GoesOn(t, <<c>> \o tail)
            BY <2>1, <3>2, <3>4, Continued
        <3>. QED
            BY <3>1, <3>4, <3>5
    <2>. QED
        BY <1>6, <2>2, <2>3
<1>11. \A c \in StepSet : LET work == <<c>> \o tail
                          IN  /\ DOMAIN work = DOMAIN todo /\ work[1] = c
                              /\ \A i \in DOMAIN todo : i # 1 => work[i] = todo[i]
    BY <1>1, <1>3, <1>9, Replaced DEF Typed, TasksOK
<1>12. ServerOK /\ Regular(todo, pair) /\ Good(todo, pair)
       /\ \A u \in Tasks \ {t} : ~(OwesIt(tasks[u].todo, pair) /\ OwesIt(todo, pair))
    BY <1>1 DEF Typed, PairInv
<1>13. TwinDo[s.do] \in ItemDoes /\ ItemDoes \cap TwinSteps = {}
       /\ s.do \notin ItemDoes /\ s.do \notin {"restoreFile", "restoreFolder"} \cup Loads
    BY <1>3 DEF TwinDo, ItemDoes, TwinSteps, Loads
<1>14. CASE OwesOne(todo, pair)
    <2>1. row.key = pair.of
        BY <1>3, <1>5, <1>14 DEF OwesOne
    <2>2. Quiet(tail, pair) /\ Regular(tail, pair) /\ ~OwesIt(tail, pair)
          /\ Good(tail, pair)'
        BY <1>3, <1>9, <1>14, QuietRest, Exclusive, GoodIdle DEF Starting, Regular
    <2>3. \A u \in Tasks \ {t} : ~OwesIt(tasks[u].todo, pair)
        BY <1>12, <1>14 DEF OwesIt
    <2>4. PICK do, with : do = TwinDo[s.do] /\ with = s.with.call.with
        OBVIOUS
    <2>5. Ready(do, with, files[pair.of], files[pair.proxy]) /\ s.with.call.do = do
        BY <1>3, <1>12, <1>14, <2>4 DEF Good, OwedCall, Twins
    <2>6. CASE GoesOn(t, tail) /\ Proxies(row, rows, forms) = {}
        <3>1. files[pair.proxy] = Absent
            BY <1>7, <2>1, <2>6, PairIds DEF Keys
        <3>2. files[pair.of] = Absent
            BY <2>5, <3>1 DEF Ready
        <3>3. Paired(pair)'
            BY <1>8, <3>1, <3>2, GoodServer DEF Paired, Together
        <3>. QED
            BY <2>2, <2>3, <2>6, <3>3, PairOnward
    <2>7. ASSUME NEW p \in Proxies(row, rows, forms), NEW c \in FileCalls \cup Renames,
                 c.do = TwinDo[s.do], c.on = {p.key}, c.with = s.with.call.with,
                 GoesOn(t, <<c>> \o tail)
          PROVE  PairInv(pair)'
        <3>1. p.key = pair.proxy
            <4>1. [of |-> pair.of, proxy |-> p.key] \in Pairs
                BY <1>7, <2>1 DEF Keys
            <4>2. [of |-> pair.of, proxy |-> p.key] = pair
                <5> DEFINE other == [of |-> pair.of, proxy |-> p.key]
                <5>1. other \in Pairs /\ other.of = pair.of
                    BY <4>1
                <5>. HIDE DEF other
                <5>2. other = pair
                    BY <5>1, PairIds
                <5>. QED
                    BY <5>2 DEF other
            <4>. QED
                BY <4>2
        <3>2. PICK work : work = <<c>> \o tail
            OBVIOUS
        <3>3. c \in StepSet
            BY DEF StepSet
        <3>4. DOMAIN work = DOMAIN todo /\ work[1] = c
              /\ \A i \in DOMAIN todo : i # 1 => work[i] = todo[i]
            BY <1>11, <3>2, <3>3
        <3>5. c.do \in ItemDoes /\ c.do \notin TwinSteps /\ c.on = {pair.proxy}
            BY <1>13, <2>7, <3>1
        <3>6. OwesOne(work, pair)
            <4>1. \A i \in DOMAIN todo : i > 1 => i # 1 /\ Clear(todo[i], pair)
                BY <1>3, <1>14 DEF OwesOne
            <4>. QED
                BY <1>3, <3>4, <3>5, <4>1 DEF OwesOne
        <3>7. Ready(do, with, files[pair.of], files[pair.proxy])'
            BY <1>8, <2>5 DEF Ready, server, Ledger!LiveFolder
        <3>8. OwesTurn(work, pair) => do = "restoreFile"
            BY <1>3, <2>4, <2>7, <3>4, <3>5 DEF OwesTurn, Restores, ItemDoes, Loads
        <3>9. Good(work, pair)'
            <4>1. OwedCall(work[1]) = c /\ c.do = do /\ c.with = with
                BY <2>4, <2>7, <3>4, <3>5 DEF OwedCall
            <4>2. do = "restoreFile" =>
                     Ready("restoreFile", Absent, files[pair.of], files[pair.proxy])'
                BY <3>7 DEF Ready
            <4>. QED
                BY <3>7, <3>8, <4>1, <4>2 DEF Good
        <3>. QED
            BY <2>3, <2>7, <3>2, <3>6, <3>9, PairOnward DEF Regular, OwesIt
    <2>. QED
        BY <1>10, <2>6, <2>7
<1>15. CASE ~OwesOne(todo, pair)
    <2>1. Quiet(todo, pair) /\ ~OwesIt(todo, pair)
        BY <1>3, <1>12, <1>13, <1>15 DEF Regular, Starting, Opens, Restoring, OwesIt,
           OwesTurn, Restores
    <2>2. Clear(s, pair) /\ row.key # pair.of /\ row.key # pair.proxy
        BY <1>3, <1>5, <2>1 DEF Quiet, Clear, Both, TwinSteps
    <2>3. Quiet(tail, pair)
        BY <1>3, <1>9, <2>1, QuietRest
    <2>4. ASSUME NEW rest \in Seq(StepSet), GoesOn(t, rest), Quiet(rest, pair)
          PROVE  PairInv(pair)'
        <3>1. ~OwesIt(rest, pair) /\ Regular(rest, pair) /\ Good(rest, pair)'
            BY <2>4, Exclusive, GoodIdle DEF Starting, Regular
        <3>2. \/ Paired(pair)'
              \/ \E u \in Tasks \ {t} : OwesIt(tasks[u].todo, pair)
            BY <1>1, <1>8, <2>1, GoodServer DEF PairInv
        <3>3. \A work : Good(work, pair) => Good(work, pair)'
            BY <1>8, GoodServer
        <3>. QED
            BY <2>4, <3>1, <3>2, <3>3, PairOnward
    <2>5. ASSUME NEW p \in Proxies(row, rows, forms), NEW c \in FileCalls \cup Renames,
                 c.do = TwinDo[s.do], c.on = {p.key},
                 <<c>> \o tail \in Seq(StepSet), GoesOn(t, <<c>> \o tail)
          PROVE  PairInv(pair)'
        <3>1. p.key # pair.of /\ p.key # pair.proxy
            <4> DEFINE other == [of |-> row.key, proxy |-> p.key]
            <4>1. other \in Pairs /\ other # pair /\ other.proxy = p.key
                BY <1>7, <2>2 DEF Keys
            <4>. HIDE DEF other
            <4>. QED
                BY <4>1, PairIds
        <3>2. c \in StepSet
            BY DEF StepSet
        <3>3. PICK work : work = <<c>> \o tail
            OBVIOUS
        <3>4. DOMAIN work = DOMAIN todo /\ work[1] = c
              /\ \A i \in DOMAIN todo : i # 1 => work[i] = todo[i]
            BY <1>11, <3>2, <3>3
        <3>5. Clear(c, pair)
            BY <2>5, <3>1 DEF Clear
        <3>6. Quiet(work, pair)
            BY <2>1, <3>4, <3>5 DEF Quiet
        <3>. QED
            BY <2>4, <2>5, <3>3, <3>6
    <2>. QED
        BY <1>9, <1>10, <2>3, <2>4, <2>5
<1>. QED
    BY <1>14, <1>15

\* The steps that are no requests, for every pair.
LEMMA PairShown ==
    ASSUME Typed, NEW pair \in Pairs, PairInv(pair), NEW t \in Tasks,
           TreeShown(t) \/ TrashShown(t) \/ PinsShown(t) \/ LoadFails(t) \/ PinKept(t)
    PROVE  PairInv(pair)'
<1>1. PICK todo : todo = tasks[t].todo
    OBVIOUS
<1>2. PICK rest : rest = Tail(todo)
    OBVIOUS
<1>3. /\ todo \in Seq(StepSet) /\ todo # <<>> /\ rest \in Seq(StepSet)
      /\ todo[1] \in StepSet /\ todo[1].do \in Loads \cup {"kept"} /\ 1 \in DOMAIN todo
    <2>1. Busy(t) /\ Now(t).do \in Loads \cup {"kept"}
        BY DEF TreeShown, TrashShown, PinsShown, LoadFails, PinKept, Loads, IsLoad
    <2>. QED
        BY <1>1, <1>2, <2>1, NowOf DEF Busy, Typed, TasksOK
<1>4. GoesOn(t, rest) /\ UNCHANGED server
    BY <1>1, <1>2, ShownTypes DEF TreeShown, TrashShown, PinsShown, LoadFails, PinKept
<1>5. Clear(todo[1], pair)
    BY <1>3, StepTypes, PairIds DEF Clear, FolderDoes
<1>6. /\ \A work : Good(work, pair) => Good(work, pair)'
      /\ Paired(pair) => Paired(pair)'
    BY <1>4, GoodServer
<1>7. /\ Regular(todo, pair) /\ Good(todo, pair)
      /\ \A u \in Tasks \ {t} : ~(OwesIt(tasks[u].todo, pair) /\ OwesIt(todo, pair))
      /\ \/ Paired(pair) \/ OwesIt(todo, pair)
         \/ \E u \in Tasks \ {t} : OwesIt(tasks[u].todo, pair)
    BY <1>1 DEF PairInv
<1>8. ~Opens(todo, pair) /\ ~OwesOne(todo, pair)
    BY <1>3, <1>5 DEF Opens, OwesOne, Clear, ItemDoes, Loads, TwinSteps
<1>9. CASE OwesTurn(todo, pair)
    <2>1. OwesTurn(rest, pair)
        <3>1. \/ OwesTurn(Tail(todo), pair)
              \/ todo[1].on = {pair.proxy}
            BY <1>3, <1>9, TurnRest
        <3>. QED
            BY <1>2, <1>5, <3>1 DEF Clear
    <2>2. Ready("restoreFile", Absent, files[pair.of], files[pair.proxy])'
        BY <1>4, <1>7, <1>9 DEF Good, Ready, server, Ledger!LiveFolder
    <2>3. Good(rest, pair)' /\ Regular(rest, pair) /\ OwesIt(rest, pair)
        BY <2>1, <2>2, TurnGood DEF Regular, OwesIt
    <2>4. \A u \in Tasks \ {t} : ~OwesIt(tasks[u].todo, pair)
        BY <1>7, <1>9 DEF OwesIt
    <2>. QED
        BY <1>4, <2>3, <2>4, PairOnward
<1>10. CASE Quiet(todo, pair) \/ Restoring(todo, pair)
    <2>1. Starting(rest, pair)
        <3>1. CASE Quiet(todo, pair)
            BY <1>2, <1>3, <3>1, QuietRest DEF Starting
        <3>2. CASE Restoring(todo, pair)
            <4>1. \/ Restoring(Tail(todo), pair)
                  \/ todo[1].on = {pair.of}
                BY <1>3, <3>2, TurnRest
            <4>. QED
                BY <1>2, <1>5, <4>1 DEF Clear, Starting
        <3>. QED
            BY <1>10, <3>1, <3>2
    <2>2. Regular(rest, pair) /\ Good(rest, pair)' /\ ~OwesIt(rest, pair)
        BY <1>3, <2>1, Exclusive, GoodIdle DEF Regular
    <2>3. ~OwesIt(todo, pair)
        BY <1>3, <1>10, Exclusive DEF Starting
    <2>4. \/ Paired(pair)'
          \/ \E u \in Tasks \ {t} : OwesIt(tasks[u].todo, pair)
        BY <1>6, <1>7, <2>3
    <2>. QED
        BY <1>4, <1>6, <2>2, <2>4, PairOnward
<1>. QED
    BY <1>7, <1>8, <1>9, <1>10 DEF Regular, Starting, OwesIt

LEMMA TwinTaskStep ==
    ASSUME Typed, TwinInv, NEW t \in Tasks, TaskStep(t)
    PROVE  TwinInv'
<1>. SUFFICES ASSUME But({"failed", "strays", "crossed"})', NEW pair \in Pairs
              PROVE  PairInv(pair)'
    BY DEF TwinInv
<1>1. odd \subseteq odd'
    BY DEF TaskStep, RequestMade, RequestFails, TwinFound, LoadServed, LoadNamed,
       LoadFails, TreeShown, TrashShown, PinsShown, PinKept
<1>2. PairInv(pair) /\ "failed" \notin odd' /\ "strays" \notin odd' /\ "crossed" \notin odd'
    BY <1>1 DEF TwinInv, But
<1>3. CASE RequestMade(t)
    BY <1>2, <1>3, PairRequest
<1>4. CASE RequestFails(t)
    BY <1>2, <1>4 DEF RequestFails
<1>5. CASE TwinFound(t)
    BY <1>2, <1>5, PairFound
<1>6. CASE LoadServed(t) \/ LoadNamed(t)
    <2>1. LoadsOn(t)
        BY <1>6, LoadServedTypes, LoadNamedTypes
    <2>2. UNCHANGED server /\ TasksTyped /\ TasksTyped'
          /\ \A u \in Tasks : tasks'[u].todo = tasks[u].todo
        BY <2>1 DEF LoadsOn, Typed, TasksOK
    <2>. QED
        BY <1>2, <2>2, PairStill
<1>7. CASE TreeShown(t) \/ TrashShown(t) \/ PinsShown(t) \/ LoadFails(t) \/ PinKept(t)
    BY <1>2, <1>7, PairShown
<1>. QED
    BY <1>3, <1>4, <1>5, <1>6, <1>7 DEF TaskStep

\* The loads at the end of a task make no difference.
LEMMA LoadedAfter ==
    ASSUME NEW pair \in Pairs, NEW calls \in Seq(StepSet), NEW loads \in {Tree, Trash}
    PROVE  /\ calls \o loads \in Seq(StepSet)
           /\ Quiet(calls, pair) => Quiet(calls \o loads, pair)
           /\ Opens(calls, pair) => Opens(calls \o loads, pair)
           /\ Restoring(calls, pair) => Restoring(calls \o loads, pair)
           /\ Starting(calls, pair) => Starting(calls \o loads, pair)
<1>1. PICK work : work = calls \o loads
    OBVIOUS
<1>2. loads \in Seq(StepSet) /\ Len(loads) = 1 /\ loads[1].on = {} /\ loads[1].do \in Loads
      /\ Clear(loads[1], pair)
    BY LoadTypes DEF Load, Step, Loads, Clear
<1>3. /\ work \in Seq(StepSet) /\ Len(calls) \in Nat
      /\ DOMAIN calls = 1..Len(calls) /\ DOMAIN work = 1..(Len(calls) + 1)
      /\ \A i \in DOMAIN calls : i \in DOMAIN work /\ work[i] = calls[i]
      /\ \A i \in DOMAIN work : i \notin DOMAIN calls => work[i] = loads[1]
    <2>1. work \in Seq(StepSet) /\ Len(work) = Len(calls) + 1
          /\ \A i \in 1..(Len(calls) + Len(loads)) :
                work[i] = IF i <= Len(calls) THEN calls[i] ELSE loads[i - Len(calls)]
        <3>1. PICK last \in Seq(StepSet) : last = loads
            BY <1>2
        <3>2. /\ calls \o last \in Seq(StepSet)
              /\ Len(calls \o last) = Len(calls) + Len(last)
              /\ \A i \in 1..(Len(calls) + Len(last)) : (calls \o last)[i] =
                    IF i <= Len(calls) THEN calls[i] ELSE last[i - Len(calls)]
            BY ConcatProperties
        <3>. QED
            BY <1>1, <1>2, <3>1, <3>2
    <2>2. /\ Len(calls) \in Nat /\ DOMAIN calls = 1..Len(calls)
          /\ DOMAIN work = 1..(Len(calls) + 1)
        BY <2>1, LenProperties
    <2>3. \A i \in DOMAIN calls : i \in DOMAIN work /\ work[i] = calls[i]
        BY <1>2, <2>1, <2>2
    <2>4. ASSUME NEW i \in DOMAIN work, i \notin DOMAIN calls
          PROVE  work[i] = loads[1]
        <3>1. i = Len(calls) + 1 /\ i - Len(calls) = 1
            BY <2>2, <2>4
        <3>. QED
            BY <1>2, <2>1, <2>2, <3>1
    <2>. QED
        BY <2>1, <2>2, <2>3, <2>4
<1>4. Quiet(calls, pair) => Quiet(work, pair)
    BY <1>2, <1>3 DEF Quiet
<1>5. ASSUME Opens(calls, pair)
      PROVE  Opens(work, pair)
    <2>1. /\ 1 \in DOMAIN work /\ 2 \in DOMAIN work
          /\ work[1] = calls[1] /\ work[2] = calls[2]
        BY <1>3, <1>5 DEF Opens
    <2>2. \A i \in DOMAIN work : i > 2 => Clear(work[i], pair)
        BY <1>2, <1>3, <1>5 DEF Opens
    <2>. QED
        BY <1>5, <2>1, <2>2 DEF Opens
<1>6. ASSUME Restoring(calls, pair)
      PROVE  Restoring(work, pair)
    <2>1. Restores(work, pair)
        BY <1>2, <1>3, <1>6 DEF Restoring, Restores
    <2>2. \A i \in DOMAIN work : \A f : work[i].on = {f} => i \in DOMAIN calls
        BY <1>2, <1>3
    <2>3. PICK i \in DOMAIN calls :
             /\ calls[i].on = {pair.of}
             /\ \A j \in DOMAIN calls : calls[j].on = {pair.of} => j = i
             /\ \A j \in DOMAIN calls : calls[j].on = {pair.proxy} => i < j
             /\ \E j \in DOMAIN calls : calls[j].on = {pair.proxy}
        BY <1>6 DEF Restoring
    <2>4. /\ i \in DOMAIN work /\ work[i].on = {pair.of}
          /\ \A j \in DOMAIN work : work[j].on = {pair.of} => j = i
          /\ \A j \in DOMAIN work : work[j].on = {pair.proxy} => i < j
          /\ \E j \in DOMAIN work : work[j].on = {pair.proxy}
        <3>1. \A j \in DOMAIN work : \A f : work[j].on = {f} =>
                 j \in DOMAIN calls /\ calls[j].on = {f}
            BY <1>3, <2>2
        <3>2. i \in DOMAIN work /\ work[i].on = {pair.of}
            BY <1>3, <2>3
        <3>3. \A j \in DOMAIN work : work[j].on = {pair.of} => j = i
            BY <2>3, <3>1
        <3>4. \A j \in DOMAIN work : work[j].on = {pair.proxy} => i < j
            BY <2>3, <3>1
        <3>5. \E j \in DOMAIN work : work[j].on = {pair.proxy}
            BY <1>3, <2>3
        <3>. QED
            BY <3>2, <3>3, <3>4, <3>5
    <2>. QED
        BY <2>1, <2>4 DEF Restoring
<1>. QED
    BY <1>1, <1>3, <1>4, <1>5, <1>6 DEF Starting

\* A single request.
LEMMA OneCall ==
    ASSUME NEW pair, NEW a \in StepSet, Clear(a, pair) \/ Both(a, pair)
    PROVE  Starting(<<a>>, pair) /\ Quiet(<<a>>, pair)
BY OneOrTwo DEF Quiet, Starting

\* A method for a file: its own request, then the step for its proxy.
LEMMA TwoCalls ==
    ASSUME NEW pair \in Pairs, NEW f, f # pair.proxy,
           NEW a \in StepSet, a.do \in ItemDoes, a.on = {f},
           NEW b \in StepSet, b.do \in TwinSteps, b.on = {f}, TwinDo[b.do] = a.do,
           a.do = "renameFile" => b.with.call.with.base = a.with.base
    PROVE  Starting(<<a, b>>, pair)
<1>1. /\ DOMAIN <<a, b>> = {1, 2} /\ <<a, b>>[1] = a /\ <<a, b>>[2] = b
    BY OneOrTwo
<1>2. PICK calls : calls = <<a, b>>
    OBVIOUS
<1>3. CASE f = pair.of
    <2>1. \A i \in DOMAIN calls : ~(i > 2)
        BY <1>1, <1>2
    <2>2. Opens(calls, pair)
        BY <1>1, <1>2, <1>3, <2>1 DEF Opens
    <2>. QED
        BY <1>2, <2>2 DEF Starting
<1>4. CASE f # pair.of
    <2>1. Clear(a, pair) /\ Clear(b, pair)
        BY <1>4 DEF Clear
    <2>. QED
        BY <1>1, <2>1 DEF Quiet, Starting
<1>. QED
    BY <1>3, <1>4

\* The methods for one item, which is no proxy.
LEMMA ItemsStart ==
    ASSUME NEW pair \in Pairs, NEW row \in Row, row.key # pair.proxy
    PROVE  /\ Starting(TrashItem(row), pair)
           /\ Starting(PermanentDeleteItem(row), pair)
           /\ Starting(RestoreItem(row), pair)
           /\ \A b \in Bases : Starting(RenameItem(row, b), pair)
<1>1. ASSUME NEW calls \in Seq(StepSet), Starting(calls, pair)
      PROVE  /\ Starting(calls \o Tree, pair) /\ Starting(calls \o Trash, pair)
             /\ Starting(calls \o Trash \o Tree, pair)
    <2>1. \A work \in Seq(StepSet) : Starting(work, pair) =>
              /\ Starting(work \o Tree, pair) /\ Starting(work \o Trash, pair)
              /\ work \o Trash \in Seq(StepSet)
        BY LoadedAfter
    <2>. QED
        BY <1>1, <2>1
<1>2. CASE row.is = "folder"
    <2>1. row.key \in Folders
        BY <1>2, RowCases
    <2>2. ASSUME NEW do \in {"trashFolder", "restoreFolder", "purgeFolder", "renameFolder"}
          PROVE  /\ <<Call(do, row.key, Absent)>> \in Seq(StepSet)
                 /\ Starting(<<Call(do, row.key, Absent)>>, pair)
        <3>1. Call(do, row.key, Absent) \in StepSet
            BY <2>1, <2>2, CallTypes DEF StepSet
        <3>2. Clear(Call(do, row.key, Absent), pair)
            BY <2>1, PairIds DEF Clear, Call, Step
        <3>. QED
            BY <3>1, <3>2, OneOrTwo, OneCall
    <2>. QED
        BY <1>1, <1>2, <2>2 DEF TrashItem, PermanentDeleteItem, RestoreItem, RenameItem
<1>3. CASE row.is # "folder"
    <2>1. row \in FileRows /\ row.key \in FileIds
        BY <1>3, RowCases
    <2>2. ASSUME NEW a \in FileCalls \cup Renames, NEW c \in FileCalls \cup Renames,
                 NEW twin \in TwinSteps, a.do = TwinDo[twin], c.do = TwinDo[twin],
                 a.on = {row.key}, a.do = "renameFile" => c.with.base = a.with.base
          PROVE  <<a, Twin(twin, row, c)>> \in Seq(StepSet)
                 /\ Starting(<<a, Twin(twin, row, c)>>, pair)
        <3>1. a \in StepSet /\ Twin(twin, row, c) \in StepSet
            BY <2>1, <2>2, TwinTypes DEF StepSet
        <3>2. /\ Twin(twin, row, c).do = twin /\ Twin(twin, row, c).on = {row.key}
              /\ Twin(twin, row, c).with.call = c
            BY DEF Twin, Step
        <3>3. a.do \in ItemDoes
            BY <2>2 DEF TwinDo, TwinSteps, ItemDoes
        <3>4. PICK b \in StepSet : b = Twin(twin, row, c)
            BY <3>1
        <3>5. Starting(<<a, b>>, pair) /\ <<a, b>> \in Seq(StepSet)
            BY <2>2, <3>1, <3>2, <3>3, <3>4, TwoCalls, OneOrTwo
        <3>. QED
            BY <3>4, <3>5
    <2>3. ASSUME NEW do \in {"trashFile", "restoreFile", "purgeFile"}, NEW twin \in TwinSteps,
                 TwinDo[twin] = do
          PROVE  LET calls == <<Call(do, row.key, Absent),
                                Twin(twin, row, Call(do, row.key, Absent))>>
                 IN  calls \in Seq(StepSet) /\ Starting(calls, pair)
        <3>1. PICK a \in FileCalls : a = Call(do, row.key, Absent)
            BY <2>1, CallTypes
        <3>2. a.do = do /\ a.on = {row.key}
            BY <3>1 DEF Call, Step
        <3>. QED
            BY <2>2, <2>3, <3>1, <3>2
    <2>4. ASSUME NEW b \in Bases
          PROVE  LET new(form) == [base |-> b, form |-> form]
                     calls == <<Call("renameFile", row.key, new("own")),
                                Twin("twinRename", row,
                                     Call("renameFile", row.key, new("proxy")))>>
                 IN  calls \in Seq(StepSet) /\ Starting(calls, pair)
        <3>1. [base |-> b, form |-> "own"] \in FileNames
              /\ [base |-> b, form |-> "proxy"] \in FileNames
            BY DEF FileNames
        <3>2. PICK a \in Renames : a = Call("renameFile", row.key, [base |-> b, form |-> "own"])
            BY <2>1, <3>1, CallTypes
        <3>3. PICK c \in Renames : c = Call("renameFile", row.key, [base |-> b, form |-> "proxy"])
            BY <2>1, <3>1, CallTypes
        <3>4. /\ a.do = "renameFile" /\ a.on = {row.key} /\ a.with.base = b
              /\ c.do = "renameFile" /\ c.with.base = b
            BY <3>2, <3>3 DEF Call, Step
        <3>5. "twinRename" \in TwinSteps /\ TwinDo["twinRename"] = "renameFile"
            BY DEF TwinSteps, TwinDo
        <3>6. <<a, Twin("twinRename", row, c)>> \in Seq(StepSet)
              /\ Starting(<<a, Twin("twinRename", row, c)>>, pair)
            BY <2>2, <3>4, <3>5
        <3>. QED
            BY <3>2, <3>3, <3>6
    <2>5. /\ "twinTrash" \in TwinSteps /\ TwinDo["twinTrash"] = "trashFile"
          /\ "twinPurge" \in TwinSteps /\ TwinDo["twinPurge"] = "purgeFile"
          /\ "twinRestore" \in TwinSteps /\ TwinDo["twinRestore"] = "restoreFile"
        BY DEF TwinSteps, TwinDo
    <2>6. Starting(TrashItem(row), pair)
        BY <1>1, <1>3, <2>3, <2>5 DEF TrashItem
    <2>7. Starting(PermanentDeleteItem(row), pair)
        BY <1>1, <1>3, <2>3, <2>5 DEF PermanentDeleteItem
    <2>8. Starting(RestoreItem(row), pair)
        BY <1>1, <1>3, <2>3, <2>5 DEF RestoreItem
    <2>9. \A b \in Bases : Starting(RenameItem(row, b), pair)
        BY <1>1, <1>3, <2>4 DEF RenameItem
    <2>. QED
        BY <2>6, <2>7, <2>8, <2>9
<1>. QED
    BY <1>2, <1>3

\* A move, the loads that come by themselves, and what is asked of the drive
\* or of a pin.
LEMMA OthersStart ==
    ASSUME NEW pair \in Pairs
    PROVE  /\ \A row \in Row, d \in Places :
                 row.key \notin {pair.of, pair.proxy} => Starting(MoveItem(row, d), pair)
           /\ \A d \in Folders : \A todo \in PinTodos(d) : Starting(todo, pair)
           /\ Starting(Tree, pair)
           /\ \A what \in Loads : Starting(<<Load(what)>>, pair)
           /\ Starting(<<Step("empty", {}, Absent)>> \o Trash, pair)
           /\ \A d \in Places : Starting(<<Step("create", {}, d)>> \o Tree, pair)
<1>1. ASSUME NEW a \in StepSet, Clear(a, pair)
      PROVE  /\ Starting(<<a>>, pair)
             /\ Starting(<<a>> \o Tree, pair) /\ Starting(<<a>> \o Trash, pair)
    <2>1. PICK calls \in Seq(StepSet) : calls = <<a>>
        BY OneOrTwo
    <2>2. Starting(calls, pair)
        BY <1>1, <2>1, OneCall
    <2>. QED
        BY <2>1, <2>2, LoadedAfter
<1>2. ASSUME NEW row \in Row, NEW d \in Places, row.key \notin {pair.of, pair.proxy}
      PROVE  Starting(MoveItem(row, d), pair)
    <2>1. PICK a : a = Call(IF row.is = "folder" THEN "moveFolder" ELSE "moveFile", row.key, d)
        OBVIOUS
    <2>2. a \in StepSet
        BY <2>1, RowCases, CallTypes DEF StepSet
    <2>3. Clear(a, pair)
        BY <1>2, <2>1 DEF Clear, Call, Step
    <2>. QED
        BY <1>1, <2>1, <2>2, <2>3 DEF MoveItem
<1>3. ASSUME NEW d \in Folders, NEW todo \in PinTodos(d)
      PROVE  Starting(todo, pair)
    <2>1. \A do, with : Clear(Call(do, d, with), pair)
        BY PairIds DEF Clear, Call, Step
    <2>2. PICK do, with : todo = <<Call(do, d, Absent), Call("kept", d, with)>>
        BY DEF PinTodos
    <2>3. \A i \in DOMAIN todo : Clear(todo[i], pair)
        <3>1. PICK a, b : a = Call(do, d, Absent) /\ b = Call("kept", d, with)
            OBVIOUS
        <3>2. todo = <<a, b>> /\ Clear(a, pair) /\ Clear(b, pair)
            BY <2>1, <2>2, <3>1
        <3>. QED
            BY <3>2
    <2>. QED
        BY <2>3 DEF Starting, Quiet
<1>4. \A what \in Loads : Starting(<<Load(what)>>, pair)
    <2>1. \A what \in Loads : Load(what) \in StepSet /\ Clear(Load(what), pair)
        BY LoadTypes DEF Clear, Load, Step
    <2>. QED
        BY <1>1, <2>1
<1>5. Starting(Tree, pair)
    BY <1>4 DEF Tree, Loads
<1>6. ASSUME NEW d \in Places
      PROVE  /\ Starting(<<Step("empty", {}, Absent)>> \o Trash, pair)
             /\ Starting(<<Step("create", {}, d)>> \o Tree, pair)
    <2>1. Step("empty", {}, Absent) \in StepSet /\ Step("create", {}, d) \in StepSet
        BY DEF Step, StepSet, Plain, Creations
    <2>2. Clear(Step("empty", {}, Absent), pair) /\ Clear(Step("create", {}, d), pair)
        BY DEF Clear, Step
    <2>. QED
        BY <1>1, <2>1, <2>2
<1>7. Root \in Places
    BY DEF Places
<1>. QED
    BY <1>2, <1>3, <1>4, <1>5, <1>6, <1>7

\* A batch into the trash or out of it takes both of a pair or none.
LEMMA BatchesStart ==
    ASSUME NEW pair \in Pairs, NEW rows \in SUBSET Row, trash.rows \in SUBSET Row
    PROVE  /\ ~Parted(rows) => Starting(BatchTrashItems(rows).todo, pair)
           /\ ~Parted(WithProxies(rows)) => Starting(BatchPermanentDeleteItems(rows).todo, pair)
<1>1. /\ FilesOf(rows) \in SUBSET FileRows /\ FoldersOf(rows) \in SUBSET FolderRows
      /\ WithProxies(rows) \in SUBSET Row
      /\ FilesOf(WithProxies(rows)) \in SUBSET FileRows
    <2>0. \A r : Proxies(r, trash.rows, BothForms) \in SUBSET FileRows
        BY KindsOfRows
    <2>1. WithProxies(rows) \in SUBSET Row
        BY <2>0, RowKinds DEF WithProxies
    <2>. QED
        BY <2>1, KindsOfRows
<1>2. ASSUME NEW all \in SUBSET Row, NEW folders0 \in SUBSET FolderRows, ~Parted(all),
             NEW do \in {"trashFiles", "purgeFiles"},
             NEW do0 \in {"trashFolders", "purgeFolders"}
      PROVE  /\ Batch(do, FilesOf(all)) \o Batch(do0, folders0) \in Seq(StepSet)
             /\ Starting(Batch(do, FilesOf(all)) \o Batch(do0, folders0), pair)
    <2>1. PICK a : a = Batch(do, FilesOf(all))
        OBVIOUS
    <2>2. PICK b : b = Batch(do0, folders0)
        OBVIOUS
    <2>3. a \in Seq(StepSet) /\ b \in Seq(StepSet)
        BY <2>1, <2>2, BatchTypes, KindsOfRows
    <2>4. Keys(folders0) \subseteq Folders
        BY DEF Keys, FolderRows
    <2>5. \A i \in DOMAIN b : Clear(b[i], pair)
        BY <2>2, <2>4, PairIds DEF Batch, Step, Clear
    <2>6. ASSUME NEW i \in DOMAIN a
          PROVE  Clear(a[i], pair) \/ Both(a[i], pair)
        <3>1. a[i].do = do /\ a[i].on = Keys(FilesOf(all))
            BY <2>1 DEF Batch, Step
        <3>2. \A f \in FileIds : f \in Keys(FilesOf(all)) <=> f \in Keys(all)
            BY RowCases, DriveViewAssumption DEF Keys, FilesOf
        <3>3. (pair.of \in Keys(all)) <=> (pair.proxy \in Keys(all))
            BY <1>2 DEF Parted
        <3>. QED
            BY <1>2, <3>1, <3>2, <3>3, PairIds DEF Clear, Both
    <2>7. a \o b \in Seq(StepSet) /\ Quiet(a \o b, pair)
        BY <2>3, <2>5, <2>6, Joined DEF Quiet
    <2>. QED
        BY <2>1, <2>2, <2>7 DEF Starting
<1>3. ASSUME ~Parted(rows)
      PROVE  Starting(BatchTrashItems(rows).todo, pair)
    <2>1. PICK calls : calls = Batch("trashFiles", FilesOf(rows))
                               \o Batch("trashFolders", FoldersOf(rows))
        OBVIOUS
    <2>2. calls \in Seq(StepSet) /\ Starting(calls, pair)
        BY <1>1, <1>2, <1>3, <2>1
    <2>3. calls \o Tree \in Seq(StepSet) /\ Starting(calls \o Tree, pair)
        BY <2>2, LoadedAfter
    <2>4. BatchTrashItems(rows) =
             [Task(calls \o Tree) EXCEPT !.fails = "loads", !.clears = TRUE]
        BY <2>1 DEF BatchTrashItems
    <2>. QED
        BY <2>3, <2>4, AskedTasks
<1>4. ASSUME ~Parted(WithProxies(rows))
      PROVE  Starting(BatchPermanentDeleteItems(rows).todo, pair)
    <2>1. PICK calls : calls = Batch("purgeFiles", FilesOf(WithProxies(rows)))
                               \o Batch("purgeFolders", FoldersOf(rows))
        OBVIOUS
    <2>2. calls \in Seq(StepSet) /\ Starting(calls, pair)
        BY <1>1, <1>2, <1>4, <2>1
    <2>3. calls \o Trash \in Seq(StepSet) /\ Starting(calls \o Trash, pair)
        BY <2>2, LoadedAfter
    <2>4. BatchPermanentDeleteItems(rows) =
             [Task(calls \o Trash) EXCEPT !.fails = "loads", !.clears = TRUE]
        BY <2>1 DEF BatchPermanentDeleteItems
    <2>. QED
        BY <2>3, <2>4, AskedTasks
<1>. QED
    BY <1>3, <1>4

\* Each turn comes in an order, and once.
LEMMA AllTurns ==
    ASSUME NEW rows \in SUBSET Row, trash.rows \in SUBSET Row,
           NEW order \in RestoreOrders(rows)
    PROVE  /\ Turns(rows) \in SUBSET (Row \X Row)
           /\ \E n \in Nat : DOMAIN order = 1..n
           /\ \A i \in DOMAIN order : order[i] \in Turns(rows)
           /\ \A i, j \in DOMAIN order : order[i] = order[j] => i = j
           /\ \A turn \in Turns(rows) : \E i \in DOMAIN order : order[i] = turn
           /\ \A i, j \in DOMAIN order :
                 order[i] = <<order[j][1], order[j][1]>> => i <= j
<1> DEFINE all == Turns(rows)
<1>1. all \in SUBSET (Row \X Row)
    <2>1. \A r : Proxies(r, trash.rows, BothForms) \in SUBSET Row
        BY KindsOfRows, RowKinds
    <2>2. \A turn \in Turns(rows) : \E r, p \in Row : turn = <<r, p>>
        BY <2>1 DEF Turns, FilesOf
    <2>. QED
        BY <2>2
<1>2. IsFiniteSet(all)
    BY <1>1, FiniteRows, FS_Product, FS_Subset
<1>3. /\ order \in [1..Cardinality(all) -> all]
      /\ \A i, j \in DOMAIN order : i # j => order[i] # order[j]
      /\ \A i, j \in DOMAIN order :
            order[i] = <<order[j][1], order[j][1]>> => i <= j
    BY DEF RestoreOrders, Orders
<1>. HIDE DEF all
<1>4. Cardinality(all) \in Nat
    BY <1>2, FS_CardinalityType
<1>5. Cardinality(1..Cardinality(all)) = Cardinality(all)
    BY <1>4, FS_Interval
<1>6. order \in Injection(1..Cardinality(all), all)
    BY <1>3 DEF Injection, IsInjective
<1>7. order \in Surjection(1..Cardinality(all), all)
    BY <1>2, <1>5, <1>6, FS_Injection
<1>8. \A turn \in all : \E i \in DOMAIN order : order[i] = turn
    BY <1>3, <1>7 DEF Surjection
<1>9. all = Turns(rows)
    BY DEF all
<1>. QED
    BY <1>1, <1>3, <1>4, <1>8, <1>9

\* The turns that are about one of a pair: the video's own, and those for the
\* proxy, which belong to it.
LEMMA TurnsOf ==
    ASSUME NEW pair \in Pairs, NEW rows \in SUBSET Row, trash.rows \in SUBSET Row,
           ~Misread(rows), NEW turn \in Turns(rows)
    PROVE  /\ turn[1] \in rows /\ turn[1] \in Row /\ turn[2] \in Row
           /\ turn[2].key = pair.of => turn = <<turn[1], turn[1]>>
           /\ turn[2].key = pair.proxy =>
                 turn[1] \in FilesOf(rows) /\ turn[1].key = pair.of
<1>1. \A r : Proxies(r, trash.rows, BothForms) \in SUBSET Row
    BY KindsOfRows, RowKinds
<1>2. CASE \E r \in rows : turn = <<r, r>>
    <2>1. PICK r \in rows : turn = <<r, r>>
        BY <1>2
    <2>2. r.key # pair.proxy
        BY DEF Misread, Keys
    <2>. QED
        BY <2>1, <2>2
<1>3. CASE \E r \in FilesOf(rows) : turn \in {r} \X Proxies(r, trash.rows, BothForms)
    <2>1. PICK r \in FilesOf(rows) : turn \in {r} \X Proxies(r, trash.rows, BothForms)
        BY <1>3
    <2>2. PICK p \in Proxies(r, trash.rows, BothForms) : turn = <<r, p>>
        BY <2>1
    <2>3. p \in Row /\ r \in Row /\ r \in rows
        BY <1>1 DEF FilesOf
    <2>4. Keys(Proxies(r, trash.rows, BothForms))
             = {q \in FileIds : [of |-> r.key, proxy |-> q] \in Pairs}
        BY DEF Misread
    <2>5. p.key \in Keys(Proxies(r, trash.rows, BothForms))
        BY DEF Keys
    <2>6. PICK other : other = [of |-> r.key, proxy |-> p.key]
        OBVIOUS
    <2>7. other \in Pairs /\ other.of = r.key /\ other.proxy = p.key
        BY <2>4, <2>5, <2>6
    <2>8. p.key # pair.of
        BY <2>7, PairIds
    <2>9. p.key = pair.proxy => r.key = pair.of
        BY <2>7, PairIds
    <2>. QED
        BY <2>2, <2>3, <2>8, <2>9
<1>. QED
    BY <1>2, <1>3 DEF Turns

\* A batch that restores a video restores its proxy after it.
LEMMA RestoresStart ==
    ASSUME NEW pair \in Pairs, NEW rows \in SUBSET Row, trash.rows \in SUBSET Row,
           NEW order \in RestoreOrders(rows), ~Misread(rows)
    PROVE  Starting(BatchRestoreItems(order).todo, pair)
<1> DEFINE call(r) == Call(IF r.is = "file" THEN "restoreFile"
                                            ELSE "restoreFolder", r.key, Absent)
<1> DEFINE calls == [i \in DOMAIN order |-> call(order[i][2])]
<1>1. /\ \E n \in Nat : DOMAIN order = 1..n
      /\ \A i \in DOMAIN order : order[i] \in Turns(rows)
      /\ \A i, j \in DOMAIN order : order[i] = order[j] => i = j
      /\ \A turn \in Turns(rows) : \E i \in DOMAIN order : order[i] = turn
      /\ \A i, j \in DOMAIN order : order[i] = <<order[j][1], order[j][1]>> => i <= j
    BY AllTurns
<1>2. \A r \in Row : /\ call(r) \in StepSet /\ call(r).on = {r.key}
                     /\ call(r).do \in {"restoreFile", "restoreFolder"}
                     /\ r.key \in FileIds => call(r).do = "restoreFile"
    BY RowCases, CallTypes, DriveViewAssumption DEF StepSet, Call, Step
<1>3. \A i \in DOMAIN order : order[i][1] \in Row /\ order[i][2] \in Row
    BY <1>1, TurnsOf
<1>. HIDE DEF call
<1>4. calls \in Seq(StepSet) /\ DOMAIN calls = DOMAIN order
    <2>1. PICK n \in Nat : DOMAIN order = 1..n
        BY <1>1
    <2>. QED
        BY <1>2, <1>3, <2>1, SeqDef
<1>5. \A i \in DOMAIN calls : calls[i] = call(order[i][2])
    OBVIOUS
<1>6. \A i \in DOMAIN calls :
         /\ calls[i].on = {order[i][2].key}
         /\ calls[i].do \in {"restoreFile", "restoreFolder"}
         /\ order[i][2].key \in FileIds => calls[i].do = "restoreFile"
    BY <1>2, <1>3, <1>4, <1>5
<1>7. ASSUME NEW i \in DOMAIN calls, NEW k, calls[i].on = {k}
       PROVE  order[i][2].key = k /\ order[i] \in Turns(rows)
    <2>1. {order[i][2].key} = {k}
        BY <1>6, <1>7
    <2>2. order[i][2].key = k
        <3>1. order[i][2].key \in {k}
            BY <2>1
        <3>. QED
            BY <3>1
    <2>. QED
        BY <1>1, <1>4, <2>2
<1>8. BatchRestoreItems(order) =
         [Task(calls \o Trash \o Tree) EXCEPT !.fails = "all", !.clears = TRUE]
    BY DEF BatchRestoreItems, call
<1>. HIDE DEF calls
<1>9. pair.of \in FileIds /\ pair.proxy \in FileIds /\ pair.of # pair.proxy
    BY PairIds
<1>10. Restores(calls, pair)
    BY <1>6, <1>9 DEF Restores, Clear
<1>11. Starting(calls, pair)
    <2>1. CASE pair.of \notin Keys(rows)
        <3>1. ASSUME NEW i \in DOMAIN calls
              PROVE  Clear(calls[i], pair)
            <4>1. order[i] \in Turns(rows)
                BY <1>1, <1>4
            <4>2. PICK turn : turn = order[i]
                OBVIOUS
            <4>3. /\ turn[1] \in rows
                  /\ turn[2].key = pair.of => turn = <<turn[1], turn[1]>>
                  /\ turn[2].key = pair.proxy => turn[1].key = pair.of
                BY <4>1, <4>2, TurnsOf
            <4>4. turn[2].key # pair.of /\ turn[2].key # pair.proxy
                BY <2>1, <4>3 DEF Keys
            <4>. QED
                BY <1>6, <4>2, <4>4 DEF Clear
        <3>. QED
            BY <3>1 DEF Starting, Quiet
    <2>2. CASE pair.of \in Keys(rows)
        <3>1. PICK row \in rows : row.key = pair.of
            BY <2>2 DEF Keys
        <3>2. \A r \in rows : r.key = pair.of => r = row
            BY <3>1 DEF Misread
        <3>3. row \in FilesOf(rows)
            BY <3>1, <1>9, RowCases, DriveViewAssumption DEF FilesOf
        <3>4. PICK p \in Proxies(row, trash.rows, BothForms) : p.key = pair.proxy
            <4>1. Keys(Proxies(row, trash.rows, BothForms))
                     = {q \in FileIds : [of |-> row.key, proxy |-> q] \in Pairs}
                BY <3>3 DEF Misread
            <4>2. pair.proxy \in Keys(Proxies(row, trash.rows, BothForms))
                BY <1>9, <3>1, <4>1, PairIds
            <4>. QED
                BY <4>2 DEF Keys
        <3>5. PICK own : own = <<row, row>>
            OBVIOUS
        <3>6. PICK its : its = <<row, p>>
            OBVIOUS
        <3>7. own \in Turns(rows) /\ its \in Turns(rows)
            BY <3>3, <3>4, <3>5, <3>6 DEF Turns
        <3>8. PICK i \in DOMAIN calls : order[i] = own
            BY <1>1, <1>4, <3>7
        <3>9. PICK k \in DOMAIN calls : order[k] = its
            BY <1>1, <1>4, <3>7
        <3>10. calls[i].on = {pair.of}
            BY <1>6, <3>1, <3>5, <3>8
        <3>11. calls[k].on = {pair.proxy}
            BY <1>6, <3>4, <3>6, <3>9
        <3>12. ASSUME NEW j \in DOMAIN calls, calls[j].on = {pair.of}
               PROVE  j = i
            <4>1. order[j][2].key = pair.of /\ order[j] \in Turns(rows)
                BY <1>7, <3>12
            <4>2. order[j] = <<order[j][1], order[j][1]>> /\ order[j][1] \in rows
                BY <4>1, TurnsOf
            <4>3. order[j][1] = row
                <5>1. order[j][1] = order[j][2]
                    BY <4>2
                <5>. QED
                    BY <4>1, <4>2, <5>1, <3>2
            <4>. QED
                BY <1>1, <1>4, <3>5, <3>8, <4>2, <4>3
        <3>13. ASSUME NEW j \in DOMAIN calls, calls[j].on = {pair.proxy}
               PROVE  i < j
            <4>1. order[j][2].key = pair.proxy /\ order[j] \in Turns(rows)
                BY <1>7, <3>13
            <4>2. order[j][1] \in rows /\ order[j][1].key = pair.of
                BY <4>1, TurnsOf
            <4>3. order[j][1] = row
                BY <4>2, <3>2
            <4>4. order[i] = <<order[j][1], order[j][1]>>
                BY <3>5, <3>8, <4>3
            <4>5. i <= j
                BY <1>1, <1>4, <4>4
            <4>6. i # j
                BY <1>6, <1>9, <3>10, <3>13
            <4>7. i \in Nat /\ j \in Nat
                BY <1>1, <1>4
            <4>. QED
                BY <4>5, <4>6, <4>7
        <3>14. Restoring(calls, pair)
            BY <1>10, <3>10, <3>11, <3>12, <3>13 DEF Restoring
        <3>. QED
            BY <3>14 DEF Starting
    <2>. QED
        BY <2>1, <2>2
<1>12. /\ calls \o Trash \o Tree \in Seq(StepSet)
       /\ Starting(calls \o Trash \o Tree, pair)
    <2>1. calls \o Trash \in Seq(StepSet) /\ Starting(calls \o Trash, pair)
        BY <1>4, <1>11, LoadedAfter
    <2>2. PICK work \in Seq(StepSet) : work = calls \o Trash
        BY <2>1
    <2>. QED
        BY <2>1, <2>2, LoadedAfter
<1>. QED
    BY <1>8, <1>12, AskedTasks

\* The server stays, and what is begun is no more than begun.
StartsTasks ==
    /\ UNCHANGED server
    /\ \A u \in Tasks :
          \/ tasks'[u].todo = tasks[u].todo
          \/ ~Busy(u) /\ \A pair \in Pairs : Starting(tasks'[u].todo, pair)

\* One task is begun, or none.
LEMMA BegunStarts ==
    ASSUME TasksTyped, UNCHANGED server, NEW task,
           \A pair \in Pairs : Starting(task.todo, pair),
           \/ Begins(task)
           \/ \E t \in Free : tasks' = [tasks EXCEPT ![t] = task]
    PROVE  StartsTasks
<1>1. PICK t \in Free : tasks' = [tasks EXCEPT ![t] = task]
    BY DEF Begins
<1>2. ASSUME NEW u \in Tasks
      PROVE  tasks'[u] = tasks[u] \/ (~Busy(u) /\ tasks'[u] = task)
    BY <1>1 DEF TasksTyped, Free
<1>. QED
    BY <1>2 DEF StartsTasks

LEMMA NoneStarts ==
    ASSUME UNCHANGED <<server, tasks>>
    PROVE  StartsTasks
    BY DEF StartsTasks

\* What is asked before it is done for one item is asked of one item.
OneAsked ==
    dialog # Absent /\ dialog.do \in {"trash", "purge", "rename"} =>
        \A r, s \in dialog.rows : r.key = s.key

\* Only menus, the bar over a selection and buttons of the drive ask.
LEMMA OneAskedStep == ASSUME Typed, OneAsked, [Next]_vars PROVE OneAsked'
<1>1. ASSUME UNCHANGED dialog \/ dialog' = Absent
      PROVE  OneAsked'
    BY <1>1 DEF OneAsked
<1>2. ASSUME NEW do, NEW rows, dialog' = Dialog(do, rows),
             do \in {"trash", "purge", "rename"} => \A r, s \in rows : r.key = s.key
      PROVE  OneAsked'
    BY <1>2 DEF OneAsked, Dialog
<1>3. ASSUME NEW t \in Tasks, TaskStep(t)
      PROVE  UNCHANGED dialog
    BY <1>3 DEF TaskStep, RequestMade, RequestFails, TwinFound, LoadServed, LoadNamed,
       LoadFails, TreeShown, TrashShown, PinsShown, PinKept, screen
<1>4. ASSUME NavigationSteps
      PROVE  UNCHANGED dialog
    BY <1>4 DEF NavigationSteps, GoBack, GoForward, NavigateUp, OpenFolder, ShowsFolder,
       ViewChange, screen
<1>5. ASSUME LockSteps
      PROVE  UNCHANGED dialog
    BY <1>5 DEF LockSteps, LockDrive, Unlock, ThumbnailAsked, ThumbnailRead, screen
<1>6. CASE ChoiceSteps
    <2>1. CASE RowSteps \/ CloseMenu \/ DragEnd \/ Cancel
               \/ \E rows \in SUBSET Shown, ctrl \in BOOLEAN : DrawBox(rows, ctrl)
        BY <1>1, <2>1 DEF RowSteps, Click, CtrlClick, OpenMenu, DragStart, DrawBox, CloseMenu,
           DragEnd, Cancel, screen
    <2>2. ASSUME NEW do, MenuAsks(do)
          PROVE  OneAsked'
        <3>1. PICK row : dialog' = Dialog(do, {row})
            BY <2>2 DEF MenuAsks
        <3>. QED
            BY <1>2, <3>1
    <2>3. CASE BulkAsks
        <3>1. PICK do \in {"bulkPurge", "bulkTrash"} : dialog' = Dialog(do, SelectedFiles)
            BY <2>3 DEF BulkAsks
        <3>. QED
            BY <1>2, <3>1
    <2>4. ASSUME NEW do \in {"empty", "create"}, DriveAsks(do)
          PROVE  OneAsked'
        BY <1>2, <2>4 DEF DriveAsks
    <2>5. ASSUME NEW d \in Folders, NEW do, PinAsks(d, do)
          PROVE  OneAsked'
        <3>1. dialog' = Dialog(do, RowOf(d))
            BY <2>5 DEF PinAsks
        <3>. QED
            BY <1>2, <3>1 DEF RowOf
    <2>. QED
        BY <1>6, <2>1, <2>2, <2>3, <2>4, <2>5 DEF ChoiceSteps
<1>7. CASE UserSteps
    <2>1. UNCHANGED dialog \/ dialog' = Absent
        BY <1>7 DEF UserSteps, Confirm, MenuRestores, BulkRestores, TogglePinned, PinUnpins,
           DropOn, DropStarted, Dropped, DropUnread, screen
    <2>. QED
        BY <1>1, <2>1
<1>8. CASE UNCHANGED vars
    BY <1>1, <1>8 DEF vars, screen
<1>. QED
    BY <1>1, <1>3, <1>4, <1>5, <1>6, <1>7, <1>8 DEF Next, TaskSteps, TaskStep

\* Of one item that is not a proxy.
LEMMA LoneRows ==
    ASSUME NEW rows, NEW r \in rows, ~Lone(rows), \A s \in rows : r.key = s.key,
           NEW pair \in Pairs
    PROVE  r.key # pair.proxy
    BY PairIds DEF Lone, Keys

\* What is confirmed, unless it takes one of a pair alone.
LEMMA ConfirmStarts ==
    ASSUME Typed, OneAsked, Confirm, "strays" \notin odd'
    PROVE  StartsTasks
<1>1. /\ dialog \in Dialogs /\ dialog.rows \in SUBSET Row /\ current \in Places
      /\ trash.rows \in SUBSET Row
    BY DEF Confirm, Typed, ScreenOK, Dialogs, PlaceOK, CopiesOK, Copy
<1>2. TasksTyped /\ UNCHANGED server /\ dialog # Absent
    BY DEF Confirm, Typed, TasksOK
<1>3. ASSUME NEW todo \in Seq(StepSet), Begins(Task(todo)),
             \A pair \in Pairs : Starting(todo, pair)
      PROVE  StartsTasks
    <2>1. Task(todo).todo = todo
        BY AskedTasks
    <2>2. PICK task : task = Task(todo)
        OBVIOUS
    <2>. QED
        BY <1>2, <1>3, <2>1, <2>2, BegunStarts
<1>4. \A parts : Strays(parts) => ~parts
    BY DEF Strays
<1>5. \/ /\ dialog.do \in {"trash", "purge", "rename"} /\ ~Lone(dialog.rows)
         /\ \E r \in dialog.rows :
               \/ Begins(Task(TrashItem(r))) \/ Begins(Task(PermanentDeleteItem(r)))
               \/ \E b \in Bases : Begins(Task(RenameItem(r, b)))
      \/ Begins(BatchTrashItems(dialog.rows)) /\ ~Parted(dialog.rows)
      \/ Begins(BatchPermanentDeleteItems(dialog.rows)) /\ ~Parted(WithProxies(dialog.rows))
      \/ Begins(Task(<<Step("empty", {}, Absent)>> \o Trash))
      \/ Begins(Task(<<Step("create", {}, current)>> \o Tree))
    BY <1>4 DEF Confirm
<1>6. ASSUME dialog.do \in {"trash", "purge", "rename"}, ~Lone(dialog.rows),
             NEW r \in dialog.rows,
             \/ Begins(Task(TrashItem(r))) \/ Begins(Task(PermanentDeleteItem(r)))
             \/ \E b \in Bases : Begins(Task(RenameItem(r, b)))
      PROVE  StartsTasks
    <2>1. \A pair \in Pairs : r.key # pair.proxy
        BY <1>2, <1>6, LoneRows DEF OneAsked
    <2>2. r \in Row
        BY <1>1
    <2>3. \A pair \in Pairs : /\ Starting(TrashItem(r), pair)
                              /\ Starting(PermanentDeleteItem(r), pair)
                              /\ \A b \in Bases : Starting(RenameItem(r, b), pair)
        BY <2>1, <2>2, ItemsStart
    <2>4. /\ TrashItem(r) \in Seq(StepSet) /\ PermanentDeleteItem(r) \in Seq(StepSet)
          /\ \A b \in Bases : RenameItem(r, b) \in Seq(StepSet)
        BY <2>2, ItemPlans DEF Plan
    <2>5. CASE Begins(Task(TrashItem(r)))
        BY <1>3, <2>3, <2>4, <2>5
    <2>6. CASE Begins(Task(PermanentDeleteItem(r)))
        BY <1>3, <2>3, <2>4, <2>6
    <2>7. ASSUME NEW b \in Bases, Begins(Task(RenameItem(r, b)))
          PROVE  StartsTasks
        BY <1>3, <2>3, <2>4, <2>7
    <2>. QED
        BY <1>6, <2>5, <2>6, <2>7
<1>7. CASE Begins(BatchTrashItems(dialog.rows)) /\ ~Parted(dialog.rows)
    <2>1. \A pair \in Pairs : Starting(BatchTrashItems(dialog.rows).todo, pair)
        BY <1>1, <1>7, BatchesStart
    <2>. QED
        BY <1>2, <1>7, <2>1, BegunStarts
<1>8. CASE Begins(BatchPermanentDeleteItems(dialog.rows)) /\ ~Parted(WithProxies(dialog.rows))
    <2>1. \A pair \in Pairs : Starting(BatchPermanentDeleteItems(dialog.rows).todo, pair)
        BY <1>1, <1>8, BatchesStart
    <2>. QED
        BY <1>2, <1>8, <2>1, BegunStarts
<1>9. CASE \/ Begins(Task(<<Step("empty", {}, Absent)>> \o Trash))
           \/ Begins(Task(<<Step("create", {}, current)>> \o Tree))
    <2>1. /\ Step("empty", {}, Absent) \in StepSet
          /\ Step("create", {}, current) \in StepSet
        BY <1>1 DEF Step, StepSet, Plain, Creations
    <2>2. /\ <<Step("empty", {}, Absent)>> \in Seq(StepSet)
          /\ <<Step("create", {}, current)>> \in Seq(StepSet)
        BY <2>1, OneOrTwo
    <2>3. /\ <<Step("empty", {}, Absent)>> \o Trash \in Seq(StepSet)
          /\ <<Step("create", {}, current)>> \o Tree \in Seq(StepSet)
        BY <2>2, LoadTypes, ConcatProperties
    <2>4. \A pair \in Pairs :
             /\ Starting(<<Step("empty", {}, Absent)>> \o Trash, pair)
             /\ Starting(<<Step("create", {}, current)>> \o Tree, pair)
        BY <1>1, OthersStart
    <2>. QED
        BY <1>3, <1>9, <2>3, <2>4
<1>. QED
    BY <1>5, <1>6, <1>7, <1>8, <1>9

\* What is restored from the menu or the bar.
LEMMA RestoredStarts ==
    ASSUME Typed, MenuRestores \/ BulkRestores, "strays" \notin odd'
    PROVE  StartsTasks
<1>1. /\ ActiveMenuFile \in SUBSET Row /\ SelectedFiles \in SUBSET Row
      /\ trash.rows \in SUBSET Row /\ TasksTyped
    BY ShownRows DEF Typed, CopiesOK, Copy, TasksOK
<1>2. UNCHANGED server
    BY DEF MenuRestores, BulkRestores
<1>3. CASE MenuRestores
    <2>1. PICK row \in ActiveMenuFile :
             /\ Begins(Task(RestoreItem(row)))
             /\ odd' = odd \cup Others({row}, pointed)
                        \cup IF Lone({row}) THEN {"strays"} ELSE {}
        BY <1>3 DEF MenuRestores
    <2>2. ~Lone({row})
        BY <2>1
    <2>3. \A pair \in Pairs : row.key # pair.proxy
        <3>1. PICK rows : rows = {row}
            OBVIOUS
        <3>. QED
            BY <2>2, <3>1, LoneRows
    <2>4. \A pair \in Pairs : Starting(RestoreItem(row), pair)
        BY <1>1, <2>3, ItemsStart
    <2>5. RestoreItem(row) \in Seq(StepSet)
        BY <1>1, ItemPlans DEF Plan
    <2>6. Task(RestoreItem(row)).todo = RestoreItem(row)
        BY <2>5, AskedTasks
    <2>. QED
        BY <1>1, <1>2, <2>1, <2>4, <2>6, BegunStarts
<1>4. CASE BulkRestores
    <2>1. PICK order \in RestoreOrders(SelectedFiles) : Begins(BatchRestoreItems(order))
        BY <1>4 DEF BulkRestores
    <2>2. ~Misread(SelectedFiles)
        BY <1>4 DEF BulkRestores
    <2>3. \A pair \in Pairs : Starting(BatchRestoreItems(order).todo, pair)
        BY <1>1, <2>2, RestoresStart
    <2>. QED
        BY <1>1, <1>2, <2>1, <2>3, BegunStarts
<1>. QED
    BY <1>3, <1>4

\* A move of neither of a pair: it looks for no proxy.
LEMMA MovesStart ==
    ASSUME Typed, NEW d \in Folders \cup {Root}, DropOn(d), "strays" \notin odd'
    PROVE  StartsTasks
<1> DEFINE move(t, at) == [Task(MoveItem(CHOOSE r \in dragged : at[r] = t, d))
                           EXCEPT !.clears = TRUE, !.joins = TRUE]
<1>1. PICK at \in [dragged -> Free] :
         tasks' = [t \in Tasks |-> IF \E r \in dragged : at[r] = t THEN move(t, at)
                                   ELSE tasks[t]]
    BY DEF DropOn
<1>2. \A r \in dragged : \A pair \in Pairs : r.key \notin {pair.of, pair.proxy}
    BY DEF DropOn, Strays
<1>3. dragged \in SUBSET Row /\ d \in Places
    BY DEF Typed, ScreenOK, Places
<1>4. ASSUME NEW t \in Tasks, \E r \in dragged : at[r] = t
      PROVE  ~Busy(t) /\ \A pair \in Pairs : Starting(move(t, at).todo, pair)
    <2>1. PICK row \in dragged : row = CHOOSE r \in dragged : at[r] = t
        BY <1>4
    <2>2. ~Busy(t)
        BY <1>4 DEF Free
    <2>3. \A pair \in Pairs : Starting(MoveItem(row, d), pair)
        BY <1>2, <1>3, OthersStart
    <2>4. MoveItem(row, d) \in Seq(StepSet)
        BY <1>3, ItemPlans DEF Plan
    <2>5. move(t, at).todo = MoveItem(row, d)
        BY <2>1, <2>4, AskedTasks
    <2>. QED
        BY <2>2, <2>3, <2>5
<1>. HIDE DEF move
<1>5. UNCHANGED server
    BY DEF DropOn
<1>. QED
    BY <1>1, <1>4, <1>5 DEF StartsTasks

\* The rest that the user does begins loads and requests about folders.
LEMMA LoadsStart ==
    ASSUME Typed,
           \/ TogglePinned \/ \E d \in Folders : PinUnpins(d)
           \/ NavigationSteps \/ LockSteps \/ ChoiceSteps
           \/ DropStarted \/ \E drop \in drops : Dropped(drop) \/ DropUnread(drop)
           \/ UNCHANGED vars
    PROVE  StartsTasks
<1>1. TasksTyped /\ list.rows \in SUBSET Row
    BY DEF Typed, TasksOK, CopiesOK, Copy
<1>2. ASSUME NEW what \in Loads
      PROVE  /\ <<Load(what)>> \in Seq(StepSet)
             /\ \A pair \in Pairs : Starting(<<Load(what)>>, pair)
    BY LoadTypes, OneOrTwo, OthersStart
<1>3. CASE TogglePinned \/ \E d \in Folders : PinUnpins(d)
    <2>1. PICK d \in Folders \ pending, t \in Free :
             /\ UNCHANGED server
             /\ \E todo \in PinTodos(d) : tasks' = [tasks EXCEPT ![t] = Task(todo)]
        BY <1>3, PinTypes DEF PinAsked
    <2>2. PICK todo \in PinTodos(d) : tasks' = [tasks EXCEPT ![t] = Task(todo)]
        BY <2>1
    <2>3. todo \in Seq(StepSet) /\ \A pair \in Pairs : Starting(todo, pair)
        BY PinTodoTypes, OthersStart
    <2>4. Task(todo).todo = todo
        BY <2>3, AskedTasks
    <2>. QED
        BY <1>1, <2>1, <2>2, <2>3, <2>4, BegunStarts
<1>4. CASE NavigationSteps
    <2>1. /\ UNCHANGED server
          /\ \/ UNCHANGED tasks
             \/ \E t \in Free : tasks' = [tasks EXCEPT ![t] = Task(<<Load("trash")>>)]
        BY <1>4 DEF NavigationSteps, GoBack, GoForward, NavigateUp, OpenFolder, ShowsFolder,
           ViewChange, progress
    <2>2. CASE UNCHANGED tasks
        BY <2>1, <2>2, NoneStarts
    <2>3. CASE \E t \in Free : tasks' = [tasks EXCEPT ![t] = Task(<<Load("trash")>>)]
        <3>1. PICK todo \in Seq(StepSet) : todo = <<Load("trash")>>
                                           /\ \A pair \in Pairs : Starting(todo, pair)
            BY <1>2 DEF Loads
        <3>2. Task(todo).todo = todo
            BY AskedTasks
        <3>. QED
            BY <1>1, <2>1, <2>3, <3>1, <3>2, BegunStarts
    <2>. QED
        BY <2>1, <2>2, <2>3
<1>5. CASE LockSteps
    <2>1. /\ UNCHANGED server
          /\ \/ UNCHANGED tasks
             \/ \E t \in Free :
                   tasks' = [tasks EXCEPT ![t] = [Task(<<Load("names")>>) EXCEPT
                               !.rows = list.rows, !.at = list.at, !.got = "served"]]
        BY <1>5 DEF LockSteps, LockDrive, Unlock, ThumbnailAsked, ThumbnailRead, progress
    <2>2. CASE UNCHANGED tasks
        BY <2>1, <2>2, NoneStarts
    <2>3. CASE \E t \in Free :
                  tasks' = [tasks EXCEPT ![t] = [Task(<<Load("names")>>) EXCEPT
                               !.rows = list.rows, !.at = list.at, !.got = "served"]]
        <3>1. PICK todo \in Seq(StepSet) : todo = <<Load("names")>>
                                           /\ \A pair \in Pairs : Starting(todo, pair)
            BY <1>2 DEF Loads
        <3>2. PICK bare \in TaskSet : bare = Task(todo) /\ bare.todo = todo
            BY AskedTasks DEF Asked
        <3>3. PICK task : task = [bare EXCEPT !.rows = list.rows, !.at = list.at,
                                              !.got = "served"]
            OBVIOUS
        <3>4. task.todo = todo
            BY <3>2, <3>3 DEF TaskSet
        <3>5. \E t \in Free : tasks' = [tasks EXCEPT ![t] = task]
            BY <2>3, <3>1, <3>2, <3>3
        <3>6. \A pair \in Pairs : Starting(task.todo, pair)
            BY <3>1, <3>4
        <3>7. UNCHANGED server
            BY <2>1
        <3>. QED
            BY <1>1, <3>5, <3>6, <3>7, BegunStarts, Zenon
    <2>. QED
        BY <2>1, <2>2, <2>3
<1>6. CASE ChoiceSteps
    <2>1. UNCHANGED <<server, tasks>>
        BY <1>6 DEF ChoiceSteps, RowSteps, Click, CtrlClick, OpenMenu, DragStart, DrawBox,
           CloseMenu, DragEnd, MenuAsks, BulkAsks, DriveAsks, PinAsks, Cancel, progress
    <2>. QED
        BY <2>1, NoneStarts
<1>7. CASE DropStarted \/ \E drop \in drops : Dropped(drop) \/ DropUnread(drop)
    BY <1>7, NoneStarts DEF DropStarted, Dropped, DropUnread, progress
<1>8. CASE UNCHANGED vars
    BY <1>8, NoneStarts DEF vars, progress
<1>. QED
    BY <1>3, <1>4, <1>5, <1>6, <1>7, <1>8

\* Every step keeps the pairs, and they are together when the page is opened.
LEMMA TwinStep ==
    ASSUME Typed, OneAsked, TwinInv, [Next]_vars
    PROVE  TwinInv'
<1>1. CASE \E t \in Tasks : TaskStep(t)
    BY <1>1, TwinTaskStep
<1>2. CASE ~\E t \in Tasks : TaskStep(t)
    <2>. SUFFICES ASSUME But({"failed", "strays", "crossed"})', NEW pair \in Pairs
                  PROVE  PairInv(pair)'
        BY DEF TwinInv
    <2>1. odd \subseteq odd' /\ TasksTyped /\ TasksTyped'
        BY Elsewhere, Kinds DEF Typed, TasksOK
    <2>2. PairInv(pair) /\ "strays" \notin odd'
        BY <2>1 DEF TwinInv, But
    <2>3. StartsTasks
        BY <1>2, <2>2, ConfirmStarts, RestoredStarts, MovesStart, LoadsStart
           DEF Next, UserSteps, TaskSteps, TaskStep
    <2>. QED
        BY <2>1, <2>2, <2>3, PairStill DEF StartsTasks
<1>. QED
    BY <1>1, <1>2

LEMMA TwinInit == Init => TwinInv /\ OneAsked
<1>. SUFFICES ASSUME Init PROVE TwinInv /\ OneAsked
    OBVIOUS
<1>1. OneAsked
    BY DEF Init, OneAsked
<1>2. ASSUME NEW pair \in Pairs
      PROVE  PairInv(pair)
    <2>1. Paired(pair)
        BY StartsAssumption DEF Init, Paired
    <2>2. PICK t \in Tasks, u \in Tasks : t # u /\
             tasks = [v \in Tasks |-> CASE v = t -> Task(Tree)
                                        [] v = u -> Task(<<Load("pins")>>)
                                        [] OTHER -> Idle]
        BY DEF Init
    <2>3. /\ Tree \in Seq(StepSet) /\ <<Load("pins")>> \in Seq(StepSet) /\ <<>> \in Seq(StepSet)
        BY LoadTypes, OneOrTwo DEF Loads
    <2>4. Task(Tree).todo = Tree /\ Task(<<Load("pins")>>).todo = <<Load("pins")>>
          /\ Idle.todo = <<>>
        BY <2>3, AskedTasks DEF Idle
    <2>5. \A v \in Tasks : tasks[v].todo \in {Tree, <<Load("pins")>>, <<>>}
        BY <2>2, <2>4
    <2>6. Starting(Tree, pair) /\ Starting(<<Load("pins")>>, pair) /\ Starting(<<>>, pair)
        BY <2>3, OthersStart, Exclusive DEF Loads, Starting
    <2>7. \A todo \in Seq(StepSet) : Starting(todo, pair) => ~OwesIt(todo, pair)
        BY Exclusive
    <2>8. \A v \in Tasks : Starting(tasks[v].todo, pair) /\ ~OwesIt(tasks[v].todo, pair)
        BY <2>3, <2>5, <2>6, <2>7
    <2>9. \A v \in Tasks : Regular(tasks[v].todo, pair) /\ Good(tasks[v].todo, pair)
        BY <2>8 DEF Regular, Good, OwesIt
    <2>. QED
        BY <2>1, <2>8, <2>9 DEF PairInv
<1>. QED
    BY <1>1, <1>2 DEF TwinInv

\* When no method of DriveStore is under way a video and its proxy are in one
\* folder, under one name, both in the trash or none, and there is none of
\* them without the other, unless a request failed or a method took one
\* without the other, or another came between the requests for the two
\* (DriveStore.trashItem, restoreItem, renameItem, permanentDeleteItem and
\* the batches).
THEOREM ProxiesFollow == Spec => []TwinsTogether
<1>1. Init => Typed /\ OneAsked /\ TwinInv
    BY InitTyped, TwinInit
<1>2. (Typed /\ OneAsked /\ TwinInv) /\ [Next]_vars => (Typed /\ OneAsked /\ TwinInv)'
    BY Kinds, OneAskedStep, TwinStep
<1>3. TwinInv => TwinsTogether
    <2>. SUFFICES ASSUME TwinInv, Settled, But({"failed", "strays", "crossed"}),
                         NEW pair \in Pairs
                  PROVE  Together(files[pair.of], files[pair.proxy])
        BY DEF TwinsTogether
    <2>1. PairInv(pair)
        BY DEF TwinInv
    <2>2. <<>> \in Seq(StepSet)
        OBVIOUS
    <2>3. ~OwesIt(<<>>, pair)
        BY <2>2, Exclusive
    <2>4. \A t \in Tasks : tasks[t].todo = <<>>
        BY DEF Settled, Busy
    <2>5. \A t \in Tasks : ~OwesIt(tasks[t].todo, pair)
        BY <2>3, <2>4
    <2>. QED
        BY <2>1, <2>5 DEF PairInv, Paired
<1>. QED
    BY <1>1, <1>2, <1>3, PTL DEF Spec
=============================================================================
