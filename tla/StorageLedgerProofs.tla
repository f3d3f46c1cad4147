------------------------ MODULE StorageLedgerProofs ------------------------
(***************************************************************************)
(* Theorems about the storage ledger, for every set of files, folders,     *)
(* names, sizes and overlapping collectors: the quota, that live folders   *)
(* can be reached, that finished files survive, and that every transaction *)
(* moves the account by what the rows it adds and deletes are charged.     *)
(***************************************************************************)
EXTENDS StorageLedger, FiniteSetTheorems, TLAPS

-----------------------------------------------------------------------------
(***************************************************************************)
(* Charges and refunds                                                     *)
(***************************************************************************)

\* The charge of any set of rows is a natural number.
LEMMA TotalType ==
    ASSUME NEW S \in SUBSET FileIds
    PROVE  Total(S) \in Nat
<1>1. IsFiniteSet(S) /\ IsFiniteSet(1..MaxSize)
  <2>1. MaxSize \in Int /\ 1 \in Int
    BY LedgerAssumption
  <2> QED
    BY <2>1, FS_Subset, FS_Interval, LedgerAssumption
<1>2. IsFiniteSet(S \X (1..MaxSize))
  BY <1>1, FS_Product
<1>3. Bytes(S) \subseteq S \X (1..MaxSize)
  BY DEF Bytes
<1>4. IsFiniteSet(Bytes(S))
  BY <1>2, <1>3, FS_Subset
<1> QED
  BY <1>4, FS_CardinalityType DEF Total

\* A refund never adds to the account and never makes it negative.
LEMMA RefundedBounds ==
    ASSUME TypeOK, NEW x \in Nat
    PROVE  Refunded(x) \in Nat /\ Refunded(x) <= used
BY DEF TypeOK, Refunded

\* What charges are made of are natural numbers.
LEMMA ChargeParts ==
    /\ \A row \in File : row.size \in Nat
    /\ MetadataCost \in Nat
<1>1. \A row \in File : row.size \in Sizes
  BY DEF File
<1>2. 0..MaxSize \subseteq Nat
  BY LedgerAssumption
<1> QED
  BY <1>1, <1>2, LedgerAssumption

\* A row's charge is a natural number.
LEMMA ChargeType ==
    ASSUME NEW row \in File
    PROVE  Charge(row) \in Nat
BY ChargeParts DEF Charge

\* A new row has the type of a row.
LEMMA NewFileType ==
    ASSUME NEW p \in Providers, NEW s \in Sizes, NEW n \in Names,
           NEW d \in Folders \cup {Root}
    PROVE  NewFile(p, s, n, d) \in File
BY DEF NewFile, File, Uploads, Ages

\* The sets of rows the operations work on.
LEMMA RowSets ==
    /\ Rows \subseteq FileIds
    /\ Live \subseteq Rows
    /\ Trashed \subseteq Rows
    /\ Doomed \subseteq Rows
    /\ External \subseteq Rows
    /\ \A D : FilesIn(D) \subseteq Rows
BY DEF Rows, Live, Trashed, Doomed, External, FilesIn

\* A row of the table has the type of a row.
LEMMA RowType ==
    ASSUME TypeOK, NEW f \in Rows
    PROVE  f \in FileIds /\ files[f] \in File
BY DEF TypeOK, Rows

-----------------------------------------------------------------------------
(***************************************************************************)
(* Types of the updated tables                                             *)
(***************************************************************************)

Table == [FileIds -> File \cup {Absent}]

\* Deleting rows, and dating or undating their deletion, keeps the table.
LEMMA TableUpdates ==
    ASSUME TypeOK, NEW F \in SUBSET Rows, NEW age \in Ages
    PROVE  WithTrash(F, age) \in Table /\ Without(F) \in Table
<1>1. \A f \in Rows : [files[f] EXCEPT !.trash = age] \in File
  BY RowType DEF File
<1>2. \A f \in FileIds : files[f] \in File \cup {Absent}
  BY DEF TypeOK
<1> QED
  BY <1>1, <1>2, RowSets DEF WithTrash, Without, Table

\* Folder rows keep their type when some are dated, undated or deleted.
LEMMA FolderUpdates ==
    ASSUME TypeOK, NEW D, NEW age \in Ages \cup {Absent}
    PROVE  WithAge(D, age) \in [Folders -> Ages \cup {Absent}]
BY DEF TypeOK, WithAge

-----------------------------------------------------------------------------
(***************************************************************************)
(* The account                                                             *)
(***************************************************************************)

\* What every step but the quota-checked uploads does to the account.
LEMMA AccountShrinks ==
    ASSUME TypeOK, NEW x \in Nat, used' = Refunded(x)
    PROVE  used' \in Nat /\ used' <= used
BY RefundedBounds

\* An upload is let in under the quota, whatever it replaces.
LEMMA InitUploadStep ==
    ASSUME TypeOK, used <= MaxStorage,
           NEW f \in FileIds, NEW p \in Providers, NEW s \in Sizes,
           NEW n \in Names, NEW d \in Folders \cup {Root},
           InitUpload(f, p, s, n, d)
    PROVE  TypeOK' /\ used' <= MaxStorage
<1> DEFINE row == NewFile(p, s, n, d)
<1>1. row \in File /\ Charge(row) \in Nat
  BY NewFileType, ChargeType
<1>2. Rivals(n, d) \subseteq Rows
  BY RowSets DEF Rivals
<1>3. Without(Rivals(n, d)) \in Table
  BY <1>2, TableUpdates DEF Ages
<1>4. files' \in Table
  <2>1. files' = [Without(Rivals(n, d)) EXCEPT ![f] = row]
    BY DEF InitUpload
  <2> HIDE DEF row
  <2> QED
    BY <1>1, <1>3, <2>1 DEF Table
<1>5. \A g \in Rivals(n, d) : Replaced(p, files[g]) \in Nat
  <2> TAKE g \in Rivals(n, d)
  <2>1. files[g].size \in Nat /\ MetadataCost \in Nat
    BY <1>2, RowType, ChargeParts
  <2> QED
    BY <2>1 DEF Replaced
<1>6. used' \in Nat /\ used' <= MaxStorage
  <2>1. used + Charge(row) <= MaxStorage
    BY DEF InitUpload, Fits
  <2>2. CASE used' = used + Charge(row)
    BY <1>1, <2>1, <2>2, LedgerAssumption DEF TypeOK
  <2>3. ASSUME NEW g \in Rivals(n, d),
               used + Charge(row) >= Replaced(p, files[g]),
               used' = used + Charge(row) - Replaced(p, files[g])
        PROVE  used' \in Nat /\ used' <= MaxStorage
    <3> HIDE DEF row
    <3>1. Replaced(p, files[g]) \in Nat
      BY <1>5
    <3> QED
      BY <1>1, <2>1, <2>3, <3>1, LedgerAssumption DEF TypeOK
  <2> QED
    BY <2>2, <2>3 DEF InitUpload
<1> QED
  BY <1>4, <1>6 DEF InitUpload, TypeOK, Table

\* A batch is let in under the quota, all of it or none.
LEMMA BatchStep ==
    ASSUME TypeOK, NEW f \in FileIds, NEW g \in FileIds,
           NEW first \in File, NEW second \in File,
           BatchInitUploads(f, g, first, second)
    PROVE  TypeOK' /\ used' <= MaxStorage
<1>1. Charge(first) \in Nat /\ Charge(second) \in Nat
  BY ChargeType
<1>2. used' \in Nat /\ used' <= MaxStorage
  BY <1>1, LedgerAssumption DEF BatchInitUploads, Fits, TypeOK
<1> QED
  BY <1>2 DEF BatchInitUploads, TypeOK

\* Every step keeps the types and the quota.
LEMMA NextWithinQuota ==
    ASSUME TypeOK, QuotaNeverExceeded, [Next]_vars
    PROVE  TypeOK' /\ QuotaNeverExceeded'
<1> USE DEF QuotaNeverExceeded
<1> DEFINE Kept == TypeOK' /\ used' <= MaxStorage
<1> SUFFICES Kept
  BY DEF TypeOK
<1>0. \A x \in Nat : used' = Refunded(x) => used' \in Nat /\ used' <= MaxStorage
  BY AccountShrinks, LedgerAssumption DEF TypeOK
<1>1. CASE UploadSteps
  <2>1. ASSUME NEW f \in FileIds, MarkUploadComplete(f) \/ FinalizeExternalUpload(f)
        PROVE  Kept
    <3>1. f \in Rows /\ files[f] \in File
      BY <2>1, RowType, RowSets DEF MarkUploadComplete, FinalizeExternalUpload
    <3>2. [files[f] EXCEPT !.upload = "complete"] \in File
      BY <3>1 DEF File, Uploads
    <3>3. files' = [files EXCEPT ![f] = [files[f] EXCEPT !.upload = "complete"]]
      BY <2>1 DEF MarkUploadComplete, FinalizeExternalUpload
    <3> QED
      BY <2>1, <3>2, <3>3
      DEF MarkUploadComplete, FinalizeExternalUpload, TypeOK
  <2>2. ASSUME NEW f \in FileIds, NEW p \in Providers, NEW s \in Sizes,
               NEW n \in Names, NEW d \in Folders \cup {Root},
               InitUpload(f, p, s, n, d)
        PROVE  Kept
    BY <2>2, InitUploadStep
  <2>3. ASSUME NEW f \in FileIds, NEW g \in FileIds,
               NEW p \in Providers, NEW q \in Providers,
               NEW s \in Sizes, NEW t \in Sizes,
               NEW n \in Names, NEW m \in Names,
               NEW d \in Folders \cup {Root}, NEW e \in Folders \cup {Root},
               BatchInitUploads(f, g, NewFile(p, s, n, d), NewFile(q, t, m, e))
        PROVE  Kept
    BY <2>3, BatchStep, NewFileType
  <2> QED
    BY <1>1, <2>1, <2>2, <2>3 DEF UploadSteps
<1>2. CASE FileSteps
  <2>1. ASSUME NEW F \in SUBSET FileIds, DeleteFiles(F)
        PROVE  Kept
    BY <2>1, TableUpdates, RowSets DEF DeleteFiles, TypeOK, Table, Ages
  <2>2. ASSUME NEW F \in SUBSET FileIds, HardDeleteFiles(F)
        PROVE  Kept
    <3>1. used' \in Nat /\ used' <= MaxStorage
      BY <1>0, <2>2, TotalType DEF HardDeleteFiles
    <3>2. files' \in Table
      BY <2>2, TableUpdates, RowSets DEF HardDeleteFiles, Ages
    <3> QED
      BY <2>2, <3>1, <3>2 DEF HardDeleteFiles, TypeOK, Table
  <2>3. ASSUME NEW f \in FileIds, RestoreFile(f)
        PROVE  Kept
    <3> DEFINE d == IF LiveFolder(files[f].folder) THEN files[f].folder ELSE Root
    <3>1. f \in Rows /\ files[f] \in File
      BY <2>3, RowType, RowSets DEF RestoreFile
    <3>2. d \in Folders \cup {Root}
      BY <3>1 DEF File
    <3>3. [[files[f] EXCEPT !.trash = "live"] EXCEPT !.folder = d] \in File
      <4> HIDE DEF d
      <4> QED
        BY <3>1, <3>2 DEF File, Ages
    <3>4. files' = [files EXCEPT
                      ![f] = [[files[f] EXCEPT !.trash = "live"]
                                EXCEPT !.folder = d]]
      BY <2>3, <3>1 DEF RestoreFile, TypeOK
    <3> HIDE DEF d
    <3>5. files' \in Table
      BY <3>3, <3>4 DEF TypeOK, Table
    <3> QED
      BY <2>3, <3>5 DEF RestoreFile, TypeOK, Table
  <2>4. ASSUME NEW f \in FileIds, NEW n \in Names, NEW d \in Folders \cup {Root},
               UpdateFile(f, n, d)
        PROVE  Kept
    <3>1. f \in Rows /\ files[f] \in File
      BY <2>4, RowType, RowSets DEF UpdateFile
    <3>2. [[files[f] EXCEPT !.name = n] EXCEPT !.folder = d] \in File
      BY <3>1 DEF File
    <3>3. files' = [files EXCEPT
                      ![f] = [[files[f] EXCEPT !.name = n] EXCEPT !.folder = d]]
      BY <2>4, <3>1 DEF UpdateFile, TypeOK
    <3>4. files' \in Table
      BY <3>2, <3>3 DEF TypeOK, Table
    <3> QED
      BY <2>4, <3>4 DEF UpdateFile, TypeOK, Table
  <2>5. CASE EmptyTrash
    <3> DEFINE doomed == FolderTrees({d \in Folders :
                                        folders[d] \in {"recent", "expired"}})
    <3>1. used' \in Nat /\ used' <= MaxStorage
      BY <1>0, <2>5, TotalType, RowSets DEF EmptyTrash
    <3>2. Trashed \cup FilesIn(doomed) \subseteq Rows
      BY RowSets
    <3>3. files' \in Table
      BY <2>5, <3>2, TableUpdates DEF EmptyTrash, Ages
    <3>4. folders' \in [Folders -> Ages \cup {Absent}]
      BY <2>5 DEF EmptyTrash, TypeOK
    <3> QED
      BY <2>5, <3>1, <3>3, <3>4 DEF EmptyTrash, TypeOK, Table
  <2>6. CASE UnlinkAccount
    <3>1. IsFiniteSet(External)
      BY FS_Subset, RowSets, LedgerAssumption
    <3>2. Cardinality(External) * MetadataCost \in Nat
      BY <3>1, FS_CardinalityType, LedgerAssumption
    <3>3. used' \in Nat /\ used' <= MaxStorage
      BY <1>0, <2>6, <3>2 DEF UnlinkAccount
    <3>4. files' \in Table
      BY <2>6, TableUpdates, RowSets DEF UnlinkAccount, Ages
    <3> QED
      BY <2>6, <3>3, <3>4 DEF UnlinkAccount, TypeOK, Table
  <2> QED
    BY <1>2, <2>1, <2>2, <2>3, <2>4, <2>5, <2>6 DEF FileSteps
<1>3. CASE FolderSteps
  <2>1. ASSUME NEW d \in Folders, NEW p \in Folders \cup {Root},
               CreateFolder(d, p) \/ UpdateFolder(d, p)
        PROVE  Kept
    BY <2>1 DEF CreateFolder, UpdateFolder, TypeOK, Ages
  <2>2. ASSUME NEW d \in Folders, DeleteFolder(d)
        PROVE  Kept
    <3>1. files' \in Table
      BY <2>2, TableUpdates, RowSets DEF DeleteFolder, Ages
    <3>2. folders' \in [Folders -> Ages \cup {Absent}]
      BY <2>2, FolderUpdates DEF DeleteFolder, Ages
    <3> QED
      BY <2>2, <3>1, <3>2 DEF DeleteFolder, TypeOK, Table
  <2>3. ASSUME NEW d \in Folders, RestoreFolder(d)
        PROVE  Kept
    <3>1. files' \in Table
      BY <2>3, TableUpdates, RowSets DEF RestoreFolder, Ages
    <3>2. folders' \in [Folders -> Ages \cup {Absent}]
      BY <2>3, FolderUpdates DEF RestoreFolder, Ages
    <3>3. parent' \in [Folders -> Folders \cup {Root}]
      BY <2>3 DEF RestoreFolder, TypeOK
    <3> QED
      BY <2>3, <3>1, <3>2, <3>3 DEF RestoreFolder, TypeOK, Table
  <2>4. ASSUME NEW D \in SUBSET Folders, BatchDeleteFolders(D)
        PROVE  Kept
    <3> DEFINE doomed == FolderTrees({d \in D : folders[d] = "live"})
    <3>0. FilesIn(doomed) \cap Live \subseteq Rows
      BY RowSets
    <3>1. files' \in Table
      BY <2>4, <3>0, TableUpdates DEF BatchDeleteFolders, Ages
    <3>2. folders' \in [Folders -> Ages \cup {Absent}]
      BY <2>4, FolderUpdates DEF BatchDeleteFolders, Ages
    <3> QED
      BY <2>4, <3>1, <3>2 DEF BatchDeleteFolders, TypeOK, Table
  <2>5. ASSUME NEW D \in SUBSET Folders, HardDeleteFolders(D)
        PROVE  Kept
    <3> DEFINE doomed == FolderTrees({d \in D :
                                        folders[d] \in {"recent", "expired"}})
    <3>0. FilesIn(doomed) \subseteq Rows /\ FilesIn(doomed) \subseteq FileIds
      BY RowSets
    <3>1. used' \in Nat /\ used' <= MaxStorage
      BY <1>0, <2>5, <3>0, TotalType DEF HardDeleteFolders
    <3>2. files' \in Table
      BY <2>5, <3>0, TableUpdates DEF HardDeleteFolders, Ages
    <3>3. folders' \in [Folders -> Ages \cup {Absent}]
      BY <2>5, FolderUpdates DEF HardDeleteFolders
    <3> QED
      BY <2>5, <3>1, <3>2, <3>3 DEF HardDeleteFolders, TypeOK, Table
  <2> QED
    BY <1>3, <2>1, <2>2, <2>3, <2>4, <2>5 DEF FolderSteps
<1>4. CASE CollectorSteps
  <2>1. ASSUME NEW g \in Collectors, CollectorReads(g)
        PROVE  Kept
    <3>1. Total(Doomed) \in Nat
      BY TotalType, RowSets
    <3> QED
      BY <2>1, <3>1 DEF CollectorReads, TypeOK
  <2>2. ASSUME NEW g \in Collectors, CollectorCommits(g)
        PROVE  Kept
    <3> DEFINE gone == FolderTrees({d \in Folders : folders[d] = "expired"})
    <3>0. Doomed \cup FilesIn(gone) \subseteq Rows
      BY RowSets
    <3>1. refund[g] \in Nat
      BY <2>2 DEF CollectorCommits, TypeOK
    <3>2. used' \in Nat /\ used' <= MaxStorage
      BY <1>0, <2>2, <3>1 DEF CollectorCommits
    <3>3. files' \in Table
      BY <2>2, <3>0, TableUpdates DEF CollectorCommits, Ages
    <3>4. folders' \in [Folders -> Ages \cup {Absent}]
      BY <2>2, FolderUpdates DEF CollectorCommits
    <3> QED
      BY <2>2, <3>2, <3>3, <3>4 DEF CollectorCommits, TypeOK, Table
  <2>3. ASSUME NEW g \in Collectors, CollectorFails(g)
        PROVE  Kept
    BY <2>3 DEF CollectorFails, TypeOK
  <2> QED
    BY <1>4, <2>1, <2>2, <2>3 DEF CollectorSteps
<1>5. ASSUME NEW f \in Rows
      PROVE  /\ Abandoned(files[f]) \in File
             /\ Expired(Abandoned(files[f])) \in File
  <2>1. \A row \in File : Abandoned(row) \in File
    BY DEF Abandoned, File, Uploads
  <2>2. \A row \in File : Expired(row) \in File
    BY DEF Expired, File, Ages
  <2> QED
    BY <2>1, <2>2, RowType
<1>6. CASE HoursPass
  BY <1>5, <1>6 DEF HoursPass, TypeOK
<1>7. CASE MonthPasses
  BY <1>5, <1>7 DEF MonthPasses, TypeOK, Ages
<1>8. CASE UNCHANGED vars
  BY <1>8 DEF vars, TypeOK
<1> QED
  BY <1>1, <1>2, <1>3, <1>4, <1>6, <1>7, <1>8 DEF Next

\* The tables keep their types and the account stays between zero and the
\* quota, whatever the sizes, however many collectors overlap and however
\* stale their refunds are.
THEOREM WithinQuota == Spec => [](TypeOK /\ QuotaNeverExceeded)
<1>1. Init => TypeOK /\ QuotaNeverExceeded
  BY LedgerAssumption DEF Init, TypeOK, QuotaNeverExceeded
<1>2. TypeOK /\ QuotaNeverExceeded /\ [Next]_vars
         => TypeOK' /\ QuotaNeverExceeded'
  BY NextWithinQuota
<1> QED
  BY <1>1, <1>2, PTL DEF Spec

-----------------------------------------------------------------------------
(***************************************************************************)
(* Folder trees                                                            *)
(***************************************************************************)

\* A set of folders that holds what is below its members.
Closed(S) ==
    \A g \in Folders : folders[g] # Absent /\ parent[g] \in S => g \in S

\* The tree of a folder is closed, has the folder in it, and is the least
\* such set.
LEMMA TreeClosed ==
    ASSUME NEW d \in Folders
    PROVE  /\ d \in FolderTree(d)
           /\ FolderTree(d) \subseteq Folders
           /\ Closed(FolderTree(d))
BY DEF FolderTree, Closed

LEMMA TreeLeast ==
    ASSUME NEW d \in Folders, NEW S \in SUBSET Folders, d \in S, Closed(S)
    PROVE  FolderTree(d) \subseteq S
BY DEF FolderTree, Closed

\* Every folder of a tree but its top is there because its parent is.
LEMMA TreeParents ==
    ASSUME NEW d \in Folders, NEW e \in FolderTree(d), e # d
    PROVE  folders[e] # Absent /\ parent[e] \in FolderTree(d)
<1> DEFINE S == {g \in FolderTree(d) :
                    \/ g = d
                    \/ folders[g] # Absent /\ parent[g] \in FolderTree(d)}
<1>1. d \in S /\ S \in SUBSET Folders /\ Closed(S)
  BY TreeClosed DEF Closed
<1>2. FolderTree(d) \subseteq S
  BY <1>1, TreeLeast
<1> QED
  BY <1>2

\* The same of the trees of several folders.
LEMMA TreesClosed ==
    ASSUME NEW D \in SUBSET Folders
    PROVE  /\ D \subseteq FolderTrees(D)
           /\ FolderTrees(D) \subseteq Folders
           /\ Closed(FolderTrees(D))
BY TreeClosed DEF FolderTrees, Closed

LEMMA TreesLeast ==
    ASSUME NEW D \in SUBSET Folders, NEW S \in SUBSET Folders,
           D \subseteq S, Closed(S)
    PROVE  FolderTrees(D) \subseteq S
<1>1. \A d \in D : FolderTree(d) \subseteq S
  BY TreeLeast
<1> QED
  BY <1>1 DEF FolderTrees

LEMMA TreesParents ==
    ASSUME NEW D \in SUBSET Folders, NEW e \in FolderTrees(D), e \notin D
    PROVE  folders[e] # Absent /\ parent[e] \in FolderTrees(D)
<1>1. PICK d \in D : e \in FolderTree(d)
  BY DEF FolderTrees
<1>2. folders[e] # Absent /\ parent[e] \in FolderTree(d)
  BY <1>1, TreeParents
<1> QED
  BY <1>1, <1>2 DEF FolderTrees

LEMMA OneTree ==
    ASSUME NEW d \in Folders
    PROVE  FolderTree(d) = FolderTrees({d})
BY DEF FolderTrees

\* Below a folder that is not live nothing is: what is there was deleted, and
\* expires, together with it, and it is deleted no later than that.
FoldersAgree ==
    \A e \in Folders :
        folders[e] # Absent /\ parent[e] # Root /\ folders[parent[e]] # "live"
            => folders[e] = folders[parent[e]]

\* Every set of folders of one deletion date is closed, and so is the trash.
LEMMA AgesClosed ==
    ASSUME TypeOK, FoldersAgree
    PROVE  /\ \A age \in Ages \ {"live"} : Closed({d \in Folders : folders[d] = age})
           /\ Closed({d \in Folders : folders[d] \in {"recent", "expired"}})
BY LedgerAssumption DEF TypeOK, FoldersAgree, Closed, Ages

\* Deleting whole trees, and dating the deletion of those of live folders,
\* keeps a folder in agreement with its parent.
LEMMA TreesGoTogether ==
    ASSUME TypeOK, FoldersAgree, NEW D \in SUBSET Folders,
           parent' = parent,
           \/ folders' = WithAge(FolderTrees(D), Absent)
           \/ /\ folders' = WithAge(FolderTrees(D), "recent")
              /\ \A d \in D : folders[d] = "live"
    PROVE  FoldersAgree'
<1> SUFFICES ASSUME NEW e \in Folders, folders'[e] # Absent, parent[e] # Root,
                    folders'[parent[e]] # "live"
             PROVE  folders'[e] = folders'[parent[e]]
  BY DEF FoldersAgree
<1>1. parent[e] \in Folders
  BY DEF TypeOK
<1>2. \A g \in Folders : g \notin FolderTrees(D) => folders'[g] = folders[g]
  BY DEF WithAge
<1>3. CASE e \notin FolderTrees(D)
  <2>1. parent[e] \notin FolderTrees(D)
    BY <1>2, <1>3, TreesClosed DEF Closed
  <2> QED
    BY <1>1, <1>2, <1>3, <2>1 DEF FoldersAgree
<1>4. CASE e \in FolderTrees(D)
  <2>1. /\ folders' = WithAge(FolderTrees(D), "recent")
        /\ \A d \in D : folders[d] = "live"
    BY <1>4 DEF WithAge
  <2>2. CASE e \in D
    <3>1. folders[e] = "live"
      BY <2>1, <2>2
    <3>2. folders[parent[e]] = "live"
      BY <3>1, <1>1, LedgerAssumption DEF FoldersAgree, Ages
    <3>3. parent[e] \in FolderTrees(D)
      BY <1>1, <1>2, <3>2
    <3> QED
      BY <1>1, <1>4, <2>1, <3>3 DEF WithAge
  <2>3. CASE e \notin D
    BY <1>1, <1>4, <2>1, <2>3, TreesParents DEF WithAge
  <2> QED
    BY <2>2, <2>3
<1> QED
  BY <1>3, <1>4

\* Every step keeps folders in agreement with their parents.
LEMMA FoldersAgreeStep ==
    ASSUME TypeOK, FoldersAgree, [Next]_vars
    PROVE  FoldersAgree'
<1>1. ASSUME NEW d \in Folders, NEW p \in Folders \cup {Root}, CreateFolder(d, p)
      PROVE  FoldersAgree'
  BY <1>1, LedgerAssumption DEF CreateFolder, LiveFolder, FoldersAgree, TypeOK, Ages
<1>2. ASSUME NEW d \in Folders, NEW p \in Folders \cup {Root}, UpdateFolder(d, p)
      PROVE  FoldersAgree'
  BY <1>2, LedgerAssumption DEF UpdateFolder, LiveFolder, FoldersAgree, TypeOK, Ages
<1>3. ASSUME NEW d \in Folders, DeleteFolder(d) PROVE FoldersAgree'
  <2>1. /\ folders' = WithAge(FolderTrees({d}), "recent") /\ parent' = parent
        /\ {d} \in SUBSET Folders /\ \A e \in {d} : folders[e] = "live"
    BY <1>3, OneTree DEF DeleteFolder
  <2> QED
    BY <2>1, TreesGoTogether
<1>4. ASSUME NEW D \in SUBSET Folders, BatchDeleteFolders(D) PROVE FoldersAgree'
  <2> DEFINE chosen == {d \in D : folders[d] = "live"}
  <2>1. /\ folders' = WithAge(FolderTrees(chosen), "recent") /\ parent' = parent
        /\ chosen \in SUBSET Folders /\ \A d \in chosen : folders[d] = "live"
    BY <1>4 DEF BatchDeleteFolders
  <2> HIDE DEF chosen
  <2> QED
    BY <2>1, TreesGoTogether
<1>5. ASSUME NEW D \in SUBSET Folders, HardDeleteFolders(D) PROVE FoldersAgree'
  <2> DEFINE chosen == {d \in D : folders[d] \in {"recent", "expired"}}
  <2>1. /\ folders' = WithAge(FolderTrees(chosen), Absent) /\ parent' = parent
        /\ chosen \in SUBSET Folders
    BY <1>5 DEF HardDeleteFolders
  <2> HIDE DEF chosen
  <2> QED
    BY <2>1, TreesGoTogether
<1>6. ASSUME EmptyTrash PROVE FoldersAgree'
  <2> DEFINE chosen == {d \in Folders : folders[d] \in {"recent", "expired"}}
  <2>1. /\ folders' = WithAge(FolderTrees(chosen), Absent) /\ parent' = parent
        /\ chosen \in SUBSET Folders
    BY <1>6 DEF EmptyTrash, WithAge
  <2> HIDE DEF chosen
  <2> QED
    BY <2>1, TreesGoTogether
<1>7. ASSUME NEW g \in Collectors, CollectorCommits(g) PROVE FoldersAgree'
  <2> DEFINE chosen == {d \in Folders : folders[d] = "expired"}
  <2>1. /\ folders' = WithAge(FolderTrees(chosen), Absent) /\ parent' = parent
        /\ chosen \in SUBSET Folders
    BY <1>7 DEF CollectorCommits
  <2> HIDE DEF chosen
  <2> QED
    BY <2>1, TreesGoTogether
<1>8. ASSUME NEW d \in Folders, RestoreFolder(d) PROVE FoldersAgree'
  <2> SUFFICES ASSUME NEW e \in Folders, folders'[e] # Absent, parent'[e] # Root,
                      folders'[parent'[e]] # "live"
               PROVE  folders'[e] = folders'[parent'[e]]
    BY DEF FoldersAgree
  <2>1. folders' = WithAge(FolderTree(d), "live")
    BY <1>8 DEF RestoreFolder
  <2>2. parent'[e] = parent[e] \/ e = d
    BY <1>8 DEF RestoreFolder, TypeOK
  <2>3. parent[e] \in Folders \cup {Root} /\ parent'[e] \in Folders \cup {Root}
    BY <1>8 DEF RestoreFolder, TypeOK
  <2>4. \A g \in Folders : g \notin FolderTree(d) => folders'[g] = folders[g]
    BY <2>1 DEF WithAge
  <2>5. \A g \in FolderTree(d) : folders'[g] = "live"
    BY <2>1, TreeClosed DEF WithAge
  <2>6. CASE e = d
    <3>1. folders[parent'[d]] = "live"
      BY <1>8, <2>6 DEF RestoreFolder, LiveFolder, TypeOK
    <3> QED
      BY <2>3, <2>4, <2>5, <2>6, <3>1
  <2>7. CASE e # d /\ e \in FolderTree(d)
    BY <2>2, <2>5, <2>7, TreeParents
  <2>8. CASE e # d /\ e \notin FolderTree(d)
    <3>1. parent[e] \notin FolderTree(d) /\ parent[e] \in Folders
      BY <2>2, <2>3, <2>4, <2>8, TreeClosed DEF Closed
    <3> QED
      BY <2>2, <2>4, <2>8, <3>1 DEF FoldersAgree
  <2> QED
    BY <2>6, <2>7, <2>8
<1>9. CASE MonthPasses
  BY <1>9, LedgerAssumption DEF MonthPasses, FoldersAgree, TypeOK, Ages
<1>10. CASE UNCHANGED <<folders, parent>>
  BY <1>10 DEF FoldersAgree
<1>11. ASSUME \/ UploadSteps \/ HoursPass \/ UnlinkAccount \/ UNCHANGED vars
              \/ \E F \in SUBSET FileIds : DeleteFiles(F) \/ HardDeleteFiles(F)
              \/ \E f \in FileIds : RestoreFile(f)
              \/ \E f \in FileIds, n \in Names, d \in Folders \cup {Root} :
                    UpdateFile(f, n, d)
              \/ \E g \in Collectors : CollectorReads(g) \/ CollectorFails(g)
       PROVE  UNCHANGED <<folders, parent>>
  <2>1. ASSUME UploadSteps PROVE UNCHANGED <<folders, parent>>
    <3>1. \A f, p, s, n, d : InitUpload(f, p, s, n, d) => UNCHANGED <<folders, parent>>
      BY DEF InitUpload
    <3>2. \A f, g, r, t : BatchInitUploads(f, g, r, t) => UNCHANGED <<folders, parent>>
      BY DEF BatchInitUploads
    <3>3. \A f : MarkUploadComplete(f) \/ FinalizeExternalUpload(f)
                   => UNCHANGED <<folders, parent>>
      BY DEF MarkUploadComplete, FinalizeExternalUpload
    <3> QED
      BY <2>1, <3>1, <3>2, <3>3 DEF UploadSteps
  <2> QED
    BY <1>11, <2>1 DEF HoursPass, UnlinkAccount, DeleteFiles, HardDeleteFiles,
       RestoreFile, UpdateFile, CollectorReads, CollectorFails, vars
<1> QED
  BY <1>1, <1>2, <1>3, <1>4, <1>5, <1>6, <1>7, <1>8, <1>9, <1>10, <1>11
  DEF Next, FileSteps, FolderSteps, CollectorSteps

\* No folder that is live is out of reach, however folders are moved into and
\* out of each other, trashed, restored and collected.
THEOREM FoldersReachable == Spec => []LiveFoldersReachable
<1>1. Init => FoldersAgree
  BY DEF Init, FoldersAgree
<1>2. TypeOK /\ FoldersAgree => LiveFoldersReachable
  BY LedgerAssumption DEF FoldersAgree, LiveFoldersReachable, LiveFolder, TypeOK, Ages
<1> QED
  BY <1>1, <1>2, WithinQuota, FoldersAgreeStep, PTL DEF Spec

-----------------------------------------------------------------------------
(***************************************************************************)
(* What may leave the table                                                *)
(***************************************************************************)

\* The trees of trashed folders hold nothing but trash, those of expired ones
\* nothing but what has expired.
LEMMA TrashHoldsTrash ==
    ASSUME TypeOK, FoldersAgree
    PROVE  /\ \A e \in FolderTrees({d \in Folders : folders[d] = "expired"}) :
                 folders[e] = "expired"
           /\ \A D \in SUBSET {d \in Folders : folders[d] \in {"recent", "expired"}} :
                 \A e \in FolderTrees(D) : folders[e] \in {"recent", "expired"}
<1> DEFINE old == {d \in Folders : folders[d] = "expired"}
           trash == {d \in Folders : folders[d] \in {"recent", "expired"}}
<1>1. Closed(old) /\ Closed(trash)
  BY AgesClosed DEF Ages
<1>2. FolderTrees(old) \subseteq old
  BY <1>1, TreesLeast
<1>3. \A D \in SUBSET trash : FolderTrees(D) \subseteq trash
  BY <1>1, TreesLeast
<1> QED
  BY <1>2, <1>3

LEMMA LiveFileStep ==
    ASSUME TypeOK, FoldersAgree, [Next]_vars,
           NEW f \in Live, files[f].upload = "complete",
           LiveFolder(files[f].folder), files'[f] = Absent
    PROVE  files[f].provider # "local" /\ \A g \in External : files'[g] = Absent
<1>1. f \in FileIds /\ files[f] \in File /\ files[f] # Absent /\ files[f].trash = "live"
  BY RowType, RowSets DEF Live, Rows
<1>2. \A F : f \notin F => Without(F)[f] # Absent
  BY <1>1 DEF Without
<1>3. \A row \in File : row # Absent
  BY LedgerAssumption
<1>4. ASSUME UploadSteps PROVE FALSE
  <2>1. ASSUME NEW g \in FileIds, NEW p \in Providers, NEW s \in Sizes,
               NEW n \in Names, NEW d \in Folders \cup {Root},
               InitUpload(g, p, s, n, d)
        PROVE  FALSE
    <3>1. f \notin Rivals(n, d) /\ g # f
      BY <1>1, <2>1 DEF InitUpload
    <3>2. files'[f] = Without(Rivals(n, d))[f]
      BY <1>1, <2>1, <3>1 DEF InitUpload, Without
    <3> QED
      BY <1>2, <3>1, <3>2
  <2>2. ASSUME NEW g \in FileIds, NEW h \in FileIds, NEW first, NEW second,
               BatchInitUploads(g, h, first, second)
        PROVE  FALSE
    BY <1>1, <2>2 DEF BatchInitUploads, TypeOK
  <2>3. ASSUME NEW g \in FileIds, MarkUploadComplete(g) \/ FinalizeExternalUpload(g)
        PROVE  FALSE
    <3>1. [files[f] EXCEPT !.upload = "complete"] \in File
      BY <1>1 DEF File, Uploads
    <3> QED
      BY <1>1, <1>3, <2>3, <3>1
      DEF MarkUploadComplete, FinalizeExternalUpload, TypeOK
  <2> QED
    BY <1>4, <2>1, <2>2, <2>3 DEF UploadSteps
<1>5. ASSUME FileSteps
      PROVE  files[f].provider # "local" /\ \A g \in External : files'[g] = Absent
  <2>1. ASSUME NEW F \in SUBSET FileIds, DeleteFiles(F) PROVE FALSE
    <3>1. [files[f] EXCEPT !.trash = "recent"] \in File
      BY <1>1 DEF File, Ages
    <3> QED
      BY <1>1, <1>3, <2>1, <3>1 DEF DeleteFiles, WithTrash
  <2>2. ASSUME NEW F \in SUBSET FileIds, HardDeleteFiles(F) PROVE FALSE
    BY <1>2, <2>2 DEF HardDeleteFiles, Trashed
  <2>3. ASSUME NEW g \in FileIds, RestoreFile(g) PROVE FALSE
    BY <1>1, <2>3 DEF RestoreFile, Trashed, TypeOK
  <2>4. ASSUME NEW g \in FileIds, NEW n \in Names, NEW d \in Folders \cup {Root},
               UpdateFile(g, n, d)
        PROVE  FALSE
    <3>1. [[files[f] EXCEPT !.name = n] EXCEPT !.folder = d] \in File
      BY <1>1 DEF File
    <3> QED
      BY <1>1, <1>3, <2>4, <3>1 DEF UpdateFile, TypeOK
  <2>5. ASSUME EmptyTrash PROVE FALSE
    <3> DEFINE bin == {d \in Folders : folders[d] \in {"recent", "expired"}}
    <3>1. \A e \in FolderTrees(bin) : folders[e] \in {"recent", "expired"} /\ e \in Folders
      BY TrashHoldsTrash, TreesClosed
    <3>2. files' = Without(Trashed \cup FilesIn(FolderTrees(bin)))
      BY <2>5 DEF EmptyTrash
    <3> HIDE DEF bin
    <3>3. f \notin FilesIn(FolderTrees(bin))
      BY <3>1, LedgerAssumption DEF FilesIn, LiveFolder
    <3> QED
      BY <1>2, <3>2, <3>3 DEF Trashed
  <2>6. ASSUME UnlinkAccount
        PROVE  files[f].provider # "local" /\ \A g \in External : files'[g] = Absent
    <3>1. f \in External
      BY <1>2, <2>6 DEF UnlinkAccount
    <3> QED
      BY <2>6, <3>1, RowSets DEF UnlinkAccount, External, Without
  <2> QED
    BY <1>5, <2>1, <2>2, <2>3, <2>4, <2>5, <2>6 DEF FileSteps
<1>6. \A D : \A age \in Ages : WithTrash(D, age)[f] # Absent
  <2>1. \A age \in Ages : [files[f] EXCEPT !.trash = age] \in File
    BY <1>1 DEF File
  <2> QED
    BY <1>1, <1>3, <2>1 DEF WithTrash
<1>7. ASSUME FolderSteps PROVE FALSE
  <2>1. ASSUME NEW d \in Folders, NEW p \in Folders \cup {Root},
               CreateFolder(d, p) \/ UpdateFolder(d, p)
        PROVE  FALSE
    BY <1>1, <2>1 DEF CreateFolder, UpdateFolder
  <2>2. ASSUME NEW d \in Folders, DeleteFolder(d) \/ RestoreFolder(d) PROVE FALSE
    BY <1>6, <2>2 DEF DeleteFolder, RestoreFolder, Ages
  <2>3. ASSUME NEW D \in SUBSET Folders, BatchDeleteFolders(D) PROVE FALSE
    BY <1>6, <2>3 DEF BatchDeleteFolders, Ages
  <2>4. ASSUME NEW D \in SUBSET Folders, HardDeleteFolders(D) PROVE FALSE
    <3> DEFINE chosen == {d \in D : folders[d] \in {"recent", "expired"}}
    <3>1. \A e \in FolderTrees(chosen) : folders[e] \in {"recent", "expired"} /\ e \in Folders
      BY TrashHoldsTrash, TreesClosed
    <3>2. files' = Without(FilesIn(FolderTrees(chosen)))
      BY <2>4 DEF HardDeleteFolders
    <3> HIDE DEF chosen
    <3>3. f \notin FilesIn(FolderTrees(chosen))
      BY <3>1, LedgerAssumption DEF FilesIn, LiveFolder
    <3> QED
      BY <1>2, <3>2, <3>3
  <2> QED
    BY <1>7, <2>1, <2>2, <2>3, <2>4 DEF FolderSteps
<1>8. ASSUME CollectorSteps PROVE FALSE
  <2>1. ASSUME NEW g \in Collectors, CollectorCommits(g) PROVE FALSE
    <3> DEFINE old == {d \in Folders : folders[d] = "expired"}
    <3>1. \A e \in FolderTrees(old) : folders[e] = "expired" /\ e \in Folders
      BY TrashHoldsTrash, TreesClosed
    <3>2. files' = Without(Doomed \cup FilesIn(FolderTrees(old)))
      BY <2>1 DEF CollectorCommits
    <3> HIDE DEF old
    <3>3. f \notin FilesIn(FolderTrees(old))
      BY <3>1, LedgerAssumption DEF FilesIn, LiveFolder
    <3> QED
      BY <1>1, <1>2, <3>2, <3>3 DEF Doomed
  <2> QED
    BY <1>1, <1>8, <2>1 DEF CollectorSteps, CollectorReads, CollectorFails
<1>9. ASSUME HoursPass \/ MonthPasses PROVE FALSE
  BY <1>1, <1>9 DEF HoursPass, MonthPasses, Abandoned, Expired, Live
<1>10. ASSUME UNCHANGED vars PROVE FALSE
  BY <1>1, <1>10 DEF vars
<1> QED
  BY <1>4, <1>5, <1>7, <1>8, <1>9, <1>10 DEF Next

\* A finished, live file in a live folder is deleted by nothing but the
\* unlinking of the account it is stored in, which takes all its files.
THEOREM FinishedFilesSurvive == Spec => LiveFilesSurvive
<1>1. Init => FoldersAgree
  BY DEF Init, FoldersAgree
<1>2. ASSUME TypeOK, FoldersAgree, [Next]_vars
      PROVE  [\A f \in Live :
                 /\ files[f].upload = "complete"
                 /\ LiveFolder(files[f].folder)
                 /\ files'[f] = Absent
                 => files[f].provider # "local" /\ \A g \in External : files'[g] = Absent]_vars
  BY <1>2, LiveFileStep
<1> QED
  BY <1>1, <1>2, WithinQuota, FoldersAgreeStep, PTL DEF Spec, LiveFilesSurvive

-----------------------------------------------------------------------------
(***************************************************************************)
(* Counting the bytes of a table                                           *)
(***************************************************************************)

\* What the rows S of a table t are charged, and the rows of t.
Cost(t, S) ==
    Cardinality({fb \in S \X (1..MaxSize) : fb[2] <= Charge(t[fb[1]])})

RowsOf(t) == {f \in FileIds : t[f] # Absent}

\* The charged bytes of any rows are finitely many.
LEMMA CostFinite ==
    ASSUME NEW t, NEW S \in SUBSET FileIds
    PROVE  /\ IsFiniteSet({fb \in S \X (1..MaxSize) : fb[2] <= Charge(t[fb[1]])})
           /\ Cost(t, S) \in Nat
<1>1. IsFiniteSet(S) /\ IsFiniteSet(1..MaxSize)
  <2>1. MaxSize \in Int /\ 1 \in Int
    BY LedgerAssumption
  <2> QED
    BY <2>1, FS_Subset, FS_Interval, LedgerAssumption
<1>2. IsFiniteSet(S \X (1..MaxSize))
  BY <1>1, FS_Product
<1>3. {fb \in S \X (1..MaxSize) : fb[2] <= Charge(t[fb[1]])}
         \in SUBSET (S \X (1..MaxSize))
  OBVIOUS
<1>4. IsFiniteSet({fb \in S \X (1..MaxSize) : fb[2] <= Charge(t[fb[1]])})
  BY <1>2, <1>3, FS_Subset
<1> QED
  BY <1>4, FS_CardinalityType DEF Cost

\* Disjoint finite sets have the sum of their cardinalities.
LEMMA DisjointSum ==
    ASSUME NEW A, NEW B, IsFiniteSet(A), IsFiniteSet(B), A \cap B = {}
    PROVE  Cardinality(A \cup B) = Cardinality(A) + Cardinality(B)
<1>1. Cardinality(A \cup B) = Cardinality(A) + Cardinality(B) - Cardinality({})
  BY FS_Union
<1>2. Cardinality(A) \in Nat /\ Cardinality(B) \in Nat
  BY FS_CardinalityType
<1> QED
  BY <1>1, <1>2, FS_EmptySet

\* Disjoint sets of rows are charged the sum of what each is charged.
LEMMA CostUnion ==
    ASSUME NEW t, NEW S \in SUBSET FileIds, NEW T \in SUBSET FileIds,
           S \cap T = {}
    PROVE  Cost(t, S \cup T) = Cost(t, S) + Cost(t, T)
<1> DEFINE B(R) == {fb \in R \X (1..MaxSize) : fb[2] <= Charge(t[fb[1]])}
<1>1. B(S \cup T) = B(S) \cup B(T)
  OBVIOUS
<1>2. B(S) \cap B(T) = {}
  <2>1. ASSUME NEW x \in B(S), x \in B(T) PROVE x[1] \in S \cap T
    BY <2>1
  <2> QED
    BY <2>1
<1>3. IsFiniteSet(B(S)) /\ IsFiniteSet(B(T))
  BY CostFinite
<1>4. Cost(t, S) = Cardinality(B(S)) /\ Cost(t, T) = Cardinality(B(T))
      /\ Cost(t, S \cup T) = Cardinality(B(S \cup T))
  BY DEF Cost
<1> HIDE DEF B
<1> QED
  BY <1>1, <1>2, <1>3, <1>4, DisjointSum

\* Tables that charge some rows alike.
LEMMA CostSame ==
    ASSUME NEW t, NEW u, NEW S, \A f \in S : Charge(t[f]) = Charge(u[f])
    PROVE  Cost(t, S) = Cost(u, S)
<1>1. \A fb \in S \X (1..MaxSize) : Charge(t[fb[1]]) = Charge(u[fb[1]])
  <2> TAKE fb \in S \X (1..MaxSize)
  <2>1. fb[1] \in S
    OBVIOUS
  <2> QED
    BY <2>1
<1>2. {fb \in S \X (1..MaxSize) : fb[2] <= Charge(t[fb[1]])}
         = {fb \in S \X (1..MaxSize) : fb[2] <= Charge(u[fb[1]])}
  BY <1>1
<1> QED
  BY <1>2 DEF Cost

\* Rows of one charge.
LEMMA CostEach ==
    ASSUME NEW t, NEW S \in SUBSET FileIds, NEW c \in 0..MaxSize,
           \A f \in S : Charge(t[f]) = c
    PROVE  Cost(t, S) = Cardinality(S) * c
<1>1. c \in Int /\ 0 <= c /\ c <= MaxSize /\ MaxSize \in Int
  BY LedgerAssumption
<1>2. {fb \in S \X (1..MaxSize) : fb[2] <= Charge(t[fb[1]])} = S \X (1..c)
  BY <1>1
<1>3. IsFiniteSet(1..c) /\ Cardinality(1..c) = c
  BY <1>1, FS_Interval
<1>4. IsFiniteSet(S)
  BY FS_Subset, LedgerAssumption
<1> QED
  BY <1>2, <1>3, <1>4, FS_Product DEF Cost

LEMMA CostOne ==
    ASSUME NEW t, NEW f \in FileIds, Charge(t[f]) \in 0..MaxSize
    PROVE  Cost(t, {f}) = Charge(t[f])
<1>1. Cost(t, {f}) = Cardinality({f}) * Charge(t[f])
  BY CostEach
<1>2. Cardinality({f}) = 1
  BY FS_Singleton
<1> QED
  BY <1>1, <1>2

\* No row is charged more than a row can be.
LEMMA ChargeBound ==
    ASSUME NEW row \in File
    PROVE  Charge(row) \in 0..MaxSize
BY LedgerAssumption DEF Charge, File

\* The charges of the rows before and after a step.
LEMMA TotalIsCost ==
    /\ \A S : Total(S) = Cost(files, S)
    /\ Total(Rows)' = Cost(files', RowsOf(files'))
    /\ Rows = RowsOf(files)
BY DEF Total, Bytes, Cost, Rows, RowsOf

\* A step that keeps the rows and their charges keeps the total.
LEMMA RowsKept ==
    ASSUME TypeOK,
           \A f \in FileIds : files'[f] # Absent <=> files[f] # Absent,
           \A f \in Rows : Charge(files'[f]) = Charge(files[f])
    PROVE  Total(Rows)' = Total(Rows)
<1>1. RowsOf(files') = Rows
  BY DEF RowsOf, Rows
<1> QED
  BY <1>1, TotalIsCost, CostSame

\* A step that deletes rows takes their charges off the total.
LEMMA RowsDeleted ==
    ASSUME TypeOK, NEW F \in SUBSET Rows, files' = Without(F)
    PROVE  Total(Rows) = Total(Rows)' + Total(F)
<1>1. Rows = (Rows \ F) \cup F /\ (Rows \ F) \cap F = {} /\ Rows \subseteq FileIds
  BY RowSets
<1>2. RowsOf(files') = Rows \ F /\ \A f \in Rows \ F : files'[f] = files[f]
  BY RowSets DEF RowsOf, Rows, Without
<1>3. Cost(files, Rows) = Cost(files, Rows \ F) + Cost(files, F)
  BY <1>1, CostUnion
<1>4. Cost(files', Rows \ F) = Cost(files, Rows \ F)
  BY <1>2, CostSame
<1> QED
  BY <1>2, <1>3, <1>4, TotalIsCost

\* From an account that covers them, deleting rows for the refund of their
\* charges is balanced.
LEMMA RefundBalances ==
    ASSUME TypeOK, used >= Total(Rows), NEW F \in SUBSET Rows,
           files' = Without(F), used' = Refunded(Total(F))
    PROVE  used' - used = Total(Rows)' - Total(Rows)
<1>1. Total(Rows) = Total(Rows)' + Total(F)
  BY RowsDeleted
<1>2. Total(F) \in Nat /\ Total(Rows) \in Nat
  BY TotalType, RowSets
<1>3. Total(Rows)' \in Nat
  BY TotalIsCost, CostFinite DEF RowsOf
<1> QED
  BY <1>1, <1>2, <1>3 DEF Refunded, TypeOK

-----------------------------------------------------------------------------
(***************************************************************************)
(* Names                                                                   *)
(***************************************************************************)

\* What the two unique indexes on files keep: within a folder all rows differ
\* in name, and at the root those that are live.
NamesUnique ==
    \A f, g \in Rows :
        /\ f # g
        /\ files[f].name = files[g].name
        /\ files[f].folder = files[g].folder
        => files[f].folder = Root /\ ~(f \in Live /\ g \in Live)

\* A step that names, moves and restores no row keeps names unique: rows are
\* restored with their folder only, so none at the root.
LEMMA NamesFewer ==
    ASSUME TypeOK, NamesUnique,
           \A f \in FileIds : files'[f] # Absent =>
               /\ files[f] # Absent
               /\ files'[f].name = files[f].name
               /\ files'[f].folder = files[f].folder
               /\ files'[f].trash = "live" =>
                      files[f].trash = "live" \/ files[f].folder # Root
    PROVE  NamesUnique'
BY DEF NamesUnique, Live, Rows

\* What dating and undating does to the rows.
LEMMA TrashedRows ==
    ASSUME TypeOK, NEW F \in SUBSET Rows, NEW age \in Ages,
           files' = WithTrash(F, age)
    PROVE  \A f \in FileIds :
              /\ files'[f] # Absent <=> files[f] # Absent
              /\ files[f] # Absent =>
                    /\ files'[f].provider = files[f].provider
                    /\ files'[f].size = files[f].size
                    /\ files'[f].name = files[f].name
                    /\ files'[f].folder = files[f].folder
                    /\ files'[f].trash = IF f \in F THEN age ELSE files[f].trash
<1> SUFFICES ASSUME NEW f \in FileIds
             PROVE  /\ files'[f] # Absent <=> files[f] # Absent
                    /\ files[f] # Absent =>
                          /\ files'[f].provider = files[f].provider
                          /\ files'[f].size = files[f].size
                          /\ files'[f].name = files[f].name
                          /\ files'[f].folder = files[f].folder
                          /\ files'[f].trash = IF f \in F THEN age
                                                          ELSE files[f].trash
  OBVIOUS
<1>1. CASE f \in F
  <2>1. files[f] \in File /\ files[f] # Absent
    BY <1>1, RowType DEF Rows
  <2>2. files'[f] = [files[f] EXCEPT !.trash = age]
    BY <1>1 DEF WithTrash
  <2>3. [files[f] EXCEPT !.trash = age] \in File
    BY <2>1 DEF File
  <2> QED
    BY <1>1, <2>1, <2>2, <2>3, LedgerAssumption DEF File
<1>2. CASE f \notin F
  BY <1>2 DEF WithTrash
<1> QED
  BY <1>1, <1>2

\* And what the time that passes does.
LEMMA OlderRows ==
    ASSUME TypeOK, HoursPass \/ MonthPasses
    PROVE  \A f \in FileIds :
              /\ files'[f] # Absent <=> files[f] # Absent
              /\ files[f] # Absent =>
                    /\ files'[f].provider = files[f].provider
                    /\ files'[f].size = files[f].size
                    /\ files'[f].name = files[f].name
                    /\ files'[f].folder = files[f].folder
                    /\ files'[f].trash = "live" => files[f].trash = "live"
<1>1. \A row \in File :
         /\ Abandoned(row) \in File
         /\ Abandoned(row).provider = row.provider
         /\ Abandoned(row).size = row.size
         /\ Abandoned(row).name = row.name
         /\ Abandoned(row).folder = row.folder
         /\ Abandoned(row).trash = row.trash
  BY DEF Abandoned, File, Uploads
<1>2. \A row \in File :
         /\ Expired(row) \in File
         /\ Expired(row).provider = row.provider
         /\ Expired(row).size = row.size
         /\ Expired(row).name = row.name
         /\ Expired(row).folder = row.folder
         /\ Expired(row).trash = "live" => row.trash = "live"
  BY DEF Expired, File, Ages
<1>3. \A row \in File : row # Absent
  BY LedgerAssumption
<1>4. \A f \in FileIds : files[f] # Absent => files[f] \in File
  BY DEF TypeOK
<1>5. CASE HoursPass
  BY <1>1, <1>3, <1>4, <1>5 DEF HoursPass, Rows
<1>6. CASE MonthPasses
  BY <1>1, <1>2, <1>3, <1>4, <1>6 DEF MonthPasses, Rows
<1> QED
  BY <1>5, <1>6

\* Every step keeps names unique.
LEMMA NamesUniqueStep ==
    ASSUME TypeOK, NamesUnique, [Next]_vars
    PROVE  NamesUnique'
<1>1. ASSUME NEW F, files' = Without(F) PROVE NamesUnique'
  BY <1>1, NamesFewer DEF Without
<1>2. ASSUME NEW F \in SUBSET Rows, NEW age \in Ages, files' = WithTrash(F, age),
             age = "live" => \A f \in F : files[f].folder # Root
      PROVE  NamesUnique'
  BY <1>2, TrashedRows, NamesFewer
<1>3. ASSUME NEW f \in FileIds, NEW p \in Providers, NEW s \in Sizes,
             NEW n \in Names, NEW d \in Folders \cup {Root}, InitUpload(f, p, s, n, d)
      PROVE  NamesUnique'
  <2> DEFINE row == NewFile(p, s, n, d)
             R == Rivals(n, d)
  <2>1. row.name = n /\ row.folder = d /\ row.trash = "live"
    BY DEF NewFile
  <2>2. NameFree(n, d, Rows \ R) /\ files' = [Without(R) EXCEPT ![f] = row]
    BY <1>3 DEF InitUpload
  <2>3. files'[f] = row /\ \A g \in FileIds \ {f} : files'[g] = Without(R)[g]
    BY <2>2 DEF Without
  <2> HIDE DEF row, R
  <2>4. Rows' \subseteq {f} \cup (Rows \ R)
    BY <2>3 DEF Rows, Without
  <2>5. \A g \in Rows' \ {f} : files'[g] = files[g]
    BY <2>3, <2>4 DEF Rows, Without
  <2> QED
    BY <2>1, <2>2, <2>3, <2>4, <2>5 DEF NamesUnique, NameFree, Live
<1>4. ASSUME NEW f \in FileIds, NEW g \in FileIds,
             NEW first, NEW second, first.trash = "live", second.trash = "live",
             BatchInitUploads(f, g, first, second)
      PROVE  NamesUnique'
  <2>1. /\ f # g /\ files' = [files EXCEPT ![f] = first, ![g] = second]
        /\ NameFree(first.name, first.folder, Rows)
        /\ NameFree(second.name, second.folder, Rows)
        /\ <<first.name, first.folder>> # <<second.name, second.folder>>
    BY <1>4 DEF BatchInitUploads
  <2>2. /\ files'[f] = first /\ files'[g] = second
        /\ \A h \in FileIds \ {f, g} : files'[h] = files[h]
    BY <2>1 DEF TypeOK
  <2>3. /\ Rows' \subseteq {f, g} \cup Rows
        /\ \A h \in Rows' \ {f, g} : h \in Rows /\ files'[h] = files[h]
    BY <2>2 DEF Rows
  <2>4. first.name # second.name \/ first.folder # second.folder
    BY <2>1
  <2>5. \A h \in Rows' \ {f, g} :
           /\ first.name = files'[h].name /\ first.folder = files'[h].folder
                => first.folder = Root /\ h \notin Live'
           /\ second.name = files'[h].name /\ second.folder = files'[h].folder
                => second.folder = Root /\ h \notin Live'
    BY <2>1, <2>3 DEF NameFree, Live
  <2>6. ASSUME NEW h \in Rows' \ {f, g}, NEW k \in Rows' \ {f, g}, h # k,
               files'[h].name = files'[k].name, files'[h].folder = files'[k].folder
        PROVE  files'[h].folder = Root /\ ~(h \in Live' /\ k \in Live')
    BY <2>3, <2>6 DEF NamesUnique, Live
  <2> SUFFICES ASSUME NEW h \in Rows', NEW k \in Rows', h # k,
                      files'[h].name = files'[k].name,
                      files'[h].folder = files'[k].folder
               PROVE  files'[h].folder = Root /\ ~(h \in Live' /\ k \in Live')
    BY DEF NamesUnique
  <2>7. CASE h \in {f, g} /\ k \in {f, g}
    BY <2>1, <2>2, <2>4, <2>7
  <2>8. CASE h \in {f, g} /\ k \notin {f, g}
    BY <2>2, <2>5, <2>8
  <2>9. CASE h \notin {f, g} /\ k \in {f, g}
    BY <2>2, <2>5, <2>9
  <2> QED
    BY <2>6, <2>7, <2>8, <2>9
<1>5. ASSUME NEW f \in FileIds, MarkUploadComplete(f) \/ FinalizeExternalUpload(f)
      PROVE  NamesUnique'
  <2>1. f \in Rows /\ files[f] \in File
    BY <1>5, RowType, RowSets DEF MarkUploadComplete, FinalizeExternalUpload
  <2> DEFINE row == [files[f] EXCEPT !.upload = "complete"]
  <2>2. files' = [files EXCEPT ![f] = row]
    BY <1>5 DEF MarkUploadComplete, FinalizeExternalUpload
  <2>3. row.name = files[f].name /\ row.folder = files[f].folder
        /\ row.trash = files[f].trash
    BY <2>1 DEF File
  <2> HIDE DEF row
  <2>4. files'[f] = row /\ \A g \in FileIds \ {f} : files'[g] = files[g]
    BY <2>1, <2>2 DEF TypeOK
  <2> QED
    BY <2>1, <2>3, <2>4, NamesFewer DEF Rows
<1>6. ASSUME NEW f \in FileIds, NEW row \in File, f \in Rows,
             files' = [files EXCEPT ![f] = row],
             NameFree(row.name, row.folder, Rows \ {f})
      PROVE  NamesUnique'
  <2>1. files'[f] = row /\ \A g \in FileIds \ {f} : files'[g] = files[g]
    BY <1>6 DEF TypeOK
  <2>2. Rows' = Rows
    BY <1>6, <2>1, LedgerAssumption DEF Rows
  <2> QED
    BY <1>6, <2>1, <2>2 DEF NamesUnique, NameFree, Live, Rows
<1>7. ASSUME NEW f \in FileIds, RestoreFile(f) PROVE NamesUnique'
  <2> DEFINE d == IF LiveFolder(files[f].folder) THEN files[f].folder ELSE Root
             row == [[files[f] EXCEPT !.trash = "live"] EXCEPT !.folder = d]
  <2>1. f \in Rows /\ files[f] \in File
    BY <1>7, RowType, RowSets DEF RestoreFile
  <2>2. d \in Folders \cup {Root}
    BY <2>1 DEF File
  <2>3. row \in File /\ row.name = files[f].name /\ row.folder = d
    <3> HIDE DEF d
    <3> QED
      BY <2>1, <2>2 DEF File, Ages
  <2>4. files' = [files EXCEPT ![f] = row]
    BY <1>7, <2>1 DEF RestoreFile, TypeOK
  <2>5. NameFree(files[f].name, d, Rows \ {f})
    BY <1>7 DEF RestoreFile
  <2> HIDE DEF row, d
  <2> QED
    BY <1>6, <2>1, <2>3, <2>4, <2>5
<1>8. ASSUME NEW f \in FileIds, NEW n \in Names, NEW d \in Folders \cup {Root},
             UpdateFile(f, n, d)
      PROVE  NamesUnique'
  <2> DEFINE row == [[files[f] EXCEPT !.name = n] EXCEPT !.folder = d]
  <2>1. f \in Rows /\ files[f] \in File
    BY <1>8, RowType, RowSets DEF UpdateFile
  <2>2. row \in File /\ row.name = n /\ row.folder = d
    BY <2>1 DEF File
  <2>3. files' = [files EXCEPT ![f] = row]
    BY <1>8, <2>1 DEF UpdateFile, TypeOK
  <2>4. NameFree(n, d, Rows \ {f})
    BY <1>8 DEF UpdateFile
  <2> HIDE DEF row
  <2> QED
    BY <1>6, <2>1, <2>2, <2>3, <2>4
<1>9. ASSUME UploadSteps PROVE NamesUnique'
  <2>1. \A p, s, n, d : NewFile(p, s, n, d).trash = "live"
    BY DEF NewFile
  <2> QED
    BY <1>3, <1>4, <1>5, <1>9, <2>1 DEF UploadSteps
<1>10. ASSUME FileSteps PROVE NamesUnique'
  <2>1. ASSUME NEW F \in SUBSET FileIds, DeleteFiles(F) PROVE NamesUnique'
    BY <1>2, <2>1, RowSets DEF DeleteFiles, Ages
  <2> QED
    BY <1>1, <1>7, <1>8, <1>10, <2>1
    DEF FileSteps, HardDeleteFiles, EmptyTrash, UnlinkAccount
<1>11. ASSUME FolderSteps PROVE NamesUnique'
  <2>1. ASSUME NEW d \in Folders, DeleteFolder(d) PROVE NamesUnique'
    BY <1>2, <2>1, RowSets DEF DeleteFolder, Ages
  <2>2. ASSUME NEW d \in Folders, RestoreFolder(d) PROVE NamesUnique'
    <3>1. \A f \in FilesIn(FolderTree(d)) : files[f].folder # Root
      BY TreeClosed, LedgerAssumption DEF FilesIn
    <3> QED
      BY <1>2, <2>2, <3>1, RowSets DEF RestoreFolder, Ages
  <2>3. ASSUME NEW D \in SUBSET Folders, BatchDeleteFolders(D) PROVE NamesUnique'
    <3> DEFINE doomed == FolderTrees({d \in D : folders[d] = "live"})
    <3>1. FilesIn(doomed) \cap Live \in SUBSET Rows
      BY RowSets
    <3> QED
      BY <1>2, <2>3, <3>1 DEF BatchDeleteFolders, Ages
  <2>4. ASSUME NEW D \in SUBSET Folders, HardDeleteFolders(D) PROVE NamesUnique'
    BY <1>1, <2>4 DEF HardDeleteFolders
  <2>5. ASSUME NEW d \in Folders, NEW p \in Folders \cup {Root},
               CreateFolder(d, p) \/ UpdateFolder(d, p)
        PROVE  NamesUnique'
    BY <2>5 DEF CreateFolder, UpdateFolder, NamesUnique, Live, Rows
  <2> QED
    BY <1>11, <2>1, <2>2, <2>3, <2>4, <2>5 DEF FolderSteps
<1>12. ASSUME CollectorSteps PROVE NamesUnique'
  <2>1. ASSUME NEW g \in Collectors, CollectorCommits(g) PROVE NamesUnique'
    BY <1>1, <2>1 DEF CollectorCommits
  <2>2. ASSUME NEW g \in Collectors, CollectorReads(g) \/ CollectorFails(g)
        PROVE  NamesUnique'
    BY <2>2 DEF CollectorReads, CollectorFails, NamesUnique, Live, Rows
  <2> QED
    BY <1>12, <2>1, <2>2 DEF CollectorSteps
<1>13. ASSUME HoursPass \/ MonthPasses PROVE NamesUnique'
  BY <1>13, OlderRows, NamesFewer
<1>14. ASSUME UNCHANGED vars PROVE NamesUnique'
  BY <1>14 DEF vars, NamesUnique, Live, Rows
<1> QED
  BY <1>9, <1>10, <1>11, <1>12, <1>13, <1>14 DEF Next

-----------------------------------------------------------------------------
(***************************************************************************)
(* The balance                                                             *)
(***************************************************************************)
Balance == used' - used = Total(Rows)' - Total(Rows)

\* Rows R go and rows N come, the others are charged as before.
LEMMA TotalMoves ==
    ASSUME TypeOK, NEW R \in SUBSET Rows, NEW N \in SUBSET FileIds, N \cap Rows = {},
           RowsOf(files') = (Rows \ R) \cup N,
           \A g \in Rows \ R : files'[g] = files[g]
    PROVE  /\ Total(Rows)' + Cost(files, R) = Total(Rows) + Cost(files', N)
           /\ Total(Rows) \in Nat /\ Total(Rows)' \in Nat
           /\ Cost(files, R) \in Nat /\ Cost(files', N) \in Nat
<1> DEFINE K == Rows \ R
<1>1. /\ K \in SUBSET FileIds /\ R \in SUBSET FileIds /\ Rows = K \cup R
      /\ K \cap R = {} /\ K \cap N = {}
  BY RowSets
<1>2. Cost(files, Rows) = Cost(files, K) + Cost(files, R)
  BY <1>1, CostUnion
<1>3. Cost(files', K \cup N) = Cost(files', K) + Cost(files', N)
  BY <1>1, CostUnion
<1>4. Cost(files', K) = Cost(files, K)
  BY CostSame
<1>5. Cost(files, K) \in Nat /\ Cost(files, R) \in Nat /\ Cost(files', N) \in Nat
  BY <1>1, CostFinite
<1>6. Total(Rows) = Cost(files, Rows) /\ Total(Rows)' = Cost(files', K \cup N)
  BY TotalIsCost
<1> HIDE DEF K
<1> QED
  BY <1>2, <1>3, <1>4, <1>5, <1>6

\* An upload is charged what its row counts, and a replaced row refunded it,
\* unless it is kept elsewhere.
LEMMA InitUploadBalances ==
    ASSUME TypeOK, NamesUnique,
           NEW f \in FileIds, NEW p \in Providers, NEW s \in Sizes,
           NEW n \in Names, NEW d \in Folders \cup {Root},
           InitUpload(f, p, s, n, d)
    PROVE  Balance \/ ReplacesAcrossProviders
<1> DEFINE row == NewFile(p, s, n, d)
           R == Rivals(n, d)
<1>1. /\ row \in File /\ row # Absent /\ row.provider = p
      /\ Charge(row) \in Nat /\ Charge(row) \in 0..MaxSize
  <2>1. row \in File /\ row.provider = p
    BY NewFileType DEF NewFile
  <2> HIDE DEF row
  <2> QED
    BY <2>1, ChargeType, ChargeBound, LedgerAssumption
<1>2. R \in SUBSET Rows /\ R \subseteq Live
  BY RowSets DEF Rivals
<1>3. /\ files[f] = Absent
      /\ files' = [Without(R) EXCEPT ![f] = row]
      /\ \A g \in R : files[g].upload # "complete"
  BY DEF InitUpload
<1>4. \/ R = {} /\ used' = used + Charge(row)
      \/ \E g \in R : used' = used + Charge(row) - Replaced(p, files[g])
  BY DEF InitUpload
<1>5. \A g, h \in R : g = h
  BY <1>2 DEF NamesUnique, Rivals
<1> HIDE DEF row
<1>6. files'[f] = row /\ \A g \in FileIds \ {f} : files'[g] = Without(R)[g]
  BY <1>3 DEF Without
<1> HIDE DEF R
<1>7. f \notin Rows
  BY <1>3 DEF Rows
<1>8. RowsOf(files') = (Rows \ R) \cup {f}
  BY <1>1, <1>6, <1>7 DEF RowsOf, Rows, Without
<1>9. \A g \in Rows \ R : files'[g] = files[g]
  BY <1>6, <1>7, RowSets DEF Without
<1>10. /\ Total(Rows)' + Cost(files, R) = Total(Rows) + Cost(files', {f})
       /\ Total(Rows) \in Nat /\ Total(Rows)' \in Nat
  <2>1. {f} \in SUBSET FileIds /\ {f} \cap Rows = {}
    BY <1>7
  <2> QED
    BY <1>2, <1>8, <1>9, <2>1, TotalMoves
<1>11. Cost(files', {f}) = Charge(row)
  BY <1>1, <1>6, CostOne
<1>12. CASE R = {} /\ used' = used + Charge(row)
  <2>1. Cost(files, {}) = 0
    <3>1. {fb \in {} \X (1..MaxSize) : fb[2] <= Charge(files[fb[1]])} = {}
      OBVIOUS
    <3> QED
      BY <3>1, FS_EmptySet DEF Cost
  <2> QED
    BY <1>1, <1>10, <1>11, <1>12, <2>1 DEF Balance, TypeOK
<1>13. ASSUME NEW g \in R, used' = used + Charge(row) - Replaced(p, files[g])
       PROVE  Balance \/ ReplacesAcrossProviders
  <2>1. g \in Rows /\ g \in FileIds /\ files[g] \in File /\ g # f
    BY <1>2, <1>7, RowType
  <2>2. CASE files[g].provider = p
    <3>1. R = {g}
      BY <1>5
    <3>2. Cost(files, {g}) = Charge(files[g]) /\ Charge(files[g]) \in Nat
      BY <2>1, CostOne, ChargeBound, ChargeType
    <3>3. Replaced(p, files[g]) = Charge(files[g])
      BY <2>2 DEF Replaced, Charge
    <3> QED
      BY <1>1, <1>10, <1>11, <1>13, <3>1, <3>2, <3>3 DEF Balance, TypeOK
  <2>3. CASE files[g].provider # p
    <3>1. g \in Live /\ files'[g] = Absent /\ files[g].upload # "complete"
      BY <1>2, <1>3, <1>6, <2>1 DEF Without
    <3> QED
      BY <1>1, <1>3, <1>6, <2>3, <3>1 DEF ReplacesAcrossProviders
  <2> QED
    BY <2>2, <2>3
<1> QED
  BY <1>4, <1>12, <1>13

LEMMA BatchBalances ==
    ASSUME TypeOK, NEW f \in FileIds, NEW g \in FileIds,
           NEW first \in File, NEW second \in File,
           BatchInitUploads(f, g, first, second)
    PROVE  Balance
<1>1. /\ f # g /\ files[f] = Absent /\ files[g] = Absent
      /\ files' = [files EXCEPT ![f] = first, ![g] = second]
      /\ used' = used + Charge(first) + Charge(second)
  BY DEF BatchInitUploads
<1>2. /\ files'[f] = first /\ files'[g] = second
      /\ \A h \in FileIds \ {f, g} : files'[h] = files[h]
  BY <1>1 DEF TypeOK
<1>3. first # Absent /\ second # Absent
  BY LedgerAssumption
<1>4. {f, g} \in SUBSET FileIds /\ {f, g} \cap Rows = {}
  BY <1>1 DEF Rows
<1>5. RowsOf(files') = (Rows \ {}) \cup {f, g}
  BY <1>2, <1>3 DEF RowsOf, Rows
<1>6. \A h \in Rows \ {} : files'[h] = files[h]
  BY <1>2, <1>4, RowSets
<1>7. /\ Total(Rows)' + Cost(files, {}) = Total(Rows) + Cost(files', {f, g})
      /\ Total(Rows) \in Nat /\ Total(Rows)' \in Nat
  BY <1>4, <1>5, <1>6, TotalMoves
<1>8. Cost(files, {}) = 0
  <2>1. {fb \in {} \X (1..MaxSize) : fb[2] <= Charge(files[fb[1]])} = {}
    OBVIOUS
  <2> QED
    BY <2>1, FS_EmptySet DEF Cost
<1>9. /\ Cost(files', {f}) = Charge(first) /\ Charge(first) \in Nat
      /\ Cost(files', {g}) = Charge(second) /\ Charge(second) \in Nat
  BY <1>2, CostOne, ChargeBound, ChargeType
<1>10. Cost(files', {f, g}) = Cost(files', {f}) + Cost(files', {g})
  <2>1. /\ {f, g} = {f} \cup {g} /\ {f} \cap {g} = {}
        /\ {f} \in SUBSET FileIds /\ {g} \in SUBSET FileIds
    BY <1>1
  <2>2. Cost(files', {f} \cup {g}) = Cost(files', {f}) + Cost(files', {g})
    BY <2>1, CostUnion
  <2> QED
    BY <2>1, <2>2
<1> QED
  BY <1>1, <1>7, <1>8, <1>9, <1>10 DEF Balance, TypeOK

\* What a step that charges and refunds nothing does to the balance.
LEMMA NothingMoves ==
    ASSUME TypeOK, used' = used,
           \A f \in FileIds :
              /\ files'[f] # Absent <=> files[f] # Absent
              /\ files[f] # Absent => /\ files'[f].provider = files[f].provider
                                      /\ files'[f].size = files[f].size
    PROVE  Balance
<1>1. \A f \in Rows : Charge(files'[f]) = Charge(files[f])
  BY DEF Rows, Charge
<1>2. Total(Rows)' = Total(Rows) /\ Total(Rows) \in Nat
  BY <1>1, RowsKept, TotalType, RowSets
<1> QED
  BY <1>2 DEF Balance, TypeOK

LEMMA RowMarked ==
    ASSUME TypeOK, NEW f \in FileIds, NEW row \in File, f \in Rows,
           files' = [files EXCEPT ![f] = row], used' = used,
           row.provider = files[f].provider, row.size = files[f].size
    PROVE  Balance
<1>1. files'[f] = row /\ \A g \in FileIds \ {f} : files'[g] = files[g]
  BY DEF TypeOK
<1>2. row # Absent /\ files[f] # Absent
  BY LedgerAssumption DEF Rows
<1> QED
  BY <1>1, <1>2, NothingMoves

\* A folder's row takes along what is inside: what was trashed with it, or
\* something younger.
LEMMA TakesAlong ==
    ASSUME TypeOK, FoldersAgree, NEW D \in SUBSET Folders, NEW f \in Rows,
           f \in FilesIn(FolderTrees(D)), files'[f] = Absent
    PROVE  /\ D \subseteq {d \in Folders : folders[d] \in {"recent", "expired"}}
                 /\ f \notin Trashed => TakesYoungerFilesAlong
           /\ D = {d \in Folders : folders[d] = "expired"} /\ f \notin Doomed
                 => TakesYoungerFilesAlong
<1>1. files[f] \in File /\ files[f].trash \in Ages
  BY RowType DEF File
<1>2. files[f].folder \in FolderTrees(D) /\ files[f].folder # Root
  BY TreesClosed, LedgerAssumption DEF FilesIn
<1>3. ASSUME D \subseteq {d \in Folders : folders[d] \in {"recent", "expired"}},
             f \notin Trashed
      PROVE  TakesYoungerFilesAlong
  <2>1. folders[files[f].folder] \in {"recent", "expired"}
    BY <1>2, <1>3, TrashHoldsTrash
  <2>2. files[f].trash = "live"
    BY <1>3 DEF Trashed, Live
  <2> QED
    BY <1>2, <2>1, <2>2 DEF TakesYoungerFilesAlong
<1>4. ASSUME D = {d \in Folders : folders[d] = "expired"}, f \notin Doomed
      PROVE  TakesYoungerFilesAlong
  <2>1. folders[files[f].folder] = "expired"
    BY <1>2, <1>4, TrashHoldsTrash
  <2>2. files[f].trash \in {"live", "recent"}
    BY <1>1, <1>4 DEF Doomed, Ages
  <2> QED
    BY <1>2, <2>1, <2>2 DEF TakesYoungerFilesAlong
<1> QED
  BY <1>3, <1>4

LEMMA BalancedStep ==
    ASSUME TypeOK, FoldersAgree, NamesUnique, [Next]_vars, used >= Total(Rows)
    PROVE  \/ Balance
           \/ ReplacesAcrossProviders
           \/ CommitsStaleRefund
           \/ TakesYoungerFilesAlong
<1>1. ASSUME NEW F \in SUBSET Rows, files' = Without(F), used' = Refunded(Total(F))
      PROVE  Balance
  BY <1>1, RefundBalances DEF Balance
<1>2. ASSUME NEW F \in SUBSET Rows, NEW age \in Ages, files' = WithTrash(F, age),
             used' = used
      PROVE  Balance
  BY <1>2, TrashedRows, NothingMoves
<1>3. ASSUME UNCHANGED <<files, used>> PROVE Balance
  BY <1>3, NothingMoves
<1>4. ASSUME UploadSteps PROVE Balance \/ ReplacesAcrossProviders
  <2>1. ASSUME NEW f \in FileIds, MarkUploadComplete(f) \/ FinalizeExternalUpload(f)
        PROVE  Balance
    <3> DEFINE row == [files[f] EXCEPT !.upload = "complete"]
    <3>1. f \in Rows /\ files[f] \in File
      BY <2>1, RowType, RowSets DEF MarkUploadComplete, FinalizeExternalUpload
    <3>2. /\ row \in File /\ row.provider = files[f].provider
          /\ row.size = files[f].size
      BY <3>1 DEF File, Uploads
    <3>3. files' = [files EXCEPT ![f] = row] /\ used' = used
      BY <2>1 DEF MarkUploadComplete, FinalizeExternalUpload
    <3> HIDE DEF row
    <3> QED
      BY <3>1, <3>2, <3>3, RowMarked
  <2> QED
    BY <1>4, <2>1, InitUploadBalances, BatchBalances, NewFileType DEF UploadSteps
<1>5. ASSUME FileSteps PROVE Balance \/ TakesYoungerFilesAlong
  <2>1. ASSUME NEW F \in SUBSET FileIds, DeleteFiles(F) PROVE Balance
    BY <1>2, <2>1, RowSets DEF DeleteFiles, Ages
  <2>2. ASSUME NEW F \in SUBSET FileIds, HardDeleteFiles(F) PROVE Balance
    BY <1>1, <2>2, RowSets DEF HardDeleteFiles
  <2>3. ASSUME NEW f \in FileIds, RestoreFile(f) PROVE Balance
    <3> DEFINE d == IF LiveFolder(files[f].folder) THEN files[f].folder ELSE Root
               row == [[files[f] EXCEPT !.trash = "live"] EXCEPT !.folder = d]
    <3>1. f \in Rows /\ files[f] \in File
      BY <2>3, RowType, RowSets DEF RestoreFile
    <3>2. d \in Folders \cup {Root}
      BY <3>1 DEF File
    <3>3. /\ row \in File /\ row.provider = files[f].provider
          /\ row.size = files[f].size
      <4> HIDE DEF d
      <4> QED
        BY <3>1, <3>2 DEF File, Ages
    <3>4. files' = [files EXCEPT ![f] = row] /\ used' = used
      BY <2>3, <3>1 DEF RestoreFile, TypeOK
    <3> HIDE DEF row, d
    <3> QED
      BY <3>1, <3>3, <3>4, RowMarked
  <2>4. ASSUME NEW f \in FileIds, NEW n \in Names, NEW d \in Folders \cup {Root},
               UpdateFile(f, n, d)
        PROVE  Balance
    <3> DEFINE row == [[files[f] EXCEPT !.name = n] EXCEPT !.folder = d]
    <3>1. f \in Rows /\ files[f] \in File
      BY <2>4, RowType, RowSets DEF UpdateFile
    <3>2. /\ row \in File /\ row.provider = files[f].provider
          /\ row.size = files[f].size
      BY <3>1 DEF File
    <3>3. files' = [files EXCEPT ![f] = row] /\ used' = used
      BY <2>4, <3>1 DEF UpdateFile, TypeOK
    <3> HIDE DEF row
    <3> QED
      BY <3>1, <3>2, <3>3, RowMarked
  <2>5. ASSUME EmptyTrash PROVE Balance \/ TakesYoungerFilesAlong
    <3> DEFINE bin == {d \in Folders : folders[d] \in {"recent", "expired"}}
               inside == FilesIn(FolderTrees(bin))
    <3>1. /\ used' = Refunded(Total(Trashed))
          /\ files' = Without(Trashed \cup inside)
      BY <2>5 DEF EmptyTrash
    <3>2. inside \subseteq Rows
      BY RowSets
    <3>3. CASE inside \subseteq Trashed
      <4>1. Trashed \cup inside = Trashed
        BY <3>3
      <4>2. files' = Without(Trashed)
        BY <3>1, <4>1
      <4> QED
        BY <1>1, <3>1, <4>2, RowSets
    <3>4. ASSUME NEW f \in inside, f \notin Trashed
          PROVE  TakesYoungerFilesAlong
      <4> HIDE DEF inside
      <4>1. f \in Rows /\ files'[f] = Absent
        BY <3>1, <3>2, <3>4, RowSets DEF Without
      <4> USE DEF inside
      <4> QED
        BY <3>4, <4>1, TakesAlong
    <3> QED
      BY <3>3, <3>4
  <2>6. ASSUME UnlinkAccount PROVE Balance
    <3>1. \A f \in External : Charge(files[f]) = MetadataCost
      BY DEF External, Charge
    <3>2. Total(External) = Cardinality(External) * MetadataCost
      <4>1. External \in SUBSET FileIds /\ MetadataCost \in 0..MaxSize
        BY RowSets, LedgerAssumption
      <4> QED
        BY <3>1, <4>1, CostEach, TotalIsCost
    <3> QED
      BY <1>1, <2>6, <3>2, RowSets DEF UnlinkAccount
  <2> QED
    BY <1>5, <2>1, <2>2, <2>3, <2>4, <2>5, <2>6 DEF FileSteps
<1>6. ASSUME FolderSteps PROVE Balance
  <2>1. ASSUME NEW d \in Folders, NEW p \in Folders \cup {Root},
               CreateFolder(d, p) \/ UpdateFolder(d, p)
        PROVE  Balance
    BY <1>3, <2>1 DEF CreateFolder, UpdateFolder
  <2>2. ASSUME NEW d \in Folders, DeleteFolder(d) \/ RestoreFolder(d) PROVE Balance
    BY <1>2, <2>2, RowSets DEF DeleteFolder, RestoreFolder, Ages
  <2>3. ASSUME NEW D \in SUBSET Folders, BatchDeleteFolders(D) PROVE Balance
    <3> DEFINE doomed == FolderTrees({d \in D : folders[d] = "live"})
    <3>1. FilesIn(doomed) \cap Live \in SUBSET Rows
      BY RowSets
    <3> QED
      BY <1>2, <2>3, <3>1 DEF BatchDeleteFolders, Ages
  <2>4. ASSUME NEW D \in SUBSET Folders, HardDeleteFolders(D) PROVE Balance
    BY <1>1, <2>4, RowSets DEF HardDeleteFolders
  <2> QED
    BY <1>6, <2>1, <2>2, <2>3, <2>4 DEF FolderSteps
<1>7. ASSUME CollectorSteps
      PROVE  Balance \/ CommitsStaleRefund \/ TakesYoungerFilesAlong
  <2>1. ASSUME NEW g \in Collectors, CollectorReads(g) \/ CollectorFails(g)
        PROVE  Balance
    BY <1>3, <2>1 DEF CollectorReads, CollectorFails
  <2>2. ASSUME NEW g \in Collectors, CollectorCommits(g)
        PROVE  Balance \/ CommitsStaleRefund \/ TakesYoungerFilesAlong
    <3> DEFINE old == {d \in Folders : folders[d] = "expired"}
               inside == FilesIn(FolderTrees(old))
    <3>1. /\ used' = Refunded(refund[g]) /\ refund[g] # Absent
          /\ files' = Without(Doomed \cup inside)
      BY <2>2 DEF CollectorCommits
    <3>2. refund'[g] = Absent
      BY <2>2 DEF CollectorCommits, TypeOK
    <3>3. inside \subseteq Rows
      BY RowSets
    <3>4. CASE refund[g] # Total(Doomed)
      BY <1>3, <3>1, <3>2, <3>4 DEF CommitsStaleRefund
    <3>5. CASE refund[g] = Total(Doomed) /\ inside \subseteq Doomed
      <4>1. Doomed \cup inside = Doomed
        BY <3>5
      <4>2. files' = Without(Doomed)
        BY <3>1, <4>1
      <4> QED
        BY <1>1, <3>1, <3>5, <4>2, RowSets
    <3>6. ASSUME NEW f \in inside, f \notin Doomed
          PROVE  TakesYoungerFilesAlong
      <4> HIDE DEF inside
      <4>1. f \in Rows /\ files'[f] = Absent
        BY <3>1, <3>3, <3>6, RowSets DEF Without
      <4> USE DEF inside
      <4> QED
        BY <3>6, <4>1, TakesAlong
    <3> QED
      BY <3>4, <3>5, <3>6
  <2> QED
    BY <1>7, <2>1, <2>2 DEF CollectorSteps
<1>8. ASSUME HoursPass \/ MonthPasses PROVE Balance
  BY <1>8, OlderRows, NothingMoves DEF HoursPass, MonthPasses
<1>9. ASSUME UNCHANGED vars PROVE Balance
  BY <1>3, <1>9 DEF vars
<1> QED
  BY <1>4, <1>5, <1>6, <1>7, <1>8, <1>9 DEF Next

\* Every transaction of every actor moves the account by exactly the charge of
\* the rows it adds and deletes, unless the account already is below them or
\* the step is one of the three that are named.
THEOREM AccountBalances == Spec => BalancedSteps
<1>1. Init => FoldersAgree /\ NamesUnique
  BY DEF Init, FoldersAgree, NamesUnique, Rows
<1>2. ASSUME TypeOK, FoldersAgree, NamesUnique, [Next]_vars
      PROVE  [ \/ used < Total(Rows)
               \/ used' - used = Total(Rows)' - Total(Rows)
               \/ ReplacesAcrossProviders
               \/ CommitsStaleRefund
               \/ TakesYoungerFilesAlong ]_vars
  <2>1. used \in Nat /\ Total(Rows) \in Nat
    BY <1>2, TotalType, RowSets DEF TypeOK
  <2> QED
    BY <1>2, <2>1, BalancedStep DEF Balance
<1> QED
  BY <1>1, <1>2, WithinQuota, FoldersAgreeStep, NamesUniqueStep, PTL
  DEF Spec, BalancedSteps
=============================================================================
