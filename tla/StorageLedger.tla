---------------------------- MODULE StorageLedger ----------------------------
(***************************************************************************)
(* One user's files, folders and storage account: the rows of the tables   *)
(* files and folders, and users.used_storage_bytes, under the transactions *)
(* of FileManager, FolderManager and GoogleDriveService and the two        *)
(* database phases of the garbage collector.                               *)
(*                                                                         *)
(* A request's transaction is one step. A collector run is two: it reads   *)
(* what it will refund in one transaction and refunds and deletes in a     *)
(* second one, and runs overlap, because every hard deletion starts one in *)
(* a thread of its own besides the daily one.                              *)
(*                                                                         *)
(* Folder names are left out (no two folders collide). Time passes         *)
(* coarsely: four hours, or thirty days, pass for every row at once.       *)
(***************************************************************************)
EXTENDS Integers, FiniteSets

CONSTANTS FileIds,      \* bound: rows the table files holds at once
          Folders,      \* bound: rows the table folders holds at once
          Root,         \* folder_id or parent_id NULL
          Names,        \* name_hash values of files
          Providers,    \* storage providers in use
          MaxSize,      \* bound: largest size_bytes
          Sizes,        \* size_bytes of the uploads
          MetadataCost, \* what an external file is charged (2048)
          MaxStorage,   \* max_storage_bytes
          Collectors,   \* garbage-collector runs that may overlap
          Absent        \* no row, or no collector run under way

VARIABLES files,   \* the user's rows of files, Absent where there is none
          folders, \* the age of each folder's deletion, Absent for no row
          parent,  \* parent_id of each folder
          used,    \* used_storage_bytes
          refund   \* what each collector run has read it must refund

vars == <<files, folders, parent, used, refund>>

\* deleted_at: NULL, less or more than thirty days ago.
Ages == {"live", "recent", "expired"}

\* is_upload_complete, and created_at more than four hours ago if it is not.
Uploads == {"uploading", "abandoned", "complete"}

File == [provider : Providers, size : Sizes, name : Names,
         folder : Folders \cup {Root}, upload : Uploads, trash : Ages]

ASSUME LedgerAssumption ==
    /\ IsFiniteSet(FileIds)
    /\ Root \notin Folders
    /\ Providers \subseteq {"local", "google_drive"}
    /\ MaxSize \in Nat
    /\ Sizes \subseteq 0..MaxSize
    /\ MetadataCost \in 0..MaxSize
    /\ MaxStorage \in Nat
    /\ Absent \notin Nat \cup Ages \cup File

TypeOK ==
    /\ files \in [FileIds -> File \cup {Absent}]
    /\ folders \in [Folders -> Ages \cup {Absent}]
    /\ parent \in [Folders -> Folders \cup {Root}]
    /\ used \in Nat
    /\ refund \in [Collectors -> Nat \cup {Absent}]

Init ==
    /\ files = [f \in FileIds |-> Absent]
    /\ folders = [d \in Folders |-> Absent]
    /\ parent = [d \in Folders |-> Root]
    /\ used = 0
    /\ refund = [g \in Collectors |-> Absent]

-----------------------------------------------------------------------------
(***************************************************************************)
(* Rows, charges and folder trees                                          *)
(***************************************************************************)

Rows == {f \in FileIds : files[f] # Absent}

Live == {f \in Rows : files[f].trash = "live"}

Trashed == Rows \ Live

\* What a row is charged at upload and refunded at deletion.
Charge(row) == IF row.provider = "local" THEN row.size ELSE MetadataCost

\* The bytes a set of rows is charged, one element a byte.
Bytes(S) == {fb \in S \X (1..MaxSize) : fb[2] <= Charge(files[fb[1]])}

Total(S) == Cardinality(Bytes(S))

\* GREATEST(0, used_storage_bytes - freed).
Refunded(freed) == IF freed > used THEN 0 ELSE used - freed

\* Mutant of FolderTree: the folder without its sub-folders.
FolderAlone(d) == {d}

\* The recursive query folder_tree: a folder and what is below it.
FolderTree(d) ==
    {e \in Folders :
        \A S \in SUBSET Folders :
            /\ d \in S
            /\ \A g \in Folders :
                  folders[g] # Absent /\ parent[g] \in S => g \in S
            => e \in S}

FolderTrees(D) == UNION {FolderTree(d) : d \in D}

FilesIn(D) == {f \in Rows : files[f].folder \in D}

LiveFolder(d) == d # Root => folders[d] = "live"

\* What the unique index on a folder and the one on the live root allow:
\* within a folder, rows in the trash keep their names.
NameFree(name, d, others) ==
    \A g \in others :
        ~ /\ files[g].name = name
          /\ files[g].folder = d
          /\ d # Root \/ g \in Live

WithTrash(F, age) ==
    [f \in FileIds |-> IF f \in F THEN [files[f] EXCEPT !.trash = age]
                                  ELSE files[f]]

Without(F) == [f \in FileIds |-> IF f \in F THEN Absent ELSE files[f]]

-----------------------------------------------------------------------------
(***************************************************************************)
(* Uploads                                                                 *)
(***************************************************************************)

NewFile(p, s, n, d) ==
    [provider |-> p, size |-> s, name |-> n, folder |-> d,
     upload |-> "uploading", trash |-> "live"]

\* Mutant of Fits: compares before the charge is added.
FitsBefore(cost) == used <= MaxStorage

\* The quota check, under a lock on the user's row.
Fits(cost) == used + cost <= MaxStorage

\* What replacing an interrupted upload refunds: init_upload the size of the
\* row it finds, init_external_upload the metadata cost, whatever the
\* provider that row was charged for.
Replaced(p, row) == IF p = "local" THEN row.size ELSE MetadataCost

\* The live row of that name in that folder, if there is one.
Rivals(n, d) == {g \in Live : files[g].name = n /\ files[g].folder = d}

\* init_upload and init_external_upload. The CHECK on used_storage_bytes
\* aborts a transaction that would make it negative.
InitUpload(f, p, s, n, d) ==
    LET row == NewFile(p, s, n, d)
    IN  /\ files[f] = Absent
        /\ LiveFolder(d)
        /\ Fits(Charge(row))
        /\ \A g \in Rivals(n, d) : files[g].upload # "complete"
        /\ NameFree(n, d, Rows \ Rivals(n, d))
        /\ \/ /\ Rivals(n, d) = {}
              /\ used' = used + Charge(row)
           \/ \E g \in Rivals(n, d) :
                 /\ used + Charge(row) >= Replaced(p, files[g])
                 /\ used' = used + Charge(row) - Replaced(p, files[g])
        /\ files' = [Without(Rivals(n, d)) EXCEPT ![f] = row]
        /\ UNCHANGED <<folders, parent, refund>>

\* batch_init_uploads: two uploads in one transaction, and no replacement.
BatchInitUploads(f, g, first, second) ==
    /\ f # g /\ files[f] = Absent /\ files[g] = Absent
    /\ LiveFolder(first.folder) /\ LiveFolder(second.folder)
    /\ Fits(Charge(first) + Charge(second))
    /\ NameFree(first.name, first.folder, Rows)
    /\ NameFree(second.name, second.folder, Rows)
    /\ <<first.name, first.folder>> # <<second.name, second.folder>>
    /\ used' = used + Charge(first) + Charge(second)
    /\ files' = [files EXCEPT ![f] = first, ![g] = second]
    /\ UNCHANGED <<folders, parent, refund>>

\* mark_upload_complete, whether or not the row has gone to the trash.
MarkUploadComplete(f) ==
    /\ f \in Rows
    /\ files[f].provider = "local"
    /\ files' = [files EXCEPT ![f].upload = "complete"]
    /\ UNCHANGED <<folders, parent, used, refund>>

FinalizeExternalUpload(f) ==
    /\ f \in Live
    /\ files[f].provider # "local"
    /\ files[f].upload # "complete"
    /\ files' = [files EXCEPT ![f].upload = "complete"]
    /\ UNCHANGED <<folders, parent, used, refund>>

-----------------------------------------------------------------------------
(***************************************************************************)
(* Files                                                                   *)
(***************************************************************************)

\* delete_file, batch_delete_files and, for the files that are no longer in
\* the linked account, cleanup_external_sync.
DeleteFiles(F) ==
    /\ F # {} /\ F \subseteq Live
    /\ files' = WithTrash(F, "recent")
    /\ UNCHANGED <<folders, parent, used, refund>>

\* restore_file: to the root when its folder is in the trash.
RestoreFile(f) ==
    /\ f \in Trashed
    /\ LET d == IF LiveFolder(files[f].folder) THEN files[f].folder ELSE Root
       IN  /\ NameFree(files[f].name, d, Rows \ {f})
           /\ files' = [files EXCEPT ![f].trash = "live", ![f].folder = d]
    /\ UNCHANGED <<folders, parent, used, refund>>

\* Mutant of HardDeleteFiles: deleted_at IS NOT NULL is not asked for.
HardDeleteAny(F) ==
    /\ F # {} /\ F \subseteq Rows
    /\ used' = Refunded(Total(F))
    /\ files' = Without(F)
    /\ UNCHANGED <<folders, parent, refund>>

\* hard_delete_file and batch_hard_delete_files.
HardDeleteFiles(F) ==
    /\ F # {} /\ F \subseteq Trashed
    /\ used' = Refunded(Total(F))
    /\ files' = Without(F)
    /\ UNCHANGED <<folders, parent, refund>>

\* Mutant of EmptyTrash: the refund is forgotten.
EmptyTrashFree ==
    LET doomed == {d \in Folders : folders[d] \in {"recent", "expired"}}
    IN  /\ files' = Without(Trashed \cup FilesIn(FolderTrees(doomed)))
        /\ folders' = [d \in Folders |->
                         IF d \in FolderTrees(doomed) THEN Absent
                                                      ELSE folders[d]]
        /\ UNCHANGED <<parent, refund, used>>

\* empty_trash: the trashed files with their refund, then the trashed
\* folders, with which the foreign keys delete all that is left inside.
EmptyTrash ==
    LET doomed == FolderTrees({d \in Folders :
                                 folders[d] \in {"recent", "expired"}})
    IN  /\ used' = Refunded(Total(Trashed))
        /\ files' = Without(Trashed \cup FilesIn(doomed))
        /\ folders' = [d \in Folders |-> IF d \in doomed THEN Absent
                                                         ELSE folders[d]]
        /\ UNCHANGED <<parent, refund>>

\* update_file: a new name, a new folder or both. The folder has to exist;
\* unlike update_folder, nothing asks whether it is in the trash.
UpdateFile(f, n, d) ==
    /\ f \in Live
    /\ <<n, d>> # <<files[f].name, files[f].folder>>
    /\ d # Root => folders[d] # Absent
    /\ NameFree(n, d, Rows \ {f})
    /\ files' = [files EXCEPT ![f].name = n, ![f].folder = d]
    /\ UNCHANGED <<folders, parent, used, refund>>

-----------------------------------------------------------------------------
(***************************************************************************)
(* Folders                                                                 *)
(***************************************************************************)

\* create_folder; batch_create_folders does the same for a list, parents
\* first.
CreateFolder(d, p) ==
    /\ folders[d] = Absent
    /\ LiveFolder(p)
    /\ folders' = [folders EXCEPT ![d] = "live"]
    /\ parent' = [parent EXCEPT ![d] = p]
    /\ UNCHANGED <<files, used, refund>>

WithAge(D, age) == [e \in Folders |-> IF e \in D THEN age ELSE folders[e]]

\* delete_folder: every file below it, those in the trash included, gets
\* the new deletion date.
DeleteFolder(d) ==
    /\ folders[d] = "live"
    /\ folders' = WithAge(FolderTree(d), "recent")
    /\ files' = WithTrash(FilesIn(FolderTree(d)), "recent")
    /\ UNCHANGED <<parent, used, refund>>

\* batch_delete_folders: the files in the trash keep their date.
BatchDeleteFolders(D) ==
    LET chosen == {d \in D : folders[d] = "live"}
        doomed == FolderTrees(chosen)
    IN  /\ chosen # {}
        /\ folders' = WithAge(doomed, "recent")
        /\ files' = WithTrash(FilesIn(doomed) \cap Live, "recent")
        /\ UNCHANGED <<parent, used, refund>>

\* restore_folder: under the root when its parent is in the trash.
RestoreFolder(d) ==
    /\ folders[d] \in {"recent", "expired"}
    /\ parent' = [parent EXCEPT ![d] = IF LiveFolder(@) THEN @ ELSE Root]
    /\ folders' = WithAge(FolderTree(d), "live")
    /\ files' = WithTrash(FilesIn(FolderTree(d)), "live")
    /\ UNCHANGED <<used, refund>>

\* hard_delete_folder and batch_hard_delete_folders: whatever is inside goes
\* with its refund, live or not.
HardDeleteFolders(D) ==
    LET chosen == {d \in D : folders[d] \in {"recent", "expired"}}
        doomed == FolderTrees(chosen)
    IN  /\ chosen # {}
        /\ used' = Refunded(Total(FilesIn(doomed)))
        /\ files' = Without(FilesIn(doomed))
        /\ folders' = WithAge(doomed, Absent)
        /\ UNCHANGED <<parent, refund>>

\* update_folder to another parent: a live one that is not inside it.
UpdateFolder(d, p) ==
    /\ folders[d] = "live"
    /\ p # parent[d]
    /\ LiveFolder(p)
    /\ p \notin FolderTree(d)
    /\ parent' = [parent EXCEPT ![d] = p]
    /\ UNCHANGED <<files, folders, used, refund>>

-----------------------------------------------------------------------------
(***************************************************************************)
(* The linked account, the garbage collector and time                      *)
(***************************************************************************)

External == {f \in Rows : files[f].provider = "google_drive"}

\* unlink_account: every file kept there is refunded and deleted.
UnlinkAccount ==
    /\ External # {}
    /\ used' = Refunded(Cardinality(External) * MetadataCost)
    /\ files' = Without(External)
    /\ UNCHANGED <<folders, parent, refund>>

\* What the collector's queries select at the time they run.
Doomed == {f \in Rows : \/ files[f].upload = "abandoned"
                        \/ files[f].trash = "expired"}

\* Phase 1 reads the rows to refund.
CollectorReads(g) ==
    /\ refund[g] = Absent
    /\ refund' = [refund EXCEPT ![g] = Total(Doomed)]
    /\ UNCHANGED <<files, folders, parent, used>>

\* Phase 2 refunds what phase 1 read and deletes what its own query finds,
\* with the expired folders and all that is inside them.
CollectorCommits(g) ==
    LET gone == FolderTrees({d \in Folders : folders[d] = "expired"})
    IN  /\ refund[g] # Absent
        /\ used' = Refunded(refund[g])
        /\ files' = Without(Doomed \cup FilesIn(gone))
        /\ folders' = WithAge(gone, Absent)
        /\ refund' = [refund EXCEPT ![g] = Absent]
        /\ UNCHANGED parent

\* An exception in phase 2 leaves the rows to a later run.
CollectorFails(g) ==
    /\ refund[g] # Absent
    /\ refund' = [refund EXCEPT ![g] = Absent]
    /\ UNCHANGED <<files, folders, parent, used>>

Abandoned(row) ==
    IF row.upload = "uploading" THEN [row EXCEPT !.upload = "abandoned"]
                                ELSE row

Expired(row) ==
    IF row.trash = "recent" THEN [row EXCEPT !.trash = "expired"] ELSE row

HoursPass ==
    /\ files' = [f \in FileIds |-> IF f \in Rows THEN Abandoned(files[f])
                                                 ELSE Absent]
    /\ UNCHANGED <<folders, parent, used, refund>>

MonthPasses ==
    /\ files' = [f \in FileIds |->
                   IF f \in Rows THEN Expired(Abandoned(files[f]))
                                 ELSE Absent]
    /\ folders' = [d \in Folders |-> IF folders[d] = "recent" THEN "expired"
                                                              ELSE folders[d]]
    /\ UNCHANGED <<parent, used, refund>>

-----------------------------------------------------------------------------
UploadSteps ==
    \/ \E f \in FileIds, p \in Providers, s \in Sizes, n \in Names,
          d \in Folders \cup {Root} : InitUpload(f, p, s, n, d)
    \/ \E f, g \in FileIds, p, q \in Providers, s, t \in Sizes, n, m \in Names,
          d, e \in Folders \cup {Root} :
             BatchInitUploads(f, g, NewFile(p, s, n, d), NewFile(q, t, m, e))
    \/ \E f \in FileIds : MarkUploadComplete(f) \/ FinalizeExternalUpload(f)

FileSteps ==
    \/ \E F \in SUBSET FileIds : DeleteFiles(F) \/ HardDeleteFiles(F)
    \/ \E f \in FileIds : RestoreFile(f)
    \/ \E f \in FileIds, n \in Names, d \in Folders \cup {Root} :
          UpdateFile(f, n, d)
    \/ EmptyTrash
    \/ UnlinkAccount

FolderSteps ==
    \/ \E d \in Folders, p \in Folders \cup {Root} :
          CreateFolder(d, p) \/ UpdateFolder(d, p)
    \/ \E d \in Folders : DeleteFolder(d) \/ RestoreFolder(d)
    \/ \E D \in SUBSET Folders : BatchDeleteFolders(D) \/ HardDeleteFolders(D)

CollectorSteps ==
    \E g \in Collectors :
        CollectorReads(g) \/ CollectorCommits(g) \/ CollectorFails(g)

Next == UploadSteps \/ FileSteps \/ FolderSteps \/ CollectorSteps
          \/ HoursPass \/ MonthPasses

Spec == Init /\ [][Next]_vars

-----------------------------------------------------------------------------
(***************************************************************************)
(* Properties                                                              *)
(***************************************************************************)

\* The account stays between zero and the user's quota: every charge is
\* checked under the lock it is made under, and a refund neither adds nor
\* takes more than there is, which the CHECK of the column would refuse for
\* ever.
QuotaNeverExceeded == 0 <= used /\ used <= MaxStorage

\* A replacement across providers refunds an amount that was not charged.
ReplacesAcrossProviders ==
    \E g \in Live : /\ files'[g] = Absent
                    /\ files[g].upload # "complete"
                    /\ \E f \in FileIds :
                          /\ files[f] = Absent
                          /\ files'[f] # Absent
                          /\ files'[f].provider # files[g].provider

\* A collector commits refunds that are no longer what it deletes.
CommitsStaleRefund ==
    \E g \in Collectors : /\ refund[g] \notin {Absent, Total(Doomed)}
                          /\ refund'[g] = Absent
                          /\ files' # files \/ used' # used

\* Deleting a trashed folder's row takes along a file that was moved into it
\* and is live, or was trashed after it.
TakesYoungerFilesAlong ==
    \E f \in Rows : /\ files'[f] = Absent
                    /\ files[f].folder # Root
                    /\ <<files[f].trash, folders[files[f].folder]>> \in
                          {<<"live", "recent">>, <<"live", "expired">>,
                           <<"recent", "expired">>}

\* From an account that covers the rows, every transaction of every actor
\* moves the account by exactly the charge of the rows it adds and deletes.
\* The only exceptions are the three above.
BalancedSteps ==
    [][ \/ used < Total(Rows)
        \/ used' - used = Total(Rows)' - Total(Rows)
        \/ ReplacesAcrossProviders
        \/ CommitsStaleRefund
        \/ TakesYoungerFilesAlong ]_vars

\* A finished, live file in a live folder survives time, the collector, the
\* emptying of the trash and every operation on other files: it leaves the
\* table only with the account it is stored in.
LiveFilesSurvive ==
    [][\A f \in Live :
          /\ files[f].upload = "complete"
          /\ LiveFolder(files[f].folder)
          /\ files'[f] = Absent
          => files[f].provider # "local" /\ \A g \in External : files'[g] = Absent]_vars

\* Whatever is created, moved, trashed, restored or deleted, the parent of a
\* live folder is live: no folder the user has not deleted is out of reach.
LiveFoldersReachable ==
    \A d \in Folders : folders[d] = "live" => LiveFolder(parent[d])
=============================================================================
