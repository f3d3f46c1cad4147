----------------------------- MODULE ChunkUpload -----------------------------
(***************************************************************************)
(* Chunked uploads to the local store: the rows of files and file_chunks,  *)
(* the <id>.dat files on disk, the upload sessions of the user's browsers, *)
(* the requests those sessions send (handle_upload_chunk), and the garbage *)
(* collector, which deletes rows and erases bytes next to all of them.     *)
(*                                                                         *)
(* All sessions upload one name into one folder: an upload, its retries    *)
(* and its recoveries. A session encrypts the file once, under a nonce of  *)
(* its own; a chunk on disk is the nonce it was encrypted under. Every     *)
(* database transaction and every write to disk is a step, except that     *)
(* init_upload is two: its check of the existing row is repeated by no     *)
(* lock and no condition of the DELETE that follows.                       *)
(*                                                                         *)
(* Left out: the quota (StorageLedger), folders, and the contents and the  *)
(* sizes of chunks.                                                        *)
(***************************************************************************)
EXTENDS Integers, FiniteSets

CONSTANTS FileIds,     \* bound: ids the table files gives out
          LastChunk,   \* total_chunks - 1, of every file
          Uploads,     \* sessions that start an upload (_uploadSingleFile)
          Recoveries,  \* sessions that continue one (recoverUpload)
          Collectors,  \* garbage-collector runs that may overlap
          Faults,      \* the kinds of failure that happen
          Clock,       \* the delays that may pass: "hours", "month"
          Unborn, Gone, Absent, Hole

Sessions == Uploads \cup Recoveries

Chunks == 0..LastChunk

\* A request fails after any of its steps; an answer is lost; a write is
\* reported as made and is not; a hard deletion rolls back after it erased.
FaultKinds == {"request", "answer", "disk", "delete"}

\* is_upload_complete, created_at more than four hours ago if it is not, and
\* deleted_at: NULL, less or more than thirty days ago.
Row == [upload : {"uploading", "abandoned", "complete"},
        trash  : {"live", "recent", "expired"}]

ASSUME UploadAssumption ==
    /\ LastChunk \in Nat
    /\ Uploads \cap Recoveries = {}
    /\ Faults \subseteq FaultKinds
    /\ Clock \subseteq {"hours", "month"}
    /\ Unborn \notin Row \cup {Gone} /\ Gone \notin Row
    /\ Absent \notin FileIds \cup [Chunks -> Sessions \cup {Hole}]
    /\ Hole \notin Sessions

VARIABLES rows,    \* the rows of files: not yet, no longer or there
          saved,   \* the chunk indices file_chunks holds for each file
          disk,    \* the bytes of <id>.dat, a nonce for each chunk
          at,      \* where each session is
          target,  \* the file a session uploads to
          nonce,   \* the nonce a session encrypted under
          next,    \* the chunk a session's loop is at
          skip,    \* the chunks a session was told are already there
          request, \* where a session's chunk request is in its handler
          gc,      \* where each collector run is
          doomed,  \* phase 1 of a collector run: the files to delete
          valid    \* phase 1 of a collector run: the ids of all files

rowVars     == <<rows, saved, disk>>
sessionVars == <<at, target, nonce, next, skip>>
gcVars      == <<gc, doomed, valid>>
vars == <<rowVars, sessionVars, request, gcVars>>

Rows == {f \in FileIds : rows[f] \notin {Unborn, Gone}}

Live == {f \in Rows : rows[f].trash = "live"}

Complete == {f \in Rows : rows[f].upload = "complete"}

Places == {"idle", "replacing", "fetching", "asking", "looping", "waiting",
           "paused", "success", "failed"}

\* "sent" is on its way to the server, "ok" and "refused" are answers.
Handling == {"sent", "writing", "recording", "counting", "marking"}

TypeOK ==
    /\ rows \in [FileIds -> Row \cup {Unborn, Gone}]
    /\ saved \in [FileIds -> SUBSET Chunks]
    /\ disk \in [FileIds -> [Chunks -> Sessions \cup {Hole}] \cup {Absent}]
    /\ at \in [Sessions -> Places]
    /\ target \in [Sessions -> FileIds \cup {Absent}]
    /\ nonce \in [Sessions -> Sessions]
    /\ next \in [Sessions -> 0..(LastChunk + 1)]
    /\ skip \in [Sessions -> SUBSET Chunks]
    /\ request \in [Sessions -> Handling \cup {"none", "ok", "refused"}]
    /\ gc \in [Collectors -> {"idle", "erasing", "committing", "sweeping"}]
    /\ doomed \in [Collectors -> SUBSET FileIds]
    /\ valid \in [Collectors -> SUBSET FileIds]

Init ==
    /\ rows = [f \in FileIds |-> Unborn]
    /\ saved = [f \in FileIds |-> {}]
    /\ disk = [f \in FileIds |-> Absent]
    /\ at = [k \in Sessions |-> "idle"]
    /\ target = [k \in Sessions |-> Absent]
    /\ nonce = [k \in Sessions |-> k]
    /\ next = [k \in Sessions |-> 0]
    /\ skip = [k \in Sessions |-> {}]
    /\ request = [k \in Sessions |-> "none"]
    /\ gc = [g \in Collectors |-> "idle"]
    /\ doomed = [g \in Collectors |-> {}]
    /\ valid = [g \in Collectors |-> {}]

Moves(k, from, to) == at[k] = from /\ at' = [at EXCEPT ![k] = to]

\* Rows deleted with their chunks, by the foreign key of file_chunks.
Deletes(F) ==
    /\ rows' = [f \in FileIds |-> IF f \in F \cap Rows THEN Gone ELSE rows[f]]
    /\ saved' = [f \in FileIds |-> IF f \in F THEN {} ELSE saved[f]]

Erases(F) == disk' = [f \in FileIds |-> IF f \in F THEN Absent ELSE disk[f]]

-----------------------------------------------------------------------------
(***************************************************************************)
(* Starting an upload                                                      *)
(***************************************************************************)

\* init_upload up to its check of the name: an existing upload that is
\* complete refuses the new one. The user's row is locked until it ends.
StartUpload(k) ==
    /\ k \in Uploads
    /\ \A l \in Sessions : at[l] # "replacing"
    /\ \/ /\ Live \cap Complete = {}
          /\ Moves(k, "idle", "replacing")
          /\ \/ \E old \in Live : target' = [target EXCEPT ![k] = old]
             \/ Live = {} /\ UNCHANGED target
       \/ /\ Live \cap Complete # {}
          /\ Moves(k, "idle", "failed")
          /\ UNCHANGED target
    /\ UNCHANGED <<rowVars, nonce, next, skip, request, gcVars>>

\* Mutant of NewIds: the new upload takes over the interrupted one's row.
OldIdFirst(old) ==
    IF old \in Rows THEN {old} ELSE {f \in FileIds : rows[f] = Unborn}

\* An id is never given out twice, and a replaced row's not at all.
NewIds(old) == {f \in FileIds : rows[f] = Unborn}

\* init_upload from there: the DELETE of the interrupted upload it found,
\* whatever became of that, then the INSERT, which the unique index refuses
\* if another live row has the name.
CommitUpload(k) ==
    LET old == {target[k]} \cap Rows
    IN  /\ \/ /\ Live \subseteq old
              /\ \E f \in NewIds(target[k]) :
                    /\ target' = [target EXCEPT ![k] = f]
                    /\ rows' = [g \in FileIds |->
                                  IF g = f THEN [upload |-> "uploading",
                                                 trash  |-> "live"]
                                  ELSE IF g \in old THEN Gone ELSE rows[g]]
              /\ saved' = [g \in FileIds |-> IF g \in old THEN {}
                                                          ELSE saved[g]]
              /\ Moves(k, "replacing", "asking")
           \/ /\ ~ Live \subseteq old
              /\ Moves(k, "replacing", "failed")
              /\ UNCHANGED <<rows, saved, target>>
        /\ UNCHANGED <<disk, nonce, next, skip, request, gcVars>>

\* recoverUpload of an upload the server lists as pending. With chunks on
\* the server it first asks for the nonce they were encrypted under.
StartRecovery(k) ==
    /\ k \in Recoveries
    /\ \E f \in Live \ Complete :
          /\ Moves(k, "idle", IF saved[f] = {} THEN "asking" ELSE "fetching")
          /\ target' = [target EXCEPT ![k] = f]
    /\ UNCHANGED <<rowVars, nonce, next, skip, request, gcVars>>

\* The first bytes of a file: a download, so of complete files only.
Served(f) == f \in Live \cap Complete /\ disk[f] # Absent

\* The nonce is at the head of chunk 0. Without it a new one is made.
FetchNonce(k) ==
    LET f == target[k]
    IN  /\ Moves(k, "fetching", "asking")
        /\ nonce' = [nonce EXCEPT ![k] =
                       IF Served(f) THEN IF disk[f][0] # Hole THEN disk[f][0]
                                                              ELSE k
                                    ELSE k]
        /\ UNCHANGED <<rowVars, target, next, skip, request, gcVars>>

-----------------------------------------------------------------------------
(***************************************************************************)
(* The upload loop                                                         *)
(***************************************************************************)

\* getUploadedChunks: refused for a row that is gone or complete, and then,
\* as when the answer is lost, every chunk is sent again.
AskProgress(k) ==
    /\ Moves(k, "asking", "looping")
    /\ \/ skip' = [skip EXCEPT ![k] = IF target[k] \in Rows \ Complete
                                      THEN saved[target[k]] ELSE {}]
       \/ "answer" \in Faults /\ skip' = [skip EXCEPT ![k] = {}]
    /\ next' = [next EXCEPT ![k] = 0]
    /\ UNCHANGED <<rowVars, target, nonce, request, gcVars>>

SkipChunk(k) ==
    /\ at[k] = "looping" /\ next[k] \in skip[k]
    /\ next' = [next EXCEPT ![k] = @ + 1]
    /\ UNCHANGED <<rowVars, at, target, nonce, skip, request, gcVars>>

SendChunk(k) ==
    /\ Moves(k, "looping", "waiting")
    /\ next[k] \in Chunks \ skip[k]
    /\ request' = [request EXCEPT ![k] = "sent"]
    /\ UNCHANGED <<rowVars, target, nonce, next, skip, gcVars>>

Answered(k) ==
    /\ \/ /\ request[k] = "ok"
          /\ Moves(k, "waiting", "looping")
          /\ next' = [next EXCEPT ![k] = @ + 1]
       \/ /\ request[k] = "refused"
          /\ Moves(k, "waiting", "failed")
          /\ UNCHANGED next
    /\ request' = [request EXCEPT ![k] = "none"]
    /\ UNCHANGED <<rowVars, target, nonce, skip, gcVars>>

\* The browser gives up on a request that the server goes on with.
LoseAnswer(k) ==
    /\ "answer" \in Faults
    /\ Moves(k, "waiting", "failed")
    /\ UNCHANGED <<rowVars, target, nonce, next, skip, request, gcVars>>

\* The loop looks at the pause flag before each chunk, skipped ones included.
PauseUpload(k) ==
    /\ Moves(k, "looping", "paused")
    /\ next[k] \in Chunks
    /\ UNCHANGED <<rowVars, target, nonce, next, skip, request, gcVars>>

\* Only a first upload is offered to be resumed: a paused recovery is
\* recovered again, by a session that encrypts anew.
ResumeUpload(k) ==
    /\ k \in Uploads
    /\ Moves(k, "paused", "asking")
    /\ UNCHANGED <<rowVars, target, nonce, next, skip, request, gcVars>>

\* Mutant of LoopEnds: the last chunk is forgotten.
LoopEndsEarly(k) == next[k] >= LastChunk

\* Mutant of LoopEnds: one iteration too many.
LoopEndsLate(k) == next[k] = LastChunk + 2

LoopEnds(k) == next[k] = LastChunk + 1

Finish(k) ==
    /\ LoopEnds(k)
    /\ Moves(k, "looping", "success")
    /\ UNCHANGED <<rowVars, target, nonce, next, skip, request, gcVars>>

-----------------------------------------------------------------------------
(***************************************************************************)
(* handle_upload_chunk                                                     *)
(***************************************************************************)

At(k, from, to) ==
    request[k] = from /\ request' = [request EXCEPT ![k] = to]

\* get_storage_provider, is_upload_complete and get_total_chunks: three
\* transactions. A row does not become incomplete again, nor does its number
\* of chunks change: what the first finds live and incomplete decides.
AdmitChunk(k) ==
    /\ \/ /\ target[k] \in Live \ Complete
          /\ At(k, "sent", "writing")
       \/ /\ target[k] \notin Live \ Complete
          /\ At(k, "sent", "refused")
    /\ UNCHANGED <<rowVars, sessionVars, gcVars>>

\* Mutant of Opened: opening for output alone truncates the file.
OpenedTruncated(f) == [c \in Chunks |-> Hole]

Opened(f) == IF disk[f] = Absent THEN [c \in Chunks |-> Hole] ELSE disk[f]

\* Mutant of WriteChunk: the first chunk begins the file anew.
WriteBeginsAnew(k) ==
    LET f   == target[k]
        old == IF next[k] = 0 THEN OpenedTruncated(f) ELSE Opened(f)
    IN  /\ At(k, "writing", "recording")
        /\ disk' = [disk EXCEPT ![f] = [old EXCEPT ![next[k]] = nonce[k]]]
        /\ UNCHANGED <<rows, saved, sessionVars, gcVars>>

\* write_chunk opens or creates the file, and reports success whatever
\* became of the write.
WriteChunk(k) ==
    LET f == target[k]
    IN  /\ At(k, "writing", "recording")
        /\ \/ disk' = [disk EXCEPT ![f] =
                         [Opened(f) EXCEPT ![next[k]] = nonce[k]]]
           \/ "disk" \in Faults /\ disk' = [disk EXCEPT ![f] = Opened(f)]
        /\ UNCHANGED <<rows, saved, sessionVars, gcVars>>

\* record_chunk_saved; the foreign key refuses a row that is gone.
RecordChunk(k) ==
    /\ \/ /\ target[k] \in Rows
          /\ At(k, "recording", "counting")
          /\ saved' = [saved EXCEPT ![target[k]] = @ \cup {next[k]}]
       \/ /\ target[k] \notin Rows
          /\ At(k, "recording", "refused")
          /\ UNCHANGED saved
    /\ UNCHANGED <<rows, disk, sessionVars, gcVars>>

\* Mutant of AllSaved: off by one.
AllSavedButOne(f) == Cardinality(saved[f]) >= LastChunk

\* count_uploaded_chunks against total_chunks.
AllSaved(f) == Cardinality(saved[f]) = LastChunk + 1

CountChunks(k) ==
    /\ \/ /\ target[k] \notin Rows
          /\ At(k, "counting", "refused")
       \/ /\ target[k] \in Rows /\ AllSaved(target[k])
          /\ At(k, "counting", "marking")
       \/ /\ target[k] \in Rows /\ ~AllSaved(target[k])
          /\ At(k, "counting", "ok")
    /\ UNCHANGED <<rowVars, sessionVars, gcVars>>

\* Mutant of MarkComplete: only if the file is not in the trash.
MarkLiveComplete(k) ==
    /\ At(k, "marking", "ok")
    /\ rows' = [f \in FileIds |-> IF f = target[k] /\ f \in Live
                                  THEN [rows[f] EXCEPT !.upload = "complete"]
                                  ELSE rows[f]]
    /\ UNCHANGED <<saved, disk, sessionVars, gcVars>>

\* mark_upload_complete updates the row if there still is one.
MarkComplete(k) ==
    /\ At(k, "marking", "ok")
    /\ rows' = [f \in FileIds |-> IF f = target[k] /\ f \in Rows
                                  THEN [rows[f] EXCEPT !.upload = "complete"]
                                  ELSE rows[f]]
    /\ UNCHANGED <<saved, disk, sessionVars, gcVars>>

\* An exception, or the end of the process, after any of these steps.
RequestFails(k) ==
    /\ "request" \in Faults
    /\ request[k] \in Handling
    /\ request' = [request EXCEPT ![k] = "refused"]
    /\ UNCHANGED <<rowVars, sessionVars, gcVars>>

-----------------------------------------------------------------------------
(***************************************************************************)
(* The trash                                                               *)
(***************************************************************************)

Trashes(f, age) == rows' = [rows EXCEPT ![f].trash = age]

DeleteFile(f) ==
    /\ f \in Live
    /\ Trashes(f, "recent")
    /\ UNCHANGED <<saved, disk, sessionVars, request, gcVars>>

\* Refused by the unique index when a live row has the name.
RestoreFile(f) ==
    /\ f \in Rows \ Live
    /\ Live = {}
    /\ Trashes(f, "live")
    /\ UNCHANGED <<saved, disk, sessionVars, request, gcVars>>

\* hard_delete_file, batch_hard_delete_files, empty_trash: the bytes go
\* before the transaction commits, and it waits for the user's row.
HardDelete(f) ==
    /\ f \in Rows \ Live
    /\ \A k \in Sessions : at[k] # "replacing"
    /\ Deletes({f})
    /\ Erases({f})
    /\ UNCHANGED <<sessionVars, request, gcVars>>

\* The transaction rolls back, and the bytes are gone all the same.
HardDeleteAborts(f) ==
    /\ "delete" \in Faults
    /\ f \in Rows \ Live
    /\ Erases({f})
    /\ UNCHANGED <<rows, saved, sessionVars, request, gcVars>>

-----------------------------------------------------------------------------
(***************************************************************************)
(* The garbage collector and time                                          *)
(***************************************************************************)

Doomed == {f \in Rows : \/ rows[f].upload = "abandoned"
                        \/ rows[f].trash = "expired"}

Turns(g, from, to) == gc[g] = from /\ gc' = [gc EXCEPT ![g] = to]

\* Phase 1.
CollectorReads(g) ==
    /\ Turns(g, "idle", "erasing")
    /\ doomed' = [doomed EXCEPT ![g] = Doomed]
    /\ valid' = [valid EXCEPT ![g] = Rows]
    /\ UNCHANGED <<rowVars, sessionVars, request>>

CollectorErases(g) ==
    /\ Turns(g, "erasing", "committing")
    /\ Erases(doomed[g])
    /\ UNCHANGED <<rows, saved, doomed, valid, sessionVars, request>>

\* Mutant of Deleted: phase 2 deletes the list of phase 1.
DeletedByList(g) == doomed[g]

\* Phase 2 selects anew what it deletes.
Deleted(g) == Doomed

\* Its refunds wait for the user's row. An exception leaves the rows, and
\* the run goes on in both cases.
CollectorCommits(g) ==
    /\ Turns(g, "committing", "sweeping")
    /\ \/ /\ doomed[g] # {} => \A k \in Sessions : at[k] # "replacing"
          /\ Deletes(Deleted(g))
       \/ UNCHANGED <<rows, saved>>
    /\ UNCHANGED <<disk, doomed, valid, sessionVars, request>>

\* Mutant of Orphans: sweeps only what phase 1 has listed.
OrphansListed(g) == doomed[g]

Orphans(g) == FileIds \ valid[g]

\* delete_orphaned_files, with the ids phase 1 has read.
CollectorSweeps(g) ==
    /\ Turns(g, "sweeping", "idle")
    /\ Erases(Orphans(g))
    /\ doomed' = [doomed EXCEPT ![g] = {}]
    /\ valid' = [valid EXCEPT ![g] = {}]
    /\ UNCHANGED <<rows, saved, sessionVars, request>>

Older(row) == IF row.upload = "uploading"
              THEN [row EXCEPT !.upload = "abandoned"] ELSE row

Expired(row) == IF row.trash = "recent"
                THEN [row EXCEPT !.trash = "expired"] ELSE row

HoursPass ==
    /\ "hours" \in Clock
    /\ rows' = [f \in FileIds |-> IF f \in Rows THEN Older(rows[f])
                                                ELSE rows[f]]
    /\ UNCHANGED <<saved, disk, sessionVars, request, gcVars>>

MonthPasses ==
    /\ "month" \in Clock
    /\ rows' = [f \in FileIds |-> IF f \in Rows THEN Expired(Older(rows[f]))
                                                ELSE rows[f]]
    /\ UNCHANGED <<saved, disk, sessionVars, request, gcVars>>

-----------------------------------------------------------------------------
SessionSteps(k) ==
    \/ CommitUpload(k) \/ FetchNonce(k)
    \/ AskProgress(k) \/ SkipChunk(k) \/ SendChunk(k) \/ Answered(k) \/ Finish(k)

RequestSteps(k) ==
    AdmitChunk(k) \/ WriteChunk(k) \/ RecordChunk(k) \/ CountChunks(k)
      \/ MarkComplete(k)

CollectorSteps(g) ==
    CollectorReads(g) \/ CollectorErases(g) \/ CollectorCommits(g)
      \/ CollectorSweeps(g)

Next ==
    \/ \E k \in Sessions :
          \/ StartUpload(k) \/ StartRecovery(k)
          \/ SessionSteps(k) \/ RequestSteps(k)
          \/ LoseAnswer(k) \/ PauseUpload(k) \/ ResumeUpload(k)
          \/ RequestFails(k)
    \/ \E f \in FileIds : DeleteFile(f) \/ RestoreFile(f) \/ HardDelete(f)
                            \/ HardDeleteAborts(f)
    \/ \E g \in Collectors : CollectorSteps(g)
    \/ HoursPass \/ MonthPasses

Spec == Init /\ [][Next]_vars

\* A session's loop and the server's threads go on; the collector runs once
\* a day. Nobody has to start, resume or delete anything.
Fairness ==
    /\ \A k \in Sessions : WF_vars(SessionSteps(k)) /\ WF_vars(RequestSteps(k))
    /\ \A g \in Collectors : WF_vars(CollectorSteps(g))

FairSpec == Spec /\ Fairness

-----------------------------------------------------------------------------
(***************************************************************************)
(* Properties                                                              *)
(***************************************************************************)

\* A file is complete only when every one of its chunks is recorded, however
\* requests, deletions and the collector interleave.
CompleteMeansRecorded == \A f \in Complete : saved[f] = Chunks

Stored(f) == disk[f] # Absent /\ \A c \in Chunks : disk[f][c] # Hole

\* A complete, live file has all its bytes on disk: what a download reads.
CompleteMeansStored == \A f \in Live \cap Complete : Stored(f)

\* Whoever sends the last missing chunk, and whichever request counts last,
\* an upload whose chunks are all recorded is about to be complete.
RecordedGetsComplete ==
    \A f \in Live \ Complete :
        saved[f] = Chunks =>
            \E k \in Sessions : /\ target[k] = f
                                /\ request[k] \in {"counting", "marking"}

\* A session reports success only when every chunk of its file is recorded,
\* whatever it was told to skip, however often it paused or lost an answer.
SuccessMeansSaved ==
    \A k \in Sessions :
        at[k] = "success" /\ target[k] \in Rows => saved[target[k]] = Chunks

\* All chunks of a complete file that no recovery uploads to are of one
\* encryption, whichever uploads of its name come, go and replace each other:
\* with chunks of two nonces nobody can decrypt it. (A recovery makes a nonce
\* of its own: RecoveryKeepsNonce.)
OneEncryption ==
    \A f \in Complete \ {target[r] : r \in Recoveries} :
        disk[f] # Absent =>
            \A c, d \in Chunks : disk[f][c] = disk[f][d]
                                   \/ Hole \in {disk[f][c], disk[f][d]}

\* drive.store.ts:1352: a recovery encrypts under the nonce of the chunks
\* that are already on the server.
RecoveryKeepsNonce ==
    [][\A k \in Recoveries :
          LET f == target[k]
          IN  at[k] = "fetching" /\ at'[k] = "asking" /\ disk[f] # Absent
                => disk[f][0] \in {Hole, nonce'[k]}]_vars

\* The collector deletes no row of a live, complete file, not even of one
\* that was restored or finished after phase 1 had listed it. Only init_upload
\* can: its check that the file it replaces is unfinished takes no lock.
CollectorSparesFinished ==
    [][\A f \in Live \cap Complete : rows'[f] = Gone =>
          \E k \in Uploads : at[k] = "replacing" /\ target[k] = f]_vars

\* A complete file whose bytes are all on disk keeps them for as long as its
\* row, whatever late or repeated chunk requests arrive. The exceptions are
\* those CompleteMeansStored fails by: a hard deletion that rolls back, and a
\* collector that erases by the list, or sweeps by the ids, of its phase 1.
StoredBytesStay ==
    [][\A f \in Complete :
          /\ Stored(f) /\ ~Stored(f)'
          /\ rows'[f] # Gone
          => \/ HardDeleteAborts(f)
             \/ \E g \in Collectors :
                   \/ CollectorErases(g) /\ f \in doomed[g]
                   \/ CollectorSweeps(g) /\ f \notin valid[g]]_vars

\* A session that is not paused ends.
SessionsEnd ==
    \A k \in Sessions :
        at[k] = "asking" ~> at[k] \in {"paused", "success", "failed"}

\* The bytes of a deleted file are erased, those a late request has written
\* after the row was gone included.
OrphansSwept ==
    \A f \in FileIds : rows[f] = Gone ~> disk[f] = Absent
=============================================================================
