----------------------------- MODULE UploadBatch -----------------------------
(***************************************************************************)
(* The uploads of one browser: DriveStore's list of transfers with its     *)
(* flags and groups, UploadBatchCoordinatorService, UploadQueue, and the   *)
(* loops of UploadEngineService, next to the clicks of the transfer panel. *)
(*                                                                         *)
(* A submission is what uploadFiles or uploadFolderCandidates is given:    *)
(* videos that are uploaded one by one, and a batch that follows them. All *)
(* of it is one thread: an action is an event (an answer, a click) with    *)
(* the code that runs up to the next await, or one continuation of it.     *)
(*                                                                         *)
(* Left out: the contents of files, progress bars, and what the server     *)
(* does with chunks (ChunkUpload).                                         *)
(***************************************************************************)
EXTENDS Integers, Sequences, FiniteSets

CONSTANTS Batch,       \* the transfers of each submission that go in a batch
          Videos,      \* the transfers of each submission that go one by one
          Recoveries,  \* the pending uploads in the list (isRecovery)
          Hash,        \* the name_hash of each transfer of a batch
          Google,      \* the transfers whose provider is google_drive
          LastChunk,   \* totalChunks - 1, of every file
          WindowSize,  \* BATCH_WINDOW_SIZE
          LocalLimit,  \* LOCAL_UPLOAD_CONCURRENCY
          GoogleLimit, \* GOOGLE_UPLOAD_CONCURRENCY
          Resumed,     \* bound: the transfers that the user resumes
          Scenarios,   \* bound: the submissions and recoveries made together
          NoOne

Submissions == DOMAIN Batch

Elements(s) == {s[i] : i \in DOMAIN s}

\* The others of s, in their order.
Without(s, ts) ==
    LET f[i \in 0..Len(s)] == IF i = 0 THEN <<>>
                              ELSE IF s[i] \in ts THEN f[i - 1]
                              ELSE Append(f[i - 1], s[i])
    IN f[Len(s)]

InBatches == UNION {Elements(Batch[b]) : b \in Submissions}

AllVideos == UNION {Videos[b] : b \in Submissions}

\* Transfers that are uploaded outside of a batch.
Singles == AllVideos \cup Recoveries

Transfers == InBatches \cup Singles

\* createTransferGroup: all transfers of a submission, fixed at its start.
Members(b) == Elements(Batch[b]) \cup Videos[b]

Chunks == 0..LastChunk

\* A transfer may be uploaded by the call that started it and, once it has
\* been paused and resumed, by a second loop. Bound: one resumed loop a time.
Slots == {"first", "again"}

ASSUME BatchAssumption ==
    /\ Batch \in Seq(Seq(InBatches))
    /\ Videos \in [Submissions -> SUBSET AllVideos]
    /\ \A t \in InBatches : Hash[t] \in Int
    /\ LastChunk \in Nat
    /\ {WindowSize, LocalLimit, GoogleLimit} \subseteq Nat \ {0}
    /\ IsFiniteSet(Transfers) /\ NoOne \notin Transfers
    /\ Resumed \subseteq Transfers

ASSUME DistinctAssumption ==
    /\ InBatches \cap Singles = {} /\ AllVideos \cap Recoveries = {}
    /\ \A b \in Submissions : \A i, j \in DOMAIN Batch[b] :
          Batch[b][i] = Batch[b][j] => i = j
    /\ \A b, c \in Submissions : b # c => Members(b) \cap Members(c) = {}

VARIABLES item,      \* the status of each transfer in the list, or "absent"
          pending,   \* the transfers with isRecovery
          paused,    \* pausedTransfers
          active,    \* the transfers with an entry in activeUploads
          counted,   \* cancelledTransferIds, of all groups
          phase,     \* how far each submission is
          tail,      \* operationTail: the submissions that wait, in order
          op,        \* the operation that UploadBatchCoordinator processes
          summary,   \* the UploadBatchSummary of each submission
          single,    \* how far each upload outside of a batch is
          retried,   \* the videos whose conflict has been answered
          dialog,    \* activeDialog: the video it asks about
          chain,     \* resumeTransferGroup: the transfers still to resume
          loop,      \* the upload loops of each transfer
          stored     \* the chunks that the server has (external)

itemVars  == <<item, pending, paused, active, counted>>
batchVars == <<phase, tail, op, summary>>
flowVars  == <<single, retried, dialog, chain>>
vars == <<itemVars, batchVars, flowVars, loop, stored>>

Listed == {t \in Transfers : item[t] # "absent"}

Statuses == {"processing", "paused", "success", "error"}

Idle == [batch |-> 0, from |-> 0, at |-> 0, ready |-> <<>>, waiting |-> <<>>,
         running |-> {}]

Off == [at |-> "off", next |-> 0, have |-> {}]

TypeOK ==
    /\ item \in [Transfers -> Statuses \cup {"absent"}]
    /\ pending \subseteq Recoveries
    /\ paused \subseteq Transfers
    /\ active \subseteq Transfers
    /\ counted \subseteq Transfers \ Recoveries
    /\ phase \in [Submissions -> {"new", "videos", "queued", "running",
                                  "done", "abandoned"}]
    /\ tail \in Seq(Submissions)
    /\ op.batch \in {0} \cup Submissions /\ op.from \in Nat /\ op.at \in Nat
    /\ op.ready \in Seq(InBatches) /\ op.waiting \in Seq(InBatches)
    /\ op.running \subseteq InBatches
    /\ summary \in [Submissions -> [succeeded : Nat, paused : Nat, failed : Nat]]
    /\ single \in [Singles -> {"off", "key", "encrypt", "convert", "prepare",
                               "init", "dialog", "replace", "loop", "ended", "failed", "erase"}]
    /\ retried \subseteq AllVideos
    /\ dialog \in AllVideos \cup {NoOne}
    /\ chain \in [Submissions -> Seq(Transfers)]
    /\ loop \in [Transfers -> [Slots ->
          [at : {"off", "ready", "ask", "send", "post", "finalize", "done",
                 "paused", "failed"},
           next : 0..(LastChunk + 1), have : SUBSET Chunks]]]
    /\ stored \in [Transfers -> SUBSET Chunks]

Init ==
    /\ \E s \in Scenarios :
          /\ pending = Recoveries \cap s
          /\ phase = [b \in Submissions |-> IF b \in s THEN "new" ELSE "done"]
    /\ paused = {} /\ active = {} /\ counted = {}
    /\ item = [t \in Transfers |-> IF t \in pending THEN "paused" ELSE "absent"]
    /\ tail = <<>> /\ op = Idle
    /\ summary = [b \in Submissions |->
          [succeeded |-> 0, paused |-> 0, failed |-> 0]]
    /\ single = [s \in Singles |-> "off"]
    /\ retried = {} /\ dialog = NoOne
    /\ chain = [b \in Submissions |-> <<>>]
    /\ loop = [t \in Transfers |-> [k \in Slots |-> Off]]
    /\ stored = [t \in Transfers |-> {}]

\* Mutant of Updated: a late update lists a transfer that has been removed.
UpdatedAlways(list, ts, s) == [t \in Transfers |-> IF t \in ts THEN s ELSE list[t]]

\* updateTransfer: a transfer that has been removed stays removed.
Updated(list, ts, s) ==
    [t \in Transfers |-> IF t \in ts /\ list[t] # "absent" THEN s ELSE list[t]]

\* addTransfer.
Added(list, ts) ==
    [t \in Transfers |-> IF t \in ts THEN "processing" ELSE list[t]]

-----------------------------------------------------------------------------
(* Submissions and the uploads outside of a batch.                          *)

Enqueues(b) ==
    /\ item' = Added(item, Elements(Batch[b]))
    /\ tail' = IF Batch[b] = <<>> THEN tail ELSE Append(tail, b)
    /\ phase' = [phase EXCEPT ![b] = IF Batch[b] = <<>> THEN "done" ELSE "queued"]

\* The videos start first; without one the batch is submitted at once.
Submit(b) ==
    /\ phase[b] = "new"
    /\ IF Videos[b] = {}
       THEN Enqueues(b) /\ UNCHANGED single
       ELSE /\ phase' = [phase EXCEPT ![b] = "videos"]
            /\ item' = Added(item, Videos[b])
            /\ single' = [s \in Singles |->
                  IF s \in Videos[b] THEN "convert" ELSE single[s]]
            /\ UNCHANGED tail
    /\ UNCHANGED <<pending, paused, active, counted, op, summary, retried,
                   dialog, chain, loop, stored>>

\* Promise.all of the videos: the batch follows when all have ended, and is
\* given up with the first that fails.
VideosSettled(b) ==
    /\ phase[b] = "videos"
    /\ \/ /\ \A v \in Videos[b] : single[v] = "ended"
          /\ Enqueues(b)
       \/ /\ \E v \in Videos[b] : single[v] = "failed"
          /\ phase' = [phase EXCEPT ![b] = "abandoned"]
          /\ UNCHANGED <<item, tail>>
    /\ UNCHANGED <<pending, paused, active, counted, op, summary, single,
                   retried, dialog, chain, loop, stored>>

MovesSingle(s, from, to) ==
    /\ single[s] = from
    /\ single' = [single EXCEPT ![s] = to]
    /\ UNCHANGED <<batchVars, chain, stored>>

SingleFails(s) ==
    /\ s \in AllVideos /\ single[s] \in {"prepare", "init"}
    /\ MovesSingle(s, single[s], "failed")
    /\ item' = Updated(item, {s}, "error") /\ active' = active \ {s}
    /\ UNCHANGED <<pending, paused, counted, retried, dialog, loop>>

\* transcodeToProxy, with or without success; the status is set anew.
ConvertVideo(s) ==
    /\ MovesSingle(s, "convert", "prepare")
    /\ item' = Updated(item, {s}, "processing")
    /\ UNCHANGED <<pending, paused, active, counted, retried, dialog, loop>>

\* prepareUpload encrypts the file; then initFileUpload is sent.
PrepareSingle(s) ==
    /\ MovesSingle(s, "prepare", "init")
    /\ UNCHANGED <<itemVars, retried, dialog, loop>>

Launched(s, slot) == [loop EXCEPT ![s][slot] = [Off EXCEPT !.at = "ready"]]

InitSingle(s) ==
    /\ s \in AllVideos /\ MovesSingle(s, "init", "loop")
    /\ active' = active \cup {s} /\ loop' = Launched(s, "first")
    /\ UNCHANGED <<item, pending, paused, counted, retried, dialog>>

\* 409: the transfer shows an error, and the dialog asks about this video; a
\* dialog that was open is replaced, and its promise stays unsettled.
Conflict(s) ==
    /\ s \in AllVideos \ retried /\ MovesSingle(s, "init", "dialog")
    /\ item' = Updated(item, {s}, "error") /\ active' = active \ {s}
    /\ dialog' = s
    /\ UNCHANGED <<pending, paused, counted, retried, loop>>

AnswerDialog(s) ==
    /\ dialog = s /\ dialog' = NoOne
    /\ \/ MovesSingle(s, "dialog", "ended")
       \/ MovesSingle(s, "dialog", "replace")
    /\ UNCHANGED <<itemVars, retried, loop>>

\* The existing file is trashed and erased, if it is found in the list, and
\* _doUpload begins again: it adds the transfer if it has been removed.
ReplaceExisting(s) ==
    /\ \/ /\ MovesSingle(s, "replace", "convert")
          /\ item' = Added(item, {s}) /\ retried' = retried \cup {s}
       \/ MovesSingle(s, "replace", "failed") /\ UNCHANGED <<item, retried>>
    /\ UNCHANGED <<pending, paused, active, counted, dialog, loop>>

\* The user picks the file of a pending upload. Bound: one attempt a time.
RecoverUpload(r) ==
    /\ r \in pending /\ item[r] = "paused"
    /\ single[r] \in {"off", "ended"} /\ loop[r] = [k \in Slots |-> Off]
    /\ MovesSingle(r, single[r], "key")
    /\ UNCHANGED <<itemVars, retried, dialog, loop>>

\* decryptName and the request for the nonce end; the file is encrypted. A
\* key that cannot be decrypted leaves the transfer as it is.
RecoverKey(r) ==
    /\ r \in Recoveries
    /\ \/ MovesSingle(r, "key", "encrypt") /\ item' = Updated(item, {r}, "processing")
       \/ MovesSingle(r, "key", "ended") /\ UNCHANGED item
    /\ UNCHANGED <<pending, paused, active, counted, retried, dialog, loop>>

\* encryptFile: when it fails, the transfer keeps the status "processing".
RecoverLoop(r) ==
    /\ \/ /\ MovesSingle(r, "encrypt", "loop")
          /\ paused' = paused \ {r} /\ active' = active \cup {r}
          /\ loop' = Launched(r, "first")
       \/ MovesSingle(r, "encrypt", "ended") /\ UNCHANGED <<paused, active, loop>>
    /\ UNCHANGED <<item, pending, counted, retried, dialog>>

Ends(t, slot) == loop' = [loop EXCEPT ![t][slot] = Off]

\* What runUploadLoop does with the result of execute.
Outcome(t, slot) ==
    CASE loop[t][slot].at = "paused" ->
            item' = Updated(item, {t}, "paused") /\ UNCHANGED active
      [] loop[t][slot].at = "done" ->
            item' = Updated(item, {t}, "success") /\ active' = active \ {t}
      [] loop[t][slot].at = "failed" ->
            item' = Updated(item, {t}, "error")
            /\ active' = IF slot = "first" /\ t \in AllVideos
                         THEN active \ {t} ELSE active

SingleEnds(s) ==
    /\ loop[s]["first"].at \in {"done", "paused", "failed"}
    /\ MovesSingle(s, "loop", IF loop[s]["first"].at = "failed" /\ s \in AllVideos
                              THEN "failed" ELSE "ended")
    /\ Outcome(s, "first") /\ Ends(s, "first")
    /\ pending' = IF loop[s]["first"].at = "failed" THEN pending
                  ELSE pending \ {s}
    /\ UNCHANGED <<paused, counted, retried, dialog>>

-----------------------------------------------------------------------------
(* UploadBatchCoordinatorService: one operation at a time, window by window. *)

Window(o) == SubSeq(Batch[o.batch], o.from + 1,
                    IF o.from + WindowSize < Len(Batch[o.batch])
                    THEN o.from + WindowSize ELSE Len(Batch[o.batch]))

\* The candidates after the window.
Later(o) == {Batch[o.batch][i] : i \in
                {j \in DOMAIN Batch[o.batch] : j > o.from + WindowSize}}

BeginOperation ==
    /\ op = Idle /\ tail # <<>>
    /\ op' = [Idle EXCEPT !.batch = Head(tail)]
    /\ tail' = Tail(tail)
    /\ phase' = [phase EXCEPT ![Head(tail)] = "running"]
    /\ UNCHANGED <<itemVars, summary, flowVars, loop, stored>>

\* Mutant of Failing: a failure is counted once, however many candidates it concerns.
FailingOnce(ts) ==
    /\ summary' = [summary EXCEPT ![op.batch].failed = @ + 1]
    /\ item' = Updated(item, ts, "error")

\* fail, for a set of candidates: counted, and reported to onResult.
Failing(ts) ==
    /\ summary' = [summary EXCEPT ![op.batch].failed = @ + Cardinality(ts)]
    /\ item' = Updated(item, ts, "error")

\* prepareWindow: one file after another (PREPARATION_CONCURRENCY is 1). No
\* cancelled flag outlives cancelTransfer for a transfer of a batch, so that
\* shouldCancel does not hold here for any.
PrepareCandidate ==
    /\ op.batch # 0 /\ op.at < Len(Window(op))
    /\ LET t == Window(op)[op.at + 1]
       IN \/ /\ op' = [op EXCEPT !.at = @ + 1, !.ready = Append(@, t)]
             /\ UNCHANGED <<item, summary>>
          \/ /\ op' = [op EXCEPT !.at = @ + 1]
             /\ Failing({t})
    /\ UNCHANGED <<pending, paused, active, counted, phase, tail, flowVars,
                   loop, stored>>

Duplicates(s) ==
    {s[i] : i \in {j \in DOMAIN s :
                     \E k \in DOMAIN s : k # j /\ Hash[s[k]] = Hash[s[j]]}}

Valid(s) == Without(s, Duplicates(s))

Prepared == op.batch # 0 /\ op.at = Len(Window(op)) /\ op.ready # <<>>

RejectDuplicates ==
    /\ Prepared /\ Duplicates(op.ready) # {}
    /\ Failing(Duplicates(op.ready))
    /\ op' = [op EXCEPT !.ready = Valid(@)]
    /\ UNCHANGED <<pending, paused, active, counted, phase, tail, flowVars,
                   loop, stored>>

\* batchInitUploads answers, and validateResponse accepts the answer.
InitWindow ==
    /\ Prepared /\ Duplicates(op.ready) = {}
    /\ active' = active \cup Elements(op.ready)
    /\ op' = [op EXCEPT !.ready = <<>>, !.waiting = op.ready]
    /\ UNCHANGED <<item, pending, paused, counted, phase, tail, summary,
                   flowVars, loop, stored>>

\* It fails, or answers what validateResponse refuses.
InitWindowFails ==
    /\ Prepared /\ Duplicates(op.ready) = {}
    /\ Failing(Elements(op.ready)) /\ op' = [op EXCEPT !.ready = <<>>]
    /\ UNCHANGED <<pending, paused, active, counted, phase, tail, flowVars,
                   loop, stored>>

\* 401: no later window is tried, and its candidates fail too.
InitWindowUnauthorized ==
    /\ Prepared /\ Duplicates(op.ready) = {}
    /\ Failing(Elements(op.ready) \cup Later(op))
    /\ op' = [op EXCEPT !.ready = <<>>, !.from = Len(Batch[op.batch]), !.at = 0]
    /\ UNCHANGED <<pending, paused, active, counted, phase, tail, flowVars,
                   loop, stored>>

\* UploadQueue: a free worker takes the next task of its provider.
RunTask(t) ==
    /\ LET mine == Without(op.waiting, {u \in InBatches : (u \in Google) # (t \in Google)})
           busy == {u \in op.running : (u \in Google) = (t \in Google)}
       IN /\ mine # <<>> /\ t = Head(mine)
          /\ Cardinality(busy) < IF t \in Google THEN GoogleLimit ELSE LocalLimit
    /\ op' = [op EXCEPT !.waiting = Without(@, {t}),
                        !.running = @ \cup {t}]
    /\ loop' = Launched(t, "first")
    /\ UNCHANGED <<itemVars, phase, tail, summary, flowVars, stored>>

\* execute, and onResult of DriveStore.
TaskEnds(t) ==
    /\ t \in op.running /\ loop[t]["first"].at \in {"done", "paused", "failed"}
    /\ op' = [op EXCEPT !.running = @ \ {t}]
    /\ Outcome(t, "first") /\ Ends(t, "first")
    /\ summary' = CASE loop[t]["first"].at = "done" ->
                         [summary EXCEPT ![op.batch].succeeded = @ + 1]
                    [] loop[t]["first"].at = "paused" ->
                         [summary EXCEPT ![op.batch].paused = @ + 1]
                    [] loop[t]["first"].at = "failed" ->
                         [summary EXCEPT ![op.batch].failed = @ + 1]
    /\ UNCHANGED <<pending, paused, counted, phase, tail, flowVars, stored>>

\* Mutant of WindowDone: a window shorter than WindowSize is waited for to be full.
WindowDoneFull == /\ op.at = WindowSize /\ op.ready = <<>>
                  /\ op.waiting = <<>> /\ op.running = {}

WindowDone == /\ op.at = Len(Window(op)) /\ op.ready = <<>>
              /\ op.waiting = <<>> /\ op.running = {}

NextWindow ==
    /\ op.batch # 0 /\ WindowDone
    /\ IF op.from + WindowSize < Len(Batch[op.batch])
       THEN /\ op' = [op EXCEPT !.from = @ + WindowSize, !.at = 0]
            /\ UNCHANGED phase
       ELSE op' = Idle /\ phase' = [phase EXCEPT ![op.batch] = "done"]
    /\ UNCHANGED <<itemVars, tail, summary, flowVars, loop, stored>>

-----------------------------------------------------------------------------
(* UploadEngineService.execute, for every loop alike.                       *)

\* shouldPause; shouldCancel never holds (see PrepareCandidate).
ShouldStop(t) == t \in paused

LoopSteps(t, k, next) ==
    /\ loop' = [loop EXCEPT ![t][k] = next]
    /\ UNCHANGED <<itemVars, batchVars, flowVars>>

\* Asks for the chunks that are there, or posts the whole file to Google.
LoopStarts(t, k) ==
    /\ loop[t][k].at = "ready"
    /\ LoopSteps(t, k, [Off EXCEPT !.at =
          IF t \notin Google THEN "ask" ELSE IF ShouldStop(t) THEN "paused" ELSE "post"])
    /\ UNCHANGED stored

\* Mutants of Advance: the chunk after the next one; one chunk too many.
AdvanceByTwo(t, have, i) ==
    LET missing == {c \in (i + 1)..LastChunk : c \notin have}
    IN IF ShouldStop(t) THEN [at |-> "paused", next |-> 0, have |-> {}]
       ELSE IF missing = {} THEN [at |-> "done", next |-> 0, have |-> {}]
       ELSE [at |-> "send", have |-> have, next |-> i + 1]

\* The for loop of uploadLocal from chunk i on, up to its next await.
Advance(t, have, i) ==
    LET missing == {c \in i..LastChunk : c \notin have}
    IN IF ShouldStop(t) /\ i <= LastChunk
       THEN [at |-> "paused", next |-> 0, have |-> {}]
       ELSE IF missing = {} THEN [at |-> "done", next |-> 0, have |-> {}]
       ELSE [at |-> "send", have |-> have,
             next |-> CHOOSE c \in missing : \A d \in missing : c <= d]

\* getUploadedChunks; when it fails, every chunk is sent again.
Progress(t, k) ==
    /\ loop[t][k].at = "ask"
    /\ \E have \in {stored[t], {}} : LoopSteps(t, k, Advance(t, have, 0))
    /\ UNCHANGED stored

ChunkSent(t, k) ==
    /\ loop[t][k].at = "send"
    /\ stored' = [stored EXCEPT ![t] = @ \cup {loop[t][k].next}]
    /\ LoopSteps(t, k, Advance(t, loop[t][k].have, loop[t][k].next + 1))

\* The multipart post answers, then finalizeExternalUpload.
Posted(t, k) ==
    /\ loop[t][k].at = "post"
    /\ LoopSteps(t, k, [Off EXCEPT !.at =
          IF ShouldStop(t) THEN "paused" ELSE "finalize"])
    /\ UNCHANGED stored

Finalized(t, k) ==
    /\ loop[t][k].at = "finalize"
    /\ stored' = [stored EXCEPT ![t] = Chunks]
    /\ LoopSteps(t, k, [Off EXCEPT !.at = "done"])

\* A request is refused or its answer lost, whether or not it was executed.
RequestFails(t, k) ==
    /\ loop[t][k].at \in {"send", "post", "finalize"}
    /\ \/ UNCHANGED stored
       \/ /\ loop[t][k].at = "send"
          /\ stored' = [stored EXCEPT ![t] = @ \cup {loop[t][k].next}]
    /\ LoopSteps(t, k, [Off EXCEPT !.at = "failed"])

-----------------------------------------------------------------------------
(* The transfer panel.                                                      *)

\* The buttons of a transfer.
Offered(t) ==
    CASE item[t] = "processing" -> {"pause"}
      [] item[t] = "paused" -> {"cancel", IF t \in pending THEN "recover" ELSE "resume"}
      [] OTHER -> {}

Pausing(ts) ==
    /\ paused' = paused \cup ts
    /\ item' = Updated(item, ts, "paused")

PauseTransfer(t) ==
    /\ "pause" \in Offered(t) /\ Pausing({t})
    /\ UNCHANGED <<pending, active, counted, batchVars, flowVars, loop, stored>>

\* resumeUpload: nothing happens without an entry in activeUploads, and the
\* loop that is still waiting for an answer is not waited for.
Resumes(t) ==
    /\ paused' = paused \ {t}
    /\ item' = Updated(item, {t}, "processing")
    /\ loop' = Launched(t, "again")
    /\ UNCHANGED <<pending, active, counted>>

Resumable(t) == t \in Resumed /\ item[t] = "paused" /\ t \in active
                /\ loop[t]["again"] = Off

ResumeUpload(t) ==
    /\ "resume" \in Offered(t) /\ Resumable(t) /\ Resumes(t)
    /\ UNCHANGED <<batchVars, flowVars, stored>>

ResumedEnds(t) ==
    /\ loop[t]["again"].at \in {"done", "paused", "failed"}
    /\ Outcome(t, "again") /\ Ends(t, "again")
    /\ UNCHANGED <<pending, paused, counted, batchVars, flowVars, stored>>

\* Removes the transfers with their entries and flags, and counts them in
\* their groups. Loops that run are not told: the flag that would stop them
\* goes with the rest.
Removing(ts) ==
    /\ item' = [t \in Transfers |-> IF t \in ts THEN "absent" ELSE item[t]]
    /\ active' = active \ ts /\ paused' = paused \ ts
    /\ UNCHANGED pending

CancelTransfer(t) ==
    /\ "cancel" \in Offered(t) /\ t \notin pending
    /\ Removing({t}) /\ counted' = counted \cup ({t} \ Recoveries)
    /\ UNCHANGED <<batchVars, flowVars, loop, stored>>

\* A pending upload is first trashed and erased on the server.
CancelPending(r) ==
    /\ "cancel" \in Offered(r) /\ r \in pending /\ single[r] \in {"off", "ended"}
    /\ Pausing({r}) /\ MovesSingle(r, single[r], "erase")
    /\ UNCHANGED <<pending, active, counted, retried, dialog, loop>>

ErasePending(r) ==
    /\ r \in Recoveries /\ MovesSingle(r, "erase", "ended")
    /\ Removing({r})
    /\ UNCHANGED <<counted, retried, dialog, loop>>

-----------------------------------------------------------------------------
(* Groups.                                                                  *)

InStatus(b, s) == {t \in Members(b) : item[t] = s}

Counted(b) == counted \cap Members(b)

\* terminalFiles >= transferIds.length.
AllTerminal(b) ==
    Cardinality(InStatus(b, "success")) + Cardinality(InStatus(b, "error"))
      + Cardinality(Counted(b)) >= Cardinality(Members(b))

\* The status of toTransferGroupView.
GroupStatus(b) ==
    LET succeeded == Cardinality(InStatus(b, "success"))
        failed    == Cardinality(InStatus(b, "error"))
        removed   == Cardinality(Counted(b))
        total     == Cardinality(Members(b))
    IN CASE succeeded = total -> "success"
         [] succeeded # total /\ removed = total -> "cancelled"
         [] AllTerminal(b) /\ succeeded # total /\ removed # total ->
               IF succeeded = 0 /\ failed > 0 THEN "error" ELSE "partial"
         [] ~AllTerminal(b) /\ InStatus(b, "processing") # {} -> "active"
         [] ~AllTerminal(b) /\ InStatus(b, "processing") = {} ->
               IF Cardinality(InStatus(b, "paused")) + removed = total
               THEN "paused" ELSE "queued"

\* createTransferGroup: two transfers or more, once they are submitted.
Grouped(b) == Cardinality(Members(b)) >= 2 /\ phase[b] # "new"

PauseGroup(b) ==
    /\ Grouped(b) /\ InStatus(b, "processing") # {}
    /\ Pausing(InStatus(b, "processing"))
    /\ UNCHANGED <<pending, active, counted, batchVars, flowVars, loop, stored>>

MemberOrder(b) == CHOOSE s \in [1..Cardinality(Members(b)) -> Members(b)] :
                     Elements(s) = Members(b)

\* resumeTransferGroup awaits each upload before it resumes the next.
ResumeGroup(b) ==
    /\ Grouped(b) /\ InStatus(b, "paused") # {} /\ InStatus(b, "processing") = {}
    /\ chain[b] = <<>>
    /\ chain' = [chain EXCEPT ![b] = MemberOrder(b)]
    /\ UNCHANGED <<itemVars, batchVars, single, retried, dialog, loop, stored>>

ContinueGroup(b) ==
    /\ chain[b] # <<>>
    /\ \A u \in Members(b) : loop[u]["again"] = Off
    /\ LET t == Head(chain[b])
       IN    IF Resumable(t) THEN Resumes(t) ELSE UNCHANGED <<itemVars, loop>>
    /\ chain' = [chain EXCEPT ![b] = Tail(@)]
    /\ UNCHANGED <<batchVars, single, retried, dialog, stored>>

CancelGroup(b) ==
    /\ Grouped(b) /\ ~AllTerminal(b)
    /\ LET ts == InStatus(b, "processing") \cup InStatus(b, "paused")
       IN ts # {} /\ Removing(ts) /\ counted' = counted \cup ts
    /\ UNCHANGED <<batchVars, flowVars, loop, stored>>

Unlisted(ts) == item' = [t \in Transfers |-> IF t \in ts THEN "absent" ELSE item[t]]

\* clearTransferGroup; the group is forgotten with its transfers.
ClearGroup(b) ==
    /\ Grouped(b) /\ AllTerminal(b) /\ Members(b) \cap Listed # {}
    /\ Unlisted(Members(b))
    /\ UNCHANGED <<pending, paused, active, counted, batchVars, flowVars, loop,
                   stored>>

\* clearCompletedTransfers leaves the members of groups.
ClearCompleted ==
    LET ungrouped == Transfers \ UNION {Members(b) : b \in {c \in Submissions : Grouped(c)}}
        ended == {t \in ungrouped : item[t] \in {"success", "error"}}
    IN /\ ended # {} /\ Unlisted(ended)
       /\ UNCHANGED <<pending, paused, active, counted, batchVars, flowVars,
                      loop, stored>>

-----------------------------------------------------------------------------
Answers(t, k) == \/ LoopStarts(t, k) \/ Progress(t, k) \/ ChunkSent(t, k)
                 \/ Posted(t, k) \/ Finalized(t, k) \/ RequestFails(t, k)

SingleStep(s) == \/ ConvertVideo(s) \/ PrepareSingle(s) \/ InitSingle(s)
                 \/ SingleFails(s) \/ Conflict(s) \/ ReplaceExisting(s)
                 \/ RecoverKey(s) \/ RecoverLoop(s) \/ ErasePending(s)
                 \/ SingleEnds(s)

Coordinates == \/ BeginOperation \/ PrepareCandidate \/ RejectDuplicates
               \/ InitWindow \/ InitWindowFails \/ InitWindowUnauthorized
               \/ NextWindow

Clicks == \/ \E t \in Transfers : PauseTransfer(t) \/ ResumeUpload(t) \/ CancelTransfer(t)
          \/ \E r \in Recoveries : RecoverUpload(r) \/ CancelPending(r)
          \/ \E b \in Submissions : \/ Submit(b) \/ PauseGroup(b) \/ ResumeGroup(b)
                                   \/ CancelGroup(b) \/ ClearGroup(b)
          \/ \E s \in AllVideos : AnswerDialog(s)
          \/ ClearCompleted

Next == \/ Coordinates \/ Clicks
        \/ \E t \in Transfers : ResumedEnds(t) \/ \E k \in Slots : Answers(t, k)
        \/ \E t \in InBatches : RunTask(t) \/ TaskEnds(t)
        \/ \E s \in Singles : SingleStep(s)
        \/ \E b \in Submissions : VideosSettled(b) \/ ContinueGroup(b)

Spec == Init /\ [][Next]_vars

\* Every request is answered or fails, and the browser runs what is ready.
FairSpec == /\ Spec /\ WF_vars(Coordinates)
            /\ \A t \in Transfers : /\ WF_vars(ResumedEnds(t))
                                    /\ \A k \in Slots : WF_vars(Answers(t, k))
            /\ \A t \in InBatches : WF_vars(RunTask(t)) /\ WF_vars(TaskEnds(t))
            /\ \A s \in Singles : WF_vars(SingleStep(s))
            /\ \A b \in Submissions : WF_vars(VideosSettled(b))
-----------------------------------------------------------------------------
(* Properties.                                                              *)

\* A transfer is shown as done only when the server has all of its file,
\* however often it was paused, resumed and uploaded by two loops at once
\* (runUploadLoop, uploadLocal).
SuccessMeansStored == \A t \in Transfers : item[t] = "success" => stored[t] = Chunks

\* A group is shown as ended exactly when each of its transfers has ended or
\* been removed: the counts of toTransferGroupView neither miss a transfer
\* nor count one twice. Except when a video that was cancelled comes back with
\* the second try after a conflict (_doUpload), counted and listed at once.
GroupsHonest ==
    \A b \in Submissions : Grouped(b) /\ Members(b) \cap retried = {} /\ Members(b) \cap (Listed \cup counted) # {} =>
       (GroupStatus(b) \in {"success", "error", "partial", "cancelled"}
          <=> \A t \in Members(b) : item[t] \in {"success", "error"} \/ t \in counted)

\* No loop begins a request while its transfer is paused, whichever of its
\* awaits the click came in (shouldPause).
PauseHolds ==
    [][\A t \in Transfers, k \in Slots :
          loop'[t][k] # loop[t][k] /\ loop'[t][k].at \in {"send", "post", "finalize"}
             => t \notin paused']_vars

\* A batch that has been queued ends, whatever is paused, cancelled, refused
\* or lost meanwhile (operationTail, UploadQueue).
OperationsEnd == \A b \in Submissions : phase[b] = "queued" ~> phase[b] = "done"

\* The candidates whose result has not been reported.
Due == IF op.batch # 0
       THEN {Window(op)[i] : i \in {j \in DOMAIN Window(op) : j > op.at}}
              \cup Later(op) \cup Elements(op.ready)
              \cup Elements(op.waiting) \cup op.running
       ELSE IF tail = <<>> THEN {} ELSE Elements(Batch[Head(tail)])

Reports == INSTANCE BatchReports WITH
    order <- IF op.batch = 0 THEN tail ELSE <<op.batch>> \o tail,
    due <- Due,
    count <- [b \in Submissions |->
       summary[b].succeeded + summary[b].paused + summary[b].failed]

\* The coordinator keeps what BatchReports promises: one operation after
\* another, and one result for every candidate.
ReportsOnce == Reports!Spec
=============================================================================
