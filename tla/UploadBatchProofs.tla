-------------------------- MODULE UploadBatchProofs --------------------------
(***************************************************************************)
(* Proofs about UploadBatch, for any batches, videos and chunks: a         *)
(* transfer that is shown as done is stored, a paused one asks for nothing *)
(* more, groups tell the truth about their transfers, and the coordinator  *)
(* implements BatchReports.                                                *)
(***************************************************************************)
EXTENDS UploadBatch, FiniteSetTheorems, NaturalsInduction,
        WellFoundedInduction, TLAPS

LoopStates == [at : {"off", "ready", "ask", "send", "post", "finalize", "done",
                     "paused", "failed"},
               next : 0..(LastChunk + 1), have : SUBSET Chunks]

\* The part of TypeOK that these proofs need.
Types ==
    /\ item \in [Transfers -> Statuses \cup {"absent"}]
    /\ loop \in [Transfers -> [Slots -> LoopStates]]
    /\ stored \in [Transfers -> SUBSET Chunks]

\* A loop in state w is right about the chunks that the server has: those it
\* leaves out and those it has passed are there, and all when it is done.
Right(w, there) ==
    /\ w.at = "send" => /\ w.next \in Chunks /\ w.have \subseteq there
                        /\ \A c \in Chunks : c < w.next => c \in there
    /\ w.at = "done" => there = Chunks

LoopsRight ==
    \A t \in Transfers, k \in Slots : Right(loop[t][k], stored[t])

\* The inductive invariant behind SuccessMeansStored.
StoredInv == Types /\ LoopsRight /\ SuccessMeansStored

\* Every set of chunks that is not empty has a first one.
LEMMA LeastChunk ==
    ASSUME NEW S \in SUBSET Nat, S # {}
    PROVE  \E n \in S : \A m \in S : n <= m
<1>1. PICK n \in S : \A m \in S : ~(<<m, n>> \in OpToRel(<, Nat))
    BY NatLessThanWellFounded, WFMin
<1>2. ASSUME NEW m \in S, ~(n <= m) PROVE <<m, n>> \in OpToRel(<, Nat)
    <2>1. m < n
        BY <1>2
    <2>. QED
        BY <2>1 DEF OpToRel
<1>. QED
    BY <1>1, <1>2

LEMMA LoopWords ==
    /\ Off \in LoopStates
    /\ \A a \in {"off", "ready", "ask", "send", "post", "finalize", "done",
                 "paused", "failed"} : [Off EXCEPT !.at = a] \in LoopStates
    /\ \A a : [Off EXCEPT !.at = a].at = a
    BY BatchAssumption DEF Off, LoopStates, Chunks

-----------------------------------------------------------------------------
(* Steps that leave the loops alone, but for one that begins or ends.      *)

ItemsKept ==
    /\ item' \in [Transfers -> Statuses \cup {"absent"}]
    /\ \A t \in Transfers :
          item'[t] = "success" => item[t] = "success" \/ stored[t] = Chunks

LoopsKept ==
    /\ stored' = stored
    /\ loop' \in [Transfers -> [Slots -> LoopStates]]
    /\ \A t \in Transfers, k \in Slots :
          loop'[t][k] = loop[t][k] \/ loop'[t][k].at \in {"off", "ready"}

LEMMA QuietStep ==
    ASSUME StoredInv, ItemsKept, LoopsKept
    PROVE  StoredInv'
<1>1. Types'
    BY DEF StoredInv, ItemsKept, LoopsKept, Types
<1>2. LoopsRight'
    BY DEF StoredInv, LoopsKept, LoopsRight, Right
<1>3. SuccessMeansStored'
    BY DEF StoredInv, ItemsKept, LoopsKept, SuccessMeansStored
<1>. QED
    BY <1>1, <1>2, <1>3 DEF StoredInv

Quiet == ItemsKept /\ LoopsKept

LEMMA BothKept == ItemsKept /\ LoopsKept => Quiet
    BY DEF Quiet

LEMMA LoopsAlone ==
    ASSUME StoredInv, UNCHANGED <<loop, stored>>
    PROVE  LoopsKept
    BY DEF StoredInv, Types, LoopsKept

LEMMA OneLoopKept ==
    ASSUME StoredInv, NEW t \in Transfers, NEW k \in Slots, stored' = stored,
           loop' = Launched(t, k) \/ Ends(t, k)
    PROVE  LoopsKept
<1>1. PICK w \in LoopStates : /\ w.at \in {"off", "ready"}
                              /\ loop' = [loop EXCEPT ![t][k] = w]
    <2>1. Off.at = "off"
        BY DEF Off
    <2>. QED
        BY <2>1, LoopWords DEF Launched, Ends
<1>. QED
    BY <1>1 DEF StoredInv, Types, LoopsKept

LEMMA ItemsAlone ==
    ASSUME StoredInv, UNCHANGED item
    PROVE  ItemsKept
    BY DEF StoredInv, Types, ItemsKept

LEMMA ItemsUpdated ==
    ASSUME StoredInv, NEW ts, NEW s \in Statuses \ {"success"},
           item' = Updated(item, ts, s)
    PROVE  ItemsKept
    BY DEF StoredInv, Types, ItemsKept, Updated, Statuses

LEMMA ItemsAdded ==
    ASSUME StoredInv, NEW ts, item' = Added(item, ts)
    PROVE  ItemsKept
    BY DEF StoredInv, Types, ItemsKept, Added, Statuses

LEMMA ItemsGone ==
    ASSUME StoredInv, NEW ts,
           item' = [t \in Transfers |-> IF t \in ts THEN "absent" ELSE item[t]]
    PROVE  ItemsKept
    BY DEF StoredInv, Types, ItemsKept

LEMMA Words == {"processing", "paused", "error"} \subseteq Statuses \ {"success"}
    BY DEF Statuses

\* A transfer is only shown as done when its loop is.
LEMMA OutcomeKeeps ==
    ASSUME StoredInv, NEW t \in Transfers, NEW k \in Slots,
           loop[t][k].at \in {"done", "paused", "failed"}, Outcome(t, k)
    PROVE  ItemsKept
<1>1. CASE loop[t][k].at = "done"
    <2>1. stored[t] = Chunks
        BY <1>1 DEF StoredInv, LoopsRight, Right
    <2>2. item' = Updated(item, {t}, "success")
        BY <1>1 DEF Outcome
    <2>. QED
        BY <2>1, <2>2 DEF StoredInv, Types, ItemsKept, Updated, Statuses
<1>2. CASE loop[t][k].at = "paused"
    <2>1. item' = Updated(item, {t}, "paused")
        BY <1>2 DEF Outcome
    <2>. QED
        BY <2>1, ItemsUpdated, Words
<1>3. CASE loop[t][k].at = "failed"
    <2>1. item' = Updated(item, {t}, "error")
        BY <1>3 DEF Outcome
    <2>. QED
        BY <2>1, ItemsUpdated, Words
<1>. QED
    BY <1>1, <1>2, <1>3

-----------------------------------------------------------------------------
(* The steps of a loop.                                                    *)

LEMMA LoopStep ==
    ASSUME StoredInv, NEW t \in Transfers, NEW k \in Slots,
           NEW w \in LoopStates, LoopSteps(t, k, w),
           stored' \in [Transfers -> SUBSET Chunks],
           \A u \in Transfers : stored[u] \subseteq stored'[u],
           Right(w, stored'[t])
    PROVE  StoredInv'
<1>1. Types'
    BY DEF StoredInv, Types, LoopSteps, itemVars
<1>2. ASSUME NEW u \in Transfers, NEW j \in Slots
      PROVE  Right(loop'[u][j], stored'[u])
    <2>1. CASE u = t /\ j = k
        BY <2>1 DEF StoredInv, Types, LoopSteps
    <2>2. CASE ~(u = t /\ j = k)
        <3>1. loop'[u][j] = loop[u][j]
            BY <2>2 DEF StoredInv, Types, LoopSteps
        <3>2. Right(loop[u][j], stored[u]) /\ stored'[u] \subseteq Chunks
            BY DEF StoredInv, LoopsRight
        <3>. QED
            BY <3>1, <3>2 DEF Right
    <2>. QED
        BY <2>1, <2>2
<1>3. SuccessMeansStored'
    BY DEF StoredInv, Types, SuccessMeansStored, LoopSteps, itemVars
<1>. QED
    BY <1>1, <1>2, <1>3 DEF StoredInv, LoopsRight

\* uploadLocal goes on to the first chunk that it does not know to be there,
\* and is done when there is none.
LEMMA AdvanceRight ==
    ASSUME NEW t, NEW there \in SUBSET Chunks, NEW have \in SUBSET there,
           NEW i \in 0..(LastChunk + 1),
           \A c \in Chunks : c < i => c \in there
    PROVE  /\ Advance(t, have, i) \in LoopStates
           /\ Right(Advance(t, have, i), there)
           /\ Advance(t, have, i).at = "send" => ~ShouldStop(t)
<1>. DEFINE missing == {c \in i..LastChunk : c \notin have}
<1>1. LastChunk \in Nat /\ Chunks = 0..LastChunk
    BY BatchAssumption DEF Chunks
<1>2. CASE ShouldStop(t) /\ i <= LastChunk
    BY <1>1, <1>2 DEF Advance, LoopStates, Right
<1>3. CASE ~(ShouldStop(t) /\ i <= LastChunk) /\ missing = {}
    <2>1. ASSUME NEW c \in Chunks PROVE c \in there
        <3>1. c \in Nat /\ c <= LastChunk /\ i \in Nat
            BY <1>1
        <3>2. CASE c < i
            BY <3>2
        <3>3. CASE c >= i
            <4>1. c \in i..LastChunk
                BY <1>1, <3>1, <3>3
            <4>. QED
                BY <1>3, <4>1
        <3>. QED
            BY <3>1, <3>2, <3>3
    <2>. QED
        <3>1. Advance(t, have, i) = [at |-> "done", next |-> 0, have |-> {}]
            BY <1>3 DEF Advance
        <3>2. there = Chunks
            BY <2>1
        <3>. QED
            BY <1>1, <3>1, <3>2 DEF LoopStates, Right
<1>4. CASE ~(ShouldStop(t) /\ i <= LastChunk) /\ missing # {}
    <2>. DEFINE n == CHOOSE c \in missing : \A d \in missing : c <= d
    <2>1. missing \subseteq Nat
        BY <1>1
    <2>2. n \in missing /\ \A d \in missing : n <= d
        BY <1>4, <2>1, LeastChunk
    <2>3. Advance(t, have, i) = [at |-> "send", have |-> have, next |-> n]
        BY <1>4 DEF Advance
    <2>4. /\ n \in Chunks /\ n \in 0..(LastChunk + 1)
          /\ \A c \in Chunks : c < n => c \in there
        BY <1>1, <2>2
    <2>5. ~ShouldStop(t)
        BY <1>1, <1>4
    <2>. HIDE DEF n
    <2>. QED
        BY <1>1, <2>3, <2>4, <2>5 DEF LoopStates, Right
<1>. QED
    BY <1>2, <1>3, <1>4

LEMMA AnswersKeep ==
    ASSUME StoredInv, NEW t \in Transfers, NEW k \in Slots, Answers(t, k)
    PROVE  StoredInv'
<1>. DEFINE w == loop[t][k]
<1>1. /\ w \in LoopStates /\ stored[t] \subseteq Chunks
      /\ Right(w, stored[t]) /\ LastChunk \in Nat
    BY BatchAssumption DEF StoredInv, Types, LoopsRight
<1>2. stored' = stored => /\ stored' \in [Transfers -> SUBSET Chunks]
                          /\ \A u \in Transfers : stored[u] \subseteq stored'[u]
    BY DEF StoredInv, Types
<1>3. CASE LoopStarts(t, k)
    BY <1>2, <1>3, LoopWords, LoopStep DEF LoopStarts, Right
<1>4. CASE Progress(t, k)
    <2>1. PICK have \in {stored[t], {}} : LoopSteps(t, k, Advance(t, have, 0))
        BY <1>4 DEF Progress
    <2>2. /\ Advance(t, have, 0) \in LoopStates
          /\ Right(Advance(t, have, 0), stored[t])
        BY <1>1, AdvanceRight DEF Chunks
    <2>3. stored' = stored
        BY <1>4 DEF Progress
    <2>. QED
        BY <1>2, <2>1, <2>2, <2>3, LoopStep
<1>5. ASSUME w.at = "send", stored' = [stored EXCEPT ![t] = @ \cup {w.next}]
      PROVE  /\ stored' \in [Transfers -> SUBSET Chunks]
             /\ \A u \in Transfers : stored[u] \subseteq stored'[u]
             /\ stored'[t] = stored[t] \cup {w.next}
    BY <1>1, <1>5 DEF StoredInv, Types, Right
<1>6. CASE ChunkSent(t, k)
    <2>1. /\ w.next \in Chunks /\ w.have \subseteq stored'[t]
          /\ \A c \in Chunks : c < w.next + 1 => c \in stored'[t]
          /\ w.next + 1 \in 0..(LastChunk + 1)
        BY <1>1, <1>5, <1>6 DEF ChunkSent, Right, Chunks
    <2>2. /\ Advance(t, w.have, w.next + 1) \in LoopStates
          /\ Right(Advance(t, w.have, w.next + 1), stored'[t])
        BY <1>5, <1>6, <2>1, AdvanceRight DEF ChunkSent
    <2>. QED
        BY <1>5, <1>6, <2>2, LoopStep DEF ChunkSent
<1>7. CASE Posted(t, k)
    BY <1>2, <1>7, LoopWords, LoopStep DEF Posted, Right
<1>8. CASE Finalized(t, k)
    <2>1. /\ stored' \in [Transfers -> SUBSET Chunks] /\ stored'[t] = Chunks
          /\ \A u \in Transfers : stored[u] \subseteq stored'[u]
        BY <1>8 DEF Finalized, StoredInv, Types
    <2>. QED
        BY <1>8, <2>1, LoopWords, LoopStep DEF Finalized, Right
<1>9. CASE RequestFails(t, k)
    <2>1. /\ [Off EXCEPT !.at = "failed"] \in LoopStates
          /\ Right([Off EXCEPT !.at = "failed"], stored'[t])
        BY LoopWords DEF Right
    <2>. QED
        BY <1>2, <1>5, <1>9, <2>1, LoopStep DEF RequestFails
<1>. QED
    BY <1>3, <1>4, <1>6, <1>7, <1>8, <1>9 DEF Answers

-----------------------------------------------------------------------------
(* The invariant.                                                          *)

LEMMA StoredStart == Init => StoredInv
<1>. SUFFICES ASSUME Init PROVE StoredInv
    OBVIOUS
<1>1. Off \in LoopStates /\ Off.at = "off"
    BY LoopWords DEF Off
<1>2. item \in [Transfers -> {"paused", "absent"}]
    BY DEF Init
<1>3. /\ loop \in [Transfers -> [Slots -> LoopStates]]
      /\ stored \in [Transfers -> SUBSET Chunks]
    BY <1>1 DEF Init
<1>4. Types
    BY <1>2, <1>3 DEF Types, Statuses
<1>5. SuccessMeansStored
    BY <1>2 DEF SuccessMeansStored
<1>6. LoopsRight
    BY <1>1 DEF Init, LoopsRight, Right
<1>. QED
    BY <1>4, <1>5, <1>6 DEF StoredInv

LEMMA SingleKeeps ==
    ASSUME StoredInv, NEW s \in Singles, SingleStep(s)
    PROVE  Quiet
<1>1. s \in Transfers
    BY DEF Transfers
<1>2. CASE ConvertVideo(s)
    <2>1. ItemsKept
        BY <1>2, ItemsUpdated, Words DEF ConvertVideo
    <2>. QED
        BY <1>2, <2>1, LoopsAlone, BothKept DEF ConvertVideo, MovesSingle
<1>3. CASE PrepareSingle(s)
    BY <1>3, ItemsAlone, LoopsAlone, BothKept
       DEF PrepareSingle, MovesSingle, itemVars
<1>4. CASE InitSingle(s)
    BY <1>1, <1>4, ItemsAlone, OneLoopKept, BothKept
       DEF InitSingle, MovesSingle, Slots
<1>5. CASE SingleFails(s)
    <2>1. ItemsKept
        BY <1>5, ItemsUpdated, Words DEF SingleFails
    <2>. QED
        BY <1>5, <2>1, LoopsAlone, BothKept DEF SingleFails, MovesSingle
<1>6. CASE Conflict(s)
    <2>1. ItemsKept
        BY <1>6, ItemsUpdated, Words DEF Conflict
    <2>. QED
        BY <1>6, <2>1, LoopsAlone, BothKept DEF Conflict, MovesSingle
<1>7. CASE ReplaceExisting(s)
    <2>1. ItemsKept
        BY <1>7, ItemsAdded, ItemsAlone DEF ReplaceExisting
    <2>. QED
        BY <1>7, <2>1, LoopsAlone, BothKept DEF ReplaceExisting, MovesSingle
<1>8. CASE RecoverKey(s)
    <2>1. ItemsKept
        BY <1>8, ItemsUpdated, ItemsAlone, Words DEF RecoverKey
    <2>. QED
        BY <1>8, <2>1, LoopsAlone, BothKept DEF RecoverKey, MovesSingle
<1>9. CASE RecoverLoop(s)
    <2>1. LoopsKept
        BY <1>1, <1>9, LoopsAlone, OneLoopKept
           DEF RecoverLoop, MovesSingle, Slots
    <2>. QED
        BY <1>9, <2>1, ItemsAlone, BothKept DEF RecoverLoop
<1>10. CASE ErasePending(s)
    <2>1. ItemsKept
        BY <1>10, ItemsGone DEF ErasePending, Removing
    <2>. QED
        BY <1>10, <2>1, LoopsAlone, BothKept DEF ErasePending, MovesSingle
<1>11. CASE SingleEnds(s)
    BY <1>1, <1>11, OutcomeKeeps, OneLoopKept, BothKept
       DEF SingleEnds, MovesSingle, Slots
<1>. QED
    BY <1>2, <1>3, <1>4, <1>5, <1>6, <1>7, <1>8, <1>9, <1>10, <1>11
       DEF SingleStep

LEMMA CoordinatorKeeps ==
    ASSUME StoredInv,
           \/ Coordinates
           \/ \E t \in InBatches : RunTask(t) \/ TaskEnds(t)
    PROVE  Quiet
<1>1. ASSUME NEW ts, Failing(ts) PROVE ItemsKept
    BY <1>1, ItemsUpdated, Words DEF Failing
<1>2. CASE BeginOperation \/ NextWindow \/ InitWindow
    BY <1>2, ItemsAlone, LoopsAlone, BothKept
       DEF BeginOperation, NextWindow, InitWindow, itemVars
<1>3. CASE PrepareCandidate
    <2>1. ItemsKept
        BY <1>1, <1>3, ItemsAlone DEF PrepareCandidate
    <2>. QED
        BY <1>3, <2>1, LoopsAlone, BothKept DEF PrepareCandidate
<1>4. CASE RejectDuplicates \/ InitWindowFails \/ InitWindowUnauthorized
    <2>1. ItemsKept
        BY <1>1, <1>4
           DEF RejectDuplicates, InitWindowFails, InitWindowUnauthorized
    <2>. QED
        BY <1>4, <2>1, LoopsAlone, BothKept
           DEF RejectDuplicates, InitWindowFails, InitWindowUnauthorized
<1>5. ASSUME NEW t \in InBatches, RunTask(t) PROVE Quiet
    BY <1>5, ItemsAlone, OneLoopKept, BothKept
       DEF RunTask, itemVars, Slots, Transfers
<1>6. ASSUME NEW t \in InBatches, TaskEnds(t) PROVE Quiet
    BY <1>6, OutcomeKeeps, OneLoopKept, BothKept
       DEF TaskEnds, Slots, Transfers
<1>. QED
    BY <1>2, <1>3, <1>4, <1>5, <1>6 DEF Coordinates

LEMMA ResumesKeeps ==
    ASSUME StoredInv, NEW t \in Transfers, Resumes(t), stored' = stored
    PROVE  Quiet
<1>1. ItemsKept
    BY ItemsUpdated, Words DEF Resumes
<1>2. LoopsKept
    BY OneLoopKept DEF Resumes, Slots
<1>. QED
    BY <1>1, <1>2, BothKept

LEMMA ClicksKeep ==
    ASSUME StoredInv, Clicks
    PROVE  Quiet
<1>1. ASSUME NEW ts, Pausing(ts) PROVE ItemsKept
    BY <1>1, ItemsUpdated, Words DEF Pausing
<1>2. ASSUME NEW ts, Removing(ts) \/ Unlisted(ts) PROVE ItemsKept
    BY <1>2, ItemsGone DEF Removing, Unlisted
<1>3. ASSUME NEW t \in Transfers,
             PauseTransfer(t) \/ ResumeUpload(t) \/ CancelTransfer(t)
      PROVE  Quiet
    BY <1>1, <1>2, <1>3, LoopsAlone, ResumesKeeps, BothKept
       DEF PauseTransfer, ResumeUpload, CancelTransfer
<1>4. ASSUME NEW r \in Recoveries, RecoverUpload(r) \/ CancelPending(r)
      PROVE  Quiet
    BY <1>1, <1>4, ItemsAlone, LoopsAlone, BothKept
       DEF RecoverUpload, CancelPending, MovesSingle, itemVars
<1>5. ASSUME NEW b \in Submissions, Submit(b) PROVE Quiet
    <2>1. ItemsKept
        BY <1>5, ItemsAdded DEF Submit, Enqueues
    <2>. QED
        BY <1>5, <2>1, LoopsAlone, BothKept DEF Submit
<1>6. ASSUME NEW b \in Submissions,
             PauseGroup(b) \/ CancelGroup(b) \/ ClearGroup(b)
      PROVE  Quiet
    BY <1>1, <1>2, <1>6, LoopsAlone, BothKept
       DEF PauseGroup, CancelGroup, ClearGroup
<1>7. ASSUME NEW b \in Submissions, ResumeGroup(b) PROVE Quiet
    BY <1>7, ItemsAlone, LoopsAlone, BothKept DEF ResumeGroup, itemVars
<1>8. ASSUME NEW s \in AllVideos, AnswerDialog(s) PROVE Quiet
    BY <1>8, ItemsAlone, LoopsAlone, BothKept
       DEF AnswerDialog, MovesSingle, itemVars
<1>9. CASE ClearCompleted
    BY <1>2, <1>9, LoopsAlone, BothKept DEF ClearCompleted
<1>. QED
    BY <1>3, <1>4, <1>5, <1>6, <1>7, <1>8, <1>9 DEF Clicks

LEMMA EveryStep ==
    ASSUME StoredInv, [Next]_vars
    PROVE  Quiet \/ \E t \in Transfers, k \in Slots : Answers(t, k)
<1>1. ASSUME NEW t \in Transfers, ResumedEnds(t) PROVE Quiet
    BY <1>1, OutcomeKeeps, OneLoopKept, BothKept DEF ResumedEnds, Slots
<1>2. ASSUME NEW b \in Submissions, VideosSettled(b) PROVE Quiet
    <2>1. ItemsKept
        BY <1>2, ItemsAdded, ItemsAlone DEF VideosSettled, Enqueues
    <2>. QED
        BY <1>2, <2>1, LoopsAlone, BothKept DEF VideosSettled
<1>3. ASSUME NEW b \in Submissions, ContinueGroup(b) PROVE Quiet
    <2>1. CASE UNCHANGED <<itemVars, loop>>
        BY <1>3, <2>1, ItemsAlone, LoopsAlone, BothKept
           DEF ContinueGroup, itemVars
    <2>2. CASE Resumable(Head(chain[b])) /\ Resumes(Head(chain[b]))
        <3>1. Head(chain[b]) \in Transfers
            BY <2>2, BatchAssumption DEF Resumable
        <3>. QED
            BY <1>3, <2>2, <3>1, ResumesKeeps DEF ContinueGroup
    <2>. QED
        BY <1>3, <2>1, <2>2 DEF ContinueGroup
<1>4. CASE UNCHANGED vars
    BY <1>4, ItemsAlone, LoopsAlone, BothKept DEF vars, itemVars
<1>. QED
    BY <1>1, <1>2, <1>3, <1>4, SingleKeeps, CoordinatorKeeps,
       ClicksKeep DEF Next

LEMMA StoredStep == StoredInv /\ [Next]_vars => StoredInv'
<1>. SUFFICES ASSUME StoredInv, [Next]_vars PROVE StoredInv'
    OBVIOUS
<1>. QED
    BY EveryStep, QuietStep, AnswersKeep DEF Quiet

\* Whatever is paused, resumed, cancelled or refused, in batches of any size:
\* a transfer that is shown as done is stored whole.
THEOREM DoneIsStored == Spec => []SuccessMeansStored
<1>1. StoredInv => SuccessMeansStored
    BY DEF StoredInv
<1>. QED
    BY <1>1, StoredStart, StoredStep, PTL DEF Spec

\* The action of PauseHolds.
NoneBegins ==
    \A t \in Transfers, k \in Slots :
        loop'[t][k] # loop[t][k] /\ loop'[t][k].at \in {"send", "post", "finalize"}
            => t \notin paused'

LEMMA AnswersHold ==
    ASSUME StoredInv, NEW t \in Transfers, NEW k \in Slots, Answers(t, k)
    PROVE  NoneBegins
<1>. DEFINE w == loop[t][k]
<1>1. /\ w \in LoopStates /\ stored[t] \subseteq Chunks
      /\ Right(w, stored[t]) /\ LastChunk \in Nat
    BY BatchAssumption DEF StoredInv, Types, LoopsRight
<1>2. ASSUME NEW v \in LoopStates, LoopSteps(t, k, v),
             v.at \in {"send", "post", "finalize"} => ~ShouldStop(t)
      PROVE  NoneBegins
    BY <1>2 DEF NoneBegins, LoopSteps, ShouldStop, StoredInv, Types, itemVars
<1>3. CASE LoopStarts(t, k)
    <2>. DEFINE a == IF t \notin Google THEN "ask"
                     ELSE IF ShouldStop(t) THEN "paused" ELSE "post"
    <2>1. LoopSteps(t, k, [Off EXCEPT !.at = a])
        BY <1>3 DEF LoopStarts
    <2>2. a \in {"ask", "paused", "post"} /\ (a = "post" => ~ShouldStop(t))
        OBVIOUS
    <2>. HIDE DEF a
    <2>. QED
        BY <1>2, <2>1, <2>2, LoopWords
<1>4. CASE Progress(t, k)
    <2>1. PICK have \in {stored[t], {}} : LoopSteps(t, k, Advance(t, have, 0))
        BY <1>4 DEF Progress
    <2>2. /\ 0 \in 0..(LastChunk + 1) /\ have \in SUBSET stored[t]
          /\ stored[t] \in SUBSET Chunks
          /\ \A c \in Chunks : c < 0 => c \in stored[t]
        BY <1>1 DEF Chunks
    <2>3. /\ Advance(t, have, 0) \in LoopStates
          /\ Advance(t, have, 0).at = "send" => ~ShouldStop(t)
        BY <2>2, AdvanceRight
    <2>4. Advance(t, have, 0).at \in {"paused", "done", "send"}
        BY DEF Advance
    <2>. QED
        BY <1>2, <2>1, <2>3, <2>4
<1>5. CASE ChunkSent(t, k)
    <2>1. /\ w.have \subseteq Chunks
          /\ w.next + 1 \in 0..(LastChunk + 1)
        BY <1>1, <1>5 DEF ChunkSent, Right, Chunks
    <2>2. /\ w.have \subseteq stored[t] \cup {w.next}
          /\ \A c \in Chunks : c < w.next + 1 => c \in stored[t] \cup {w.next}
          /\ stored[t] \cup {w.next} \subseteq Chunks
        BY <1>1, <1>5 DEF ChunkSent, Right, Chunks
    <2>3. /\ Advance(t, w.have, w.next + 1) \in LoopStates
          /\ Advance(t, w.have, w.next + 1).at = "send" => ~ShouldStop(t)
        BY <2>1, <2>2, AdvanceRight
    <2>4. Advance(t, w.have, w.next + 1).at \in {"paused", "done", "send"}
        BY DEF Advance
    <2>. QED
        BY <1>2, <1>5, <2>3, <2>4 DEF ChunkSent
<1>6. CASE Posted(t, k)
    <2>. DEFINE a == IF ShouldStop(t) THEN "paused" ELSE "finalize"
    <2>1. LoopSteps(t, k, [Off EXCEPT !.at = a])
        BY <1>6 DEF Posted
    <2>2. a \in {"paused", "finalize"} /\ (a = "finalize" => ~ShouldStop(t))
        OBVIOUS
    <2>. HIDE DEF a
    <2>. QED
        BY <1>2, <2>1, <2>2, LoopWords
<1>7. CASE Finalized(t, k) \/ RequestFails(t, k)
    <2>1. PICK a \in {"done", "failed"} : LoopSteps(t, k, [Off EXCEPT !.at = a])
        BY <1>7 DEF Finalized, RequestFails
    <2>. QED
        BY <1>2, <2>1, LoopWords
<1>. QED
    BY <1>3, <1>4, <1>5, <1>6, <1>7 DEF Answers

\* Whichever of its awaits the click on "pause" came in: a loop looks at the
\* flag before each of its requests, so that none begins after it.
THEOREM PausedIsQuiet == Spec => PauseHolds
<1>1. ASSUME StoredInv, [Next]_vars PROVE [NoneBegins]_vars
    <2>1. CASE Quiet
        BY <2>1 DEF Quiet, LoopsKept, NoneBegins
    <2>2. CASE \E t \in Transfers, k \in Slots : Answers(t, k)
        BY <1>1, <2>2, AnswersHold
    <2>. QED
        BY <1>1, <2>1, <2>2, EveryStep
<1>2. Spec => [][NoneBegins]_vars
    BY <1>1, StoredStart, StoredStep, PTL DEF Spec
<1>. QED
    BY <1>2 DEF PauseHolds, NoneBegins
-----------------------------------------------------------------------------
(* Sequences without some of their elements.                               *)

\* A set that has 0, and n + 1 with every n, has every natural number.
LEMMA SetInduction ==
    ASSUME NEW S, 0 \in S, \A n \in Nat : n \in S => n + 1 \in S
    PROVE  Nat \subseteq S
<1>. SUFFICES ASSUME NEW n \in Nat \ S PROVE FALSE
    OBVIOUS
<1>1. PICK m \in Nat \ S : \A k \in Nat \ S : m <= k
    BY LeastChunk
<1>2. m - 1 \in Nat /\ m - 1 \in S
    BY <1>1
<1>. QED
    BY <1>2

\* The prefixes of Without, as its definition says them, up to n.
Prefixes(s, ts, n, f) ==
    f = [i \in 0..n |-> IF i = 0 THEN <<>>
                        ELSE IF s[i] \in ts THEN f[i - 1]
                        ELSE Append(f[i - 1], s[i])]

LEMMA PrefixesExist ==
    ASSUME NEW s, NEW ts PROVE \A n \in Nat : \E f : Prefixes(s, ts, n, f)
<1>. DEFINE T == {n \in Nat : \E f : Prefixes(s, ts, n, f)}
            Next1(v, i) == IF s[i] \in ts THEN v ELSE Append(v, s[i])
<1>1. 0 \in T
    <2>. DEFINE f == [i \in 0..0 |-> <<>>]
    <2>1. Prefixes(s, ts, 0, f)
        BY DEF Prefixes
    <2>. QED
        BY <2>1
<1>2. ASSUME NEW n \in Nat, n \in T PROVE n + 1 \in T
    <2>1. PICK f : Prefixes(s, ts, n, f)
        BY <1>2
    <2>. DEFINE g == [i \in 0..(n + 1) |-> IF i = n + 1 THEN Next1(f[n], n + 1) ELSE f[i]]
    <2>2. \A i \in 0..n : f[i] = IF i = 0 THEN <<>> ELSE Next1(f[i - 1], i)
        BY <2>1 DEF Prefixes
    <2>. HIDE DEF Next1
    <2>3. ASSUME NEW i \in 0..(n + 1)
          PROVE  g[i] = IF i = 0 THEN <<>> ELSE Next1(g[i - 1], i)
        <3>1. CASE i = 0
            BY <2>2, <3>1
        <3>2. CASE i # 0 /\ i # n + 1
            <4>1. i \in 0..n /\ i - 1 \in 0..n /\ g[i] = f[i] /\ g[i - 1] = f[i - 1]
                BY <3>2
            <4>. QED
                BY <2>2, <3>2, <4>1
        <3>3. CASE i = n + 1
            <4>1. g[i] = Next1(f[n], i) /\ i - 1 = n /\ g[n] = f[n] /\ i # 0
                BY <3>3
            <4>. QED
                BY <4>1
        <3>. QED
            BY <3>1, <3>2, <3>3
    <2>4. g = [i \in 0..(n + 1) |-> g[i]]
        OBVIOUS
    <2>. HIDE DEF g
    <2>5. Prefixes(s, ts, n + 1, g)
        BY <2>3, <2>4 DEF Prefixes, Next1
    <2>. QED
        BY <2>5
<1>. HIDE DEF T
<1>3. Nat \subseteq T
    BY <1>1, <1>2, SetInduction
<1>. QED
    BY <1>3 DEF T

LEMMA AppendedElements ==
    ASSUME NEW S, NEW q \in Seq(S), NEW x \in S
    PROVE  Elements(Append(q, x)) = Elements(q) \cup {x}
<1>1. /\ DOMAIN Append(q, x) = 1..(Len(q) + 1) /\ DOMAIN q = 1..Len(q)
      /\ Append(q, x)[Len(q) + 1] = x /\ Len(q) \in Nat
      /\ \A i \in 1..Len(q) : Append(q, x)[i] = q[i]
    OBVIOUS
<1>2. ASSUME NEW y \in Elements(q) \cup {x} PROVE y \in Elements(Append(q, x))
    <2>1. \E i \in 1..(Len(q) + 1) : y = Append(q, x)[i]
        BY <1>1 DEF Elements
    <2>. QED
        BY <1>1, <2>1 DEF Elements
<1>3. ASSUME NEW y \in Elements(Append(q, x)) PROVE y \in Elements(q) \cup {x}
    <2>1. PICK i \in 1..(Len(q) + 1) : y = Append(q, x)[i]
        BY <1>1 DEF Elements
    <2>. QED
        BY <1>1, <2>1 DEF Elements
<1>. QED
    BY <1>2, <1>3

\* It is a sequence of the same elements but those that are left out.
LEMMA WithoutThem ==
    ASSUME NEW S, NEW s \in Seq(S), NEW ts
    PROVE  /\ Without(s, ts) \in Seq(S)
           /\ Elements(Without(s, ts)) = Elements(s) \ ts
<1>. DEFINE n == Len(s)
            f == CHOOSE f : Prefixes(s, ts, n, f)
            Good(i) == /\ f[i] \in Seq(S)
                       /\ Elements(f[i]) = {s[j] : j \in 1..i} \ ts
            T == {i \in Nat : i <= n => Good(i)}
<1>1. n \in Nat
    OBVIOUS
<1>2. Prefixes(s, ts, n, f) /\ Without(s, ts) = f[n]
    <2>1. \E g : Prefixes(s, ts, n, g)
        BY <1>1, PrefixesExist
    <2>. QED
        BY <2>1 DEF Prefixes, Without
<1>. HIDE DEF f
<1>3. \A i \in 0..n : f[i] = IF i = 0 THEN <<>>
                             ELSE IF s[i] \in ts THEN f[i - 1]
                             ELSE Append(f[i - 1], s[i])
    BY <1>2 DEF Prefixes
<1>4. 0 \in T
    <2>1. f[0] = <<>>
        BY <1>1, <1>3
    <2>2. f[0] \in Seq(S) /\ DOMAIN f[0] = {}
        BY <2>1
    <2>3. Elements(f[0]) = {} /\ {s[j] : j \in 1..0} = {}
        BY <2>2 DEF Elements
    <2>. QED
        BY <2>2, <2>3
<1>5. ASSUME NEW i \in Nat, i \in T PROVE i + 1 \in T
    <2>. SUFFICES ASSUME i + 1 <= n PROVE Good(i + 1)
        OBVIOUS
    <2>1. Good(i) /\ s[i + 1] \in S
        BY <1>1, <1>5
    <2>2. f[i + 1] = IF s[i + 1] \in ts THEN f[i] ELSE Append(f[i], s[i + 1])
        BY <1>1, <1>3
    <2>3. {s[j] : j \in 1..(i + 1)} = {s[j] : j \in 1..i} \cup {s[i + 1]}
        BY <1>1
    <2>4. CASE s[i + 1] \in ts
        BY <2>1, <2>2, <2>3, <2>4
    <2>5. CASE s[i + 1] \notin ts
        <3>1. f[i + 1] \in Seq(S)
            BY <2>1, <2>2, <2>5
        <3>2. Elements(f[i + 1]) = Elements(f[i]) \cup {s[i + 1]}
            BY <2>1, <2>2, <2>5, AppendedElements
        <3>. QED
            BY <2>1, <2>3, <2>5, <3>1, <3>2
    <2>. QED
        BY <2>4, <2>5
<1>. HIDE DEF T
<1>6. n \in T
    BY <1>1, <1>4, <1>5, SetInduction
<1>7. Good(n)
    BY <1>1, <1>6 DEF T
<1>8. {s[j] : j \in 1..n} = Elements(s)
    BY DEF Elements
<1>. QED
    BY <1>2, <1>7, <1>8

-----------------------------------------------------------------------------
(* Types.                                                                  *)

\* The coordinator's operation, with the fields it has.
OperationStates ==
    [batch : {0} \cup Submissions, from : Nat, at : Nat, ready : Seq(InBatches),
     waiting : Seq(InBatches), running : SUBSET InBatches]

ListTypes ==
    /\ pending \subseteq Recoveries /\ paused \subseteq Transfers
    /\ active \subseteq Transfers /\ counted \subseteq Transfers \ Recoveries

SubmissionTypes ==
    /\ phase \in [Submissions -> {"new", "videos", "queued", "running",
                                  "done", "abandoned"}]
    /\ tail \in Seq(Submissions)

OperationTypes ==
    /\ op \in OperationStates
    /\ op.batch = 0 => op = Idle
    /\ summary \in [Submissions -> [succeeded : Nat, paused : Nat, failed : Nat]]

SingleTypes ==
    /\ single \in [Singles -> {"off", "key", "encrypt", "convert", "prepare",
                               "init", "dialog", "replace", "loop", "ended",
                               "failed", "erase"}]
    /\ retried \subseteq AllVideos
    /\ dialog \in AllVideos \cup {NoOne}
    /\ \A r \in Recoveries : single[r] # "replace"

ChainTypes == chain \in [Submissions -> Seq(Transfers)]

\* The inductive invariant behind TypeOK.
TypeInv == /\ StoredInv /\ ListTypes /\ SubmissionTypes
           /\ OperationTypes /\ SingleTypes /\ ChainTypes

LEMMA TypeInvIsTypeOK == TypeInv => TypeOK
    BY DEF TypeInv, StoredInv, Types, LoopStates, ListTypes, SubmissionTypes,
           OperationTypes, OperationStates, SingleTypes, ChainTypes, TypeOK

LEMMA TransferSets ==
    /\ AllVideos \subseteq Transfers \ Recoveries
    /\ Recoveries \subseteq Transfers
    /\ InBatches \subseteq Transfers \ Recoveries
    /\ \A b \in Submissions :
          /\ Batch[b] \in Seq(InBatches) /\ Videos[b] \subseteq AllVideos
          /\ Elements(Batch[b]) \subseteq InBatches
          /\ Members(b) \subseteq Transfers \ Recoveries
          /\ IsFiniteSet(Members(b))
    /\ Submissions \subseteq Nat \ {0}
<1>1. /\ AllVideos \subseteq Transfers \ Recoveries
      /\ Recoveries \subseteq Transfers
      /\ InBatches \subseteq Transfers \ Recoveries
    BY DistinctAssumption DEF Transfers, Singles
<1>2. ASSUME NEW b \in Submissions
      PROVE  /\ Batch[b] \in Seq(InBatches) /\ Videos[b] \subseteq AllVideos
             /\ Elements(Batch[b]) \subseteq InBatches
    <2>1. Batch[b] \in Seq(InBatches)
        BY BatchAssumption DEF Submissions
    <2>. QED
        BY <2>1 DEF AllVideos, InBatches
<1>3. ASSUME NEW b \in Submissions
      PROVE  Members(b) \subseteq Transfers \ Recoveries /\ IsFiniteSet(Members(b))
    <2>1. Members(b) \subseteq Transfers \ Recoveries
        BY <1>1, <1>2 DEF Members
    <2>. QED
        BY <2>1, BatchAssumption, FS_Subset
<1>4. Submissions \subseteq Nat \ {0}
    BY BatchAssumption DEF Submissions
<1>. QED
    BY <1>1, <1>2, <1>3, <1>4

LEMMA TypeStart == Init => TypeInv
<1>. SUFFICES ASSUME Init PROVE TypeInv
    OBVIOUS
<1>1. ListTypes
    BY DEF Init, ListTypes
<1>2. SubmissionTypes
    BY DEF Init, SubmissionTypes
<1>3. OperationTypes
    BY DEF Init, OperationTypes, OperationStates, Idle
<1>4. SingleTypes
    BY DEF Init, SingleTypes, Singles
<1>5. ChainTypes
    BY DEF Init, ChainTypes
<1>. QED
    BY <1>1, <1>2, <1>3, <1>4, <1>5, StoredStart DEF TypeInv

\* A step that leaves the variables of a part alone keeps its types.
LEMMA TypesAlone ==
    /\ ListTypes /\ UNCHANGED <<pending, paused, active, counted>> => ListTypes'
    /\ SubmissionTypes /\ UNCHANGED <<phase, tail>> => SubmissionTypes'
    /\ OperationTypes /\ UNCHANGED <<op, summary>> => OperationTypes'
    /\ SingleTypes /\ UNCHANGED <<single, retried, dialog>> => SingleTypes'
    /\ ChainTypes /\ UNCHANGED chain => ChainTypes'
    BY DEF ListTypes, SubmissionTypes, OperationTypes, SingleTypes, ChainTypes

\* The types that a step has to keep, next to what StoredStep says.
OtherTypes ==
    ListTypes /\ SubmissionTypes /\ OperationTypes /\ SingleTypes /\ ChainTypes

LEMMA MovesTypes ==
    ASSUME TypeInv, NEW s \in Singles, NEW from,
           NEW to \in {"off", "key", "encrypt", "convert", "prepare", "init",
                       "dialog", "replace", "loop", "ended", "failed", "erase"},
           MovesSingle(s, from, to), retried' \subseteq AllVideos,
           dialog' \in AllVideos \cup {NoOne}, to = "replace" => s \in AllVideos
    PROVE  SubmissionTypes' /\ OperationTypes' /\ SingleTypes' /\ ChainTypes'
<1>1. SingleTypes'
    BY DistinctAssumption DEF MovesSingle, TypeInv, SingleTypes
<1>2. UNCHANGED <<phase, tail, op, summary, chain>>
    BY DEF MovesSingle, batchVars
<1>. QED
    BY <1>1, <1>2, TypesAlone DEF TypeInv

LEMMA SingleTyped ==
    ASSUME TypeInv, NEW s \in Singles, SingleStep(s)
    PROVE  OtherTypes'
<1>. DEFINE Rest == SubmissionTypes' /\ OperationTypes' /\ SingleTypes' /\ ChainTypes'
<1>1. retried \subseteq AllVideos /\ dialog \in AllVideos \cup {NoOne}
    BY DEF TypeInv, SingleTypes
<1>2. ListTypes /\ s \in Transfers
    BY DEF TypeInv, Transfers
<1>3. CASE ConvertVideo(s)
    <2>1. Rest
        BY <1>1, <1>3, MovesTypes DEF ConvertVideo
    <2>. QED
        BY <1>2, <1>3, <2>1, TypesAlone DEF ConvertVideo, OtherTypes
<1>4. CASE PrepareSingle(s)
    <2>1. Rest
        BY <1>1, <1>4, MovesTypes DEF PrepareSingle
    <2>. QED
        BY <1>2, <1>4, <2>1, TypesAlone DEF PrepareSingle, OtherTypes, itemVars
<1>5. CASE InitSingle(s)
    <2>1. Rest
        BY <1>1, <1>5, MovesTypes DEF InitSingle
    <2>2. ListTypes'
        BY <1>2, <1>5 DEF InitSingle, ListTypes
    <2>. QED
        BY <2>1, <2>2 DEF OtherTypes
<1>6. CASE SingleFails(s)
    <2>1. Rest
        BY <1>1, <1>6, MovesTypes DEF SingleFails
    <2>2. ListTypes'
        BY <1>2, <1>6 DEF SingleFails, ListTypes
    <2>. QED
        BY <2>1, <2>2 DEF OtherTypes
<1>7. CASE Conflict(s)
    <2>1. Rest
        BY <1>1, <1>7, MovesTypes DEF Conflict
    <2>2. ListTypes'
        BY <1>2, <1>7 DEF Conflict, ListTypes
    <2>. QED
        BY <2>1, <2>2 DEF OtherTypes
<1>8. CASE ReplaceExisting(s)
    <2>1. CASE MovesSingle(s, "replace", "convert") /\ retried' = retried \cup {s}
        <3>1. s \in AllVideos
            <4>1. CASE s \in Recoveries
                BY <2>1, <4>1 DEF MovesSingle, TypeInv, SingleTypes
            <4>. QED
                BY <4>1 DEF Singles
        <3>. QED
            BY <1>1, <1>2, <1>8, <2>1, <3>1, MovesTypes, TypesAlone
               DEF ReplaceExisting, OtherTypes
    <2>2. CASE MovesSingle(s, "replace", "failed") /\ UNCHANGED <<item, retried>>
        BY <1>1, <1>2, <1>8, <2>2, MovesTypes, TypesAlone
           DEF ReplaceExisting, OtherTypes
    <2>. QED
        BY <1>8, <2>1, <2>2 DEF ReplaceExisting
<1>9. CASE RecoverKey(s)
    <2>1. Rest
        BY <1>1, <1>9, MovesTypes DEF RecoverKey
    <2>. QED
        BY <1>2, <1>9, <2>1, TypesAlone DEF RecoverKey, OtherTypes
<1>10. CASE RecoverLoop(s)
    <2>1. Rest
        BY <1>1, <1>10, MovesTypes DEF RecoverLoop
    <2>2. ListTypes'
        BY <1>2, <1>10 DEF RecoverLoop, ListTypes
    <2>. QED
        BY <2>1, <2>2 DEF OtherTypes
<1>11. CASE ErasePending(s)
    <2>1. Rest
        BY <1>1, <1>11, MovesTypes DEF ErasePending
    <2>2. ListTypes'
        BY <1>2, <1>11 DEF ErasePending, Removing, ListTypes
    <2>. QED
        BY <2>1, <2>2 DEF OtherTypes
<1>12. CASE SingleEnds(s)
    <2>1. Rest
        BY <1>1, <1>12, MovesTypes DEF SingleEnds
    <2>2. ListTypes'
        <3>1. active' \subseteq active
            BY <1>12 DEF SingleEnds, Outcome
        <3>. QED
            BY <1>2, <1>12, <3>1 DEF SingleEnds, ListTypes
    <2>. QED
        BY <2>1, <2>2 DEF OtherTypes
<1>. QED
    BY <1>3, <1>4, <1>5, <1>6, <1>7, <1>8, <1>9, <1>10, <1>11, <1>12
       DEF SingleStep

\* A submission whose batch is appended to the tail.
LEMMA EnqueuesTyped ==
    ASSUME TypeInv, NEW b \in Submissions, Enqueues(b)
    PROVE  SubmissionTypes'
    BY DEF Enqueues, TypeInv, SubmissionTypes

LEMMA ResumesTyped ==
    ASSUME ListTypes, NEW t \in Transfers, Resumes(t)
    PROVE  ListTypes'
    BY DEF ListTypes, Resumes

\* An operation with another value in its fields.
LEMMA OperationChanged ==
    ASSUME op \in OperationStates
    PROVE  /\ \A q \in Seq(InBatches) :
                 /\ [op EXCEPT !.ready = q] \in OperationStates
                 /\ \A r \in Seq(InBatches) :
                       [op EXCEPT !.ready = q, !.waiting = r] \in OperationStates
                 /\ \A k \in SUBSET InBatches :
                       [op EXCEPT !.waiting = q, !.running = k] \in OperationStates
                 /\ \A n \in Nat :
                       /\ [op EXCEPT !.at = n, !.ready = q] \in OperationStates
                       /\ \A m \in Nat :
                             [op EXCEPT !.ready = q, !.from = m, !.at = n]
                                \in OperationStates
           /\ \A k \in SUBSET InBatches : [op EXCEPT !.running = k] \in OperationStates
           /\ \A n \in Nat :
                 /\ [op EXCEPT !.at = n] \in OperationStates
                 /\ \A m \in Nat : [op EXCEPT !.from = m, !.at = n] \in OperationStates
    BY DEF OperationStates

LEMMA NoTransfers == <<>> \in Seq(InBatches)
    OBVIOUS

LEMMA NoElements == Elements(<<>>) = {}
<1>1. DOMAIN <<>> = {}
    OBVIOUS
<1>. QED
    BY <1>1 DEF Elements

\* An operation begins at its first candidate.
LEMMA IdleChanged ==
    /\ Idle \in OperationStates /\ Idle.batch = 0
    /\ Idle.running = {} /\ Idle.ready = <<>> /\ Idle.waiting = <<>>
    /\ \A b \in Submissions :
          [Idle EXCEPT !.batch = b]
             = [batch |-> b, from |-> 0, at |-> 0, ready |-> <<>>,
                waiting |-> <<>>, running |-> {}]
    /\ \A b \in Submissions : [Idle EXCEPT !.batch = b] \in OperationStates
<1>1. /\ Idle.batch = 0 /\ Idle.running = {}
      /\ Idle.ready = <<>> /\ Idle.waiting = <<>>
    BY DEF Idle
<1>2. ASSUME NEW b \in {0} \cup Submissions
      PROVE  [batch |-> b, from |-> 0, at |-> 0, ready |-> <<>>,
              waiting |-> <<>>, running |-> {}] \in OperationStates
    <2>. DEFINE none == <<>>
    <2>1. none \in Seq(InBatches)
        BY NoTransfers
    <2>. HIDE DEF none
    <2>2. [batch |-> b, from |-> 0, at |-> 0, ready |-> none,
           waiting |-> none, running |-> {}] \in OperationStates
        BY <2>1 DEF OperationStates
    <2>. QED
        BY <2>2 DEF none
<1>3. \A b \in Submissions :
          [Idle EXCEPT !.batch = b]
             = [batch |-> b, from |-> 0, at |-> 0, ready |-> <<>>,
                waiting |-> <<>>, running |-> {}]
    <2>. DEFINE none == <<>>
    <2>1. Idle = [batch |-> 0, from |-> 0, at |-> 0, ready |-> none,
                  waiting |-> none, running |-> {}]
        BY DEF Idle
    <2>. HIDE DEF none
    <2>2. \A b \in Submissions :
              [Idle EXCEPT !.batch = b]
                 = [batch |-> b, from |-> 0, at |-> 0, ready |-> none,
                    waiting |-> none, running |-> {}]
        BY <2>1
    <2>. QED
        BY <2>2 DEF none
<1>4. Idle \in OperationStates
    BY <1>2 DEF Idle
<1>. QED
    BY <1>1, <1>2, <1>3, <1>4

\* What a worker takes has been waiting, in a batch.
LEMMA TasksWait ==
    ASSUME OperationTypes, NEW t \in InBatches, RunTask(t)
    PROVE  /\ t \in Elements(op.waiting) /\ op.batch # 0
           /\ Without(op.waiting, {t}) \in Seq(InBatches)
           /\ Elements(Without(op.waiting, {t})) = Elements(op.waiting) \ {t}
<1>. DEFINE others == {u \in InBatches : (u \in Google) # (t \in Google)}
            mine == Without(op.waiting, others)
<1>1. op.waiting \in Seq(InBatches)
    BY DEF OperationTypes, OperationStates
<1>2. mine \in Seq(InBatches) /\ Elements(mine) = Elements(op.waiting) \ others
    BY <1>1, WithoutThem
<1>3. mine # <<>> /\ t = Head(mine)
    BY DEF RunTask
<1>. HIDE DEF mine, others
<1>4. t \in Elements(mine)
    BY <1>2, <1>3 DEF Elements
<1>5. op.batch # 0
    BY <1>2, <1>4, IdleChanged, NoElements DEF OperationTypes
<1>. QED
    BY <1>1, <1>2, <1>4, <1>5, WithoutThem

LEMMA WindowTyped ==
    ASSUME OperationTypes, op.batch # 0
    PROVE  /\ Window(op) \in Seq(InBatches) /\ Later(op) \subseteq InBatches
           /\ Len(Window(op)) \in Nat
           /\ op.batch \in Submissions /\ Batch[op.batch] \in Seq(InBatches)
<1>1. /\ op.batch \in Submissions /\ op.from \in Nat
      /\ Batch[op.batch] \in Seq(InBatches)
    BY TransferSets DEF OperationTypes, OperationStates
<1>2. WindowSize \in Nat /\ Len(Batch[op.batch]) \in Nat
    BY <1>1, BatchAssumption
<1>3. Window(op) \in Seq(InBatches)
    BY <1>1, <1>2 DEF Window
<1>4. Later(op) \subseteq InBatches
    BY <1>1 DEF Later
<1>. QED
    BY <1>1, <1>3, <1>4

\* One more result of each of the kinds.
LEMMA SummaryGrows ==
    ASSUME OperationTypes, op.batch # 0, NEW n \in Nat,
           \/ summary' = [summary EXCEPT ![op.batch].failed = @ + n]
           \/ summary' = [summary EXCEPT ![op.batch].paused = @ + n]
           \/ summary' = [summary EXCEPT ![op.batch].succeeded = @ + n]
    PROVE  /\ summary' \in [Submissions ->
                              [succeeded : Nat, paused : Nat, failed : Nat]]
           /\ \A b \in Submissions :
                 /\ b # op.batch => summary'[b] = summary[b]
                 /\ b = op.batch =>
                       summary'[b].succeeded + summary'[b].paused + summary'[b].failed
                       = summary[b].succeeded + summary[b].paused + summary[b].failed + n
<1>1. op.batch \in Submissions
    BY DEF OperationTypes, OperationStates
<1>2. summary \in [Submissions -> [succeeded : Nat, paused : Nat, failed : Nat]]
    BY DEF OperationTypes
<1>. QED
    BY <1>1, <1>2

LEMMA FailingGrows ==
    ASSUME OperationTypes, op.batch # 0, NEW ts \in SUBSET Transfers, Failing(ts)
    PROVE  /\ Cardinality(ts) \in Nat
           /\ summary' = [summary EXCEPT ![op.batch].failed = @ + Cardinality(ts)]
<1>1. IsFiniteSet(ts)
    BY BatchAssumption, FS_Subset
<1>. QED
    BY <1>1, FS_CardinalityType DEF Failing

LEMMA CoordinatorTyped ==
    ASSUME TypeInv,
           \/ Coordinates
           \/ \E t \in InBatches : RunTask(t) \/ TaskEnds(t)
    PROVE  OtherTypes'
<1>. DEFINE o == op
<1>1. /\ ListTypes /\ SubmissionTypes /\ OperationTypes
      /\ SingleTypes /\ ChainTypes
    BY DEF TypeInv
<1>2. /\ op \in OperationStates
      /\ summary \in [Submissions -> [succeeded : Nat, paused : Nat, failed : Nat]]
    BY <1>1 DEF OperationTypes
<1>3. InBatches \subseteq Transfers
    BY TransferSets
<1>4. ASSUME NEW ts \in SUBSET Transfers, op.batch # 0, Failing(ts),
             op' \in OperationStates, op'.batch = op.batch
      PROVE  OperationTypes'
    <2>1. PICK n \in Nat : summary' = [summary EXCEPT ![op.batch].failed = @ + n]
        BY <1>1, <1>4, FailingGrows
    <2>2. summary' \in [Submissions ->
                          [succeeded : Nat, paused : Nat, failed : Nat]]
        BY <1>1, <1>4, <2>1, SummaryGrows
    <2>. QED
        BY <1>4, <2>2 DEF OperationTypes
<1>5. CASE BeginOperation
    <2>. DEFINE b == Head(tail)
    <2>0. b \in Submissions /\ b # 0 /\ op' = [Idle EXCEPT !.batch = b]
        <3>1. tail \in Seq(Submissions) /\ tail # <<>>
            BY <1>1, <1>5 DEF BeginOperation, SubmissionTypes
        <3>2. b \in Submissions
            BY <3>1
        <3>3. Submissions = 1..Len(Batch) /\ Len(Batch) \in Nat
            BY BatchAssumption DEF Submissions
        <3>. QED
            BY <1>5, <3>2, <3>3 DEF BeginOperation
    <2>. HIDE DEF b
    <2>1. op' \in OperationStates /\ op'.batch # 0
        BY <2>0, IdleChanged
    <2>2. SubmissionTypes'
        BY <1>1, <1>5 DEF BeginOperation, SubmissionTypes
    <2>. QED
        BY <1>1, <1>2, <1>5, <2>1, <2>2, TypesAlone
           DEF BeginOperation, OtherTypes, OperationTypes, itemVars, flowVars
<1>6. CASE PrepareCandidate
    <2>. DEFINE t == Window(op)[op.at + 1]
    <2>1. t \in InBatches
        BY <1>1, <1>2, <1>6, WindowTyped DEF PrepareCandidate, OperationStates
    <2>2. op' \in OperationStates /\ op'.batch = op.batch
        <3>1. op.at + 1 \in Nat /\ Append(op.ready, t) \in Seq(InBatches)
            BY <1>2, <2>1 DEF OperationStates
        <3>. QED
            <4>1. \/ op' = [op EXCEPT !.at = op.at + 1]
                  \/ op' = [op EXCEPT !.at = op.at + 1, !.ready = Append(op.ready, t)]
                BY <1>2, <1>6 DEF PrepareCandidate, OperationStates
            <4>2. op'.batch = op.batch
                BY <1>2, <4>1 DEF OperationStates
            <4>. QED
                BY <1>2, <3>1, <4>1, <4>2, OperationChanged
    <2>3. OperationTypes'
        <3>1. CASE Failing({t})
            BY <1>3, <1>4, <1>6, <2>1, <2>2, <3>1 DEF PrepareCandidate
        <3>2. CASE UNCHANGED <<item, summary>>
            BY <1>2, <1>6, <2>2, <3>2 DEF OperationTypes, PrepareCandidate
        <3>. QED
            BY <1>6, <3>1, <3>2 DEF PrepareCandidate
    <2>. QED
        BY <1>1, <1>6, <2>3, TypesAlone DEF PrepareCandidate, OtherTypes, flowVars
<1>7. CASE RejectDuplicates
    <2>1. Duplicates(op.ready) \subseteq InBatches
        BY <1>2 DEF Duplicates, OperationStates
    <2>2. op' \in OperationStates /\ op'.batch = op.batch
        <3>1. Valid(op.ready) \in Seq(InBatches)
            BY <1>2, WithoutThem DEF Valid, OperationStates
        <3>. QED
            BY <1>2, <1>7, <3>1, OperationChanged DEF RejectDuplicates, OperationStates
    <2>3. OperationTypes'
        BY <1>3, <1>4, <1>7, <2>1, <2>2 DEF RejectDuplicates, Prepared
    <2>. QED
        BY <1>1, <1>7, <2>3, TypesAlone DEF RejectDuplicates, OtherTypes, flowVars
<1>8. Elements(op.ready) \subseteq InBatches
    BY <1>2 DEF Elements, OperationStates
<1>9. CASE InitWindow
    <2>1. op' \in OperationStates /\ op'.batch = op.batch
        <3>1. op.ready \in Seq(InBatches)
            BY <1>2 DEF OperationStates
        <3>. QED
            BY <1>2, <1>9, <3>1, NoTransfers, OperationChanged DEF InitWindow, OperationStates
    <2>2. OperationTypes'
        BY <1>2, <1>9, <2>1 DEF InitWindow, Prepared, OperationTypes
    <2>3. ListTypes'
        BY <1>1, <1>3, <1>8, <1>9 DEF InitWindow, ListTypes
    <2>. QED
        BY <1>1, <1>9, <2>2, <2>3, TypesAlone DEF InitWindow, OtherTypes, flowVars
<1>10. CASE InitWindowFails
    <2>1. op' \in OperationStates /\ op'.batch = op.batch
        BY <1>2, <1>10, NoTransfers, OperationChanged
           DEF InitWindowFails, OperationStates
    <2>2. OperationTypes'
        BY <1>3, <1>4, <1>8, <1>10, <2>1 DEF InitWindowFails, Prepared
    <2>. QED
        BY <1>1, <1>10, <2>2, TypesAlone DEF InitWindowFails, OtherTypes, flowVars
<1>11. CASE InitWindowUnauthorized
    <2>1. op.batch # 0
        BY <1>11 DEF InitWindowUnauthorized, Prepared
    <2>2. op' \in OperationStates /\ op'.batch = op.batch
        <3>1. Len(Batch[op.batch]) \in Nat
            BY <1>1, <2>1, WindowTyped
        <3>. QED
            BY <1>2, <1>11, <3>1, NoTransfers, OperationChanged
               DEF InitWindowUnauthorized, OperationStates
    <2>3. Elements(op.ready) \cup Later(op) \subseteq Transfers
        BY <1>1, <1>3, <1>8, <2>1, WindowTyped
    <2>4. OperationTypes'
        BY <1>4, <1>11, <2>1, <2>2, <2>3 DEF InitWindowUnauthorized
    <2>. QED
        BY <1>1, <1>11, <2>4, TypesAlone
           DEF InitWindowUnauthorized, OtherTypes, flowVars
<1>12. CASE NextWindow
    <2>1. op.batch # 0 /\ op.batch \in Submissions /\ WindowSize \in Nat
        BY <1>2, <1>12, BatchAssumption DEF NextWindow, OperationStates
    <2>2. op' \in OperationStates /\ (op'.batch = 0 => op' = Idle)
        <3>1. op.from + WindowSize \in Nat
            BY <1>2, <2>1 DEF OperationStates
        <3>2. [op EXCEPT !.from = @ + WindowSize, !.at = 0] \in OperationStates
            BY <1>2, <3>1, OperationChanged
        <3>3. [op EXCEPT !.from = @ + WindowSize, !.at = 0].batch = op.batch
            BY <1>2 DEF OperationStates
        <3>. QED
            BY <1>12, <2>1, <3>2, <3>3, IdleChanged DEF NextWindow
    <2>3. SubmissionTypes'
        BY <1>1, <1>12, <2>1 DEF NextWindow, SubmissionTypes
    <2>. QED
        BY <1>1, <1>2, <1>12, <2>2, <2>3, TypesAlone
           DEF NextWindow, OtherTypes, OperationTypes, itemVars, flowVars
<1>13. ASSUME NEW t \in InBatches, RunTask(t) PROVE OtherTypes'
    <2>1. op' \in OperationStates /\ op'.batch = op.batch
        <3>1. op.running \cup {t} \in SUBSET InBatches
            BY <1>2 DEF OperationStates
        <3>. QED
            BY <1>1, <1>2, <1>13, <3>1, TasksWait, OperationChanged
               DEF RunTask, OperationStates
    <2>. QED
        BY <1>1, <1>2, <1>13, <2>1, TasksWait, TypesAlone
           DEF RunTask, OtherTypes, OperationTypes, itemVars, flowVars
<1>14. ASSUME NEW t \in InBatches, TaskEnds(t) PROVE OtherTypes'
    <2>. op.batch # 0
        BY <1>1, <1>14, IdleChanged DEF TaskEnds, OperationTypes
    <2>1. op' \in OperationStates /\ op'.batch = op.batch
        <3>1. op.running \ {t} \in SUBSET InBatches
            BY <1>2 DEF OperationStates
        <3>. QED
            BY <1>2, <1>14, <3>1, OperationChanged DEF TaskEnds, OperationStates
    <2>2. summary' \in [Submissions ->
                          [succeeded : Nat, paused : Nat, failed : Nat]]
        BY <1>1, <1>14, SummaryGrows DEF TaskEnds
    <2>3. ListTypes'
        <3>1. active' \subseteq active
            BY <1>14 DEF TaskEnds, Outcome
        <3>. QED
            BY <1>1, <1>14, <3>1 DEF TaskEnds, ListTypes
    <2>. QED
        BY <1>1, <1>14, <2>1, <2>2, <2>3, TypesAlone
           DEF TaskEnds, OtherTypes, OperationTypes, flowVars
<1>. QED
    BY <1>5, <1>6, <1>7, <1>9, <1>10, <1>11, <1>12, <1>13, <1>14 DEF Coordinates

\* The members of a submission, in an order: a sequence of transfers.
LEMMA OrderTyped ==
    ASSUME NEW b \in Submissions
    PROVE  MemberOrder(b) \in Seq(Transfers)
<1>. DEFINE n == Cardinality(Members(b))
<1>1. IsFiniteSet(Members(b)) /\ n \in Nat
    BY TransferSets, FS_CardinalityType
<1>2. PICK s : ExistsBijection(1..n, Members(b)) /\ s \in Bijection(1..n, Members(b))
    BY <1>1, FS_NatBijection, FS_CardinalityType DEF ExistsBijection
<1>3. s \in [1..n -> Members(b)] /\ Elements(s) = Members(b)
    BY <1>2 DEF Bijection, Injection, Surjection, Elements
<1>4. MemberOrder(b) \in [1..n -> Members(b)]
    BY <1>3 DEF MemberOrder
<1>. HIDE DEF n
<1>5. Members(b) \subseteq Transfers
    BY TransferSets
<1>. QED
    BY <1>1, <1>4, <1>5

LEMMA ClicksTyped ==
    ASSUME TypeInv, Clicks
    PROVE  OtherTypes'
<1>1. /\ ListTypes /\ SubmissionTypes /\ OperationTypes
      /\ SingleTypes /\ ChainTypes
      /\ retried \subseteq AllVideos /\ dialog \in AllVideos \cup {NoOne}
    BY DEF TypeInv, SingleTypes
<1>2. Recoveries \subseteq Transfers /\ Recoveries \subseteq Singles /\ AllVideos \subseteq Singles
    BY TransferSets DEF Singles
<1>3. ASSUME ListTypes', UNCHANGED <<phase, tail, op, summary>>,
             UNCHANGED <<single, retried, dialog>>, UNCHANGED chain
      PROVE  OtherTypes'
    BY <1>1, <1>3, TypesAlone DEF OtherTypes
<1>4. ASSUME NEW ts \in SUBSET Transfers, Pausing(ts),
             UNCHANGED <<pending, active, counted>>
      PROVE  ListTypes'
    BY <1>1, <1>4 DEF Pausing, ListTypes
<1>5. ASSUME NEW ts, Removing(ts), counted' \subseteq Transfers \ Recoveries
      PROVE  ListTypes'
    BY <1>1, <1>5 DEF Removing, ListTypes
<1>6. ASSUME NEW t \in Transfers, PauseTransfer(t) PROVE OtherTypes'
    <2>1. ListTypes'
        BY <1>4, <1>6 DEF PauseTransfer
    <2>. QED
        BY <1>3, <1>6, <2>1 DEF PauseTransfer, batchVars, flowVars
<1>7. ASSUME NEW t \in Transfers, ResumeUpload(t) PROVE OtherTypes'
    <2>1. ListTypes'
        BY <1>1, <1>7, ResumesTyped DEF ResumeUpload
    <2>. QED
        BY <1>3, <1>7, <2>1 DEF ResumeUpload, batchVars, flowVars
<1>8. ASSUME NEW t \in Transfers, CancelTransfer(t) PROVE OtherTypes'
    <2>1. ListTypes'
        BY <1>1, <1>5, <1>8 DEF CancelTransfer, ListTypes
    <2>. QED
        BY <1>3, <1>8, <2>1 DEF CancelTransfer, batchVars, flowVars
<1>9. ASSUME NEW r \in Recoveries, RecoverUpload(r) \/ CancelPending(r)
      PROVE  OtherTypes'
    <2>1. \/ MovesSingle(r, single[r], "key")
          \/ MovesSingle(r, single[r], "erase")
        BY <1>9 DEF RecoverUpload, CancelPending
    <2>2. UNCHANGED <<retried, dialog>>
        BY <1>9 DEF RecoverUpload, CancelPending
    <2>3. SubmissionTypes' /\ OperationTypes' /\ SingleTypes' /\ ChainTypes'
        BY <1>1, <1>2, <2>1, <2>2, MovesTypes
    <2>4. ListTypes'
        <3>1. CASE RecoverUpload(r)
            BY <1>1, <3>1, TypesAlone DEF RecoverUpload, itemVars
        <3>2. CASE CancelPending(r)
            BY <1>2, <1>4, <3>2 DEF CancelPending
        <3>. QED
            BY <1>9, <3>1, <3>2
    <2>. QED
        BY <2>3, <2>4 DEF OtherTypes
<1>10. ASSUME NEW b \in Submissions, Submit(b) PROVE OtherTypes'
    <2>1. UNCHANGED <<pending, paused, active, counted, op, summary, retried,
                      dialog, chain>>
        BY <1>10 DEF Submit
    <2>2. SubmissionTypes' /\ SingleTypes'
        <3>1. CASE Enqueues(b) /\ UNCHANGED single
            BY <1>1, <2>1, <3>1, EnqueuesTyped, TypesAlone
        <3>2. CASE ~(Enqueues(b) /\ UNCHANGED single)
            <4>1. /\ phase' = [phase EXCEPT ![b] = "videos"] /\ tail' = tail
                  /\ single' = [s \in Singles |->
                        IF s \in Videos[b] THEN "convert" ELSE single[s]]
                BY <1>10, <3>2 DEF Submit
            <4>. QED
                BY <1>1, <1>2, <2>1, <4>1 DEF SubmissionTypes, SingleTypes
        <3>. QED
            BY <3>1, <3>2
    <2>. QED
        BY <1>1, <2>1, <2>2, TypesAlone DEF OtherTypes
<1>11. ASSUME NEW b \in Submissions, PauseGroup(b) PROVE OtherTypes'
    <2>1. InStatus(b, "processing") \in SUBSET Transfers
        BY TransferSets DEF InStatus
    <2>2. ListTypes'
        BY <1>4, <1>11, <2>1 DEF PauseGroup
    <2>. QED
        BY <1>3, <1>11, <2>2 DEF PauseGroup, batchVars, flowVars
<1>12. ASSUME NEW b \in Submissions, CancelGroup(b) PROVE OtherTypes'
    <2>1. /\ InStatus(b, "processing") \subseteq Transfers \ Recoveries
          /\ InStatus(b, "paused") \subseteq Transfers \ Recoveries
        BY TransferSets DEF InStatus
    <2>2. ListTypes'
        BY <1>1, <1>5, <1>12, <2>1 DEF CancelGroup, ListTypes
    <2>. QED
        BY <1>3, <1>12, <2>2 DEF CancelGroup, batchVars, flowVars
<1>13. ASSUME NEW b \in Submissions, ClearGroup(b) PROVE OtherTypes'
    BY <1>1, <1>3, <1>13, TypesAlone DEF ClearGroup, batchVars, flowVars
<1>14. ASSUME NEW b \in Submissions, ResumeGroup(b) PROVE OtherTypes'
    <2>1. ChainTypes'
        BY <1>1, <1>14, OrderTyped DEF ResumeGroup, ChainTypes
    <2>. QED
        BY <1>1, <1>14, <2>1, TypesAlone
           DEF ResumeGroup, OtherTypes, itemVars, batchVars
<1>15. ASSUME NEW s \in AllVideos, AnswerDialog(s) PROVE OtherTypes'
    <2>1. PICK to \in {"ended", "replace"} : MovesSingle(s, "dialog", to)
        BY <1>15 DEF AnswerDialog
    <2>2. SubmissionTypes' /\ OperationTypes' /\ SingleTypes' /\ ChainTypes'
        BY <1>1, <1>2, <1>15, <2>1, MovesTypes DEF AnswerDialog
    <2>. QED
        BY <1>1, <1>15, <2>2, TypesAlone DEF AnswerDialog, OtherTypes, itemVars
<1>16. CASE ClearCompleted
    BY <1>1, <1>3, <1>16, TypesAlone DEF ClearCompleted, batchVars, flowVars
<1>. QED
    BY <1>6, <1>7, <1>8, <1>9, <1>10, <1>11, <1>12, <1>13, <1>14, <1>15, <1>16
       DEF Clicks

LEMMA TypeStep == TypeInv /\ [Next]_vars => TypeInv'
<1>. SUFFICES ASSUME TypeInv, [Next]_vars PROVE TypeInv'
    OBVIOUS
<1>1. /\ ListTypes /\ SubmissionTypes /\ OperationTypes
      /\ SingleTypes /\ ChainTypes
    BY DEF TypeInv
<1>2. StoredInv'
    BY StoredStep DEF TypeInv
<1>3. ASSUME NEW t \in Transfers, ResumedEnds(t) PROVE OtherTypes'
    <2>1. ListTypes'
        <3>1. active' \subseteq active
            BY <1>3 DEF ResumedEnds, Outcome
        <3>. QED
            BY <1>1, <1>3, <3>1 DEF ResumedEnds, ListTypes
    <2>. QED
        BY <1>1, <1>3, <2>1, TypesAlone
           DEF ResumedEnds, OtherTypes, batchVars, flowVars
<1>4. ASSUME NEW t \in Transfers, NEW k \in Slots, Answers(t, k) PROVE OtherTypes'
    <2>1. PICK w : LoopSteps(t, k, w)
        BY <1>4 DEF Answers, LoopStarts, Progress, ChunkSent, Posted, Finalized,
                    RequestFails
    <2>. QED
        BY <1>1, <2>1, TypesAlone
           DEF LoopSteps, OtherTypes, itemVars, batchVars, flowVars
<1>5. ASSUME NEW b \in Submissions, VideosSettled(b) PROVE OtherTypes'
    <2>1. SubmissionTypes'
        <3>1. CASE Enqueues(b)
            BY <3>1, EnqueuesTyped
        <3>2. CASE phase' = [phase EXCEPT ![b] = "abandoned"] /\ tail' = tail
            BY <1>1, <3>2 DEF SubmissionTypes
        <3>. QED
            BY <1>5, <3>1, <3>2 DEF VideosSettled
    <2>. QED
        BY <1>1, <1>5, <2>1, TypesAlone DEF VideosSettled, OtherTypes
<1>6. ASSUME NEW b \in Submissions, ContinueGroup(b) PROVE OtherTypes'
    <2>. DEFINE t == Head(chain[b])
    <2>1. chain[b] \in Seq(Transfers) /\ chain[b] # <<>>
        BY <1>1, <1>6 DEF ChainTypes, ContinueGroup
    <2>2. t \in Transfers /\ Tail(chain[b]) \in Seq(Transfers)
        BY <2>1
    <2>3. ChainTypes'
        BY <1>1, <1>6, <2>2 DEF ContinueGroup, ChainTypes
    <2>4. ListTypes'
        BY <1>1, <1>6, <2>2, ResumesTyped, TypesAlone DEF ContinueGroup, itemVars
    <2>. QED
        BY <1>1, <1>6, <2>3, <2>4, TypesAlone
           DEF ContinueGroup, OtherTypes, batchVars
<1>7. ASSUME UNCHANGED vars PROVE OtherTypes'
    <2>1. /\ UNCHANGED <<pending, paused, active, counted>>
          /\ UNCHANGED <<phase, tail>> /\ UNCHANGED <<op, summary>>
          /\ UNCHANGED <<single, retried, dialog>> /\ UNCHANGED chain
        BY <1>7 DEF vars, itemVars, batchVars, flowVars
    <2>2. ListTypes' /\ SubmissionTypes' /\ OperationTypes'
        BY <1>1, <2>1, TypesAlone, Zenon
    <2>3. SingleTypes' /\ ChainTypes'
        BY <1>1, <2>1, TypesAlone, Zenon
    <2>. QED
        BY <2>2, <2>3 DEF OtherTypes
<1>8. OtherTypes'
    <2>1. CASE Coordinates \/ \E t \in InBatches : RunTask(t) \/ TaskEnds(t)
        BY <2>1, CoordinatorTyped
    <2>2. CASE Clicks \/ \E s \in Singles : SingleStep(s)
        BY <2>2, ClicksTyped, SingleTyped
    <2>3. CASE \E t \in Transfers : ResumedEnds(t) \/ \E k \in Slots : Answers(t, k)
        BY <1>3, <1>4, <2>3
    <2>4. CASE \E b \in Submissions : VideosSettled(b) \/ ContinueGroup(b)
        BY <1>5, <1>6, <2>4
    <2>. QED
        BY <1>7, <2>1, <2>2, <2>3, <2>4 DEF Next
<1>. QED
    BY <1>2, <1>8 DEF TypeInv, OtherTypes

\* Type correctness, for any submissions and any limits of the coordinator.
THEOREM UploadTypes == Spec => []TypeOK
    BY TypeStart, TypeStep, TypeInvIsTypeOK, PTL DEF Spec

-----------------------------------------------------------------------------
(* Groups.                                                                 *)

\* What has been counted as cancelled is not listed again, but by a second try.
CountedAreGone == \A t \in counted \ retried : item[t] = "absent"

\* What has not been submitted yet is neither listed nor counted, and its
\* videos have not been begun.
NotListed(ts) == \A t \in ts : item[t] = "absent" /\ t \notin counted

LaterAreNew ==
    \A b \in Submissions :
        /\ phase[b] = "new" => /\ NotListed(Members(b))
                               /\ \A v \in Videos[b] : single[v] = "off"
        /\ phase[b] = "videos" => NotListed(Elements(Batch[b]))

\* The inductive invariant behind GroupsHonest.
GroupInv == CountedAreGone /\ LaterAreNew

LEMMA GroupStart == Init => GroupInv
<1>. SUFFICES ASSUME Init PROVE GroupInv
    OBVIOUS
<1>1. counted = {} /\ retried = {}
    BY DEF Init
<1>2. \A s \in Singles : single[s] = "off"
    BY DEF Init
<1>3. \A t \in Transfers \ Recoveries : item[t] = "absent"
    BY DEF Init
<1>4. ASSUME NEW b \in Submissions
      PROVE  /\ Members(b) \subseteq Transfers \ Recoveries
             /\ Elements(Batch[b]) \subseteq Transfers \ Recoveries
             /\ Videos[b] \subseteq Singles
    BY TransferSets DEF Singles
<1>5. LaterAreNew
    BY <1>1, <1>2, <1>3, <1>4 DEF LaterAreNew, NotListed
<1>6. CountedAreGone
    BY <1>1 DEF CountedAreGone
<1>. QED
    BY <1>5, <1>6 DEF GroupInv

\* A step that lists nothing, and counts only what it takes from the list.
ListShrinks ==
    /\ \A t \in Transfers : item[t] = "absent" => item'[t] = "absent"
    /\ \A t \in counted' \ counted : item[t] # "absent" /\ item'[t] = "absent"
    /\ retried' = retried

\* One that begins no submission, and no video.
SubmissionsGoOn ==
    /\ \A b \in Submissions : phase'[b] \in {"new", "videos"} => phase'[b] = phase[b]
    /\ \A v \in AllVideos : single[v] = "off" => single'[v] = "off"

LEMMA ShrinkKeeps ==
    ASSUME TypeInv, TypeInv', GroupInv, ListShrinks, SubmissionsGoOn
    PROVE  GroupInv'
<1>1. counted \subseteq Transfers /\ counted' \subseteq Transfers
    BY DEF TypeInv, ListTypes
<1>2. CountedAreGone'
    BY <1>1 DEF GroupInv, CountedAreGone, ListShrinks
<1>3. ASSUME NEW ts \in SUBSET Transfers, NotListed(ts) PROVE NotListed(ts)'
    BY <1>3 DEF NotListed, ListShrinks
<1>4. ASSUME NEW b \in Submissions
      PROVE  /\ Members(b) \in SUBSET Transfers
             /\ Elements(Batch[b]) \in SUBSET Transfers
             /\ Videos[b] \subseteq AllVideos
    BY TransferSets
<1>5. LaterAreNew'
    BY <1>3, <1>4 DEF GroupInv, LaterAreNew, SubmissionsGoOn
<1>. QED
    BY <1>2, <1>5 DEF GroupInv

\* Updates do not list, and what is removed is not listed.
LEMMA UpdatesShrink ==
    /\ item' = item => \A t \in Transfers : item[t] = "absent" => item'[t] = "absent"
    /\ \A ts, s : item' = Updated(item, ts, s) =>
          \A t \in Transfers : item[t] = "absent" => item'[t] = "absent"
    /\ \A ts : item' = [t \in Transfers |-> IF t \in ts THEN "absent" ELSE item[t]] =>
          \A t \in Transfers : item[t] = "absent" => item'[t] = "absent"
    BY DEF Updated

LEMMA OutcomeUpdates ==
    ASSUME NEW t \in Transfers, NEW k \in Slots, loop[t][k].at \in {"done", "paused", "failed"}, Outcome(t, k)
    PROVE  \E s : item' = Updated(item, {t}, s)
    BY DEF Outcome

LEMMA SingleGoesOn ==
    ASSUME TypeInv, NEW s \in Singles, NEW from, NEW to, MovesSingle(s, from, to),
           from # "off" \/ s \in Recoveries
    PROVE  SubmissionsGoOn
<1>1. AllVideos \subseteq Singles /\ AllVideos \cap Recoveries = {}
    BY DistinctAssumption DEF Singles
<1>. QED
    BY <1>1 DEF MovesSingle, SubmissionsGoOn, TypeInv, SingleTypes, batchVars

LEMMA SingleGroups ==
    ASSUME TypeInv, TypeInv', GroupInv, NEW s \in Singles, SingleStep(s)
    PROVE  GroupInv'
<1>. DEFINE shrinks == \A t \in Transfers : item[t] = "absent" => item'[t] = "absent"
<1>1. SubmissionsGoOn
    <2>1. \E from \in {"convert", "prepare", "init", "replace", "key",
                       "encrypt", "erase", "loop"} : \E to : MovesSingle(s, from, to)
        BY DEF SingleStep, ConvertVideo, PrepareSingle, InitSingle, SingleFails,
               Conflict, ReplaceExisting, RecoverKey, RecoverLoop, ErasePending,
               SingleEnds
    <2>. QED
        BY <2>1, SingleGoesOn
<1>2. CASE MovesSingle(s, "replace", "convert") /\ item' = Added(item, {s})
           /\ retried' = retried \cup {s} /\ counted' = counted
    <2>1. single[s] = "replace"
        BY <1>2 DEF MovesSingle
    <2>2. s \in Singles /\ s \notin InBatches /\ Singles \subseteq Transfers
        BY DistinctAssumption DEF Transfers
    <2>3. ASSUME NEW t \in Transfers, t # s PROVE item'[t] = item[t]
        BY <1>2, <2>3 DEF Added
    <2>4. CountedAreGone'
        BY <1>2, <2>3 DEF GroupInv, CountedAreGone, TypeInv, ListTypes
    <2>5. ASSUME NEW b \in Submissions
          PROVE  /\ s \notin Elements(Batch[b])
                 /\ phase'[b] = "new" => s \notin Members(b)
        <3>1. phase' = phase
            BY <1>2 DEF MovesSingle, batchVars
        <3>2. s \notin Elements(Batch[b])
            BY <2>2, TransferSets
        <3>3. phase[b] = "new" => s \notin Videos[b]
            BY <2>1 DEF GroupInv, LaterAreNew
        <3>. QED
            BY <3>1, <3>2, <3>3 DEF Members
    <2>6. ASSUME NEW b \in Submissions
          PROVE  /\ Members(b) \subseteq Transfers
                 /\ Elements(Batch[b]) \subseteq Transfers
                 /\ Videos[b] \subseteq AllVideos
        BY TransferSets
    <2>7. ASSUME NEW ts \in SUBSET Transfers, s \notin ts, NotListed(ts)
          PROVE  NotListed(ts)'
        BY <1>2, <2>3, <2>7 DEF NotListed
    <2>8. LaterAreNew'
        BY <1>1, <2>5, <2>6, <2>7 DEF GroupInv, LaterAreNew, SubmissionsGoOn
    <2>. QED
        BY <2>4, <2>8 DEF GroupInv
<1>3. CASE shrinks /\ UNCHANGED <<counted, retried>>
    <2>1. ListShrinks
        BY <1>3 DEF ListShrinks
    <2>. QED
        BY <1>1, <2>1, ShrinkKeeps
<1>4. CASE ConvertVideo(s) \/ PrepareSingle(s) \/ InitSingle(s) \/ SingleFails(s)
           \/ Conflict(s)
    <2>1. UNCHANGED <<counted, retried>>
        BY <1>4 DEF ConvertVideo, PrepareSingle, InitSingle, SingleFails, Conflict,
                    itemVars
    <2>2. item' = item \/ \E ts, v : item' = Updated(item, ts, v)
        BY <1>4 DEF ConvertVideo, PrepareSingle, InitSingle, SingleFails, Conflict,
                    itemVars
    <2>. QED
        BY <1>3, <2>1, <2>2, UpdatesShrink
<1>5. CASE RecoverKey(s) \/ RecoverLoop(s)
    <2>1. UNCHANGED <<counted, retried>>
        BY <1>5 DEF RecoverKey, RecoverLoop
    <2>2. item' = item \/ \E ts, v : item' = Updated(item, ts, v)
        BY <1>5 DEF RecoverKey, RecoverLoop
    <2>. QED
        BY <1>3, <2>1, <2>2, UpdatesShrink
<1>6. CASE ErasePending(s)
    BY <1>3, <1>6, UpdatesShrink DEF ErasePending, Removing
<1>7. CASE SingleEnds(s)
    <2>1. \E v : item' = Updated(item, {s}, v)
        <3>1. /\ loop[s]["first"].at \in {"done", "paused", "failed"}
              /\ Outcome(s, "first")
            BY <1>7 DEF SingleEnds
        <3>. QED
            BY <3>1, OutcomeUpdates DEF Slots, Transfers
    <2>. QED
        BY <1>3, <1>7, <2>1, UpdatesShrink DEF SingleEnds
<1>8. CASE ReplaceExisting(s)
    <2>1. CASE MovesSingle(s, "replace", "failed") /\ UNCHANGED <<item, retried>>
        BY <1>3, <1>8, <2>1, UpdatesShrink DEF ReplaceExisting
    <2>. QED
        BY <1>2, <1>8, <2>1 DEF ReplaceExisting
<1>. QED
    BY <1>4, <1>5, <1>6, <1>7, <1>8 DEF SingleStep

\* Only the members of a submission are listed, when it is submitted.
LEMMA SubmittedGroups ==
    ASSUME TypeInv, GroupInv, NEW b \in Submissions, NEW ts \in SUBSET Members(b),
           item' = Added(item, ts), counted' = counted, retried' = retried,
           \A t \in ts : t \notin counted,
           \A c \in Submissions \ {b} :
              /\ phase'[c] = phase[c]
              /\ \A v \in Videos[c] : single'[v] = single[v],
           phase'[b] # "new",
           phase'[b] = "videos" =>
              phase[b] = "new" /\ ts \cap Elements(Batch[b]) = {}
    PROVE  GroupInv'
<1>1. /\ counted \subseteq Transfers
      /\ \A t \in Transfers \ ts : item'[t] = item[t]
    BY DEF TypeInv, ListTypes, Added
<1>2. CountedAreGone'
    BY <1>1 DEF GroupInv, CountedAreGone
<1>3. ASSUME NEW us \in SUBSET Transfers, us \cap ts = {}, NotListed(us)
      PROVE  NotListed(us)'
    BY <1>1, <1>3 DEF NotListed
<1>4. ASSUME NEW c \in Submissions, c # b
      PROVE  /\ Members(c) \in SUBSET Transfers /\ Members(c) \cap ts = {}
             /\ Elements(Batch[c]) \subseteq Members(c)
    BY <1>4, TransferSets, DistinctAssumption DEF Members
<1>5. ASSUME NEW c \in Submissions
      PROVE  /\ phase'[c] = "new" => /\ NotListed(Members(c))'
                                     /\ \A v \in Videos[c] : single'[v] = "off"
             /\ phase'[c] = "videos" => NotListed(Elements(Batch[c]))'
    <2>1. CASE c = b
        <3>1. phase'[b] = "videos" => NotListed(Elements(Batch[b]))
            BY DEF GroupInv, LaterAreNew, NotListed, Members
        <3>2. Elements(Batch[b]) \in SUBSET Transfers
            BY TransferSets
        <3>. QED
            BY <1>3, <2>1, <3>1, <3>2
    <2>2. CASE c # b
        <3>1. /\ Elements(Batch[c]) \in SUBSET Transfers
              /\ Elements(Batch[c]) \cap ts = {}
            BY <1>4, <2>2
        <3>2. phase'[c] = phase[c] /\ \A v \in Videos[c] : single'[v] = single[v]
            BY <2>2
        <3>. QED
            BY <1>3, <1>4, <2>2, <3>1, <3>2 DEF GroupInv, LaterAreNew
    <2>. QED
        BY <2>1, <2>2
<1>6. LaterAreNew'
    BY <1>5 DEF LaterAreNew
<1>. QED
    BY <1>2, <1>6 DEF GroupInv

LEMMA EnqueuedGroups ==
    ASSUME TypeInv, GroupInv, NEW b \in Submissions, phase[b] \in {"new", "videos"},
           Enqueues(b), UNCHANGED <<counted, retried, single>>
    PROVE  GroupInv'
<1>1. Elements(Batch[b]) \in SUBSET Members(b)
    BY DEF Members
<1>2. \A t \in Elements(Batch[b]) : t \notin counted
    BY <1>1 DEF GroupInv, LaterAreNew, NotListed
<1>3. /\ phase' \in [Submissions -> {"new", "videos", "queued", "running",
                                     "done", "abandoned"}]
      /\ \A c \in Submissions \ {b} : phase'[c] = phase[c]
      /\ phase'[b] \notin {"new", "videos"}
    BY DEF TypeInv, SubmissionTypes, Enqueues
<1>4. item' = Added(item, Elements(Batch[b]))
    BY DEF Enqueues
<1>. QED
    BY <1>1, <1>2, <1>3, <1>4, SubmittedGroups

LEMMA SubmitGroups ==
    ASSUME TypeInv, GroupInv, NEW b \in Submissions, Submit(b)
    PROVE  GroupInv'
<1>1. phase[b] = "new" /\ UNCHANGED <<counted, retried>>
    BY DEF Submit
<1>2. CASE Enqueues(b) /\ UNCHANGED single
    BY <1>1, <1>2, EnqueuedGroups
<1>3. CASE ~(Enqueues(b) /\ UNCHANGED single)
    <2>1. /\ phase' = [phase EXCEPT ![b] = "videos"]
          /\ item' = Added(item, Videos[b])
          /\ single' = [s \in Singles |->
                IF s \in Videos[b] THEN "convert" ELSE single[s]]
        BY <1>3 DEF Submit
    <2>2. /\ Videos[b] \in SUBSET Members(b)
          /\ Videos[b] \cap Elements(Batch[b]) = {}
        BY TransferSets, DistinctAssumption DEF Members, Singles
    <2>3. \A t \in Videos[b] : t \notin counted
        BY <1>1, <2>2 DEF GroupInv, LaterAreNew, NotListed
    <2>4. ASSUME NEW c \in Submissions \ {b}
          PROVE  /\ phase'[c] = phase[c]
                 /\ \A v \in Videos[c] : single'[v] = single[v]
        <3>1. Videos[c] \subseteq Singles /\ Videos[c] \cap Videos[b] = {}
            BY TransferSets, DistinctAssumption DEF Members, Singles
        <3>. QED
            BY <2>1, <3>1 DEF TypeInv, SubmissionTypes
    <2>5. phase'[b] = "videos"
        BY <2>1 DEF TypeInv, SubmissionTypes
    <2>. QED
        BY <1>1, <2>1, <2>2, <2>3, <2>4, <2>5, SubmittedGroups
<1>. QED
    BY <1>2, <1>3

LEMMA ClickGroups ==
    ASSUME TypeInv, TypeInv', GroupInv, Clicks
    PROVE  GroupInv'
<1>. DEFINE shrinks == \A t \in Transfers : item[t] = "absent" => item'[t] = "absent"
<1>1. ASSUME shrinks, UNCHANGED <<counted, retried>>, UNCHANGED <<phase, single>>
      PROVE  GroupInv'
    <2>1. ListShrinks /\ SubmissionsGoOn
        BY <1>1 DEF ListShrinks, SubmissionsGoOn
    <2>. QED
        BY <2>1, ShrinkKeeps
<1>2. ASSUME NEW ts \in SUBSET Transfers, Removing(ts), \A t \in ts : item[t] # "absent",
             counted' \subseteq counted \cup ts, UNCHANGED <<phase, single, retried>>
      PROVE  GroupInv'
    <2>1. ListShrinks /\ SubmissionsGoOn
        BY <1>2 DEF Removing, ListShrinks, SubmissionsGoOn
    <2>. QED
        BY <2>1, ShrinkKeeps
<1>3. ASSUME NEW t \in Transfers, PauseTransfer(t) \/ ResumeUpload(t) PROVE GroupInv'
    BY <1>1, <1>3, UpdatesShrink
       DEF PauseTransfer, ResumeUpload, Pausing, Resumes, batchVars, flowVars
<1>4. ASSUME NEW t \in Transfers, CancelTransfer(t) PROVE GroupInv'
    <2>1. item[t] # "absent"
        BY <1>4 DEF CancelTransfer, Offered
    <2>. QED
        BY <1>2, <1>4, <2>1 DEF CancelTransfer, batchVars, flowVars
<1>5. ASSUME NEW r \in Recoveries, RecoverUpload(r) \/ CancelPending(r)
      PROVE  GroupInv'
    <2>1. PICK to : MovesSingle(r, single[r], to)
        BY <1>5 DEF RecoverUpload, CancelPending
    <2>2. r \in Singles
        BY DEF Singles
    <2>3. SubmissionsGoOn
        BY <2>1, <2>2, SingleGoesOn
    <2>4. UNCHANGED <<counted, retried>>
        BY <1>5 DEF RecoverUpload, CancelPending, itemVars
    <2>5. shrinks
        BY <1>5, UpdatesShrink DEF RecoverUpload, CancelPending, Pausing, itemVars
    <2>. QED
        BY <2>3, <2>4, <2>5, ShrinkKeeps DEF ListShrinks
<1>6. ASSUME NEW b \in Submissions, PauseGroup(b) \/ ClearGroup(b) \/ ResumeGroup(b)
      PROVE  GroupInv'
    BY <1>1, <1>6, UpdatesShrink DEF PauseGroup, ClearGroup, ResumeGroup,
       Pausing, Unlisted, itemVars, batchVars, flowVars
<1>7. ASSUME NEW b \in Submissions, CancelGroup(b) PROVE GroupInv'
    <2>. DEFINE ts == InStatus(b, "processing") \cup InStatus(b, "paused")
    <2>1. ts \in SUBSET Transfers /\ \A t \in ts : item[t] # "absent"
        BY TransferSets DEF InStatus
    <2>2. Removing(ts) /\ counted' = counted \cup ts
        BY <1>7 DEF CancelGroup
    <2>. HIDE DEF ts
    <2>. QED
        BY <1>2, <1>7, <2>1, <2>2 DEF CancelGroup, batchVars, flowVars
<1>8. ASSUME NEW s \in AllVideos, AnswerDialog(s) PROVE GroupInv'
    <2>1. PICK to : MovesSingle(s, "dialog", to)
        BY <1>8 DEF AnswerDialog
    <2>2. s \in Singles
        BY DEF Singles
    <2>3. SubmissionsGoOn
        BY <2>1, <2>2, SingleGoesOn
    <2>. QED
        BY <1>8, <2>3, ShrinkKeeps, UpdatesShrink
           DEF AnswerDialog, ListShrinks, itemVars
<1>9. CASE ClearCompleted
    BY <1>1, <1>9, UpdatesShrink DEF ClearCompleted, Unlisted, batchVars, flowVars
<1>. QED
    BY <1>3, <1>4, <1>5, <1>6, <1>7, <1>8, <1>9, SubmitGroups DEF Clicks

LEMMA CoordinatorGroups ==
    ASSUME TypeInv, TypeInv', GroupInv,
           \/ Coordinates
           \/ \E t \in InBatches : RunTask(t) \/ TaskEnds(t)
    PROVE  GroupInv'
<1>. DEFINE shrinks == \A t \in Transfers : item[t] = "absent" => item'[t] = "absent"
<1>1. shrinks
    <2>1. ASSUME NEW t \in InBatches, TaskEnds(t) PROVE shrinks
        <3>1. /\ loop[t]["first"].at \in {"done", "paused", "failed"}
              /\ Outcome(t, "first")
            BY <2>1 DEF TaskEnds
        <3>. QED
            BY <3>1, OutcomeUpdates, UpdatesShrink DEF Slots, Transfers
    <2>2. ASSUME NEW t \in InBatches, RunTask(t) PROVE shrinks
        BY <2>2, UpdatesShrink DEF RunTask, itemVars
    <2>3. CASE Coordinates
        BY <2>3, UpdatesShrink
           DEF Coordinates, BeginOperation, PrepareCandidate, RejectDuplicates,
               InitWindow, InitWindowFails, InitWindowUnauthorized, NextWindow,
               Failing, itemVars
    <2>. QED
        BY <2>1, <2>2, <2>3
<1>2. UNCHANGED <<counted, retried, single>>
    BY DEF Coordinates, BeginOperation, PrepareCandidate, RejectDuplicates,
           InitWindow, InitWindowFails, InitWindowUnauthorized, NextWindow,
           RunTask, TaskEnds, itemVars, flowVars
<1>3. \A b \in Submissions : phase'[b] \in {"new", "videos"} => phase'[b] = phase[b]
    <2>1. \/ phase' = phase
          \/ \E b, s : s \in {"running", "done"} /\ phase' = [phase EXCEPT ![b] = s]
        BY DEF Coordinates, BeginOperation, PrepareCandidate, RejectDuplicates,
               InitWindow, InitWindowFails, InitWindowUnauthorized, NextWindow,
               RunTask, TaskEnds
    <2>. QED
        BY <2>1 DEF TypeInv, SubmissionTypes
<1>4. ListShrinks /\ SubmissionsGoOn
    BY <1>1, <1>2, <1>3 DEF ListShrinks, SubmissionsGoOn
<1>. QED
    BY <1>4, ShrinkKeeps

LEMMA GroupStep == TypeInv /\ TypeInv' /\ GroupInv /\ [Next]_vars => GroupInv'
<1>. SUFFICES ASSUME TypeInv, TypeInv', GroupInv, [Next]_vars PROVE GroupInv'
    OBVIOUS
<1>. DEFINE shrinks == \A t \in Transfers : item[t] = "absent" => item'[t] = "absent"
<1>1. ASSUME shrinks, UNCHANGED <<counted, retried>>, UNCHANGED <<phase, single>>
      PROVE  GroupInv'
    <2>1. ListShrinks /\ SubmissionsGoOn
        BY <1>1 DEF ListShrinks, SubmissionsGoOn
    <2>. QED
        BY <2>1, ShrinkKeeps
<1>2. ASSUME NEW t \in Transfers, ResumedEnds(t) PROVE GroupInv'
    <2>1. /\ loop[t]["again"].at \in {"done", "paused", "failed"}
          /\ Outcome(t, "again")
        BY <1>2 DEF ResumedEnds
    <2>2. shrinks
        BY <2>1, OutcomeUpdates, UpdatesShrink DEF Slots
    <2>. QED
        BY <1>1, <1>2, <2>2 DEF ResumedEnds, batchVars, flowVars
<1>3. ASSUME NEW t \in Transfers, NEW k \in Slots, Answers(t, k) PROVE GroupInv'
    <2>1. PICK w : LoopSteps(t, k, w)
        BY <1>3 DEF Answers, LoopStarts, Progress, ChunkSent, Posted, Finalized,
                    RequestFails
    <2>. QED
        BY <1>1, <2>1, UpdatesShrink DEF LoopSteps, itemVars, batchVars, flowVars
<1>4. ASSUME NEW b \in Submissions, VideosSettled(b) PROVE GroupInv'
    <2>1. CASE Enqueues(b)
        BY <1>4, <2>1, EnqueuedGroups DEF VideosSettled
    <2>2. CASE phase' = [phase EXCEPT ![b] = "abandoned"] /\ UNCHANGED <<item, tail>>
        <3>1. ListShrinks /\ SubmissionsGoOn
            BY <1>4, <2>2 DEF VideosSettled, ListShrinks, SubmissionsGoOn,
                              TypeInv, SubmissionTypes
        <3>. QED
            BY <3>1, ShrinkKeeps
    <2>. QED
        BY <1>4, <2>1, <2>2 DEF VideosSettled
<1>5. ASSUME NEW b \in Submissions, ContinueGroup(b) PROVE GroupInv'
    BY <1>1, <1>5, UpdatesShrink DEF ContinueGroup, Resumes, itemVars, batchVars
<1>6. ASSUME UNCHANGED vars PROVE GroupInv'
    BY <1>1, <1>6, UpdatesShrink DEF vars, itemVars, batchVars, flowVars
<1>7. CASE Coordinates \/ \E t \in InBatches : RunTask(t) \/ TaskEnds(t)
    BY <1>7, CoordinatorGroups
<1>8. CASE Clicks \/ \E s \in Singles : SingleStep(s)
    BY <1>8, ClickGroups, SingleGroups
<1>9. CASE \E t \in Transfers : ResumedEnds(t) \/ \E k \in Slots : Answers(t, k)
    BY <1>2, <1>3, <1>9
<1>10. CASE \E b \in Submissions : VideosSettled(b) \/ ContinueGroup(b)
    BY <1>4, <1>5, <1>10
<1>. QED
    BY <1>6, <1>7, <1>8, <1>9, <1>10 DEF Next

\* A group has ended, by its counts, exactly when each of its transfers has.
LEMMA CountsAreHonest ==
    ASSUME TypeInv, GroupInv, NEW b \in Submissions, Members(b) \cap retried = {}
    PROVE  AllTerminal(b)
              <=> \A t \in Members(b) : item[t] \in {"success", "error"} \/ t \in counted
<1>. DEFINE M == Members(b)
            S == InStatus(b, "success")
            E == InStatus(b, "error")
            C == Counted(b)
<1>1. IsFiniteSet(M) /\ M \subseteq Transfers
    BY TransferSets
<1>2. S \subseteq M /\ E \subseteq M /\ C \subseteq M
    BY DEF InStatus, Counted
<1>3. S \cap E = {} /\ (S \cup E) \cap C = {}
    BY DEF InStatus, Counted, GroupInv, CountedAreGone
<1>4. /\ IsFiniteSet(S) /\ IsFiniteSet(E) /\ IsFiniteSet(C)
      /\ IsFiniteSet(S \cup E) /\ IsFiniteSet((S \cup E) \cup C)
    BY <1>1, <1>2, FS_Subset
<1>5. Cardinality((S \cup E) \cup C) = Cardinality(S) + Cardinality(E) + Cardinality(C)
    <2>1. Cardinality(S \cup E)
             = Cardinality(S) + Cardinality(E) - Cardinality(S \cap E)
        BY <1>4, FS_Union
    <2>2. Cardinality((S \cup E) \cup C)
             = Cardinality(S \cup E) + Cardinality(C) - Cardinality((S \cup E) \cap C)
        BY <1>4, FS_Union
    <2>3. Cardinality({}) = 0
        BY FS_EmptySet
    <2>4. Cardinality(S) \in Nat /\ Cardinality(E) \in Nat /\ Cardinality(C) \in Nat
        BY <1>4, FS_CardinalityType
    <2>5. Cardinality(S \cap E) = 0 /\ Cardinality((S \cup E) \cap C) = 0
        BY <1>3, <2>3, Zenon
    <2>. HIDE DEF S, E, C
    <2>. QED
        BY <2>1, <2>2, <2>4, <2>5
<1>6. AllTerminal(b) <=> Cardinality((S \cup E) \cup C) >= Cardinality(M)
    BY <1>5 DEF AllTerminal
<1>7. (S \cup E) \cup C \subseteq M
    BY <1>2
<1>8. /\ Cardinality((S \cup E) \cup C) \in Nat /\ Cardinality(M) \in Nat
      /\ Cardinality((S \cup E) \cup C) <= Cardinality(M)
    BY <1>1, <1>7, FS_Subset, FS_CardinalityType
<1>9. Cardinality((S \cup E) \cup C) = Cardinality(M) <=> (S \cup E) \cup C = M
    BY <1>1, <1>7, FS_Subset
<1>10. (S \cup E) \cup C = M
          <=> \A t \in M : item[t] \in {"success", "error"} \/ t \in counted
    BY <1>2 DEF InStatus, Counted
<1>. HIDE DEF S, E, C, M
<1>11. AllTerminal(b) <=> (S \cup E) \cup C = M
    BY <1>6, <1>8, <1>9
<1>. QED
    BY <1>10, <1>11 DEF M

\* What is shown says that it has ended, when by the counts it has.
LEMMA StatusOfEnded ==
    ASSUME NEW b \in Submissions
    PROVE  GroupStatus(b) \in {"success", "error", "partial", "cancelled"}
              <=> AllTerminal(b)
<1>. DEFINE succeeded == Cardinality(InStatus(b, "success"))
            failed    == Cardinality(InStatus(b, "error"))
            removed   == Cardinality(Counted(b))
            total     == Cardinality(Members(b))
            still     == InStatus(b, "processing")
            held      == Cardinality(InStatus(b, "paused"))
<1>1. succeeded \in Nat /\ failed \in Nat /\ removed \in Nat /\ total \in Nat
    <2>1. IsFiniteSet(Members(b))
        BY TransferSets
    <2>2. /\ InStatus(b, "success") \subseteq Members(b)
          /\ InStatus(b, "error") \subseteq Members(b) /\ Counted(b) \subseteq Members(b)
        BY DEF InStatus, Counted
    <2>. QED
        BY <2>1, <2>2, FS_Subset, FS_CardinalityType
<1>2. AllTerminal(b) <=> succeeded + failed + removed >= total
    BY DEF AllTerminal
<1>3. GroupStatus(b) =
         CASE succeeded = total -> "success"
           [] succeeded # total /\ removed = total -> "cancelled"
           [] AllTerminal(b) /\ succeeded # total /\ removed # total ->
                 IF succeeded = 0 /\ failed > 0 THEN "error" ELSE "partial"
           [] ~AllTerminal(b) /\ still # {} -> "active"
           [] ~AllTerminal(b) /\ still = {} ->
                 IF held + removed = total THEN "paused" ELSE "queued"
    BY DEF GroupStatus
<1>. HIDE DEF succeeded, failed, removed, total, still, held
<1>4. succeeded = total \/ removed = total => AllTerminal(b)
    BY <1>1, <1>2
<1>5. CASE succeeded = total
    BY <1>3, <1>4, <1>5
<1>6. CASE succeeded # total /\ removed = total
    BY <1>3, <1>4, <1>6
<1>7. CASE AllTerminal(b) /\ succeeded # total /\ removed # total
    BY <1>3, <1>7
<1>8. CASE ~AllTerminal(b) /\ still # {}
    BY <1>3, <1>4, <1>8
<1>9. CASE ~AllTerminal(b) /\ still = {}
    BY <1>3, <1>4, <1>9
<1>. QED
    BY <1>5, <1>6, <1>7, <1>8, <1>9

\* For groups of any size, in any order of their transfers' ends: a group is
\* shown as ended exactly when each transfer has ended or been removed
\* (toTransferGroupView and the counts that it goes by).
THEOREM GroupsTellTrue == Spec => []GroupsHonest
<1>1. TypeInv /\ GroupInv => GroupsHonest
    BY CountsAreHonest, StatusOfEnded DEF GroupsHonest
<1>. QED
    BY <1>1, TypeStart, TypeStep, GroupStart, GroupStep, PTL DEF Spec

-----------------------------------------------------------------------------
(* The coordinator implements BatchReports.                                *)

\* The candidates that the coordinator has taken up in this window, and those
\* that it has not, in this and in later windows.
Taken(o) == {Batch[o.batch][j] : j \in (o.from + 1)..(o.from + o.at)}

Ahead(o) == {Batch[o.batch][j] : j \in (o.from + o.at + 1)..Len(Batch[o.batch])}

\* What it has taken up and not reported is in one place, and in this window.
Sound(o) ==
    o.batch # 0 =>
       /\ o.from <= Len(Batch[o.batch]) /\ o.at <= Len(Window(o))
       /\ Elements(o.ready) \cup Elements(o.waiting) \cup o.running \subseteq Taken(o)
       /\ Elements(o.waiting) \cap o.running = {}
       /\ o.waiting # <<>> \/ o.running # {} =>
             o.ready = <<>> /\ o.at = Len(Window(o))

\* What has no result yet.
Open(o) == Ahead(o) \cup Elements(o.ready) \cup Elements(o.waiting) \cup o.running

\* A submission whose batch has not been enqueued has reported nothing.
NotCalledYet ==
    \A b \in Submissions : phase[b] \in {"new", "videos"} =>
        /\ b \notin Elements(tail) /\ b # op.batch
        /\ summary[b].succeeded + summary[b].paused + summary[b].failed = 0

\* The inductive invariant behind ReportsOnce.
ReportInv == Sound(op) /\ NotCalledYet

LEMMA WindowIs ==
    ASSUME NEW o \in OperationStates, o.batch # 0, o.from <= Len(Batch[o.batch])
    PROVE  /\ Batch[o.batch] \in Seq(InBatches) /\ Len(Batch[o.batch]) \in Nat
           /\ Len(Window(o)) \in Nat /\ DOMAIN Window(o) = 1..Len(Window(o))
           /\ o.from + Len(Window(o)) <= Len(Batch[o.batch])
           /\ Len(Window(o)) <= WindowSize /\ WindowSize \in Nat \ {0}
           /\ o.from + WindowSize < Len(Batch[o.batch]) => Len(Window(o)) = WindowSize
           /\ o.from + WindowSize >= Len(Batch[o.batch]) =>
                 o.from + Len(Window(o)) = Len(Batch[o.batch])
           /\ \A i \in 1..Len(Window(o)) : Window(o)[i] = Batch[o.batch][o.from + i]
<1>. DEFINE B == Batch[o.batch]
            last == IF o.from + WindowSize < Len(B) THEN o.from + WindowSize ELSE Len(B)
<1>1. B \in Seq(InBatches) /\ o.from \in Nat /\ WindowSize \in Nat \ {0}
    BY TransferSets, BatchAssumption DEF OperationStates
<1>2. Window(o) = SubSeq(B, o.from + 1, last)
    BY DEF Window
<1>. HIDE DEF B
<1>3. Len(B) \in Nat
    BY <1>1
<1>4. last \in Nat /\ o.from <= last /\ last <= Len(B)
    BY <1>1, <1>3 DEF B
<1>5. /\ Len(Window(o)) = last - o.from /\ DOMAIN Window(o) = 1..(last - o.from)
      /\ \A i \in 1..(last - o.from) : Window(o)[i] = B[o.from + i]
    <2>. HIDE DEF last
    <2>. QED
        BY <1>1, <1>2, <1>3, <1>4
<1>. QED
    BY <1>1, <1>3, <1>4, <1>5 DEF B

LEMMA DueIs ==
    ASSUME NEW o \in OperationStates, o.batch # 0, o.from <= Len(Batch[o.batch]),
           o.at <= Len(Window(o))
    PROVE  /\ {Window(o)[i] : i \in {j \in DOMAIN Window(o) : j > o.at}} \cup Later(o)
                = Ahead(o)
           /\ Taken(o) \cap Ahead(o) = {}
           /\ o.at = Len(Window(o)) => Later(o) = Ahead(o)
<1>. DEFINE B == Batch[o.batch]
            n == Len(B)
            w == Len(Window(o))
<1>1. /\ o.batch \in Submissions /\ o.from \in Nat /\ o.at \in Nat
    BY DEF OperationStates
<1>2. /\ B \in Seq(InBatches) /\ n \in Nat /\ w \in Nat /\ DOMAIN B = 1..n
      /\ DOMAIN Window(o) = 1..w /\ o.from + w <= n
      /\ WindowSize \in Nat \ {0}
      /\ o.from + WindowSize < n => w = WindowSize
      /\ o.from + WindowSize >= n => o.from + w = n
      /\ \A i \in 1..w : Window(o)[i] = B[o.from + i]
    BY WindowIs
<1>3. \A i, j \in 1..n : B[i] = B[j] => i = j
    BY <1>1, <1>2, DistinctAssumption
<1>4. Later(o) = {B[i] : i \in {j \in 1..n : j > o.from + WindowSize}}
    BY <1>2 DEF Later
<1>. HIDE DEF B, n, w
<1>5. Later(o) = {B[j] : j \in (o.from + w + 1)..n}
    <2>1. \A j \in 1..n : j > o.from + WindowSize <=> j \in (o.from + w + 1)..n
        BY <1>1, <1>2
    <2>2. (o.from + w + 1)..n \subseteq 1..n
        BY <1>1, <1>2
    <2>3. {j \in 1..n : j > o.from + WindowSize} = (o.from + w + 1)..n
        BY <2>1, <2>2
    <2>. QED
        BY <1>4, <2>3
<1>6. {Window(o)[i] : i \in {j \in DOMAIN Window(o) : j > o.at}}
         = {B[j] : j \in (o.from + o.at + 1)..(o.from + w)}
    <2>. DEFINE L == {Window(o)[i] : i \in {j \in DOMAIN Window(o) : j > o.at}}
                R == {B[j] : j \in (o.from + o.at + 1)..(o.from + w)}
    <2>1. ASSUME NEW x \in L PROVE x \in R
        <3>1. PICK i \in DOMAIN Window(o) : i > o.at /\ x = Window(o)[i]
            BY <2>1
        <3>2. x = B[o.from + i] /\ i \in 1..w
            BY <1>2, <3>1
        <3>3. o.from + i \in (o.from + o.at + 1)..(o.from + w)
            BY <1>1, <1>2, <3>1, <3>2
        <3>. QED
            BY <3>2, <3>3
    <2>2. ASSUME NEW x \in R PROVE x \in L
        <3>1. PICK j \in (o.from + o.at + 1)..(o.from + w) : x = B[j]
            BY <2>2
        <3>2. j - o.from \in 1..w /\ j - o.from > o.at /\ o.from + (j - o.from) = j
            BY <1>1, <1>2, <3>1
        <3>3. x = Window(o)[j - o.from]
            BY <1>2, <3>1, <3>2
        <3>. QED
            BY <1>2, <3>2, <3>3
    <2>. QED
        BY <2>1, <2>2
<1>7. o.at <= w
    BY DEF w
<1>8. Ahead(o) = {B[j] : j \in (o.from + o.at + 1)..n}
    BY DEF Ahead, B, n
<1>9. Taken(o) = {B[j] : j \in (o.from + 1)..(o.from + o.at)}
    BY DEF Taken, B
<1>10. (o.from + o.at + 1)..n
          = ((o.from + o.at + 1)..(o.from + w)) \cup ((o.from + w + 1)..n)
    BY <1>1, <1>2, <1>7
<1>11. {B[j] : j \in (o.from + o.at + 1)..(o.from + w)}
          \cup {B[j] : j \in (o.from + w + 1)..n} = Ahead(o)
    BY <1>8, <1>10
<1>12. Taken(o) \cap Ahead(o) = {}
    <2>. SUFFICES ASSUME NEW i \in (o.from + 1)..(o.from + o.at),
                         NEW j \in (o.from + o.at + 1)..n, B[i] = B[j]
                  PROVE  FALSE
        BY <1>8, <1>9
    <2>1. i \in 1..n /\ j \in 1..n /\ i # j
        BY <1>1, <1>2, <1>7
    <2>. QED
        BY <1>3, <2>1
<1>13. o.at = w => Later(o) = Ahead(o)
    BY <1>5, <1>8
<1>. QED
    BY <1>5, <1>6, <1>11, <1>12, <1>13 DEF w

\* The state of BatchReports that a state stands for.
Order == IF op.batch = 0 THEN tail ELSE <<op.batch>> \o tail

Count == [b \in Submissions |->
             summary[b].succeeded + summary[b].paused + summary[b].failed]

LEMMA OpenOperation ==
    ASSUME NEW o \in OperationStates, o.batch # 0, Sound(o)
    PROVE  /\ {Window(o)[i] : i \in {j \in DOMAIN Window(o) : j > o.at}} \cup Later(o)
                = Ahead(o)
           /\ Taken(o) \cap Ahead(o) = {}
           /\ o.at = Len(Window(o)) => Later(o) = Ahead(o)
    BY DueIs DEF Sound

LEMMA DueIsOpen == Sound(op) /\ op \in OperationStates /\ op.batch # 0 => Due = Open(op)
<1>. SUFFICES ASSUME Sound(op), op \in OperationStates, op.batch # 0
              PROVE  Due = Open(op)
    OBVIOUS
<1>1. {Window(op)[i] : i \in {j \in DOMAIN Window(op) : j > op.at}} \cup Later(op)
         = Ahead(op)
    BY OpenOperation
<1>. QED
    BY <1>1 DEF Due, Open

\* Within a window, taking up, reporting and passing on.
LEMMA InWindow ==
    ASSUME NEW o \in OperationStates, NEW p \in OperationStates, o.batch # 0,
           p.batch = o.batch, p.from = o.from
    PROVE  /\ Window(p) = Window(o) /\ Later(p) = Later(o)
           /\ p.at = o.at => Taken(p) = Taken(o) /\ Ahead(p) = Ahead(o)
           /\ p.at = o.at + 1 /\ o.at < Len(Window(o)) /\ Sound(o) =>
                 /\ Taken(p) = Taken(o) \cup {Window(o)[o.at + 1]}
                 /\ Ahead(p) = Ahead(o) \ {Window(o)[o.at + 1]}
                 /\ Window(o)[o.at + 1] \in Ahead(o)
<1>1. Window(p) = Window(o) /\ Later(p) = Later(o)
    BY DEF Window, Later
<1>2. p.at = o.at => Taken(p) = Taken(o) /\ Ahead(p) = Ahead(o)
    BY DEF Taken, Ahead
<1>3. ASSUME p.at = o.at + 1, o.at < Len(Window(o)), Sound(o)
      PROVE  /\ Taken(p) = Taken(o) \cup {Window(o)[o.at + 1]}
             /\ Ahead(p) = Ahead(o) \ {Window(o)[o.at + 1]}
             /\ Window(o)[o.at + 1] \in Ahead(o)
    <2>. DEFINE B == Batch[o.batch]
                n == Len(B)
                k == o.from + o.at + 1
    <2>1. /\ o.batch \in Submissions /\ o.from \in Nat /\ o.at \in Nat
        BY DEF OperationStates
    <2>2. o.from <= n
        BY <1>3 DEF Sound
    <2>3. /\ B \in Seq(InBatches) /\ n \in Nat /\ Len(Window(o)) \in Nat
          /\ o.from + Len(Window(o)) <= n
          /\ \A i \in 1..Len(Window(o)) : Window(o)[i] = B[o.from + i]
        BY <2>2, WindowIs
    <2>4. k \in 1..n /\ Window(o)[o.at + 1] = B[k]
        <3>. DEFINE w == Len(Window(o))
        <3>1. w \in Nat /\ o.from + w <= n /\ n \in Nat /\ o.at < w
            BY <1>3, <2>3
        <3>. HIDE DEF n, w, B
        <3>3. /\ o.at + 1 \in 1..w /\ o.from + (o.at + 1) = k /\ k \in 1..n
            BY <2>1, <3>1
        <3>4. \A i \in 1..w : Window(o)[i] = B[o.from + i]
            BY <2>3 DEF w
        <3>2. Window(o)[o.at + 1] = B[o.from + (o.at + 1)]
            BY <3>3, <3>4
        <3>. QED
            BY <3>2, <3>3
    <2>5. \A i, j \in 1..n : B[i] = B[j] => i = j
        BY <2>1, <2>3, DistinctAssumption
    <2>6. /\ Ahead(o) = {B[j] : j \in k..n}
          /\ Ahead(p) = {B[j] : j \in (k + 1)..n}
          /\ Taken(o) = {B[j] : j \in (o.from + 1)..(k - 1)}
          /\ Taken(p) = {B[j] : j \in (o.from + 1)..k}
        <3>1. p.from + p.at + 1 = k + 1 /\ p.from + p.at = k /\ o.from + o.at = k - 1
            BY <1>3, <2>1
        <3>. QED
            BY <1>3, <3>1 DEF Ahead, Taken
    <2>. HIDE DEF B, n, k
    <2>7. /\ k \in Nat /\ o.from + 1 <= k /\ k..n = {k} \cup ((k + 1)..n)
          /\ (o.from + 1)..k = ((o.from + 1)..(k - 1)) \cup {k}
        <3>1. k \in Nat /\ o.from + 1 <= k
            BY <2>1 DEF k
        <3>. QED
            BY <2>1, <2>3, <2>4, <3>1
    <2>8. \A j \in (k + 1)..n : B[j] # B[k]
        BY <2>3, <2>4, <2>5, <2>7
    <2>9. Ahead(o) = {B[k]} \cup Ahead(p) /\ B[k] \notin Ahead(p)
        BY <2>6, <2>7, <2>8
    <2>10. Taken(p) = Taken(o) \cup {B[k]}
        BY <2>6, <2>7
    <2>. QED
        BY <2>4, <2>9, <2>10
<1>. QED
    BY <1>1, <1>2, <1>3

\* A step that leaves what BatchReports sees, and one that reports.
LEMMA Unseen ==
    ASSUME Order' = Order, Due' = Due, summary' = summary
    PROVE  [Reports!Next]_(Reports!vars)
    BY DEF Reports!vars, Order

LEMMA OrderAlone ==
    ASSUME UNCHANGED <<op, tail>>
    PROVE  Order' = Order /\ Due' = Due
    BY DEF Order, Due, Window, Later, Elements

\* The instance has its own name for the number of elements.
LEMMA SameCardinality == \A s : Reports!Cardinality(s) = Cardinality(s)
    BY DEF Reports!Cardinality, Cardinality

LEMMA ReportSeen ==
    ASSUME OperationTypes, SubmissionTypes, op.batch # 0,
           op'.batch = op.batch, tail' = tail,
           NEW s \in SUBSET Due, s # {}, Due' = Due \ s,
           Cardinality(s) \in Nat,
           \/ summary' = [summary EXCEPT ![op.batch].failed = @ + Cardinality(s)]
           \/ summary' = [summary EXCEPT ![op.batch].paused = @ + Cardinality(s)]
           \/ summary' = [summary EXCEPT ![op.batch].succeeded = @ + Cardinality(s)]
    PROVE  Reports!Next
<1>1. op.batch \in Submissions
    BY DEF OperationTypes, OperationStates
<1>2. \A b \in Submissions :
         /\ b # op.batch => summary'[b] = summary[b]
         /\ b = op.batch =>
               summary'[b].succeeded + summary'[b].paused + summary'[b].failed
               = summary[b].succeeded + summary[b].paused + summary[b].failed
                 + Cardinality(s)
    BY SummaryGrows
<1>3. Count' = [Count EXCEPT ![op.batch] = @ + Cardinality(s)]
    BY <1>1, <1>2 DEF Count
<1>4. Order # <<>> /\ Head(Order) = op.batch /\ Order' = Order
    <2>. DEFINE first == <<op.batch>>
    <2>1. first \o tail # <<>> /\ Head(first \o tail) = op.batch
        BY <1>1 DEF SubmissionTypes
    <2>. QED
        BY <2>1 DEF Order
<1>5. Reports!Report(s)
    BY <1>3, <1>4, SameCardinality DEF Reports!Report, Order, Count
<1>6. s \in SUBSET Due
    OBVIOUS
<1>. QED
    BY <1>5, <1>6 DEF Reports!Next

\* A step of the coordinator within a window that adds no result, and one that
\* does.
LEMMA PassedOn ==
    ASSUME TypeInv, ReportInv, op.batch # 0, op' \in OperationStates,
           op'.batch = op.batch, Sound(op'), Open(op') = Open(op),
           UNCHANGED <<tail, phase, summary>>
    PROVE  ReportInv' /\ [Reports!Next]_(Reports!vars)
<1>1. op \in OperationStates /\ Sound(op)
    BY DEF TypeInv, OperationTypes, ReportInv
<1>2. Due = Open(op) /\ Due' = Open(op')
    <2>1. Due = Open(op)
        BY <1>1, DueIsOpen
    <2>2. Due' = Open(op')
        <3>1. {Window(op')[i] : i \in {j \in DOMAIN Window(op') : j > op'.at}}
                 \cup Later(op') = Ahead(op')
            BY OpenOperation
        <3>. QED
            BY <3>1 DEF Due, Open
    <2>. QED
        BY <2>1, <2>2
<1>3. Order' = Order
    BY DEF Order
<1>4. [Reports!Next]_(Reports!vars)
    BY <1>2, <1>3, Unseen
<1>5. ReportInv'
    BY DEF ReportInv, NotCalledYet
<1>. QED
    BY <1>4, <1>5

LEMMA Reported ==
    ASSUME TypeInv, ReportInv, op.batch # 0, op' \in OperationStates,
           op'.batch = op.batch, Sound(op'),
           NEW s \in SUBSET Open(op), s # {}, Open(op') = Open(op) \ s,
           UNCHANGED <<tail, phase>>, Cardinality(s) \in Nat,
           \/ summary' = [summary EXCEPT ![op.batch].failed = @ + Cardinality(s)]
           \/ summary' = [summary EXCEPT ![op.batch].paused = @ + Cardinality(s)]
           \/ summary' = [summary EXCEPT ![op.batch].succeeded = @ + Cardinality(s)]
    PROVE  ReportInv' /\ [Reports!Next]_(Reports!vars)
<1>1. OperationTypes /\ SubmissionTypes /\ op \in OperationStates /\ Sound(op)
    BY DEF TypeInv, OperationTypes, ReportInv
<1>2. Due = Open(op)
    BY <1>1, DueIsOpen
<1>3. Due' = Open(op')
    <2>1. {Window(op')[i] : i \in {j \in DOMAIN Window(op') : j > op'.at}}
             \cup Later(op') = Ahead(op')
        BY OpenOperation
    <2>. QED
        BY <2>1 DEF Due, Open
<1>4. s \in SUBSET Due /\ Due' = Due \ s
    BY <1>2, <1>3
<1>5. Reports!Next
    BY <1>1, <1>4, ReportSeen
<1>6. \A b \in Submissions : b # op.batch => summary'[b] = summary[b]
    BY <1>1, SummaryGrows
<1>7. NotCalledYet'
    BY <1>6 DEF ReportInv, NotCalledYet
<1>. QED
    BY <1>5, <1>7 DEF ReportInv

LEMMA PrepareReports ==
    ASSUME TypeInv, TypeInv', ReportInv, PrepareCandidate
    PROVE  ReportInv' /\ [Reports!Next]_(Reports!vars)
<1>. DEFINE t == Window(op)[op.at + 1]
<1>1. /\ op \in OperationStates /\ op' \in OperationStates /\ Sound(op)
      /\ op.batch # 0 /\ op.at < Len(Window(op)) /\ UNCHANGED <<phase, tail>>
    BY DEF TypeInv, OperationTypes, ReportInv, PrepareCandidate
<1>2. /\ op.from <= Len(Batch[op.batch]) /\ op.waiting = <<>> /\ op.running = {}
      /\ Elements(op.ready) \subseteq Taken(op)
    BY <1>1 DEF Sound, OperationStates
<1>3. t \in InBatches
    BY <1>1, WindowTyped DEF TypeInv, OperationStates
<1>4. ASSUME op'.batch = op.batch, op'.from = op.from, op'.at = op.at + 1
      PROVE  /\ Window(op') = Window(op) /\ Taken(op') = Taken(op) \cup {t}
             /\ Ahead(op') = Ahead(op) \ {t} /\ t \in Ahead(op)
             /\ Taken(op) \cap Ahead(op) = {} /\ op'.at <= Len(Window(op'))
    <2>1. Window(op') = Window(op) /\ Len(Window(op)) \in Nat
        BY <1>1, <1>2, <1>4, InWindow, WindowIs
    <2>2. op'.at <= Len(Window(op'))
        BY <1>1, <1>4, <2>1 DEF OperationStates
    <2>. QED
        BY <1>1, <1>4, <2>1, <2>2, InWindow, OpenOperation
<1>. HIDE DEF t
<1>5. CASE op' = [op EXCEPT !.at = @ + 1, !.ready = Append(@, t)]
           /\ UNCHANGED <<item, summary>>
    <2>1. /\ op'.batch = op.batch /\ op'.from = op.from /\ op'.at = op.at + 1
          /\ op'.ready = Append(op.ready, t) /\ op'.waiting = op.waiting
          /\ op'.running = op.running
        BY <1>1, <1>5 DEF OperationStates
    <2>2. Elements(op'.ready) = Elements(op.ready) \cup {t}
        BY <1>1, <1>3, <2>1, AppendedElements DEF OperationStates
    <2>3. Sound(op')
        BY <1>2, <1>4, <2>1, <2>2, NoElements DEF Sound
    <2>4. Open(op') = Open(op)
        BY <1>4, <2>1, <2>2 DEF Open
    <2>. QED
        BY <1>1, <1>5, <2>1, <2>3, <2>4, PassedOn
<1>6. CASE op' = [op EXCEPT !.at = @ + 1] /\ Failing({t})
    <2>1. /\ op'.batch = op.batch /\ op'.from = op.from /\ op'.at = op.at + 1
          /\ op'.ready = op.ready /\ op'.waiting = op.waiting
          /\ op'.running = op.running
        BY <1>1, <1>6 DEF OperationStates
    <2>2. Sound(op')
        BY <1>2, <1>4, <2>1, NoElements DEF Sound
    <2>3. Open(op') = Open(op) \ {t} /\ {t} \in SUBSET Open(op)
        BY <1>2, <1>4, <2>1, NoElements DEF Open
    <2>4. /\ Cardinality({t}) \in Nat
          /\ summary' = [summary EXCEPT ![op.batch].failed = @ + Cardinality({t})]
        BY <1>1, <1>3, <1>6, FailingGrows, TransferSets DEF TypeInv
    <2>. QED
        BY <1>1, <2>1, <2>2, <2>3, <2>4, Reported
<1>. QED
    BY <1>5, <1>6 DEF PrepareCandidate, t

LEMMA RejectReports ==
    ASSUME TypeInv, TypeInv', ReportInv, RejectDuplicates
    PROVE  ReportInv' /\ [Reports!Next]_(Reports!vars)
<1>. DEFINE s == Duplicates(op.ready)
<1>1. /\ op \in OperationStates /\ op' \in OperationStates /\ Sound(op)
      /\ op.batch # 0 /\ op.ready # <<>> /\ UNCHANGED <<phase, tail>>
      /\ Failing(s) /\ s # {} /\ op' = [op EXCEPT !.ready = Without(@, s)]
    BY DEF TypeInv, OperationTypes, ReportInv, RejectDuplicates, Prepared, Valid
<1>2. /\ op.waiting = <<>> /\ op.running = {} /\ op.ready \in Seq(InBatches)
      /\ Elements(op.ready) \subseteq Taken(op)
      /\ Taken(op) \cap Ahead(op) = {}
    BY <1>1, OpenOperation DEF Sound, OperationStates
<1>3. s \subseteq Elements(op.ready) /\ s \in SUBSET Transfers
    <2>1. s \subseteq Elements(op.ready)
        BY DEF Duplicates, Elements
    <2>2. Elements(op.ready) \subseteq InBatches
        BY <1>2 DEF Elements
    <2>. QED
        BY <2>1, <2>2, TransferSets
<1>4. Elements(Without(op.ready, s)) = Elements(op.ready) \ s
    BY <1>2, WithoutThem
<1>. HIDE DEF s
<1>5. /\ op'.batch = op.batch /\ op'.from = op.from /\ op'.at = op.at
      /\ op'.ready = Without(op.ready, s) /\ op'.waiting = op.waiting
      /\ op'.running = op.running
    BY <1>1 DEF OperationStates
<1>6. /\ Window(op') = Window(op) /\ Taken(op') = Taken(op) /\ Ahead(op') = Ahead(op)
    BY <1>1, <1>5, InWindow
<1>7. Sound(op')
    BY <1>1, <1>2, <1>4, <1>5, <1>6, NoElements DEF Sound
<1>8. Open(op') = Open(op) \ s /\ s \in SUBSET Open(op)
    BY <1>2, <1>3, <1>4, <1>5, <1>6, NoElements DEF Open
<1>9. /\ Cardinality(s) \in Nat
      /\ summary' = [summary EXCEPT ![op.batch].failed = @ + Cardinality(s)]
    BY <1>1, <1>3, FailingGrows DEF TypeInv
<1>. QED
    BY <1>1, <1>5, <1>7, <1>8, <1>9, Reported

LEMMA InitReports ==
    ASSUME TypeInv, TypeInv', ReportInv,
           InitWindow \/ InitWindowFails \/ InitWindowUnauthorized
    PROVE  ReportInv' /\ [Reports!Next]_(Reports!vars)
<1>. DEFINE none == <<>>
            s == Elements(op.ready)
<1>1. /\ op \in OperationStates /\ op' \in OperationStates /\ Sound(op)
      /\ op.batch # 0 /\ op.ready # none /\ op.at = Len(Window(op))
      /\ UNCHANGED <<phase, tail>>
    BY DEF TypeInv, OperationTypes, ReportInv, InitWindow, InitWindowFails,
           InitWindowUnauthorized, Prepared
<1>2. /\ op.waiting = none /\ op.running = {} /\ op.ready \in Seq(InBatches)
      /\ s \subseteq Taken(op) /\ op.from <= Len(Batch[op.batch])
      /\ Taken(op) \cap Ahead(op) = {} /\ Later(op) = Ahead(op)
    BY <1>1, OpenOperation DEF Sound, OperationStates
<1>3. s \subseteq InBatches /\ InBatches \subseteq Transfers /\ s # {}
    <2>1. s \subseteq InBatches
        BY <1>2 DEF Elements
    <2>2. op.ready[1] \in s
        BY <1>1, <1>2 DEF Elements
    <2>. QED
        BY <2>1, <2>2, TransferSets
<1>4. Elements(none) = {}
    BY NoElements
<1>. HIDE DEF none, s
<1>5. CASE InitWindow
    <2>1. op' = [op EXCEPT !.ready = none, !.waiting = op.ready]
          /\ UNCHANGED summary
        BY <1>5 DEF InitWindow, none
    <2>2. /\ op'.batch = op.batch /\ op'.from = op.from /\ op'.at = op.at
          /\ op'.ready = none /\ op'.waiting = op.ready /\ op'.running = op.running
        BY <1>1, <2>1 DEF OperationStates
    <2>3. /\ Window(op') = Window(op) /\ Taken(op') = Taken(op) /\ Ahead(op') = Ahead(op)
        BY <1>1, <2>2, InWindow
    <2>4. Sound(op')
        BY <1>1, <1>2, <1>4, <2>2, <2>3 DEF Sound, none, s
    <2>5. Open(op') = Open(op)
        BY <1>2, <1>4, <2>2, <2>3 DEF Open
    <2>. QED
        BY <1>1, <2>1, <2>2, <2>4, <2>5, PassedOn
<1>6. CASE InitWindowFails
    <2>1. op' = [op EXCEPT !.ready = none] /\ Failing(s)
        BY <1>6 DEF InitWindowFails, none, s
    <2>2. /\ op'.batch = op.batch /\ op'.from = op.from /\ op'.at = op.at
          /\ op'.ready = none /\ op'.waiting = op.waiting /\ op'.running = op.running
        BY <1>1, <2>1 DEF OperationStates
    <2>3. /\ Window(op') = Window(op) /\ Taken(op') = Taken(op) /\ Ahead(op') = Ahead(op)
        BY <1>1, <2>2, InWindow
    <2>4. Sound(op')
        BY <1>1, <1>2, <1>4, <2>2, <2>3 DEF Sound, none
    <2>5. Open(op') = Open(op) \ s /\ s \in SUBSET Open(op)
        BY <1>2, <1>4, <2>2, <2>3 DEF Open, s
    <2>6. /\ Cardinality(s) \in Nat
          /\ summary' = [summary EXCEPT ![op.batch].failed = @ + Cardinality(s)]
        BY <1>1, <1>3, <2>1, FailingGrows DEF TypeInv
    <2>. QED
        BY <1>1, <1>3, <2>2, <2>4, <2>5, <2>6, Reported
<1>7. CASE InitWindowUnauthorized
    <2>. DEFINE all == s \cup Later(op)
                n == Len(Batch[op.batch])
    <2>1. op' = [op EXCEPT !.ready = none, !.from = n, !.at = 0] /\ Failing(all)
        BY <1>7 DEF InitWindowUnauthorized, none, s
    <2>2. all \in SUBSET Transfers /\ all # {}
        BY <1>1, <1>3, WindowTyped DEF TypeInv
    <2>3. /\ op'.batch = op.batch /\ op'.from = n /\ op'.at = 0
          /\ op'.ready = none /\ op'.waiting = op.waiting /\ op'.running = op.running
        BY <1>1, <2>1 DEF OperationStates
    <2>4. n \in Nat /\ Len(Window(op')) \in Nat
        <3>1. n \in Nat
            BY <1>1, <1>2, WindowIs
        <3>2. op'.from <= Len(Batch[op'.batch])
            BY <2>3, <3>1
        <3>. QED
            BY <1>1, <2>3, <3>1, <3>2, WindowIs
    <2>5. Ahead(op') = {}
        BY <2>3, <2>4 DEF Ahead
    <2>6. Sound(op')
        BY <1>2, <1>4, <2>3, <2>4 DEF Sound, none
    <2>7. Open(op') = {} /\ Open(op) = all
        BY <1>2, <1>4, <2>3, <2>5 DEF Open, s
    <2>8. /\ Cardinality(all) \in Nat
          /\ summary' = [summary EXCEPT ![op.batch].failed = @ + Cardinality(all)]
        BY <1>1, <2>1, <2>2, FailingGrows DEF TypeInv
    <2>. HIDE DEF all, n
    <2>9. Open(op') = Open(op) \ all /\ all \in SUBSET Open(op)
        BY <2>7
    <2>. QED
        BY <1>1, <2>2, <2>3, <2>6, <2>8, <2>9, Reported
<1>. QED
    BY <1>5, <1>6, <1>7

LEMMA SeqEqual ==
    ASSUME NEW S, NEW q \in Seq(S), NEW r \in Seq(S), Len(q) = Len(r),
           \A i \in 1..Len(q) : q[i] = r[i]
    PROVE  q = r
    OBVIOUS

LEMMA RunReports ==
    ASSUME TypeInv, TypeInv', ReportInv, NEW t \in InBatches, RunTask(t)
    PROVE  ReportInv' /\ [Reports!Next]_(Reports!vars)
<1>. DEFINE rest == Without(op.waiting, {t})
<1>1. /\ op \in OperationStates /\ op' \in OperationStates /\ Sound(op)
      /\ UNCHANGED <<phase, tail, summary>>
      /\ op' = [op EXCEPT !.waiting = rest, !.running = @ \cup {t}]
    BY DEF TypeInv, OperationTypes, ReportInv, RunTask
<1>2. /\ t \in Elements(op.waiting) /\ op.batch # 0
      /\ rest \in Seq(InBatches) /\ Elements(rest) = Elements(op.waiting) \ {t}
    BY TasksWait DEF TypeInv
<1>. HIDE DEF rest
<1>3. op.waiting # <<>>
    BY <1>2, NoElements
<1>4. /\ op.ready = <<>> /\ op.at = Len(Window(op)) /\ Taken(op) \cap Ahead(op) = {}
    BY <1>1, <1>2, <1>3, OpenOperation DEF Sound
<1>5. /\ op'.batch = op.batch /\ op'.from = op.from /\ op'.at = op.at
      /\ op'.ready = op.ready /\ op'.waiting = rest
      /\ op'.running = op.running \cup {t}
    BY <1>1 DEF OperationStates
<1>6. /\ Window(op') = Window(op) /\ Taken(op') = Taken(op) /\ Ahead(op') = Ahead(op)
    BY <1>1, <1>2, <1>5, InWindow
<1>7. Sound(op')
    BY <1>1, <1>2, <1>4, <1>5, <1>6, NoElements DEF Sound
<1>8. Open(op') = Open(op)
    BY <1>2, <1>5, <1>6 DEF Open
<1>. QED
    BY <1>1, <1>2, <1>5, <1>7, <1>8, PassedOn

LEMMA TaskReports ==
    ASSUME TypeInv, TypeInv', ReportInv, NEW t \in InBatches, TaskEnds(t)
    PROVE  ReportInv' /\ [Reports!Next]_(Reports!vars)
<1>1. /\ op \in OperationStates /\ op' \in OperationStates /\ Sound(op)
      /\ UNCHANGED <<phase, tail>> /\ t \in op.running
      /\ op' = [op EXCEPT !.running = @ \ {t}]
    BY DEF TypeInv, OperationTypes, ReportInv, TaskEnds
<1>2. op.batch # 0
    BY <1>1, IdleChanged DEF TypeInv, OperationTypes
<1>3. /\ op.ready = <<>> /\ op.at = Len(Window(op)) /\ Taken(op) \cap Ahead(op) = {}
      /\ op.running \subseteq Taken(op) /\ t \notin Elements(op.waiting)
    BY <1>1, <1>2, OpenOperation DEF Sound
<1>4. /\ op'.batch = op.batch /\ op'.from = op.from /\ op'.at = op.at
      /\ op'.ready = op.ready /\ op'.waiting = op.waiting
      /\ op'.running = op.running \ {t}
    BY <1>1 DEF OperationStates
<1>5. /\ Window(op') = Window(op) /\ Taken(op') = Taken(op) /\ Ahead(op') = Ahead(op)
    BY <1>1, <1>2, <1>4, InWindow
<1>6. Sound(op')
    BY <1>1, <1>2, <1>3, <1>4, <1>5 DEF Sound
<1>7. Open(op') = Open(op) \ {t} /\ {t} \in SUBSET Open(op)
    BY <1>1, <1>3, <1>4, <1>5, NoElements DEF Open
<1>8. Cardinality({t}) = 1
    BY FS_Singleton
<1>9. \/ summary' = [summary EXCEPT ![op.batch].failed = @ + Cardinality({t})]
      \/ summary' = [summary EXCEPT ![op.batch].paused = @ + Cardinality({t})]
      \/ summary' = [summary EXCEPT ![op.batch].succeeded = @ + Cardinality({t})]
    BY <1>8 DEF TaskEnds
<1>. DEFINE s == {t}
<1>10. /\ s # {} /\ s \in SUBSET Open(op) /\ Open(op') = Open(op) \ s
       /\ Cardinality(s) \in Nat
       /\ \/ summary' = [summary EXCEPT ![op.batch].failed = @ + Cardinality(s)]
          \/ summary' = [summary EXCEPT ![op.batch].paused = @ + Cardinality(s)]
          \/ summary' = [summary EXCEPT ![op.batch].succeeded = @ + Cardinality(s)]
    BY <1>7, <1>8, <1>9
<1>. HIDE DEF s
<1>. QED
    BY <1>1, <1>2, <1>4, <1>6, <1>10, Reported

LEMMA BeginReports ==
    ASSUME TypeInv, TypeInv', ReportInv, BeginOperation
    PROVE  ReportInv' /\ [Reports!Next]_(Reports!vars)
<1>. DEFINE h == Head(tail)
            B == Batch[h]
<1>1. /\ op = Idle /\ tail # <<>> /\ op' = [Idle EXCEPT !.batch = h]
      /\ tail' = Tail(tail) /\ phase' = [phase EXCEPT ![h] = "running"]
      /\ summary' = summary /\ tail \in Seq(Submissions)
    BY DEF BeginOperation, TypeInv, SubmissionTypes
<1>2. h \in Submissions /\ h # 0 /\ tail = <<h>> \o Tail(tail)
    <2>1. h \in Submissions /\ h # 0
        BY <1>1, TransferSets
    <2>. DEFINE q == <<h>> \o Tail(tail)
    <2>2. q \in Seq(Submissions) /\ Len(q) = Len(tail)
        BY <1>1, <2>1
    <2>3. \A i \in 1..Len(tail) : q[i] = tail[i]
        BY <1>1, <2>1
    <2>. HIDE DEF q
    <2>4. q = tail
        BY <1>1, <2>2, <2>3, SeqEqual
    <2>. QED
        BY <2>1, <2>4 DEF q
<1>. HIDE DEF h
<1>3. B \in Seq(InBatches) /\ Len(B) \in Nat /\ DOMAIN B = 1..Len(B)
    <2>1. B \in Seq(InBatches)
        BY <1>2, TransferSets
    <2>. QED
        BY <2>1
<1>4. /\ op' \in OperationStates /\ op'.batch = h /\ op'.from = 0 /\ op'.at = 0
      /\ op'.ready = <<>> /\ op'.waiting = <<>> /\ op'.running = {}
    BY <1>1, <1>2, IdleChanged
<1>5. Ahead(op') = Elements(B)
    BY <1>3, <1>4 DEF Ahead, Elements
<1>6. Sound(op')
    <2>1. op'.from <= Len(Batch[op'.batch])
        BY <1>3, <1>4
    <2>2. Len(Window(op')) \in Nat
        BY <1>2, <1>4, <2>1, WindowIs
    <2>. QED
        BY <1>4, <2>1, <2>2, NoElements DEF Sound
<1>7. Due = Elements(B)
    BY <1>1, IdleChanged DEF Due, h
<1>8. Due' = Elements(B)
    <2>1. {Window(op')[i] : i \in {j \in DOMAIN Window(op') : j > op'.at}}
             \cup Later(op') = Ahead(op')
        BY <1>2, <1>4, <1>6, OpenOperation
    <2>. QED
        BY <1>2, <1>4, <1>5, <2>1, NoElements DEF Due
<1>9. Order = tail /\ Order' = tail
    BY <1>1, <1>2, <1>4, IdleChanged DEF Order
<1>10. [Reports!Next]_(Reports!vars)
    BY <1>1, <1>7, <1>8, <1>9, Unseen
<1>11. NotCalledYet'
    <2>. SUFFICES ASSUME NEW b \in Submissions, phase'[b] \in {"new", "videos"}
                  PROVE  /\ b \notin Elements(tail') /\ b # op'.batch
                         /\ summary'[b].succeeded + summary'[b].paused
                              + summary'[b].failed = 0
        BY DEF NotCalledYet
    <2>1. b # h /\ phase'[b] = phase[b]
        BY <1>1, <1>2 DEF TypeInv, SubmissionTypes
    <2>2. Elements(tail') \subseteq Elements(tail)
        BY <1>1 DEF Elements
    <2>. QED
        BY <1>1, <1>4, <2>1, <2>2 DEF ReportInv, NotCalledYet
<1>. QED
    BY <1>6, <1>10, <1>11 DEF ReportInv

LEMMA WindowReports ==
    ASSUME TypeInv, TypeInv', ReportInv, NextWindow
    PROVE  ReportInv' /\ [Reports!Next]_(Reports!vars)
<1>. DEFINE b == op.batch
            n == Len(Batch[b])
<1>1. /\ op \in OperationStates /\ op' \in OperationStates /\ Sound(op) /\ b # 0
      /\ op.at = Len(Window(op)) /\ op.ready = <<>> /\ op.waiting = <<>>
      /\ op.running = {} /\ UNCHANGED <<tail, summary>> /\ b \in Submissions
    BY DEF TypeInv, OperationTypes, OperationStates, ReportInv, NextWindow, WindowDone
<1>2. /\ op.from <= n /\ n \in Nat /\ op.from \in Nat /\ op.at \in Nat
      /\ WindowSize \in Nat \ {0}
      /\ op.from + WindowSize < n => op.at = WindowSize
      /\ op.from + WindowSize >= n => op.from + op.at = n
    BY <1>1, WindowIs DEF Sound, OperationStates
<1>3. Open(op) = Ahead(op)
    BY <1>1, NoElements DEF Open
<1>4. CASE op.from + WindowSize < n
    <2>1. op' = [op EXCEPT !.from = op.from + WindowSize, !.at = 0] /\ phase' = phase
        BY <1>4 DEF NextWindow
    <2>2. /\ op'.batch = b /\ op'.from = op.from + WindowSize /\ op'.at = 0
          /\ op'.ready = <<>> /\ op'.waiting = <<>> /\ op'.running = {}
        BY <1>1, <2>1 DEF OperationStates
    <2>3. Ahead(op') = Ahead(op)
        <3>1. op'.from + op'.at + 1 = op.from + op.at + 1
            BY <1>2, <1>4, <2>2
        <3>. QED
            BY <2>2, <3>1 DEF Ahead
    <2>4. Open(op') = Open(op)
        BY <1>3, <2>2, <2>3, NoElements DEF Open
    <2>5. Sound(op')
        <3>1. op'.from <= Len(Batch[op'.batch])
            BY <1>2, <1>4, <2>2
        <3>2. Len(Window(op')) \in Nat
            BY <1>1, <2>2, <3>1, WindowIs
        <3>. QED
            BY <2>2, <3>1, <3>2, NoElements DEF Sound
    <2>. QED
        BY <1>1, <2>1, <2>2, <2>4, <2>5, PassedOn
<1>5. CASE ~(op.from + WindowSize < n)
    <2>1. op' = Idle /\ phase' = [phase EXCEPT ![b] = "done"]
        BY <1>5 DEF NextWindow
    <2>2. Ahead(op) = {}
        BY <1>2, <1>5 DEF Ahead
    <2>3. Due = {}
        BY <1>1, <1>3, <2>2, DueIsOpen
    <2>4. Order = <<b>> \o tail /\ Order' = tail /\ tail \in Seq(Submissions)
        BY <1>1, <2>1, IdleChanged DEF Order, TypeInv, SubmissionTypes
    <2>5. Order # <<>> /\ Order' = Tail(Order)
        BY <1>1, <2>4
    <2>6. Due' = Reports!First(Tail(Order))
        <3>1. op'.batch = 0
            BY <2>1, IdleChanged
        <3>2. Due' = IF tail = <<>> THEN {} ELSE Elements(Batch[Head(tail)])
            BY <1>1, <3>1 DEF Due
        <3>3. Reports!First(tail) = IF tail = <<>> THEN {} ELSE Elements(Batch[Head(tail)])
            BY DEF Reports!First, Reports!Candidates, Elements
        <3>4. Tail(Order) = tail
            BY <2>4, <2>5
        <3>. QED
            BY <3>2, <3>3, <3>4
    <2>7. Reports!Next
        <3>1. Reports!End
            BY <1>1, <2>3, <2>5, <2>6 DEF Reports!End, Order
        <3>. QED
            BY <3>1 DEF Reports!Next
    <2>8. NotCalledYet'
        <3>. SUFFICES ASSUME NEW c \in Submissions, phase'[c] \in {"new", "videos"}
                      PROVE  /\ c \notin Elements(tail') /\ c # op'.batch
                             /\ summary'[c].succeeded + summary'[c].paused
                                  + summary'[c].failed = 0
            BY DEF NotCalledYet
        <3>1. c # b /\ phase'[c] = phase[c] /\ c # 0
            BY <2>1, TransferSets DEF TypeInv, SubmissionTypes
        <3>. QED
            BY <1>1, <2>1, <3>1, IdleChanged DEF ReportInv, NotCalledYet
    <2>9. Sound(op')
        BY <2>1, IdleChanged DEF Sound
    <2>. QED
        BY <2>7, <2>8, <2>9 DEF ReportInv
<1>. QED
    BY <1>4, <1>5

\* A submission that is enqueued calls the coordinator; without a batch it does not.
LEMMA EnqueueReports ==
    ASSUME TypeInv, TypeInv', ReportInv, NEW b \in Submissions,
           phase[b] \in {"new", "videos"}, Enqueues(b), UNCHANGED <<op, summary>>
    PROVE  ReportInv' /\ [Reports!Next]_(Reports!vars)
<1>1. /\ op \in OperationStates /\ Sound(op) /\ Sound(op')
      /\ tail \in Seq(Submissions) /\ tail' \in Seq(Submissions)
      /\ b \notin Elements(tail) /\ b # op.batch
      /\ summary[b].succeeded + summary[b].paused + summary[b].failed = 0
    BY DEF TypeInv, OperationTypes, SubmissionTypes, ReportInv, NotCalledYet
<1>2. /\ phase'[b] \notin {"new", "videos"}
      /\ \A c \in Submissions \ {b} : phase'[c] = phase[c]
    BY DEF Enqueues, TypeInv, SubmissionTypes
<1>3. CASE Batch[b] = <<>>
    <2>1. tail' = tail
        BY <1>3 DEF Enqueues
    <2>2. [Reports!Next]_(Reports!vars)
        BY <2>1, OrderAlone, Unseen
    <2>3. NotCalledYet'
        BY <1>2, <2>1 DEF ReportInv, NotCalledYet
    <2>. QED
        BY <1>1, <2>2, <2>3 DEF ReportInv
<1>4. CASE Batch[b] # <<>>
    <2>1. tail' = Append(tail, b)
        BY <1>4 DEF Enqueues
    <2>2. Elements(tail') = Elements(tail) \cup {b}
        BY <1>1, <2>1, AppendedElements
    <2>3. NotCalledYet'
        BY <1>2, <2>2 DEF ReportInv, NotCalledYet
    <2>4. Order \in Seq(Submissions) /\ Order' = Append(Order, b) /\ b \notin Elements(Order)
        <3>1. CASE op.batch = 0
            BY <1>1, <2>1, <3>1 DEF Order
        <3>2. CASE op.batch # 0
            <4>. DEFINE h == op.batch
            <4>1. h \in Submissions /\ Order = <<h>> \o tail /\ Order' = <<h>> \o Append(tail, b)
                BY <1>1, <2>1, <3>2 DEF Order, OperationStates
            <4>. HIDE DEF h
            <4>2. <<h>> \o tail \in Seq(Submissions)
                BY <1>1, <4>1
            <4>3. <<h>> \o Append(tail, b) = Append(<<h>> \o tail, b)
                <5>. DEFINE q == <<h>> \o Append(tail, b)
                            r == Append(<<h>> \o tail, b)
                <5>1. /\ q \in Seq(Submissions) /\ Len(q) = Len(tail) + 2
                      /\ \A i \in 1..(Len(tail) + 2) :
                            q[i] = IF i = 1 THEN h
                                   ELSE IF i = Len(tail) + 2 THEN b ELSE tail[i - 1]
                    BY <1>1, <4>1
                <5>2. /\ r \in Seq(Submissions) /\ Len(r) = Len(tail) + 2
                      /\ \A i \in 1..(Len(tail) + 2) :
                            r[i] = IF i = 1 THEN h
                                   ELSE IF i = Len(tail) + 2 THEN b ELSE tail[i - 1]
                    BY <1>1, <4>1
                <5>. HIDE DEF q, r
                <5>3. q = r
                    BY <5>1, <5>2, SeqEqual
                <5>. QED
                    BY <5>3 DEF q, r
            <4>4. Elements(<<h>> \o tail) \subseteq {h} \cup Elements(tail)
                BY <1>1, <4>1 DEF Elements
            <4>5. b # h
                BY <1>1 DEF h
            <4>. QED
                BY <1>1, <4>1, <4>2, <4>3, <4>4, <4>5
        <3>. QED
            BY <3>1, <3>2
    <2>5. Due' = IF Order = <<>> THEN Elements(Batch[b]) ELSE Due
        <3>1. CASE op.batch = 0 /\ tail = <<>>
            <4>1. op'.batch = 0 /\ tail' # <<>> /\ Head(tail') = b /\ Order = <<>>
                BY <1>1, <2>1, <3>1 DEF Order
            <4>. QED
                BY <4>1 DEF Due
        <3>2. CASE op.batch = 0 /\ tail # <<>>
            <4>1. /\ op'.batch = 0 /\ tail' # <<>> /\ Head(tail') = Head(tail)
                  /\ Order # <<>>
                BY <1>1, <2>1, <3>2 DEF Order
            <4>. QED
                BY <3>2, <4>1 DEF Due
        <3>3. CASE op.batch # 0
            <4>1. Order # <<>>
                BY <1>1, <3>3 DEF Order
            <4>2. Due' = Due
                <5>. DEFINE open == {Window(op)[i] : i \in {j \in DOMAIN Window(op) : j > op.at}}
                                      \cup Later(op) \cup Elements(op.ready)
                                      \cup Elements(op.waiting) \cup op.running
                <5>1. Due = open
                    BY <3>3 DEF Due
                <5>2. op' = op
                    OBVIOUS
                <5>3. Due' = open
                    BY <3>3, <5>2 DEF Due
                <5>. QED
                    BY <5>1, <5>3
            <4>. QED
                BY <4>1, <4>2
        <3>. QED
            BY <3>1, <3>2, <3>3
    <2>6. \A i \in DOMAIN Order : Order[i] # b
        BY <2>4 DEF Elements
    <2>7. Reports!Call(b)
        <3>1. Count[b] = 0 /\ Count' = Count
            BY <1>1 DEF Count
        <3>. QED
            BY <2>4, <2>5, <2>6, <3>1
               DEF Reports!Call, Reports!Candidates, Order, Count, Elements
    <2>8. Reports!Next
        BY <2>7 DEF Reports!Next, Submissions
    <2>. QED
        BY <1>1, <2>3, <2>8 DEF ReportInv
<1>. QED
    BY <1>3, <1>4

\* What leaves the coordinator alone, and enqueues nothing.
LEMMA OthersReport ==
    ASSUME ReportInv, UNCHANGED <<op, tail, summary>>,
           \A b \in Submissions : phase'[b] \in {"new", "videos"} =>
                                     phase[b] \in {"new", "videos"}
    PROVE  ReportInv' /\ [Reports!Next]_(Reports!vars)
<1>1. [Reports!Next]_(Reports!vars)
    BY OrderAlone, Unseen
<1>2. ReportInv'
    BY DEF ReportInv, NotCalledYet
<1>. QED
    BY <1>1, <1>2

LEMMA ReportStep ==
    TypeInv /\ TypeInv' /\ ReportInv /\ [Next]_vars
        => ReportInv' /\ [Reports!Next]_(Reports!vars)
<1>. SUFFICES ASSUME TypeInv, TypeInv', ReportInv, [Next]_vars
              PROVE  ReportInv' /\ [Reports!Next]_(Reports!vars)
    OBVIOUS
<1>1. ASSUME UNCHANGED <<op, tail, summary, phase>>
      PROVE  ReportInv' /\ [Reports!Next]_(Reports!vars)
    BY <1>1, OthersReport
<1>2. ASSUME NEW s \in Singles, SingleStep(s) PROVE UNCHANGED <<op, tail, summary, phase>>
    <2>1. \E from, to : MovesSingle(s, from, to)
        BY <1>2 DEF SingleStep, ConvertVideo, PrepareSingle, InitSingle,
           SingleFails, Conflict, ReplaceExisting, RecoverKey, RecoverLoop,
           ErasePending, SingleEnds
    <2>. QED
        BY <2>1 DEF MovesSingle, batchVars
<1>3. ASSUME NEW b \in Submissions, Submit(b)
      PROVE  ReportInv' /\ [Reports!Next]_(Reports!vars)
    <2>1. phase[b] = "new" /\ UNCHANGED <<op, summary>>
        BY <1>3 DEF Submit
    <2>2. CASE Enqueues(b)
        BY <2>1, <2>2, EnqueueReports
    <2>3. CASE phase' = [phase EXCEPT ![b] = "videos"] /\ tail' = tail
        <3>1. \A c \in Submissions : phase'[c] \in {"new", "videos"} =>
                                        phase[c] \in {"new", "videos"}
            BY <2>1, <2>3 DEF TypeInv, SubmissionTypes
        <3>. QED
            BY <2>1, <2>3, <3>1, OthersReport
    <2>. QED
        BY <1>3, <2>2, <2>3 DEF Submit
<1>4. ASSUME NEW b \in Submissions, VideosSettled(b)
      PROVE  ReportInv' /\ [Reports!Next]_(Reports!vars)
    <2>1. phase[b] = "videos" /\ UNCHANGED <<op, summary>>
        BY <1>4 DEF VideosSettled
    <2>2. CASE Enqueues(b)
        BY <2>1, <2>2, EnqueueReports
    <2>3. CASE phase' = [phase EXCEPT ![b] = "abandoned"] /\ tail' = tail
        <3>1. \A c \in Submissions : phase'[c] \in {"new", "videos"} =>
                                        phase[c] \in {"new", "videos"}
            BY <2>1, <2>3 DEF TypeInv, SubmissionTypes
        <3>. QED
            BY <2>1, <2>3, <3>1, OthersReport
    <2>. QED
        BY <1>4, <2>2, <2>3 DEF VideosSettled
<1>5. CASE Clicks
    <2>1. \/ UNCHANGED <<op, tail, summary, phase>>
          \/ \E b \in Submissions : Submit(b)
        <3>1. ASSUME NEW t \in Transfers,
                     PauseTransfer(t) \/ ResumeUpload(t) \/ CancelTransfer(t)
              PROVE  UNCHANGED <<op, tail, summary, phase>>
            BY <3>1 DEF PauseTransfer, ResumeUpload, CancelTransfer, batchVars
        <3>2. ASSUME NEW r \in Recoveries, RecoverUpload(r) \/ CancelPending(r)
              PROVE  UNCHANGED <<op, tail, summary, phase>>
            BY <3>2 DEF RecoverUpload, CancelPending, MovesSingle, batchVars
        <3>3. ASSUME NEW b \in Submissions,
                     PauseGroup(b) \/ ResumeGroup(b) \/ CancelGroup(b) \/ ClearGroup(b)
              PROVE  UNCHANGED <<op, tail, summary, phase>>
            BY <3>3 DEF PauseGroup, ResumeGroup, CancelGroup, ClearGroup, batchVars
        <3>4. ASSUME NEW s \in AllVideos, AnswerDialog(s)
              PROVE  UNCHANGED <<op, tail, summary, phase>>
            BY <3>4 DEF AnswerDialog, MovesSingle, batchVars
        <3>5. ASSUME ClearCompleted PROVE UNCHANGED <<op, tail, summary, phase>>
            BY <3>5 DEF ClearCompleted, batchVars
        <3>. QED
            BY <1>5, <3>1, <3>2, <3>3, <3>4, <3>5 DEF Clicks
    <2>. QED
        BY <1>1, <1>3, <2>1
<1>6. CASE Coordinates
    BY <1>6, BeginReports, PrepareReports, RejectReports, InitReports,
       WindowReports DEF Coordinates
<1>7. CASE \E t \in InBatches : RunTask(t) \/ TaskEnds(t)
    BY <1>7, RunReports, TaskReports
<1>8. CASE \E t \in Transfers : ResumedEnds(t) \/ \E k \in Slots : Answers(t, k)
    <2>1. ASSUME NEW t \in Transfers, ResumedEnds(t)
          PROVE  UNCHANGED <<op, tail, summary, phase>>
        BY <2>1 DEF ResumedEnds, batchVars
    <2>2. ASSUME NEW t \in Transfers, NEW k \in Slots, Answers(t, k)
          PROVE  UNCHANGED <<op, tail, summary, phase>>
        <3>1. PICK w : LoopSteps(t, k, w)
            BY <2>2 DEF Answers, LoopStarts, Progress, ChunkSent, Posted,
                        Finalized, RequestFails
        <3>. QED
            BY <3>1 DEF LoopSteps, batchVars
    <2>. QED
        BY <1>1, <1>8, <2>1, <2>2
<1>9. CASE \E b \in Submissions : VideosSettled(b) \/ ContinueGroup(b)
    <2>1. ASSUME NEW b \in Submissions, ContinueGroup(b)
          PROVE  UNCHANGED <<op, tail, summary, phase>>
        BY <2>1 DEF ContinueGroup, batchVars
    <2>. QED
        BY <1>1, <1>4, <1>9, <2>1
<1>10. CASE UNCHANGED vars
    BY <1>1, <1>10 DEF vars, batchVars
<1>11. CASE \E s \in Singles : SingleStep(s)
    BY <1>1, <1>2, <1>11
<1>. QED
    BY <1>5, <1>6, <1>7, <1>8, <1>9, <1>10, <1>11 DEF Next

LEMMA ReportStart == Init => ReportInv /\ Reports!Init
<1>. SUFFICES ASSUME Init PROVE ReportInv /\ Reports!Init
    OBVIOUS
<1>1. /\ tail = <<>> /\ op = Idle
      /\ \A b \in Submissions :
            summary[b].succeeded + summary[b].paused + summary[b].failed = 0
    BY DEF Init
<1>2. Sound(op)
    BY <1>1, IdleChanged DEF Sound
<1>3. NotCalledYet
    <2>1. 0 \notin Submissions
        BY TransferSets
    <2>. QED
        BY <1>1, <2>1, IdleChanged, NoElements DEF NotCalledYet
<1>4. Order = <<>> /\ Due = {}
    BY <1>1, IdleChanged DEF Order, Due
<1>5. Count = [b \in Submissions |-> 0]
    BY <1>1 DEF Count
<1>6. Reports!Init
    BY <1>4, <1>5 DEF Reports!Init, Order, Count, Submissions
<1>. QED
    BY <1>2, <1>3, <1>6 DEF ReportInv

\* The coordinator implements BatchReports, for any batches and any window: its
\* operations follow one another in the order of their calls, and each reports
\* one result for every candidate, whatever fails
\* (UploadBatchCoordinatorService.process).
THEOREM CoordinatorReports == Spec => ReportsOnce
<1>1. TypeInv /\ [Next]_vars => TypeInv'
    BY TypeStep
<1>2. TypeInv /\ TypeInv' /\ ReportInv /\ [Next]_vars
          => ReportInv' /\ [Reports!Next]_(Reports!vars)
    BY ReportStep
<1>. QED
    BY <1>1, <1>2, TypeStart, ReportStart, PTL DEF Spec, ReportsOnce, Reports!Spec

\* The actions of BatchReports, in the terms of the coordinator.
FirstOf(s) == IF s = <<>> THEN {} ELSE Elements(Batch[Head(s)])

OrderCalls(b) ==
    /\ Count[b] = 0 /\ \A i \in DOMAIN Order : Order[i] # b
    /\ Order' = Append(Order, b)
    /\ Due' = IF Order = <<>> THEN Elements(Batch[b]) ELSE Due
    /\ Count' = Count

OrderReports(s) ==
    /\ Order # <<>> /\ s # {} /\ Due' = Due \ s
    /\ Count' = [Count EXCEPT ![Head(Order)] = @ + Cardinality(s)]
    /\ Order' = Order

OrderEnds ==
    /\ Order # <<>> /\ Due = {}
    /\ Order' = Tail(Order) /\ Due' = FirstOf(Tail(Order))
    /\ Count' = Count

LEMMA ReportActions ==
    /\ \A b : Reports!Call(b) => OrderCalls(b)
    /\ \A s : Reports!Report(s) => OrderReports(s)
    /\ Reports!End => OrderEnds
    /\ UNCHANGED Reports!vars => Order' = Order /\ Due' = Due /\ Count' = Count
<1>1. \A s : Reports!Cardinality(s) = Cardinality(s)
    BY DEF Reports!Cardinality, Cardinality
<1>2. \A b : Reports!Candidates(b) = Elements(Batch[b])
    BY DEF Reports!Candidates, Elements
<1>3. ASSUME NEW b, Reports!Call(b) PROVE OrderCalls(b)
    BY <1>2, <1>3 DEF Reports!Call, OrderCalls, Order, Count
<1>4. ASSUME NEW s, Reports!Report(s) PROVE OrderReports(s)
    BY <1>1, <1>4 DEF Reports!Report, OrderReports, Order, Count
<1>5. Reports!End => OrderEnds
    BY <1>2 DEF Reports!End, Reports!First, OrderEnds, FirstOf, Order, Count
<1>6. UNCHANGED Reports!vars => Order' = Order /\ Due' = Due /\ Count' = Count
    BY DEF Reports!vars, Order, Count
<1>. QED
    BY <1>3, <1>4, <1>5, <1>6

LEMMA BatchesAreFinite == \A b \in Submissions : IsFiniteSet(Elements(Batch[b]))
<1>. SUFFICES ASSUME NEW b \in Submissions PROVE IsFiniteSet(Elements(Batch[b]))
    OBVIOUS
<1>1. Elements(Batch[b]) \subseteq Transfers
    BY TransferSets
<1>. QED
    BY <1>1, BatchAssumption, FS_Subset

\* An operation is counted by as many results as it has candidates when it has
\* ended, by none while it waits, and by all but those due while it is the
\* first.
CountTypes ==
    /\ Order \in Seq(Submissions)
    /\ Count \in [Submissions -> Nat]
    /\ Due \subseteq FirstOf(Order)

\* No operation waits twice.
WaitsOnce == \A i, j \in DOMAIN Order : Order[i] = Order[j] => i = j

\* What an operation counts: as many results as candidates when it has ended,
\* none while it waits, and all but those due while it is the first.
AddsUp(b) ==
    IF Order # <<>> /\ Head(Order) = b
    THEN Count[b] + Cardinality(Due) = Cardinality(Elements(Batch[b]))
    ELSE /\ Count[b] \in {0, Cardinality(Elements(Batch[b]))}
         /\ (\E i \in DOMAIN Order : Order[i] = b) => Count[b] = 0

CountInv == CountTypes /\ WaitsOnce /\ \A b \in Submissions : AddsUp(b)

LEMMA CountStart == Reports!Init => CountInv
<1>. SUFFICES ASSUME Reports!Init PROVE CountInv
    OBVIOUS
<1>1. Order = <<>> /\ Due = {} /\ Count = [b \in Submissions |-> 0]
    BY DEF Reports!Init, Order, Count, Submissions
<1>. QED
    BY <1>1 DEF CountInv, CountTypes, WaitsOnce, AddsUp

LEMMA DueIsFinite ==
    ASSUME CountInv
    PROVE  IsFiniteSet(Due)
<1>1. IsFiniteSet(FirstOf(Order))
    <2>1. Order # <<>> => Head(Order) \in Submissions
        BY DEF CountInv, CountTypes
    <2>. QED
        BY <2>1, FS_EmptySet, BatchesAreFinite DEF FirstOf
<1>. QED
    BY <1>1, FS_Subset DEF CountInv, CountTypes

LEMMA CallCounts ==
    ASSUME CountInv, NEW b \in Submissions, OrderCalls(b)
    PROVE  CountInv'
<1>1. /\ Order' = Append(Order, b) /\ Count' = Count /\ Count[b] = 0
      /\ \A i \in DOMAIN Order : Order[i] # b
      /\ Order \in Seq(Submissions) /\ Order' \in Seq(Submissions)
    BY DEF OrderCalls, CountInv, CountTypes
<1>2. /\ Len(Order') = Len(Order) + 1 /\ Order'[Len(Order) + 1] = b
      /\ DOMAIN Order' = 1..(Len(Order) + 1)
      /\ \A i \in DOMAIN Order : Order'[i] = Order[i]
    BY <1>1
<1>3. Order # <<>> => Head(Order') = Head(Order) /\ Due' = Due
    BY <1>1, <1>2 DEF OrderCalls
<1>4. Order = <<>> => Head(Order') = b /\ Due' = Elements(Batch[b])
    BY <1>1, <1>2 DEF OrderCalls
<1>5. Order' # <<>>
    BY <1>1
<1>6. CountTypes'
    BY <1>1, <1>3, <1>4, <1>5 DEF CountTypes, CountInv, FirstOf
<1>7. WaitsOnce'
    BY <1>1, <1>2 DEF WaitsOnce, CountInv
<1>8. ASSUME NEW c \in Submissions PROVE AddsUp(c)'
    <2>1. CASE c = b /\ Order = <<>>
        <3>1. Head(Order') = b /\ Order' # <<>> /\ Count'[b] = 0
            BY <1>1, <1>4, <1>5, <2>1
        <3>2. IsFiniteSet(Elements(Batch[b])) /\ Due' = Elements(Batch[b])
            BY <1>4, <2>1, BatchesAreFinite
        <3>3. Cardinality(Elements(Batch[b])) \in Nat
            BY <3>2, FS_CardinalityType
        <3>. QED
            BY <2>1, <3>1, <3>2, <3>3 DEF AddsUp
    <2>2. CASE c = b /\ Order # <<>>
        <3>1. Head(Order') # b /\ Count'[b] = 0
            BY <1>1, <1>3, <2>2
        <3>. QED
            BY <2>2, <3>1 DEF AddsUp
    <2>3. CASE c # b /\ Order = <<>>
        <3>1. Head(Order') # c /\ Count'[c] = Count[c] /\ AddsUp(c)
            BY <1>1, <1>4, <2>3 DEF CountInv
        <3>2. \A i \in DOMAIN Order' : Order'[i] # c
            BY <1>1, <1>2, <2>3
        <3>. QED
            BY <2>3, <3>1, <3>2 DEF AddsUp
    <2>4. CASE c # b /\ Order # <<>>
        <3>1. /\ Head(Order') = Head(Order) /\ Due' = Due
              /\ Count'[c] = Count[c] /\ AddsUp(c) /\ Order' # <<>>
            BY <1>1, <1>3, <1>5, <2>4 DEF CountInv
        <3>2. (\E i \in DOMAIN Order' : Order'[i] = c)
                  => \E i \in DOMAIN Order : Order[i] = c
            BY <1>1, <1>2, <2>4
        <3>. QED
            BY <2>4, <3>1, <3>2 DEF AddsUp
    <2>. QED
        BY <2>1, <2>2, <2>3, <2>4
<1>. QED
    BY <1>6, <1>7, <1>8 DEF CountInv

LEMMA ReportCounts ==
    ASSUME CountInv, NEW s \in SUBSET Due, OrderReports(s)
    PROVE  CountInv'
<1>1. /\ Order # <<>> /\ Due' = Due \ s /\ Order' = Order
      /\ Count' = [Count EXCEPT ![Head(Order)] = @ + Cardinality(s)]
      /\ Order \in Seq(Submissions) /\ Count \in [Submissions -> Nat]
    BY DEF OrderReports, CountInv, CountTypes
<1>2. Head(Order) \in Submissions
    BY <1>1
<1>3. /\ IsFiniteSet(s) /\ IsFiniteSet(Due \ s)
      /\ Cardinality(s) \in Nat /\ Cardinality(Due \ s) \in Nat
      /\ Cardinality(Due) = Cardinality(s) + Cardinality(Due \ s)
    <2>1. IsFiniteSet(Due) /\ IsFiniteSet(s) /\ IsFiniteSet(Due \ s)
        BY DueIsFinite, FS_Subset
    <2>2. /\ Cardinality(s) \in Nat /\ Cardinality(Due \ s) \in Nat
          /\ Cardinality(Due) \in Nat
        BY <2>1, DueIsFinite, FS_CardinalityType
    <2>3. Cardinality(Due \ s) = Cardinality(Due) - Cardinality(Due \cap s)
        BY DueIsFinite, FS_Difference
    <2>4. Due \cap s = s
        OBVIOUS
    <2>5. Cardinality(Due \ s) = Cardinality(Due) - Cardinality(s)
        BY <2>3, <2>4, Zenon
    <2>6. Cardinality(Due) = Cardinality(s) + Cardinality(Due \ s)
        BY <2>2, <2>5
    <2>. QED
        BY <2>1, <2>2, <2>6, Zenon
<1>4. CountTypes'
    BY <1>1, <1>2, <1>3 DEF CountTypes, CountInv, FirstOf
<1>5. WaitsOnce'
    BY <1>1 DEF WaitsOnce, CountInv
<1>6. ASSUME NEW c \in Submissions PROVE AddsUp(c)'
    <2>1. CASE c = Head(Order)
        <3>1. Count'[c] = Count[c] + Cardinality(s) /\ Count[c] \in Nat
            BY <1>1, <1>2, <2>1
        <3>2. Count[c] + Cardinality(Due) = Cardinality(Elements(Batch[c]))
            BY <1>1, <2>1 DEF CountInv, AddsUp
        <3>3. Count'[c] + Cardinality(Due') = Cardinality(Elements(Batch[c]))
            BY <1>1, <1>3, <3>1, <3>2
        <3>. QED
            BY <1>1, <2>1, <3>3 DEF AddsUp
    <2>2. CASE c # Head(Order)
        BY <1>1, <2>2 DEF CountInv, AddsUp
    <2>. QED
        BY <2>1, <2>2
<1>. QED
    BY <1>4, <1>5, <1>6 DEF CountInv

LEMMA EndCounts ==
    ASSUME CountInv, OrderEnds
    PROVE  CountInv'
<1>. DEFINE h == Head(Order)
<1>1. /\ Order # <<>> /\ Order' = Tail(Order) /\ Due = {}
      /\ Due' = FirstOf(Tail(Order)) /\ Count' = Count
      /\ Order \in Seq(Submissions) /\ Count \in [Submissions -> Nat]
    BY DEF OrderEnds, CountInv, CountTypes
<1>2. /\ Order' \in Seq(Submissions) /\ Len(Order') = Len(Order) - 1
      /\ DOMAIN Order' = 1..(Len(Order) - 1)
      /\ \A i \in DOMAIN Order' : Order'[i] = Order[i + 1]
      /\ Order[1] = h
    <2>. HIDE DEF h
    <2>1. Order \in Seq(Submissions) /\ Order # <<>> /\ Order' = Tail(Order)
        BY <1>1
    <2>2. Tail(Order) \in Seq(Submissions) /\ Len(Tail(Order)) = Len(Order) - 1
        BY <2>1
    <2>3. DOMAIN Tail(Order) = 1..(Len(Order) - 1)
        BY <2>2
    <2>4. \A i \in 1..(Len(Order) - 1) : Tail(Order)[i] = Order[i + 1]
        BY <2>1
    <2>5. Order[1] = h
        BY <2>1 DEF h
    <2>. QED
        BY <2>1, <2>2, <2>3, <2>4, <2>5
<1>3. CountTypes'
    BY <1>1, <1>2 DEF CountTypes
<1>4. WaitsOnce'
    BY <1>1, <1>2 DEF WaitsOnce, CountInv
<1>5. \A i \in DOMAIN Order' : Order'[i] # h
    BY <1>1, <1>2 DEF WaitsOnce, CountInv
<1>6. ASSUME NEW c \in Submissions PROVE AddsUp(c)'
    <2>1. CASE c = h
        <3>1. Cardinality(Due) = 0
            BY <1>1, FS_EmptySet
        <3>2. Count[c] \in Nat /\ Count[c] + 0 = Cardinality(Elements(Batch[c]))
            BY <1>1, <2>1, <3>1 DEF CountInv, AddsUp
        <3>3. Order' # <<>> => Head(Order') # c
            BY <1>2, <1>5, <2>1
        <3>. QED
            BY <1>1, <1>5, <2>1, <3>2, <3>3 DEF AddsUp
    <2>2. CASE c # h /\ Order' # <<>> /\ Head(Order') = c
        <3>1. \E i \in DOMAIN Order : Order[i] = c
            <4>1. 1 \in DOMAIN Order' /\ Order'[1] = c
                BY <1>1, <1>2, <2>2
            <4>2. Order[2] = c /\ 2 \in 1..Len(Order)
                BY <1>2, <4>1
            <4>. QED
                BY <1>1, <4>2
        <3>2. Count'[c] = 0
            BY <1>1, <2>2, <3>1 DEF CountInv, AddsUp
        <3>3. Due' = Elements(Batch[c])
            BY <1>1, <2>2 DEF FirstOf
        <3>4. Cardinality(Elements(Batch[c])) \in Nat
            BY FS_CardinalityType, BatchesAreFinite
        <3>. QED
            BY <2>2, <3>2, <3>3, <3>4 DEF AddsUp
    <2>3. CASE c # h /\ ~(Order' # <<>> /\ Head(Order') = c)
        <3>1. (\E i \in DOMAIN Order' : Order'[i] = c)
                  => \E i \in DOMAIN Order : Order[i] = c
            BY <1>1, <1>2
        <3>. QED
            BY <1>1, <2>3, <3>1 DEF CountInv, AddsUp
    <2>. QED
        BY <2>1, <2>2, <2>3
<1>. QED
    BY <1>3, <1>4, <1>6 DEF CountInv

LEMMA CountStep == CountInv /\ [Reports!Next]_(Reports!vars) => CountInv'
<1>. SUFFICES ASSUME CountInv, [Reports!Next]_(Reports!vars) PROVE CountInv'
    OBVIOUS
<1>1. CASE UNCHANGED Reports!vars
    <2>1. Order' = Order /\ Due' = Due /\ Count' = Count
        BY <1>1, ReportActions
    <2>. QED
        BY <2>1 DEF CountInv, CountTypes, WaitsOnce, AddsUp
<1>2. ASSUME NEW b \in Submissions, Reports!Call(b) PROVE CountInv'
    BY <1>2, ReportActions, CallCounts
<1>3. ASSUME NEW s \in SUBSET Due, Reports!Report(s) PROVE CountInv'
    BY <1>3, ReportActions, ReportCounts
<1>4. CASE Reports!End
    BY <1>4, ReportActions, EndCounts
<1>. QED
    BY <1>1, <1>2, <1>3, <1>4 DEF Reports!Next, Submissions

LEMMA CountsAdd == CountInv => Reports!Adds
<1>1. \A s : Reports!Cardinality(s) = Cardinality(s)
    BY DEF Reports!Cardinality, Cardinality
<1>2. \A b : Reports!Candidates(b) = Elements(Batch[b])
    BY DEF Reports!Candidates, Elements
<1>. QED
    BY <1>1, <1>2 DEF CountInv, AddsUp, Reports!Adds, Order, Count, Submissions

\* The summary of an operation that has ended counts as many results as it had
\* candidates, of one that waits none, and of the one that runs all but those
\* that are still due: the sums of succeeded, paused and failed that
\* UploadBatchCoordinatorService.process returns lose no file and count none twice.
THEOREM EveryResultOnce == Spec => []Reports!Adds
<1>1. Init => TypeInv /\ ReportInv /\ CountInv
    BY TypeStart, ReportStart, CountStart
<1>2. TypeInv /\ ReportInv /\ CountInv /\ [Next]_vars
          => TypeInv' /\ ReportInv' /\ CountInv'
    <2>. SUFFICES ASSUME TypeInv, ReportInv, CountInv, [Next]_vars
                  PROVE  TypeInv' /\ ReportInv' /\ CountInv'
        OBVIOUS
    <2>1. TypeInv'
        BY TypeStep
    <2>2. ReportInv' /\ [Reports!Next]_(Reports!vars)
        BY <2>1, ReportStep
    <2>3. CountInv'
        BY <2>2, CountStep
    <2>. QED
        BY <2>1, <2>2, <2>3
<1>3. CountInv => Reports!Adds
    BY CountsAdd
<1>. QED
    BY <1>1, <1>2, <1>3, PTL DEF Spec
=============================================================================
