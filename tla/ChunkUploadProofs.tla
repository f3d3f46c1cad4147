-------------------------- MODULE ChunkUploadProofs --------------------------
(***************************************************************************)
(* The type invariant of the chunked upload; that a file is complete only  *)
(* when all its chunks are recorded, and a session is done only then; what *)
(* deletes a complete file and what takes its bytes; and, without          *)
(* recoveries, that a file is of one encryption: for any number of files,  *)
(* chunks, sessions and collector runs, with every kind of fault and delay.*)
(***************************************************************************)
EXTENDS ChunkUpload, FiniteSetTheorems, TLAPS

\* A session has a file from the answer to its init on, and a request is
\* about that file and about one of its chunks.
Aimed ==
    \A k \in Sessions :
        \/ at[k] \in {"fetching", "asking", "looping", "waiting", "paused",
                      "success"}
        \/ request[k] # "none"
        => target[k] \in FileIds /\ rows[target[k]] # Unborn

Asked ==
    \A k \in Sessions :
        /\ request[k] # "none" => at[k] \in {"waiting", "failed"}
        /\ at[k] = "waiting" \/ request[k] # "none" => next[k] \in Chunks

\* A request that is about to mark its file complete is right to do so.
Counted ==
    \A k \in Sessions :
        request[k] = "marking" /\ target[k] \in Rows =>
            saved[target[k]] = Chunks

IInv == TypeOK /\ Aimed /\ Asked /\ Counted /\ CompleteMeansRecorded

\* What most steps need of the assumption.
LEMMA Markers ==
    /\ LastChunk \in Nat
    /\ Unborn \notin Row \cup {Gone}
    /\ Absent \notin FileIds
    /\ Hole \notin Sessions
    BY UploadAssumption

\* What AllSaved counts: as many chunk rows as chunks are all the chunks.
LEMMA AllChunks ==
    ASSUME NEW S \in SUBSET Chunks, Cardinality(S) = LastChunk + 1
    PROVE  S = Chunks
<1>1. LastChunk \in Nat
    BY UploadAssumption
<1>2. IsFiniteSet(Chunks) /\ Cardinality(Chunks) = LastChunk + 1
    BY <1>1, FS_Interval, Z3 DEF Chunks
<1>. QED
    BY <1>2, FS_Subset

\* What marking and the time make of a row is a row.
LEMMA MarkedIsRow ==
    \A r \in Row : [r EXCEPT !.upload = "complete"] \in Row
    BY DEF Row

LEMMA OlderIsRow ==
    \A r \in Row : Older(r) \in Row /\ Expired(Older(r)) \in Row
<1>1. \A r \in Row : Older(r) \in Row
    BY DEF Row, Older
<1>2. \A r \in Row : Expired(r) \in Row
    BY DEF Row, Expired
<1>. QED
    BY <1>1, <1>2

\* The initial state satisfies the invariant.
LEMMA Initially == Init => IInv
<1>. SUFFICES ASSUME Init PROVE IInv
    OBVIOUS
<1>1. 0 \in 0..(LastChunk + 1)
    BY UploadAssumption
<1>2. TypeOK
    BY <1>1 DEF Init, TypeOK, Places
<1>. QED
    BY <1>2 DEF Init, IInv, Aimed, Asked, Counted, CompleteMeansRecorded,
               Complete, Rows

\* Every step keeps the invariant.
LEMMA Inductive == IInv /\ [Next]_vars => IInv'
<1>. SUFFICES ASSUME IInv, [Next]_vars PROVE IInv'
    OBVIOUS
<1>. USE Markers
<1>1. ASSUME NEW k \in Sessions, StartUpload(k) PROVE IInv'
    <2>1. TypeOK'
        BY <1>1 DEF IInv, TypeOK, StartUpload, Moves, Places, Handling, Rows,
           Live, rowVars, sessionVars, gcVars
    <2>2. Aimed'
        BY <1>1 DEF IInv, TypeOK, Aimed, StartUpload, Moves, Rows, Live,
           rowVars, sessionVars, gcVars
    <2>3. Asked'
        BY <1>1 DEF IInv, TypeOK, Asked, StartUpload, Moves, Rows, Live,
           rowVars, sessionVars, gcVars
    <2>4. Counted'
        BY <1>1 DEF IInv, TypeOK, Aimed, Asked, Counted, StartUpload, Moves,
           Rows, Live, Complete, Handling, rowVars, sessionVars, gcVars
    <2>5. CompleteMeansRecorded'
        BY <1>1 DEF IInv, CompleteMeansRecorded, Complete, StartUpload,
           Moves, Rows, rowVars, sessionVars, gcVars
    <2>. QED
        BY <2>1, <2>2, <2>3, <2>4, <2>5 DEF IInv
<1>2. ASSUME NEW k \in Sessions, CommitUpload(k) PROVE IInv'
    <2>1. TypeOK'
      <3>1. CASE Live \subseteq {target[k]} \cap Rows
        <4>1. PICK f \in NewIds(target[k]) :
                 /\ target' = [target EXCEPT ![k] = f]
                 /\ rows' = [g \in FileIds |->
                              IF g = f THEN [upload |-> "uploading",
                                             trash  |-> "live"]
                              ELSE IF g \in {target[k]} \cap Rows THEN Gone
                                                              ELSE rows[g]]
            BY <1>2, <3>1 DEF CommitUpload
        <4>2. f \in FileIds
            BY DEF NewIds
        <4>3. rows' \in [FileIds -> Row \cup {Unborn, Gone}]
            BY <4>1 DEF IInv, TypeOK, Row
        <4>4. saved' \in [FileIds -> SUBSET Chunks]
            BY <1>2, <3>1 DEF CommitUpload, IInv, TypeOK
        <4>5. target' \in [Sessions -> FileIds \cup {Absent}]
            BY <4>1, <4>2 DEF IInv, TypeOK
        <4>6. at' \in [Sessions -> Places]
            BY <1>2, <3>1 DEF CommitUpload, Moves, Places, IInv, TypeOK
        <4>. QED
            BY <1>2, <4>3, <4>4, <4>5, <4>6
               DEF CommitUpload, IInv, TypeOK, gcVars
      <3>2. CASE ~ Live \subseteq {target[k]} \cap Rows
        <4>1. at' \in [Sessions -> Places]
            BY <1>2, <3>2 DEF CommitUpload, Moves, Places, IInv, TypeOK
        <4>. QED
            BY <1>2, <3>2, <4>1 DEF CommitUpload, IInv, TypeOK, gcVars
      <3>. QED
        BY <3>1, <3>2
    <2>2. Aimed'
      <3>1. CASE Live \subseteq {target[k]} \cap Rows
        <4>1. PICK f \in NewIds(target[k]) :
                 /\ target' = [target EXCEPT ![k] = f]
                 /\ rows' = [g \in FileIds |->
                              IF g = f THEN [upload |-> "uploading",
                                             trash  |-> "live"]
                              ELSE IF g \in {target[k]} \cap Rows THEN Gone
                                                              ELSE rows[g]]
            BY <1>2, <3>1 DEF CommitUpload
        <4>2. f \in FileIds /\ rows'[f] # Unborn
            BY <4>1 DEF NewIds, Row
        <4>3. \A g \in FileIds : rows[g] # Unborn => rows'[g] # Unborn
            BY <4>1, <4>2
        <4>4. \A l \in Sessions \ {k} :
                 target'[l] = target[l] /\ at'[l] = at[l]
            BY <1>2, <3>1, <4>1 DEF CommitUpload, Moves, IInv, TypeOK
        <4>5. target'[k] = f
            BY <4>1 DEF IInv, TypeOK
        <4>. QED
            BY <1>2, <4>2, <4>3, <4>4, <4>5
               DEF CommitUpload, IInv, Aimed
      <3>2. CASE ~ Live \subseteq {target[k]} \cap Rows
            BY <1>2, <3>2 DEF CommitUpload, Moves, IInv, TypeOK, Aimed, Asked
      <3>. QED
        BY <3>1, <3>2
    <2>3. Asked'
        BY <1>2 DEF IInv, TypeOK, Asked, CommitUpload, Moves, NewIds, Rows,
           Live, rowVars, sessionVars, gcVars
    <2>4. Counted'
        BY <1>2 DEF IInv, TypeOK, Aimed, Asked, Counted, CommitUpload, Moves,
           NewIds, Rows, Live, Complete, Handling, rowVars, sessionVars,
           gcVars
    <2>5. CompleteMeansRecorded'
        BY <1>2 DEF IInv, CompleteMeansRecorded, Complete, CommitUpload,
           Moves, NewIds, Rows, rowVars, sessionVars, gcVars
    <2>. QED
        BY <2>1, <2>2, <2>3, <2>4, <2>5 DEF IInv
<1>3. ASSUME NEW k \in Sessions, StartRecovery(k) PROVE IInv'
    <2>1. TypeOK'
        BY <1>3 DEF IInv, TypeOK, StartRecovery, Moves, Places, Handling,
           Rows, Live, rowVars, sessionVars, gcVars
    <2>2. Aimed'
        BY <1>3 DEF IInv, TypeOK, Aimed, StartRecovery, Moves, Rows, Live,
           rowVars, sessionVars, gcVars
    <2>3. Asked'
        BY <1>3 DEF IInv, Asked, StartRecovery, Moves, rowVars, sessionVars,
           gcVars
    <2>4. Counted'
        BY <1>3 DEF IInv, TypeOK, Aimed, Asked, Counted, StartRecovery,
           Moves, Rows, Live, Complete, Handling, rowVars, sessionVars,
           gcVars
    <2>5. CompleteMeansRecorded'
        BY <1>3 DEF IInv, CompleteMeansRecorded, Complete, StartRecovery,
           Moves, Rows, rowVars, sessionVars, gcVars
    <2>. QED
        BY <2>1, <2>2, <2>3, <2>4, <2>5 DEF IInv
<1>4. ASSUME NEW k \in Sessions, FetchNonce(k) PROVE IInv'
    <2>1. TypeOK'
      <3>1. at' \in [Sessions -> Places]
        BY <1>4 DEF FetchNonce, Moves, IInv, TypeOK, Places
      <3>2. disk[target[k]] # Absent /\ target[k] \in FileIds
              => disk[target[k]][0] \in Sessions \cup {Hole}
        BY DEF IInv, TypeOK, Chunks
      <3>3. nonce' \in [Sessions -> Sessions]
        BY <1>4, <3>2
           DEF FetchNonce, Served, Live, Complete, Rows, IInv, TypeOK
      <3>. QED
        BY <1>4, <3>1, <3>3 DEF FetchNonce, IInv, TypeOK, rowVars, gcVars
    <2>2. Aimed'
        BY <1>4 DEF IInv, Aimed, FetchNonce, Moves, rowVars, sessionVars,
           gcVars
    <2>3. Asked'
        BY <1>4 DEF IInv, Asked, FetchNonce, Moves, rowVars, sessionVars,
           gcVars
    <2>4. Counted'
        BY <1>4 DEF IInv, Counted, FetchNonce, Moves, Rows, rowVars,
           sessionVars, gcVars
    <2>5. CompleteMeansRecorded'
        BY <1>4 DEF IInv, CompleteMeansRecorded, Complete, FetchNonce, Moves,
           Rows, rowVars, sessionVars, gcVars
    <2>. QED
        BY <2>1, <2>2, <2>3, <2>4, <2>5 DEF IInv
<1>5. ASSUME NEW k \in Sessions, AskProgress(k) PROVE IInv'
    <2>1. TypeOK'
        BY <1>5 DEF IInv, TypeOK, AskProgress, Moves, Places, Handling, Rows,
           Live, rowVars, sessionVars, gcVars
    <2>2. Aimed'
        BY <1>5 DEF IInv, Aimed, AskProgress, Moves, rowVars, sessionVars,
           gcVars
    <2>3. Asked'
        BY <1>5 DEF IInv, Asked, AskProgress, Moves, rowVars, sessionVars,
           gcVars
    <2>4. Counted'
        BY <1>5 DEF IInv, Counted, AskProgress, Moves, Rows, rowVars,
           sessionVars, gcVars
    <2>5. CompleteMeansRecorded'
        BY <1>5 DEF IInv, CompleteMeansRecorded, Complete, AskProgress,
           Moves, Rows, rowVars, sessionVars, gcVars
    <2>. QED
        BY <2>1, <2>2, <2>3, <2>4, <2>5 DEF IInv
<1>6. ASSUME NEW k \in Sessions, SkipChunk(k) PROVE IInv'
    <2>1. TypeOK'
        BY <1>6 DEF IInv, TypeOK, Aimed, Asked, Counted,
           CompleteMeansRecorded, SkipChunk, Places, Handling, Rows, Live,
           Complete, Row, Chunks, rowVars, sessionVars, gcVars
    <2>2. Aimed'
        BY <1>6 DEF IInv, Aimed, SkipChunk, rowVars, sessionVars, gcVars
    <2>3. Asked'
        BY <1>6 DEF IInv, Asked, SkipChunk, rowVars, sessionVars, gcVars
    <2>4. Counted'
        BY <1>6 DEF IInv, Counted, SkipChunk, Rows, rowVars, sessionVars,
           gcVars
    <2>5. CompleteMeansRecorded'
        BY <1>6 DEF IInv, CompleteMeansRecorded, Complete, SkipChunk, Rows,
           rowVars, sessionVars, gcVars
    <2>. QED
        BY <2>1, <2>2, <2>3, <2>4, <2>5 DEF IInv
<1>7. ASSUME NEW k \in Sessions, SendChunk(k) PROVE IInv'
    <2>1. TypeOK'
        BY <1>7 DEF IInv, TypeOK, SendChunk, Moves, Places, Handling,
           rowVars, sessionVars, gcVars
    <2>2. Aimed'
        BY <1>7 DEF IInv, Aimed, SendChunk, Moves, rowVars, sessionVars,
           gcVars
    <2>3. Asked'
        BY <1>7 DEF IInv, TypeOK, Asked, SendChunk, Moves, Rows, Live,
           rowVars, sessionVars, gcVars
    <2>4. Counted'
        BY <1>7 DEF IInv, Counted, SendChunk, Moves, Rows, rowVars,
           sessionVars, gcVars
    <2>5. CompleteMeansRecorded'
        BY <1>7 DEF IInv, CompleteMeansRecorded, Complete, SendChunk, Moves,
           Rows, rowVars, sessionVars, gcVars
    <2>. QED
        BY <2>1, <2>2, <2>3, <2>4, <2>5 DEF IInv
<1>8. ASSUME NEW k \in Sessions, Answered(k) PROVE IInv'
    <2>1. TypeOK'
      <3>1. at' \in [Sessions -> Places]
        BY <1>8 DEF Answered, Moves, IInv, TypeOK, Places
      <3>2. next' \in [Sessions -> 0..(LastChunk + 1)]
        <4>1. at[k] = "waiting" => next[k] + 1 \in 0..(LastChunk + 1)
            BY DEF IInv, Asked, Chunks
        <4>2. next' \in {next, [next EXCEPT ![k] = next[k] + 1]}
            BY <1>8 DEF Answered
        <4>. QED
            BY <1>8, <4>1, <4>2 DEF Answered, Moves, IInv, TypeOK
      <3>. QED
        BY <1>8, <3>1, <3>2
           DEF Answered, IInv, TypeOK, rowVars, gcVars
    <2>2. Aimed'
        BY <1>8 DEF IInv, TypeOK, Aimed, Answered, Moves, Rows, Live,
           rowVars, sessionVars, gcVars
    <2>3. Asked'
        BY <1>8 DEF IInv, TypeOK, Asked, Answered, Moves, Rows, Live,
           rowVars, sessionVars, gcVars
    <2>4. Counted'
        BY <1>8 DEF IInv, Counted, Answered, Moves, Rows, rowVars,
           sessionVars, gcVars
    <2>5. CompleteMeansRecorded'
        BY <1>8 DEF IInv, CompleteMeansRecorded, Complete, Answered, Moves,
           Rows, rowVars, sessionVars, gcVars
    <2>. QED
        BY <2>1, <2>2, <2>3, <2>4, <2>5 DEF IInv
<1>9. ASSUME NEW k \in Sessions, LoseAnswer(k) PROVE IInv'
    <2>1. TypeOK'
        BY <1>9 DEF IInv, TypeOK, LoseAnswer, Moves, Places, Handling,
           rowVars, sessionVars, gcVars
    <2>2. Aimed'
        BY <1>9 DEF IInv, Aimed, LoseAnswer, Moves, rowVars, sessionVars,
           gcVars
    <2>3. Asked'
        BY <1>9 DEF IInv, Asked, LoseAnswer, Moves, rowVars, sessionVars,
           gcVars
    <2>4. Counted'
        BY <1>9 DEF IInv, Counted, LoseAnswer, Moves, Rows, rowVars,
           sessionVars, gcVars
    <2>5. CompleteMeansRecorded'
        BY <1>9 DEF IInv, CompleteMeansRecorded, Complete, LoseAnswer, Moves,
           Rows, rowVars, sessionVars, gcVars
    <2>. QED
        BY <2>1, <2>2, <2>3, <2>4, <2>5 DEF IInv
<1>10. ASSUME NEW k \in Sessions, PauseUpload(k) PROVE IInv'
    <2>1. TypeOK'
        BY <1>10 DEF IInv, TypeOK, PauseUpload, Moves, Places, Handling,
           rowVars, sessionVars, gcVars
    <2>2. Aimed'
        BY <1>10 DEF IInv, Aimed, PauseUpload, Moves, rowVars, sessionVars,
           gcVars
    <2>3. Asked'
        BY <1>10 DEF IInv, Asked, PauseUpload, Moves, rowVars, sessionVars,
           gcVars
    <2>4. Counted'
        BY <1>10 DEF IInv, Counted, PauseUpload, Moves, Rows, rowVars,
           sessionVars, gcVars
    <2>5. CompleteMeansRecorded'
        BY <1>10 DEF IInv, CompleteMeansRecorded, Complete, PauseUpload,
           Moves, Rows, rowVars, sessionVars, gcVars
    <2>. QED
        BY <2>1, <2>2, <2>3, <2>4, <2>5 DEF IInv
<1>11. ASSUME NEW k \in Sessions, ResumeUpload(k) PROVE IInv'
    <2>1. TypeOK'
        BY <1>11 DEF IInv, TypeOK, ResumeUpload, Moves, Places, Handling,
           rowVars, sessionVars, gcVars
    <2>2. Aimed'
        BY <1>11 DEF IInv, Aimed, ResumeUpload, Moves, rowVars, sessionVars,
           gcVars
    <2>3. Asked'
        BY <1>11 DEF IInv, Asked, ResumeUpload, Moves, rowVars, sessionVars,
           gcVars
    <2>4. Counted'
        BY <1>11 DEF IInv, Counted, ResumeUpload, Moves, Rows, rowVars,
           sessionVars, gcVars
    <2>5. CompleteMeansRecorded'
        BY <1>11 DEF IInv, CompleteMeansRecorded, Complete, ResumeUpload,
           Moves, Rows, rowVars, sessionVars, gcVars
    <2>. QED
        BY <2>1, <2>2, <2>3, <2>4, <2>5 DEF IInv
<1>12. ASSUME NEW k \in Sessions, Finish(k) PROVE IInv'
    <2>1. TypeOK'
        BY <1>12 DEF IInv, TypeOK, Finish, Moves, Places, Handling, rowVars,
           sessionVars, gcVars
    <2>2. Aimed'
        BY <1>12 DEF IInv, Aimed, Finish, Moves, rowVars, sessionVars, gcVars
    <2>3. Asked'
        BY <1>12 DEF IInv, Asked, Finish, Moves, rowVars, sessionVars, gcVars
    <2>4. Counted'
        BY <1>12 DEF IInv, Counted, Finish, Moves, Rows, rowVars,
           sessionVars, gcVars
    <2>5. CompleteMeansRecorded'
        BY <1>12 DEF IInv, CompleteMeansRecorded, Complete, Finish, Moves,
           Rows, rowVars, sessionVars, gcVars
    <2>. QED
        BY <2>1, <2>2, <2>3, <2>4, <2>5 DEF IInv
<1>13. ASSUME NEW k \in Sessions, AdmitChunk(k) PROVE IInv'
    <2>1. TypeOK'
        BY <1>13 DEF IInv, TypeOK, AdmitChunk, At, Places, Handling, rowVars,
           sessionVars, gcVars
    <2>2. Aimed'
        BY <1>13 DEF IInv, TypeOK, Aimed, AdmitChunk, At, Rows, Live,
           rowVars, sessionVars, gcVars
    <2>3. Asked'
        BY <1>13 DEF IInv, TypeOK, Asked, AdmitChunk, At, Rows, Live,
           rowVars, sessionVars, gcVars
    <2>4. Counted'
        BY <1>13 DEF IInv, TypeOK, Counted, AdmitChunk, At, Rows, Live,
           rowVars, sessionVars, gcVars
    <2>5. CompleteMeansRecorded'
        BY <1>13 DEF IInv, CompleteMeansRecorded, Complete, AdmitChunk, At,
           Rows, rowVars, sessionVars, gcVars
    <2>. QED
        BY <2>1, <2>2, <2>3, <2>4, <2>5 DEF IInv
<1>14. ASSUME NEW k \in Sessions, WriteChunk(k) PROVE IInv'
    <2>1. TypeOK'
      <3>1. target[k] \in FileIds /\ next[k] \in Chunks
        BY <1>14 DEF WriteChunk, At, IInv, Aimed, Asked
      <3>2. Opened(target[k]) \in [Chunks -> Sessions \cup {Hole}]
        BY <3>1 DEF Opened, IInv, TypeOK
      <3>3. [Opened(target[k]) EXCEPT ![next[k]] = nonce[k]]
               \in [Chunks -> Sessions \cup {Hole}]
        BY <3>1, <3>2 DEF IInv, TypeOK
      <3>4. PICK bytes \in [Chunks -> Sessions \cup {Hole}] :
               disk' = [disk EXCEPT ![target[k]] = bytes]
        BY <1>14, <3>2, <3>3 DEF WriteChunk
      <3>5. disk' \in [FileIds -> [Chunks -> Sessions \cup {Hole}]
                                   \cup {Absent}]
        BY <3>1, <3>4 DEF IInv, TypeOK
      <3>6. request' \in [Sessions -> Handling \cup {"none", "ok", "refused"}]
        BY <1>14 DEF WriteChunk, At, Handling, IInv, TypeOK
      <3>. QED
        BY <1>14, <3>5, <3>6
           DEF WriteChunk, IInv, TypeOK, sessionVars, gcVars
    <2>2. Aimed'
        BY <1>14 DEF IInv, Aimed, WriteChunk, At, rowVars, sessionVars,
           gcVars
    <2>3. Asked'
        BY <1>14 DEF IInv, Asked, WriteChunk, At, rowVars, sessionVars,
           gcVars
    <2>4. Counted'
        BY <1>14 DEF IInv, Counted, WriteChunk, At, Rows, rowVars,
           sessionVars, gcVars
    <2>5. CompleteMeansRecorded'
        BY <1>14 DEF IInv, CompleteMeansRecorded, Complete, WriteChunk, At,
           Rows, rowVars, sessionVars, gcVars
    <2>. QED
        BY <2>1, <2>2, <2>3, <2>4, <2>5 DEF IInv
<1>15. ASSUME NEW k \in Sessions, RecordChunk(k) PROVE IInv'
    <2>1. TypeOK'
        BY <1>15 DEF IInv, TypeOK, Aimed, Asked, RecordChunk, At, Places,
           Handling, Rows, Live, Complete, rowVars, sessionVars, gcVars
    <2>2. Aimed'
        BY <1>15 DEF IInv, TypeOK, Aimed, RecordChunk, At, Rows, Live,
           rowVars, sessionVars, gcVars
    <2>3. Asked'
        BY <1>15 DEF IInv, TypeOK, Asked, RecordChunk, At, Rows, Live,
           rowVars, sessionVars, gcVars
    <2>4. Counted'
      <3>1. target[k] \in FileIds /\ next[k] \in Chunks
        BY <1>15 DEF RecordChunk, At, IInv, Aimed, Asked
      <3>2. \A f \in FileIds : saved'[f] \in {saved[f], saved[f] \cup {next[k]}}
        BY <1>15, <3>1 DEF RecordChunk, IInv, TypeOK
      <3>3. Chunks \cup {next[k]} = Chunks
        BY <3>1
      <3>4. \A f \in FileIds : saved[f] = Chunks => saved'[f] = Chunks
        BY <3>2, <3>3
      <3>5. \A l \in Sessions : request'[l] = "marking" => request[l] = "marking"
        BY <1>15 DEF RecordChunk, At, IInv, TypeOK
      <3>. QED
        BY <1>15, <3>4, <3>5 DEF RecordChunk, IInv, Counted, Rows, sessionVars
    <2>5. CompleteMeansRecorded'
      <3>1. target[k] \in FileIds /\ next[k] \in Chunks
        BY <1>15 DEF RecordChunk, At, IInv, Aimed, Asked
      <3>2. \A f \in FileIds : saved'[f] \in {saved[f], saved[f] \cup {next[k]}}
        BY <1>15, <3>1 DEF RecordChunk, IInv, TypeOK
      <3>3. Chunks \cup {next[k]} = Chunks
        BY <3>1
      <3>4. \A f \in FileIds : saved[f] = Chunks => saved'[f] = Chunks
        BY <3>2, <3>3
      <3>. QED
        BY <1>15, <3>4
           DEF RecordChunk, IInv, CompleteMeansRecorded, Complete, Rows
    <2>. QED
        BY <2>1, <2>2, <2>3, <2>4, <2>5 DEF IInv
<1>16. ASSUME NEW k \in Sessions, CountChunks(k) PROVE IInv'
    <2>1. TypeOK'
        BY <1>16 DEF IInv, TypeOK, CountChunks, At, Places, Handling,
           rowVars, sessionVars, gcVars
    <2>2. Aimed'
        BY <1>16 DEF IInv, TypeOK, Aimed, CountChunks, At, Rows, Live,
           rowVars, sessionVars, gcVars
    <2>3. Asked'
        BY <1>16 DEF IInv, TypeOK, Asked, CountChunks, At, Rows, Live,
           rowVars, sessionVars, gcVars
    <2>4. Counted'
        BY <1>16, AllChunks DEF IInv, TypeOK, Counted, CountChunks, At, Rows,
           Live, rowVars, sessionVars, gcVars, AllSaved
    <2>5. CompleteMeansRecorded'
        BY <1>16 DEF IInv, CompleteMeansRecorded, Complete, CountChunks, At,
           Rows, rowVars, sessionVars, gcVars
    <2>. QED
        BY <2>1, <2>2, <2>3, <2>4, <2>5 DEF IInv
<1>17. ASSUME NEW k \in Sessions, MarkComplete(k) PROVE IInv'
    <2>1. TypeOK'
        BY <1>17, MarkedIsRow DEF IInv, TypeOK, MarkComplete, At, Handling,
           Rows, sessionVars, gcVars
    <2>2. Aimed'
      <3>1. \A f \in FileIds : rows[f] # Unborn => rows'[f] # Unborn
        BY <1>17 DEF MarkComplete, IInv, TypeOK, Rows, Row
      <3>2. \A l \in Sessions : request'[l] # "none" => request[l] # "none"
        BY <1>17 DEF MarkComplete, At, IInv, TypeOK
      <3>. QED
        BY <1>17, <3>1, <3>2 DEF MarkComplete, IInv, Aimed, sessionVars
    <2>3. Asked'
        BY <1>17 DEF IInv, Asked, MarkComplete, At, rowVars, sessionVars,
           gcVars
    <2>4. Counted'
        BY <1>17 DEF IInv, Counted, MarkComplete, At, Rows, rowVars,
           sessionVars, gcVars
    <2>5. CompleteMeansRecorded'
        BY <1>17 DEF IInv, TypeOK, Aimed, Asked, Counted,
           CompleteMeansRecorded, Complete, MarkComplete, At, Rows, Live,
           Handling, Row, Chunks, rowVars, sessionVars, gcVars
    <2>. QED
        BY <2>1, <2>2, <2>3, <2>4, <2>5 DEF IInv
<1>18. ASSUME NEW k \in Sessions, RequestFails(k) PROVE IInv'
    <2>1. TypeOK'
        BY <1>18 DEF IInv, TypeOK, RequestFails, Places, Handling, rowVars,
           sessionVars, gcVars
    <2>2. Aimed'
        BY <1>18 DEF IInv, TypeOK, Aimed, Asked, RequestFails, Rows, Live,
           Complete, Handling, rowVars, sessionVars, gcVars
    <2>3. Asked'
        BY <1>18 DEF IInv, TypeOK, Aimed, Asked, RequestFails, Rows, Live,
           Complete, Handling, rowVars, sessionVars, gcVars
    <2>4. Counted'
        BY <1>18 DEF IInv, Counted, RequestFails, Rows, rowVars, sessionVars,
           gcVars
    <2>5. CompleteMeansRecorded'
        BY <1>18 DEF IInv, CompleteMeansRecorded, Complete, RequestFails,
           Rows, rowVars, sessionVars, gcVars
    <2>. QED
        BY <2>1, <2>2, <2>3, <2>4, <2>5 DEF IInv
<1>19. ASSUME NEW f \in FileIds, DeleteFile(f) PROVE IInv'
    <2>1. TypeOK'
        BY <1>19 DEF IInv, TypeOK, Aimed, Asked, Counted,
           CompleteMeansRecorded, DeleteFile, Trashes, Places, Handling,
           Rows, Live, Complete, Row, Chunks, rowVars, sessionVars, gcVars
    <2>2. Aimed'
        BY <1>19 DEF IInv, TypeOK, Aimed, Asked, Counted,
           CompleteMeansRecorded, DeleteFile, Trashes, Rows, Live, Complete,
           Handling, Row, Chunks, rowVars, sessionVars, gcVars
    <2>3. Asked'
        BY <1>19 DEF IInv, Asked, DeleteFile, Trashes, rowVars, sessionVars,
           gcVars
    <2>4. Counted'
        BY <1>19 DEF IInv, TypeOK, Counted, DeleteFile, Trashes, Rows, Live,
           rowVars, sessionVars, gcVars
    <2>5. CompleteMeansRecorded'
        BY <1>19 DEF IInv, TypeOK, CompleteMeansRecorded, Complete,
           DeleteFile, Trashes, Rows, Live, rowVars, sessionVars, gcVars
    <2>. QED
        BY <2>1, <2>2, <2>3, <2>4, <2>5 DEF IInv
<1>20. ASSUME NEW f \in FileIds, RestoreFile(f) PROVE IInv'
    <2>1. TypeOK'
        BY <1>20 DEF IInv, TypeOK, Aimed, Asked, Counted,
           CompleteMeansRecorded, RestoreFile, Trashes, Places, Handling,
           Rows, Live, Complete, Row, Chunks, rowVars, sessionVars, gcVars
    <2>2. Aimed'
        BY <1>20 DEF IInv, TypeOK, Aimed, Asked, Counted,
           CompleteMeansRecorded, RestoreFile, Trashes, Rows, Live, Complete,
           Handling, Row, Chunks, rowVars, sessionVars, gcVars
    <2>3. Asked'
        BY <1>20 DEF IInv, Asked, RestoreFile, Trashes, rowVars, sessionVars,
           gcVars
    <2>4. Counted'
        BY <1>20 DEF IInv, Counted, RestoreFile, Trashes, Rows, rowVars,
           sessionVars, gcVars
    <2>5. CompleteMeansRecorded'
        BY <1>20 DEF IInv, CompleteMeansRecorded, Complete, RestoreFile,
           Trashes, Rows, rowVars, sessionVars, gcVars
    <2>. QED
        BY <2>1, <2>2, <2>3, <2>4, <2>5 DEF IInv
<1>21. ASSUME NEW f \in FileIds, HardDelete(f) PROVE IInv'
    <2>1. TypeOK'
        BY <1>21 DEF IInv, TypeOK, HardDelete, Deletes, Erases, Places,
           Handling, rowVars, sessionVars, gcVars
    <2>2. Aimed'
        BY <1>21 DEF IInv, Aimed, HardDelete, Deletes, Erases, rowVars,
           sessionVars, gcVars
    <2>3. Asked'
        BY <1>21 DEF IInv, Asked, HardDelete, Deletes, Erases, rowVars,
           sessionVars, gcVars
    <2>4. Counted'
        BY <1>21 DEF IInv, Counted, HardDelete, Deletes, Erases, Rows,
           rowVars, sessionVars, gcVars
    <2>5. CompleteMeansRecorded'
        BY <1>21 DEF IInv, CompleteMeansRecorded, Complete, HardDelete,
           Deletes, Erases, Rows, rowVars, sessionVars, gcVars
    <2>. QED
        BY <2>1, <2>2, <2>3, <2>4, <2>5 DEF IInv
<1>22. ASSUME NEW f \in FileIds, HardDeleteAborts(f) PROVE IInv'
    <2>1. TypeOK'
        BY <1>22 DEF IInv, TypeOK, HardDeleteAborts, Erases, Places,
           Handling, rowVars, sessionVars, gcVars
    <2>2. Aimed'
        BY <1>22 DEF IInv, Aimed, HardDeleteAborts, Erases, rowVars,
           sessionVars, gcVars
    <2>3. Asked'
        BY <1>22 DEF IInv, Asked, HardDeleteAborts, Erases, rowVars,
           sessionVars, gcVars
    <2>4. Counted'
        BY <1>22 DEF IInv, Counted, HardDeleteAborts, Erases, Rows, rowVars,
           sessionVars, gcVars
    <2>5. CompleteMeansRecorded'
        BY <1>22 DEF IInv, CompleteMeansRecorded, Complete, HardDeleteAborts,
           Erases, Rows, rowVars, sessionVars, gcVars
    <2>. QED
        BY <2>1, <2>2, <2>3, <2>4, <2>5 DEF IInv
<1>23. ASSUME NEW g \in Collectors, CollectorReads(g) PROVE IInv'
    <2>1. TypeOK'
      <3>1. Doomed \in SUBSET FileIds /\ Rows \in SUBSET FileIds
        BY DEF Doomed, Rows
      <3>. QED
        BY <1>23, <3>1 DEF CollectorReads, Turns, IInv, TypeOK, rowVars,
           sessionVars
    <2>2. Aimed'
        BY <1>23 DEF IInv, Aimed, CollectorReads, Turns, rowVars,
           sessionVars, gcVars
    <2>3. Asked'
        BY <1>23 DEF IInv, Asked, CollectorReads, Turns, rowVars,
           sessionVars, gcVars
    <2>4. Counted'
        BY <1>23 DEF IInv, Counted, CollectorReads, Turns, Rows, rowVars,
           sessionVars, gcVars
    <2>5. CompleteMeansRecorded'
        BY <1>23 DEF IInv, CompleteMeansRecorded, Complete, CollectorReads,
           Turns, Rows, rowVars, sessionVars, gcVars
    <2>. QED
        BY <2>1, <2>2, <2>3, <2>4, <2>5 DEF IInv
<1>24. ASSUME NEW g \in Collectors, CollectorErases(g) PROVE IInv'
    <2>1. TypeOK'
        BY <1>24 DEF IInv, TypeOK, CollectorErases, Erases, Turns, Places,
           Handling, rowVars, sessionVars, gcVars
    <2>2. Aimed'
        BY <1>24 DEF IInv, Aimed, CollectorErases, Erases, Turns, rowVars,
           sessionVars, gcVars
    <2>3. Asked'
        BY <1>24 DEF IInv, Asked, CollectorErases, Erases, Turns, rowVars,
           sessionVars, gcVars
    <2>4. Counted'
        BY <1>24 DEF IInv, Counted, CollectorErases, Erases, Turns, Rows,
           rowVars, sessionVars, gcVars
    <2>5. CompleteMeansRecorded'
        BY <1>24 DEF IInv, CompleteMeansRecorded, Complete, CollectorErases,
           Erases, Turns, Rows, rowVars, sessionVars, gcVars
    <2>. QED
        BY <2>1, <2>2, <2>3, <2>4, <2>5 DEF IInv
<1>25. ASSUME NEW g \in Collectors, CollectorCommits(g) PROVE IInv'
    <2>1. TypeOK'
        BY <1>25 DEF IInv, TypeOK, CollectorCommits, Deletes, Deleted, Turns,
           Places, Handling, rowVars, sessionVars, gcVars
    <2>2. Aimed'
        BY <1>25 DEF IInv, Aimed, CollectorCommits, Deletes, Deleted, Turns,
           rowVars, sessionVars, gcVars
    <2>3. Asked'
        BY <1>25 DEF IInv, Asked, CollectorCommits, Deletes, Deleted, Turns,
           rowVars, sessionVars, gcVars
    <2>4. Counted'
        BY <1>25 DEF IInv, Counted, CollectorCommits, Deletes, Deleted,
           Turns, Rows, rowVars, sessionVars, gcVars
    <2>5. CompleteMeansRecorded'
        BY <1>25 DEF IInv, CompleteMeansRecorded, Complete, CollectorCommits,
           Deletes, Deleted, Turns, Rows, rowVars, sessionVars, gcVars
    <2>. QED
        BY <2>1, <2>2, <2>3, <2>4, <2>5 DEF IInv
<1>26. ASSUME NEW g \in Collectors, CollectorSweeps(g) PROVE IInv'
    <2>1. TypeOK'
        BY <1>26 DEF IInv, TypeOK, CollectorSweeps, Erases, Turns, Places,
           Handling, rowVars, sessionVars, gcVars
    <2>2. Aimed'
        BY <1>26 DEF IInv, Aimed, CollectorSweeps, Erases, Turns, rowVars,
           sessionVars, gcVars
    <2>3. Asked'
        BY <1>26 DEF IInv, Asked, CollectorSweeps, Erases, Turns, rowVars,
           sessionVars, gcVars
    <2>4. Counted'
        BY <1>26 DEF IInv, Counted, CollectorSweeps, Erases, Turns, Rows,
           rowVars, sessionVars, gcVars
    <2>5. CompleteMeansRecorded'
        BY <1>26 DEF IInv, CompleteMeansRecorded, Complete, CollectorSweeps,
           Erases, Turns, Rows, rowVars, sessionVars, gcVars
    <2>. QED
        BY <2>1, <2>2, <2>3, <2>4, <2>5 DEF IInv
<1>27. CASE HoursPass
    <2>1. TypeOK'
        BY <1>27, OlderIsRow DEF IInv, TypeOK, HoursPass, Rows, sessionVars,
           gcVars
    <2>2. Aimed'
        BY <1>27 DEF IInv, TypeOK, Aimed, Asked, Counted,
           CompleteMeansRecorded, HoursPass, Older, Rows, Live, Complete,
           Handling, Row, Chunks, rowVars, sessionVars, gcVars
    <2>3. Asked'
        BY <1>27 DEF IInv, Asked, HoursPass, Older, rowVars, sessionVars,
           gcVars
    <2>4. Counted'
        BY <1>27 DEF IInv, Counted, HoursPass, Older, Rows, rowVars,
           sessionVars, gcVars
    <2>5. CompleteMeansRecorded'
        BY <1>27 DEF IInv, CompleteMeansRecorded, Complete, HoursPass, Older,
           Rows, rowVars, sessionVars, gcVars
    <2>. QED
        BY <2>1, <2>2, <2>3, <2>4, <2>5 DEF IInv
<1>28. CASE MonthPasses
    <2>1. TypeOK'
        BY <1>28, OlderIsRow DEF IInv, TypeOK, MonthPasses, Rows, sessionVars,
           gcVars
    <2>2. Aimed'
        BY <1>28 DEF IInv, TypeOK, Aimed, Asked, Counted,
           CompleteMeansRecorded, MonthPasses, Older, Expired, Rows, Live,
           Complete, Handling, Row, Chunks, rowVars, sessionVars, gcVars
    <2>3. Asked'
        BY <1>28 DEF IInv, Asked, MonthPasses, Older, Expired, rowVars,
           sessionVars, gcVars
    <2>4. Counted'
        BY <1>28 DEF IInv, Counted, MonthPasses, Older, Expired, Rows,
           rowVars, sessionVars, gcVars
    <2>5. CompleteMeansRecorded'
        BY <1>28 DEF IInv, CompleteMeansRecorded, Complete, MonthPasses,
           Older, Expired, Rows, rowVars, sessionVars, gcVars
    <2>. QED
        BY <2>1, <2>2, <2>3, <2>4, <2>5 DEF IInv
<1>29. CASE UNCHANGED vars
    BY <1>29 DEF IInv, TypeOK, Aimed, Asked, Counted, CompleteMeansRecorded,
                Complete, Rows, vars, rowVars, sessionVars, gcVars
<1>. QED
    BY <1>1, <1>2, <1>3, <1>4, <1>5, <1>6, <1>7, <1>8, <1>9, <1>10, <1>11,
       <1>12, <1>13, <1>14, <1>15, <1>16, <1>17, <1>18, <1>19, <1>20, <1>21,
       <1>22, <1>23, <1>24, <1>25, <1>26, <1>27, <1>28, <1>29 DEF Next,
       SessionSteps, RequestSteps, CollectorSteps

\* The type invariant, and the shape of a session next to its request.
THEOREM Typing == Spec => []TypeOK
<1>1. IInv => TypeOK
    BY DEF IInv
<1>. QED
    BY <1>1, Initially, Inductive, PTL DEF Spec

\* No interleaving of requests, retries, recoveries, deletions, failures and
\* collector runs marks a file complete that lacks the record of a chunk.
THEOREM Recorded == Spec => []CompleteMeansRecorded
<1>1. IInv => CompleteMeansRecorded
    BY DEF IInv
<1>. QED
    BY <1>1, Initially, Inductive, PTL DEF Spec

-----------------------------------------------------------------------------
(***************************************************************************)
(* A session that reports success is right.                                *)
(***************************************************************************)

Uploading == {"looping", "waiting", "paused", "success"}

Confirmed == {"counting", "marking", "ok"}

\* What session k leaves out, has passed and is told about is recorded.
Right(k) ==
    /\ at[k] \in Uploading /\ target[k] \in Rows =>
           /\ skip[k] \subseteq saved[target[k]]
           /\ \A c \in Chunks : c < next[k] => c \in saved[target[k]]
    /\ request[k] \in Confirmed /\ target[k] \in Rows =>
           next[k] \in saved[target[k]]
    /\ at[k] = "success" => next[k] = LastChunk + 1

AllRight == \A k \in Sessions : Right(k)

\* A file that exists after a step existed before it, or is new, and has lost
\* no record of a chunk.
Kept(f) ==
    rows[f] # Unborn /\ f \in Rows' => f \in Rows /\ saved[f] \subseteq saved'[f]

\* Session k asks for, passes and hears nothing new.
Quiet(k) ==
    /\ target'[k] = target[k] /\ next'[k] = next[k] /\ skip'[k] = skip[k]
    /\ at'[k] \in Uploading => at[k] \in Uploading
    /\ at'[k] = "success" => at[k] = "success"
    /\ request'[k] \in Confirmed => request[k] \in Confirmed

\* Whatever deletes a row deletes its chunks with it, and nothing else does.
LEMMA ChunksKept ==
    ASSUME IInv, [Next]_vars, NEW f \in FileIds
    PROVE  Kept(f)
<1>1. CASE UNCHANGED rowVars
    BY <1>1 DEF Kept, Rows, rowVars
<1>2. CASE \E F \in SUBSET FileIds : Deletes(F)
    BY <1>2 DEF Kept, Rows, Deletes
<1>3. ASSUME NEW k \in Sessions, CommitUpload(k) PROVE Kept(f)
    BY <1>3 DEF CommitUpload, NewIds, Kept, Rows
<1>4. ASSUME NEW k \in Sessions, RecordChunk(k) PROVE Kept(f)
    BY <1>4 DEF RecordChunk, IInv, TypeOK, Kept, Rows
<1>5. ASSUME NEW k \in Sessions, MarkComplete(k) PROVE Kept(f)
    BY <1>5 DEF MarkComplete, Kept, Rows
<1>6. ASSUME NEW k \in Sessions, WriteChunk(k) PROVE Kept(f)
    BY <1>6 DEF WriteChunk, Kept, Rows
<1>7. ASSUME NEW g \in FileIds,
             DeleteFile(g) \/ RestoreFile(g) \/ HardDeleteAborts(g)
      PROVE  Kept(f)
    BY <1>7 DEF DeleteFile, RestoreFile, HardDeleteAborts, Trashes, Live,
                Kept, Rows, IInv, TypeOK
<1>8. ASSUME NEW g \in FileIds, HardDelete(g) PROVE Kept(f)
    BY <1>8, <1>2 DEF HardDelete
<1>9. ASSUME NEW g \in Collectors, CollectorSteps(g) PROVE Kept(f)
    <2>1. Doomed \in SUBSET FileIds
        BY DEF Doomed, Rows
    <2>. QED
        BY <1>9, <1>2, <2>1
           DEF CollectorSteps, CollectorReads, CollectorErases,
               CollectorCommits, CollectorSweeps, Deleted, Kept, Rows, rowVars
<1>10. CASE HoursPass \/ MonthPasses
    BY <1>10 DEF HoursPass, MonthPasses, Kept, Rows
<1>11. ASSUME NEW k \in Sessions,
              \/ StartUpload(k) \/ StartRecovery(k) \/ FetchNonce(k)
              \/ AskProgress(k) \/ SkipChunk(k) \/ SendChunk(k) \/ Answered(k)
              \/ Finish(k) \/ AdmitChunk(k) \/ CountChunks(k) \/ LoseAnswer(k)
              \/ PauseUpload(k) \/ ResumeUpload(k) \/ RequestFails(k)
       PROVE  UNCHANGED rowVars
    BY <1>11 DEF StartUpload, StartRecovery, FetchNonce, AskProgress,
                 SkipChunk, SendChunk, Answered, Finish, AdmitChunk,
                 CountChunks, LoseAnswer, PauseUpload, ResumeUpload,
                 RequestFails
<1>12. CASE UNCHANGED vars
    BY <1>1, <1>12 DEF vars
<1>. QED
    BY <1>1, <1>3, <1>4, <1>5, <1>6, <1>7, <1>8, <1>9, <1>10, <1>11, <1>12
       DEF Next, SessionSteps, RequestSteps

\* A session that hears nothing new stays right.
LEMMA QuietIsRight ==
    ASSUME IInv, NEW k \in Sessions, Right(k), Quiet(k),
           \A f \in FileIds : Kept(f)
    PROVE  Right(k)'
<1>1. at[k] \in Uploading \/ request[k] \in Confirmed
         => target[k] \in FileIds /\ rows[target[k]] # Unborn
    BY DEF IInv, Aimed, Uploading, Confirmed
<1>. QED
    BY <1>1 DEF Right, Quiet, Kept

\* Every step keeps every session right.
LEMMA RightStep == IInv /\ AllRight /\ [Next]_vars => AllRight'
<1>. SUFFICES ASSUME IInv, AllRight, [Next]_vars, NEW l \in Sessions
              PROVE  Right(l)'
    BY DEF AllRight
<1>. USE UploadAssumption
<1>1. Right(l) /\ \A f \in FileIds : Kept(f)
    BY ChunksKept DEF AllRight
<1>2. SUFFICES ASSUME ~Quiet(l) PROVE Right(l)'
    BY <1>1, QuietIsRight
<1>3. ASSUME NEW k \in Sessions, k # l,
             \/ StartUpload(k) \/ StartRecovery(k) \/ SessionSteps(k)
             \/ RequestSteps(k) \/ LoseAnswer(k) \/ PauseUpload(k)
             \/ ResumeUpload(k) \/ RequestFails(k)
      PROVE  FALSE
    BY <1>2, <1>3
       DEF Quiet, IInv, TypeOK, StartUpload, StartRecovery, SessionSteps,
           CommitUpload, FetchNonce, AskProgress, SkipChunk, SendChunk,
           Answered, Finish, RequestSteps, AdmitChunk, WriteChunk, RecordChunk,
           CountChunks, MarkComplete, LoseAnswer, PauseUpload, ResumeUpload,
           RequestFails, Moves, At, sessionVars
<1>4. CASE StartUpload(l) \/ StartRecovery(l) \/ CommitUpload(l)
    <2>1. request'[l] = "none"
        BY <1>4 DEF StartUpload, StartRecovery, CommitUpload, Moves, IInv,
                    Asked
    <2>2. at'[l] \notin Uploading
        BY <1>4 DEF StartUpload, StartRecovery, CommitUpload, Moves, IInv,
                    TypeOK, Uploading
    <2>. QED
        BY <2>1, <2>2 DEF Right, Uploading, Confirmed
<1>5. CASE AskProgress(l)
    <2>1. request'[l] = "none" /\ at'[l] = "looping" /\ next'[l] = 0
        BY <1>5 DEF AskProgress, Moves, IInv, Asked, TypeOK
    <2>2. target[l] \in Rows => skip'[l] \subseteq saved[target[l]]
        BY <1>5 DEF AskProgress, IInv, TypeOK
    <2>. QED
        BY <1>5, <2>1, <2>2
           DEF AskProgress, Right, Confirmed, Chunks, Rows, rowVars
<1>6. CASE SkipChunk(l)
    <2>1. /\ at[l] = "looping" /\ next[l] \in skip[l] /\ next[l] \in Nat
          /\ next'[l] = next[l] + 1
        BY <1>6 DEF SkipChunk, IInv, TypeOK
    <2>2. request[l] = "none"
        BY <2>1 DEF IInv, Asked
    <2>. QED
        BY <1>1, <1>6, <2>1, <2>2
           DEF SkipChunk, Right, Uploading, Confirmed, Chunks, Rows, rowVars
<1>7. CASE Answered(l)
    <2>1. CASE request[l] = "refused"
        BY <1>2, <1>7, <2>1
           DEF Answered, Quiet, Moves, IInv, TypeOK, Uploading, Confirmed
    <2>2. CASE request[l] = "ok"
        <3>1. /\ at[l] = "waiting" /\ at'[l] = "looping" /\ next[l] \in Nat
              /\ next'[l] = next[l] + 1 /\ request'[l] = "none"
            BY <1>7, <2>2 DEF Answered, Moves, IInv, TypeOK
        <3>. QED
            BY <1>1, <1>7, <2>2, <3>1
               DEF Answered, Right, Uploading, Confirmed, Chunks, Rows, rowVars
    <2>. QED
        BY <1>7, <2>1, <2>2 DEF Answered
<1>8. CASE Finish(l)
    <2>1. /\ at[l] = "looping" /\ at'[l] = "success"
          /\ next'[l] = LastChunk + 1
        BY <1>8 DEF Finish, Moves, LoopEnds, IInv, TypeOK
    <2>. QED
        BY <1>1, <1>8, <2>1
           DEF Finish, Right, Uploading, Rows, rowVars
<1>9. CASE RecordChunk(l)
    <2>1. target'[l] = target[l] /\ next'[l] = next[l] /\ at'[l] = at[l]
              /\ skip'[l] = skip[l]
        BY <1>9 DEF RecordChunk, sessionVars
    <2>2. target[l] \in FileIds /\ rows[target[l]] # Unborn
        BY <1>9 DEF RecordChunk, At, IInv, Aimed
    <2>3. request'[l] \in Confirmed => next[l] \in saved'[target[l]]
        BY <1>9, <2>2 DEF RecordChunk, At, Confirmed, IInv, TypeOK
    <2>. QED
        BY <1>1, <2>1, <2>2, <2>3 DEF Right, Kept
<1>10. ASSUME \/ FetchNonce(l) \/ SendChunk(l) \/ AdmitChunk(l)
              \/ WriteChunk(l) \/ CountChunks(l) \/ MarkComplete(l)
              \/ LoseAnswer(l) \/ PauseUpload(l) \/ ResumeUpload(l)
              \/ RequestFails(l)
       PROVE  FALSE
    BY <1>2, <1>10
       DEF Quiet, IInv, TypeOK, FetchNonce, SendChunk, AdmitChunk, WriteChunk,
           CountChunks, MarkComplete, LoseAnswer, PauseUpload, ResumeUpload,
           RequestFails, Moves, At, Uploading, Confirmed, sessionVars
<1>11. ASSUME UNCHANGED <<sessionVars, request>> PROVE FALSE
    BY <1>2, <1>11 DEF Quiet, sessionVars
<1>12. ASSUME \/ \E f \in FileIds : DeleteFile(f) \/ RestoreFile(f)
                                      \/ HardDelete(f) \/ HardDeleteAborts(f)
              \/ \E g \in Collectors : CollectorSteps(g)
              \/ HoursPass \/ MonthPasses \/ UNCHANGED vars
       PROVE  UNCHANGED <<sessionVars, request>>
    BY <1>12 DEF DeleteFile, RestoreFile, HardDelete, HardDeleteAborts,
                 CollectorSteps, CollectorReads, CollectorErases,
                 CollectorCommits, CollectorSweeps, HoursPass, MonthPasses, vars
<1>13. CASE \E k \in Sessions :
               \/ StartUpload(k) \/ StartRecovery(k)
               \/ SessionSteps(k) \/ RequestSteps(k)
               \/ LoseAnswer(k) \/ PauseUpload(k) \/ ResumeUpload(k)
               \/ RequestFails(k)
    BY <1>3, <1>4, <1>5, <1>6, <1>7, <1>8, <1>9, <1>10, <1>13
       DEF SessionSteps, RequestSteps
<1>. QED
    BY <1>11, <1>12, <1>13 DEF Next

\* A session reports success only when every chunk of its file is recorded,
\* whatever it was told to skip, however often it paused or lost an answer
\* (uploadLocal, handle_upload_chunk).
THEOREM SuccessIsSaved == Spec => []SuccessMeansSaved
<1>1. Init => AllRight
    BY DEF Init, AllRight, Right, Uploading, Confirmed
<1>2. IInv /\ AllRight => SuccessMeansSaved
    <2>. SUFFICES ASSUME IInv, AllRight, NEW k \in Sessions,
                         at[k] = "success", target[k] \in Rows
                  PROVE  saved[target[k]] = Chunks
        BY DEF SuccessMeansSaved
    <2>1. next[k] = LastChunk + 1 /\ LastChunk \in Nat
        BY UploadAssumption DEF AllRight, Right
    <2>2. saved[target[k]] \subseteq Chunks
        BY DEF IInv, TypeOK, Rows
    <2>3. \A c \in Chunks : c < next[k] => c \in saved[target[k]]
        BY DEF AllRight, Right, Uploading
    <2>4. \A c \in Chunks : c < next[k]
        BY <2>1 DEF Chunks
    <2>. QED
        BY <2>2, <2>3, <2>4
<1>. QED
    BY <1>1, <1>2, Initially, Inductive, RightStep, PTL DEF Spec

-----------------------------------------------------------------------------
(***************************************************************************)
(* What deletes, and what erases.                                          *)
(***************************************************************************)

\* Only an upload that replaces another one waits for its row to be deleted.
Replacers == \A k \in Sessions : at[k] = "replacing" => k \in Uploads

LEMMA ReplacersStay == Replacers /\ IInv /\ [Next]_vars => Replacers'
<1>. SUFFICES ASSUME Replacers, IInv, [Next]_vars PROVE Replacers'
    OBVIOUS
<1>1. ASSUME NEW k \in Sessions, StartUpload(k) PROVE Replacers'
    BY <1>1 DEF StartUpload, Moves, Replacers, IInv, TypeOK
<1>2. ASSUME NEW k \in Sessions,
             \/ StartRecovery(k) \/ CommitUpload(k) \/ FetchNonce(k)
             \/ AskProgress(k) \/ SendChunk(k) \/ Answered(k) \/ Finish(k)
             \/ LoseAnswer(k) \/ PauseUpload(k) \/ ResumeUpload(k)
      PROVE  Replacers'
    BY <1>2 DEF StartRecovery, CommitUpload, FetchNonce, AskProgress,
                SendChunk, Answered, Finish, LoseAnswer, PauseUpload,
                ResumeUpload, Moves, Replacers, IInv, TypeOK
<1>3. ASSUME NEW k \in Sessions,
             SkipChunk(k) \/ RequestSteps(k) \/ RequestFails(k)
      PROVE  UNCHANGED at
    BY <1>3 DEF SkipChunk, RequestSteps, AdmitChunk, WriteChunk, RecordChunk,
                CountChunks, MarkComplete, RequestFails, sessionVars
<1>4. ASSUME \/ \E f \in FileIds : DeleteFile(f) \/ RestoreFile(f)
                                      \/ HardDelete(f) \/ HardDeleteAborts(f)
             \/ \E g \in Collectors : CollectorSteps(g)
             \/ HoursPass \/ MonthPasses \/ UNCHANGED vars
      PROVE  UNCHANGED at
    BY <1>4 DEF DeleteFile, RestoreFile, HardDelete, HardDeleteAborts,
                CollectorSteps, CollectorReads, CollectorErases,
                CollectorCommits, CollectorSweeps, HoursPass, MonthPasses,
                vars, sessionVars
<1>. QED
    BY <1>1, <1>2, <1>3, <1>4 DEF Replacers, Next, SessionSteps

\* Which steps make a row disappear, and which rows.
LEMMA WhoDeletes ==
    ASSUME IInv, [Next]_vars, NEW f \in Rows, rows'[f] = Gone
    PROVE  \/ \E k \in Sessions : at[k] = "replacing" /\ target[k] = f
           \/ f \notin Live
           \/ f \in Doomed
<1>. USE UploadAssumption
<1>1. rows[f] # Gone /\ rows[f] \in Row /\ f \in FileIds
    BY DEF Rows, IInv, TypeOK
<1>2. ASSUME NEW k \in Sessions, CommitUpload(k)
      PROVE  at[k] = "replacing" /\ target[k] = f
    BY <1>1, <1>2 DEF CommitUpload, Moves, Row
<1>3. ASSUME NEW k \in Sessions,
             \/ StartUpload(k) \/ StartRecovery(k) \/ FetchNonce(k)
             \/ AskProgress(k) \/ SkipChunk(k) \/ SendChunk(k) \/ Answered(k)
             \/ Finish(k) \/ LoseAnswer(k) \/ PauseUpload(k) \/ ResumeUpload(k)
             \/ AdmitChunk(k) \/ WriteChunk(k) \/ RecordChunk(k)
             \/ CountChunks(k) \/ RequestFails(k)
      PROVE  UNCHANGED rows
    BY <1>3 DEF StartUpload, StartRecovery, FetchNonce, AskProgress, SkipChunk,
                SendChunk, Answered, Finish, LoseAnswer, PauseUpload,
                ResumeUpload, AdmitChunk, WriteChunk, RecordChunk, CountChunks,
                RequestFails, rowVars
<1>4. ASSUME NEW k \in Sessions, MarkComplete(k) PROVE FALSE
    BY <1>1, <1>4, MarkedIsRow DEF MarkComplete
<1>5. ASSUME NEW g \in FileIds,
             DeleteFile(g) \/ RestoreFile(g) \/ HardDeleteAborts(g)
      PROVE  FALSE
    BY <1>1, <1>5 DEF DeleteFile, RestoreFile, HardDeleteAborts, Trashes, Row,
                      IInv, TypeOK
<1>6. ASSUME NEW g \in FileIds, HardDelete(g) PROVE f \notin Live
    BY <1>1, <1>6 DEF HardDelete, Deletes
<1>7. ASSUME NEW g \in Collectors, CollectorSteps(g) PROVE f \in Doomed
    BY <1>1, <1>7 DEF CollectorSteps, CollectorReads, CollectorErases,
                      CollectorCommits, CollectorSweeps, Deletes, Deleted,
                      rowVars
<1>8. ASSUME HoursPass \/ MonthPasses PROVE FALSE
    <2>1. rows'[f] \in {Older(rows[f]), Expired(Older(rows[f]))}
        BY <1>1, <1>8 DEF HoursPass, MonthPasses
    <2>. QED
        BY <1>1, <2>1, OlderIsRow
<1>9. CASE UNCHANGED vars
    BY <1>1, <1>9 DEF vars, rowVars
<1>. QED
    BY <1>1, <1>2, <1>3, <1>4, <1>5, <1>6, <1>7, <1>8, <1>9
       DEF Next, SessionSteps, RequestSteps

\* The collector deletes no row of a live, complete file (run_cleanup): only
\* an upload that had found it unfinished can (init_upload).
THEOREM FinishedSpared == Spec => CollectorSparesFinished
<1>. DEFINE Spares ==
        \A f \in Live \cap Complete : rows'[f] = Gone =>
            \E k \in Uploads : at[k] = "replacing" /\ target[k] = f
<1>1. IInv /\ Replacers /\ [Next]_vars => Spares
    <2>. SUFFICES ASSUME IInv, Replacers, [Next]_vars,
                         NEW f \in Live \cap Complete, rows'[f] = Gone
                  PROVE  \E k \in Uploads : at[k] = "replacing" /\ target[k] = f
        OBVIOUS
    <2>1. f \notin Doomed
        BY DEF Doomed, Live, Complete
    <2>2. f \in Rows /\ f \in Live
        BY DEF Live
    <2>. QED
        BY <2>1, <2>2, WhoDeletes DEF Replacers
<1>2. Init => Replacers
    BY DEF Init, Replacers
<1>. QED
    BY <1>1, <1>2, Initially, Inductive, ReplacersStay, PTL
       DEF Spec, CollectorSparesFinished

\* A chunk that is written leaves the other chunks, and what was there of a
\* stored file is there still.
LEMMA WritesKeep ==
    ASSUME IInv, NEW k \in Sessions, WriteChunk(k), NEW f \in FileIds, Stored(f)
    PROVE  Stored(f)'
<1>. USE UploadAssumption
<1>1. target[k] \in FileIds /\ next[k] \in Chunks /\ nonce[k] # Hole
    BY DEF WriteChunk, At, IInv, TypeOK, Aimed, Asked
<1>2. disk[f] # Absent /\ disk[f] \in [Chunks -> Sessions \cup {Hole}]
    BY DEF Stored, IInv, TypeOK
<1>3. CASE f # target[k]
    BY <1>1, <1>3 DEF WriteChunk, Stored, IInv, TypeOK
<1>4. CASE f = target[k]
    <2>1. Opened(f) = disk[f]
        BY <1>2 DEF Opened
    <2>2. disk'[f] \in {disk[f], [disk[f] EXCEPT ![next[k]] = nonce[k]]}
        BY <1>1, <1>4, <2>1 DEF WriteChunk, IInv, TypeOK
    <2>3. \A c \in Chunks : disk'[f][c] \in {disk[f][c], nonce[k]}
        BY <1>1, <1>2, <2>2
    <2>4. disk'[f] # Absent
        <3>1. disk'[f] \in [Chunks -> Sessions \cup {Hole}]
            <4>1. nonce[k] \in Sessions
                BY DEF WriteChunk, At, IInv, TypeOK, Asked
            <4>. DEFINE D == disk[f]
            <4>. HIDE DEF D
            <4>2. D \in [Chunks -> Sessions \cup {Hole}]
                BY <1>2 DEF D
            <4>3. [D EXCEPT ![next[k]] = nonce[k]] \in [Chunks -> Sessions \cup {Hole}]
                BY <4>1, <4>2
            <4>. QED
                BY <2>2, <4>2, <4>3 DEF D
        <3>2. Absent \notin [Chunks -> Sessions \cup {Hole}]
            OBVIOUS
        <3>. QED
            BY <3>1, <3>2
    <2>. QED
        BY <1>1, <2>3, <2>4 DEF Stored
<1>. QED
    BY <1>3, <1>4

\* A complete file keeps its bytes for as long as its row, whatever late or
\* repeated requests arrive (write_chunk): but for a deletion that rolls back
\* and what a collector run erases by what it has read in its phase 1.
THEOREM BytesStay == Spec => StoredBytesStay
<1>. DEFINE Stays ==
        \A f \in Complete :
          /\ Stored(f) /\ ~Stored(f)'
          /\ rows'[f] # Gone
          => \/ HardDeleteAborts(f)
             \/ \E g \in Collectors :
                   \/ CollectorErases(g) /\ f \in doomed[g]
                   \/ CollectorSweeps(g) /\ f \notin valid[g]
<1>1. ASSUME IInv, [Next]_vars PROVE Stays
    <2>. SUFFICES ASSUME NEW f \in Complete, Stored(f), ~Stored(f)',
                         rows'[f] # Gone
                  PROVE  \/ HardDeleteAborts(f)
                         \/ \E g \in Collectors :
                               \/ CollectorErases(g) /\ f \in doomed[g]
                               \/ CollectorSweeps(g) /\ f \notin valid[g]
        OBVIOUS
    <2>1. f \in FileIds /\ f \in Rows
        BY DEF Complete, Rows
    <2>2. disk'[f] # disk[f]
        BY DEF Stored
    <2>3. ASSUME NEW k \in Sessions, WriteChunk(k) PROVE FALSE
        BY <1>1, <2>1, <2>3, WritesKeep
    <2>4. ASSUME NEW e \in FileIds, HardDelete(e) PROVE FALSE
        BY <2>1, <2>2, <2>4 DEF HardDelete, Deletes, Erases
    <2>5. ASSUME NEW e \in FileIds, HardDeleteAborts(e) PROVE HardDeleteAborts(f)
        BY <2>1, <2>2, <2>5 DEF HardDeleteAborts, Erases
    <2>6. ASSUME NEW g \in Collectors, CollectorErases(g) PROVE f \in doomed[g]
        BY <2>1, <2>2, <2>6 DEF CollectorErases, Erases
    <2>7. ASSUME NEW g \in Collectors, CollectorSweeps(g) PROVE f \notin valid[g]
        BY <2>1, <2>2, <2>7 DEF CollectorSweeps, Erases, Orphans
    <2>8. ASSUME NEW k \in Sessions,
                 \/ StartUpload(k) \/ StartRecovery(k) \/ CommitUpload(k)
                 \/ FetchNonce(k) \/ AskProgress(k) \/ SkipChunk(k)
                 \/ SendChunk(k) \/ Answered(k) \/ Finish(k) \/ LoseAnswer(k)
                 \/ PauseUpload(k) \/ ResumeUpload(k) \/ AdmitChunk(k)
                 \/ RecordChunk(k) \/ CountChunks(k) \/ MarkComplete(k)
                 \/ RequestFails(k)
          PROVE  UNCHANGED disk
        BY <2>8 DEF StartUpload, StartRecovery, CommitUpload, FetchNonce,
                    AskProgress, SkipChunk, SendChunk, Answered, Finish,
                    LoseAnswer, PauseUpload, ResumeUpload, AdmitChunk,
                    RecordChunk, CountChunks, MarkComplete, RequestFails, rowVars
    <2>9. ASSUME \/ \E e \in FileIds : DeleteFile(e) \/ RestoreFile(e)
                 \/ \E g \in Collectors : CollectorReads(g) \/ CollectorCommits(g)
                 \/ HoursPass \/ MonthPasses \/ UNCHANGED vars
          PROVE  UNCHANGED disk
        BY <2>9 DEF DeleteFile, RestoreFile, CollectorReads, CollectorCommits,
                    HoursPass, MonthPasses, vars, rowVars
    <2>. QED
        BY <1>1, <2>2, <2>3, <2>4, <2>5, <2>6, <2>7, <2>8, <2>9
           DEF Next, SessionSteps, RequestSteps, CollectorSteps
<1>. QED
    BY <1>1, Initially, Inductive, PTL DEF Spec, StoredBytesStay

-----------------------------------------------------------------------------
(***************************************************************************)
(* One encryption per file that nothing recovers.                          *)
(***************************************************************************)

\* Session k uploads to f: it was given f's id, or a request of its is left.
Owner(k, f) ==
    /\ target[k] = f
    /\ \/ at[k] \in {"asking", "looping", "waiting", "paused", "success"}
       \/ request[k] # "none"

\* No recovery continues f.
Unrecovered(f) == \A r \in Recoveries : target[r] # f

\* What is on disk of a file is from one session, and from the one that
\* uploads to it if there is one.
OfOne(f) ==
    disk[f] # Absent =>
        /\ \A c, d \in Chunks : disk[f][c] = disk[f][d]
                                  \/ Hole \in {disk[f][c], disk[f][d]}
        /\ \A k \in Sessions : Owner(k, f) =>
               \A c \in Chunks : disk[f][c] \in {Hole, k}

OneOwner ==
    \A f \in FileIds, k, l \in Sessions :
        Unrecovered(f) /\ Owner(k, f) /\ Owner(l, f) => k = l

OwnNonces == \A k \in Uploads : nonce[k] = k /\ at[k] # "fetching"

\* A recovery is of one file, from its start on.
OneTarget ==
    \A r \in Recoveries : /\ at[r] = "idle" => target[r] = Absent
                          /\ at[r] # "replacing"

UnbornIsEmpty == \A f \in FileIds : rows[f] = Unborn => disk[f] = Absent

EncryptionInv ==
    /\ OneOwner /\ OwnNonces /\ OneTarget /\ UnbornIsEmpty
    /\ \A f \in FileIds : Unrecovered(f) => OfOne(f)

\* What has been recovered is so for good.
LEMMA TargetsStay ==
    ASSUME IInv, OneTarget, [Next]_vars
    PROVE  /\ OneTarget'
           /\ \A f \in FileIds : Unrecovered(f)' => Unrecovered(f)
<1>. USE UploadAssumption
<1>1. ASSUME NEW r \in Recoveries
      PROVE  /\ target[r] \in {Absent, target'[r]}
             /\ at'[r] = "idle" => target'[r] = Absent
             /\ at'[r] # "replacing"
    <2>. USE <1>1
    <2>1. r \in Sessions /\ r \notin Uploads
        BY DEF Sessions
    <2>2. ASSUME NEW l \in Sessions, StartUpload(l) \/ CommitUpload(l)
          PROVE  l # r
        BY <2>1, <2>2 DEF StartUpload, CommitUpload, Moves, OneTarget
    <2>3. ASSUME NEW l \in Sessions, StartUpload(l) \/ CommitUpload(l)
          PROVE  at'[r] = at[r] /\ target'[r] = target[r]
        BY <2>1, <2>2, <2>3 DEF StartUpload, CommitUpload, Moves, IInv, TypeOK
    <2>4. ASSUME NEW l \in Sessions, StartRecovery(l)
          PROVE  \/ /\ at'[r] = at[r] /\ target'[r] = target[r]
                 \/ /\ target[r] = Absent
                    /\ at'[r] \in {"asking", "fetching"}
        BY <2>1, <2>4 DEF StartRecovery, Moves, OneTarget, IInv, TypeOK
    <2>5. ASSUME NEW l \in Sessions,
                 \/ FetchNonce(l) \/ AskProgress(l) \/ SkipChunk(l)
                 \/ SendChunk(l) \/ Answered(l) \/ Finish(l) \/ LoseAnswer(l)
                 \/ PauseUpload(l) \/ ResumeUpload(l)
          PROVE  /\ target' = target
                 /\ at'[r] = at[r] \/ at'[r] \notin {"idle", "replacing"}
        BY <2>1, <2>5
           DEF FetchNonce, AskProgress, SkipChunk, SendChunk, Answered, Finish,
               LoseAnswer, PauseUpload, ResumeUpload, Moves, IInv, TypeOK
    <2>6. ASSUME \/ \E l \in Sessions : RequestSteps(l) \/ RequestFails(l)
                 \/ \E e \in FileIds : DeleteFile(e) \/ RestoreFile(e)
                                         \/ HardDelete(e) \/ HardDeleteAborts(e)
                 \/ \E g \in Collectors : CollectorSteps(g)
                 \/ HoursPass \/ MonthPasses \/ UNCHANGED vars
          PROVE  UNCHANGED <<at, target>>
        BY <2>6 DEF RequestSteps, AdmitChunk, WriteChunk, RecordChunk,
                    CountChunks, MarkComplete, RequestFails, DeleteFile,
                    RestoreFile, HardDelete, HardDeleteAborts, CollectorSteps,
                    CollectorReads, CollectorErases, CollectorCommits,
                    CollectorSweeps, HoursPass, MonthPasses, vars, sessionVars
    <2>. QED
        BY <2>3, <2>4, <2>5, <2>6 DEF Next, SessionSteps, OneTarget
<1>2. ASSUME NEW f \in FileIds, Unrecovered(f)' PROVE Unrecovered(f)
    BY <1>1, <1>2 DEF Unrecovered
<1>. QED
    BY <1>1, <1>2 DEF OneTarget

\* Only the answer to an init gives an id, and it gives a new one.
LEMMA OwnersKept ==
    ASSUME IInv, OwnNonces, OneTarget, [Next]_vars,
           NEW f \in FileIds, Unrecovered(f)', NEW k \in Sessions, Owner(k, f)'
    PROVE  \/ Owner(k, f)
           \/ CommitUpload(k) /\ rows[f] = Unborn /\ rows'[f] # Unborn
<1>. USE Markers
<1>1. ASSUME NEW l \in Sessions, CommitUpload(l)
      PROVE  \/ Owner(k, f)
             \/ CommitUpload(k) /\ rows[f] = Unborn /\ rows'[f] # Unborn
    <2>1. CASE l # k
        BY <1>1, <2>1 DEF CommitUpload, Moves, Owner, IInv, TypeOK
    <2>2. CASE l = k /\ Live \subseteq {target[k]} \cap Rows
        <3>1. f \in NewIds(target[k]) /\ rows'[f] # Unborn
            BY <1>1, <2>2 DEF CommitUpload, Moves, Owner, NewIds, Row, IInv,
                              TypeOK, Asked
        <3>. QED
            BY <1>1, <2>2, <3>1 DEF NewIds
    <2>3. CASE l = k /\ ~(Live \subseteq {target[k]} \cap Rows)
        BY <1>1, <2>3 DEF CommitUpload, Moves, Owner, IInv, TypeOK
    <2>. QED
        BY <2>1, <2>2, <2>3
<1>2. ASSUME NEW l \in Sessions, StartUpload(l) PROVE Owner(k, f)
    <2>1. request[l] = "none" /\ at'[l] \in {"replacing", "failed"}
        BY <1>2 DEF StartUpload, Moves, IInv, TypeOK, Asked
    <2>. QED
        BY <1>2, <2>1 DEF StartUpload, Moves, Owner, IInv, TypeOK
<1>3. ASSUME NEW l \in Sessions, StartRecovery(l) PROVE Owner(k, f)
    <2>1. l \in Recoveries /\ target'[l] # f
        BY <1>3 DEF StartRecovery, Unrecovered
    <2>2. k # l
        BY <2>1 DEF Owner
    <2>. QED
        BY <1>3, <2>2 DEF StartRecovery, Moves, Owner, IInv, TypeOK
<1>4. ASSUME NEW l \in Sessions,
             \/ AskProgress(l) \/ SkipChunk(l) \/ SendChunk(l) \/ Answered(l)
             \/ Finish(l) \/ LoseAnswer(l) \/ PauseUpload(l) \/ ResumeUpload(l)
      PROVE  Owner(k, f)
    BY <1>4 DEF AskProgress, SkipChunk, SendChunk, Answered, Finish, LoseAnswer,
                PauseUpload, ResumeUpload, Moves, Owner, IInv, TypeOK
<1>5. ASSUME NEW l \in Sessions, RequestSteps(l) \/ RequestFails(l)
      PROVE  Owner(k, f)
    <2>1. UNCHANGED <<at, target>>
        BY <1>5 DEF RequestSteps, AdmitChunk, WriteChunk, RecordChunk,
                    CountChunks, MarkComplete, RequestFails, sessionVars
    <2>2. request[l] # "none" /\ \E to : request' = [request EXCEPT ![l] = to]
        BY <1>5 DEF RequestSteps, AdmitChunk, WriteChunk, RecordChunk,
                    CountChunks, MarkComplete, RequestFails, At, Handling
    <2>3. request'[k] # "none" => request[k] # "none"
        BY <2>2 DEF IInv, TypeOK
    <2>. QED
        BY <2>1, <2>3 DEF Owner
<1>6. ASSUME NEW l \in Sessions, FetchNonce(l) PROVE Owner(k, f)
    <2>1. l \in Recoveries /\ target'[l] = target[l]
        BY <1>6 DEF FetchNonce, Moves, OwnNonces, Sessions
    <2>2. k # l
        BY <2>1 DEF Owner, Unrecovered
    <2>. QED
        BY <1>6, <2>2 DEF FetchNonce, Moves, Owner, IInv, TypeOK
<1>7. CASE UNCHANGED <<sessionVars, request>>
    BY <1>7 DEF Owner, sessionVars
<1>8. ASSUME \/ \E e \in FileIds : DeleteFile(e) \/ RestoreFile(e)
                                     \/ HardDelete(e) \/ HardDeleteAborts(e)
             \/ \E g \in Collectors : CollectorSteps(g)
             \/ HoursPass \/ MonthPasses \/ UNCHANGED vars
      PROVE  UNCHANGED <<sessionVars, request>>
    BY <1>8 DEF DeleteFile, RestoreFile, HardDelete, HardDeleteAborts,
                CollectorSteps, CollectorReads, CollectorErases,
                CollectorCommits, CollectorSweeps, HoursPass, MonthPasses, vars
<1>. QED
    BY <1>1, <1>2, <1>3, <1>4, <1>5, <1>6, <1>7, <1>8 DEF Next, SessionSteps

\* The one step that puts bytes on disk is a chunk of its file's owner.
LEMMA WhoWrites ==
    ASSUME IInv, [Next]_vars, NEW f \in FileIds, disk'[f] # disk[f]
    PROVE  \/ disk'[f] = Absent
           \/ \E k \in Sessions : WriteChunk(k) /\ Owner(k, f)
<1>. USE Markers
<1>1. ASSUME NEW k \in Sessions, WriteChunk(k) PROVE Owner(k, f)
    <2>1. disk' = [disk EXCEPT ![target[k]] = disk'[target[k]]]
        BY <1>1 DEF WriteChunk, IInv, TypeOK
    <2>2. target[k] = f
        BY <2>1 DEF IInv, TypeOK
    <2>. QED
        BY <1>1, <2>2 DEF WriteChunk, At, Owner
<1>2. ASSUME \/ \E e \in FileIds : HardDelete(e) \/ HardDeleteAborts(e)
             \/ \E g \in Collectors : CollectorErases(g) \/ CollectorSweeps(g)
      PROVE  disk'[f] = Absent
    <2>1. PICK F : Erases(F)
        BY <1>2 DEF HardDelete, HardDeleteAborts, CollectorErases, CollectorSweeps
    <2>. QED
        BY <2>1 DEF Erases
<1>3. ASSUME NEW k \in Sessions,
             \/ StartUpload(k) \/ StartRecovery(k) \/ CommitUpload(k)
             \/ FetchNonce(k) \/ AskProgress(k) \/ SkipChunk(k)
             \/ SendChunk(k) \/ Answered(k) \/ Finish(k) \/ LoseAnswer(k)
             \/ PauseUpload(k) \/ ResumeUpload(k) \/ AdmitChunk(k)
             \/ RecordChunk(k) \/ CountChunks(k) \/ MarkComplete(k)
             \/ RequestFails(k)
      PROVE  UNCHANGED disk
    BY <1>3 DEF StartUpload, StartRecovery, CommitUpload, FetchNonce,
                AskProgress, SkipChunk, SendChunk, Answered, Finish,
                LoseAnswer, PauseUpload, ResumeUpload, AdmitChunk,
                RecordChunk, CountChunks, MarkComplete, RequestFails, rowVars
<1>4. ASSUME \/ \E e \in FileIds : DeleteFile(e) \/ RestoreFile(e)
             \/ \E g \in Collectors : CollectorReads(g) \/ CollectorCommits(g)
             \/ HoursPass \/ MonthPasses \/ UNCHANGED vars
      PROVE  UNCHANGED disk
    BY <1>4 DEF DeleteFile, RestoreFile, CollectorReads, CollectorCommits,
                HoursPass, MonthPasses, vars, rowVars
<1>. QED
    BY <1>1, <1>2, <1>3, <1>4
       DEF Next, SessionSteps, RequestSteps, CollectorSteps

\* A file that has been given out stays so.
LEMMA BornForGood ==
    ASSUME IInv, [Next]_vars, NEW f \in FileIds, rows[f] # Unborn
    PROVE  rows'[f] # Unborn
<1>. USE Markers
<1>1. ASSUME NEW k \in Sessions, CommitUpload(k) PROVE rows'[f] # Unborn
    <2>1. CASE Live \subseteq {target[k]} \cap Rows
        BY <1>1, <2>1 DEF CommitUpload, NewIds, Row, IInv, TypeOK
    <2>2. CASE ~(Live \subseteq {target[k]} \cap Rows)
        BY <1>1, <2>2 DEF CommitUpload
    <2>. QED
        BY <2>1, <2>2
<1>2. ASSUME NEW F, Deletes(F) PROVE rows'[f] # Unborn
    BY <1>2 DEF Deletes, Row, IInv, TypeOK
<1>3. ASSUME NEW k \in Sessions, MarkComplete(k) PROVE rows'[f] # Unborn
    BY <1>3, MarkedIsRow DEF MarkComplete, Rows, IInv, TypeOK
<1>4. ASSUME HoursPass \/ MonthPasses PROVE rows'[f] # Unborn
    BY <1>4, OlderIsRow DEF HoursPass, MonthPasses, Rows, IInv, TypeOK
<1>5. ASSUME NEW e \in FileIds, DeleteFile(e) \/ RestoreFile(e)
      PROVE  rows'[f] # Unborn
    <2>1. e \in Rows /\ \E age \in {"recent", "live"} : Trashes(e, age)
        BY <1>5 DEF DeleteFile, RestoreFile, Live
    <2>2. PICK age \in {"recent", "live"} : Trashes(e, age)
        BY <2>1
    <2>3. [rows[e] EXCEPT !.trash = age] \in Row
        BY <2>1, <2>2 DEF Rows, Row, IInv, TypeOK
    <2>. QED
        BY <2>2, <2>3 DEF Trashes, IInv, TypeOK
<1>6. ASSUME NEW k \in Sessions,
             \/ StartUpload(k) \/ StartRecovery(k) \/ FetchNonce(k)
             \/ AskProgress(k) \/ SkipChunk(k) \/ SendChunk(k) \/ Answered(k)
             \/ Finish(k) \/ LoseAnswer(k) \/ PauseUpload(k) \/ ResumeUpload(k)
             \/ AdmitChunk(k) \/ WriteChunk(k) \/ RecordChunk(k)
             \/ CountChunks(k) \/ RequestFails(k)
      PROVE  UNCHANGED rows
    BY <1>6 DEF StartUpload, StartRecovery, FetchNonce, AskProgress, SkipChunk,
                SendChunk, Answered, Finish, LoseAnswer, PauseUpload,
                ResumeUpload, AdmitChunk, WriteChunk, RecordChunk, CountChunks,
                RequestFails, rowVars
<1>7. ASSUME \/ \E e \in FileIds : HardDeleteAborts(e)
             \/ \E g \in Collectors : \/ CollectorReads(g)
                                       \/ CollectorErases(g)
                                       \/ CollectorSweeps(g)
             \/ UNCHANGED vars
      PROVE  UNCHANGED rows
    BY <1>7 DEF HardDeleteAborts, CollectorReads, CollectorErases,
                CollectorSweeps, vars, rowVars
<1>8. ASSUME NEW e \in FileIds, HardDelete(e) PROVE rows'[f] # Unborn
    BY <1>2, <1>8 DEF HardDelete
<1>9. ASSUME NEW g \in Collectors, CollectorCommits(g) PROVE rows'[f] # Unborn
    BY <1>2, <1>9 DEF CollectorCommits
<1>. QED
    BY <1>1, <1>3, <1>4, <1>5, <1>6, <1>7, <1>8, <1>9
       DEF Next, SessionSteps, RequestSteps, CollectorSteps

\* A first upload encrypts under a nonce of its own for good.
LEMMA NoncesStay ==
    ASSUME IInv, OwnNonces, [Next]_vars
    PROVE  OwnNonces'
<1>. USE UploadAssumption DEF Sessions
<1>1. ASSUME NEW l \in Sessions, FetchNonce(l) PROVE OwnNonces'
    <2>1. l \notin Uploads
        BY <1>1 DEF FetchNonce, Moves, OwnNonces
    <2>2. \A k \in Uploads : at'[k] = at[k] /\ nonce'[k] = nonce[k]
        BY <1>1, <2>1 DEF FetchNonce, Moves, IInv, TypeOK
    <2>. QED
        BY <2>2 DEF OwnNonces
<1>2. ASSUME NEW l \in Sessions, StartRecovery(l) PROVE OwnNonces'
    <2>1. l \notin Uploads
        BY <1>2 DEF StartRecovery
    <2>2. \A k \in Uploads : at'[k] = at[k] /\ nonce'[k] = nonce[k]
        BY <1>2, <2>1 DEF StartRecovery, Moves, IInv, TypeOK
    <2>. QED
        BY <2>2 DEF OwnNonces
<1>3. ASSUME NEW l \in Sessions,
             \/ StartUpload(l) \/ CommitUpload(l) \/ AskProgress(l)
             \/ SkipChunk(l) \/ SendChunk(l) \/ Answered(l) \/ Finish(l)
             \/ LoseAnswer(l) \/ PauseUpload(l) \/ ResumeUpload(l)
      PROVE  OwnNonces'
    BY <1>3 DEF StartUpload, CommitUpload, AskProgress, SkipChunk, SendChunk,
                Answered, Finish, LoseAnswer, PauseUpload, ResumeUpload, Moves,
                OwnNonces, IInv, TypeOK
<1>4. ASSUME \/ \E l \in Sessions : RequestSteps(l) \/ RequestFails(l)
             \/ \E e \in FileIds : DeleteFile(e) \/ RestoreFile(e)
                                     \/ HardDelete(e) \/ HardDeleteAborts(e)
             \/ \E g \in Collectors : CollectorSteps(g)
             \/ HoursPass \/ MonthPasses \/ UNCHANGED vars
      PROVE  UNCHANGED <<at, nonce>>
    BY <1>4 DEF RequestSteps, AdmitChunk, WriteChunk, RecordChunk, CountChunks,
                MarkComplete, RequestFails, DeleteFile, RestoreFile, HardDelete,
                HardDeleteAborts, CollectorSteps, CollectorReads,
                CollectorErases, CollectorCommits, CollectorSweeps, HoursPass,
                MonthPasses, vars, sessionVars
<1>. QED
    BY <1>1, <1>2, <1>3, <1>4 DEF Next, SessionSteps, OwnNonces

LEMMA EncryptionStep ==
    ASSUME IInv, EncryptionInv, [Next]_vars
    PROVE  EncryptionInv'
<1>1. ASSUME NEW f \in FileIds, NEW k \in Sessions, Owner(k, f)
      PROVE  rows[f] # Unborn
    BY <1>1 DEF Owner, IInv, Aimed
<1>2. ASSUME NEW k \in Sessions, NEW l \in Sessions,
             CommitUpload(k), CommitUpload(l)
      PROVE  k = l
    BY <1>2 DEF CommitUpload, Moves, IInv, TypeOK
<1>0. OneTarget' /\ \A f \in FileIds : Unrecovered(f)' => Unrecovered(f)
    BY TargetsStay DEF EncryptionInv
<1>3. ASSUME NEW f \in FileIds, Unrecovered(f)', NEW k \in Sessions, Owner(k, f)'
      PROVE  \/ Owner(k, f)
             \/ CommitUpload(k) /\ rows[f] = Unborn
    BY <1>3, OwnersKept DEF EncryptionInv
<1>4. OneOwner'
    BY <1>0, <1>1, <1>2, <1>3 DEF EncryptionInv, OneOwner
<1>5. OwnNonces'
    BY NoncesStay DEF EncryptionInv
<1>6. UnbornIsEmpty'
    BY <1>1, WhoWrites, BornForGood DEF EncryptionInv, UnbornIsEmpty
<1>7. ASSUME NEW f \in FileIds, Unrecovered(f)', disk'[f] # Absent
      PROVE  OfOne(f)'
    <2>. USE <1>0, <1>7
    <2>1. CASE disk'[f] = disk[f]
        <3>1. rows[f] # Unborn
            BY <1>7, <2>1 DEF EncryptionInv, UnbornIsEmpty
        <3>2. \A k \in Sessions : Owner(k, f)' => Owner(k, f)
            BY <1>3, <3>1
        <3>. QED
            BY <1>7, <2>1, <3>2 DEF EncryptionInv, OfOne
    <2>2. CASE disk'[f] # disk[f]
        <3>1. PICK k \in Sessions : WriteChunk(k) /\ Owner(k, f)
            BY <1>7, <2>2, WhoWrites
        <3>2. \A c \in Chunks : Opened(f)[c] \in {Hole, k}
            BY <3>1 DEF EncryptionInv, OfOne, Opened
        <3>3. Opened(f) \in [Chunks -> Sessions \cup {Hole}]
            BY DEF Opened, IInv, TypeOK
        <3>4. target[k] = f /\ nonce[k] = k
            BY <3>1 DEF Owner, EncryptionInv, OwnNonces, Unrecovered, Sessions
        <3>5. \/ disk'[f] = [Opened(f) EXCEPT ![next[k]] = k]
              \/ disk'[f] = Opened(f)
            BY <3>1, <3>4 DEF WriteChunk, IInv, TypeOK
        <3>6. \A c \in Chunks : disk'[f][c] \in {Hole, k}
            BY <3>2, <3>3, <3>5
        <3>7. \A l \in Sessions : Owner(l, f)' => l = k
            BY <1>1, <1>3, <3>1 DEF EncryptionInv, OneOwner
        <3>. QED
            BY <3>6, <3>7 DEF OfOne
    <2>. QED
        BY <2>1, <2>2
<1>8. \A f \in FileIds : Unrecovered(f)' => OfOne(f)'
    BY <1>7 DEF OfOne
<1>. QED
    BY <1>0, <1>4, <1>5, <1>6, <1>8 DEF EncryptionInv

\* All chunks of a complete file that no recovery uploads to are of one
\* encryption: whatever is paused, resumed, retried, late, replaced or deleted,
\* no two first uploads ever write to one file (_uploadSingleFile).
THEOREM OneKeyPerFile == Spec => []OneEncryption
<1>1. Init => IInv /\ EncryptionInv
    <2>. SUFFICES ASSUME Init PROVE EncryptionInv
        BY Initially
    <2>1. \A k \in Sessions, f \in FileIds : ~Owner(k, f)
        BY Markers DEF Init, Owner
    <2>. QED
        BY <2>1 DEF Init, EncryptionInv, OneOwner, OwnNonces, OneTarget,
                    UnbornIsEmpty, OfOne, Sessions
<1>2. IInv /\ EncryptionInv /\ [Next]_vars => (IInv /\ EncryptionInv)'
    BY Inductive, EncryptionStep
<1>3. EncryptionInv => OneEncryption
    BY DEF EncryptionInv, Unrecovered, OfOne, OneEncryption, Complete, Rows
<1>. QED
    BY <1>1, <1>2, <1>3, PTL DEF Spec

-----------------------------------------------------------------------------
(***************************************************************************)
(* A file whose chunks are all recorded becomes complete, and what is      *)
(* recorded is on disk.                                                    *)
(***************************************************************************)

\* An id that has not been given out has no chunks: init_upload starts empty.
UnbornUnsaved == \A f \in FileIds : rows[f] = Unborn => saved[f] = {}

\* A request about f that has recorded its chunk and is not done.
Completing(k, f) == target[k] = f /\ request[k] \in {"counting", "marking"}

\* RecordedGetsComplete, of the files in the trash too: one that is restored
\* is not found unfinished with all its chunks.
Due ==
    \A f \in Rows \ Complete :
        saved[f] = Chunks => \E k \in Sessions : Completing(k, f)

\* What a step may make of a row: it stays, goes, comes, or changes and
\* remains finished if it was.
LEMMA RowMoves ==
    ASSUME IInv, [Next]_vars, NEW f \in FileIds, rows'[f] # rows[f]
    PROVE  \/ rows'[f] = Gone
           \/ rows[f] = Unborn
           \/ /\ rows[f] \in Row
              /\ rows[f].upload = "complete" => rows'[f].upload = "complete"
<1>. USE UploadAssumption
<1>1. rows[f] \in Row \cup {Unborn, Gone} /\ (f \in Rows => rows[f] \in Row)
    BY DEF Rows, IInv, TypeOK
<1>2. ASSUME NEW k \in Sessions, CommitUpload(k)
      PROVE  rows'[f] = Gone \/ rows[f] = Unborn
    BY <1>2 DEF CommitUpload, NewIds
<1>3. ASSUME NEW F, Deletes(F) PROVE rows'[f] = Gone
    BY <1>3 DEF Deletes
<1>4. ASSUME NEW k \in Sessions, MarkComplete(k)
      PROVE  rows[f] \in Row /\ rows'[f].upload = "complete"
    <2>1. f \in Rows /\ rows'[f] = [rows[f] EXCEPT !.upload = "complete"]
        BY <1>4 DEF MarkComplete
    <2>. QED
        BY <1>1, <2>1 DEF Row
<1>5. ASSUME HoursPass \/ MonthPasses
      PROVE  /\ rows[f] \in Row
             /\ rows[f].upload = "complete" => rows'[f].upload = "complete"
    <2>1. rows'[f] \in {Older(rows[f]), Expired(Older(rows[f]))} /\ f \in Rows
        BY <1>5 DEF HoursPass, MonthPasses
    <2>2. rows[f] \in Row
        BY <1>1, <2>1
    <2>3. rows[f].upload = "complete" => Older(rows[f]) = rows[f]
        BY DEF Older
    <2>4. Expired(rows[f]).upload = rows[f].upload
        BY <2>2 DEF Expired, Row
    <2>. QED
        BY <2>1, <2>2, <2>3, <2>4
<1>6. ASSUME NEW e \in FileIds, DeleteFile(e) \/ RestoreFile(e)
      PROVE  /\ rows[f] \in Row
             /\ rows[f].upload = "complete" => rows'[f].upload = "complete"
    <2>1. PICK age : rows' = [rows EXCEPT ![e].trash = age]
        BY <1>6 DEF DeleteFile, RestoreFile, Trashes
    <2>2. e = f /\ rows'[f] = [rows[f] EXCEPT !.trash = age]
        BY <2>1 DEF IInv, TypeOK
    <2>3. rows[f] \in Row
        BY <1>1, <1>6, <2>2 DEF DeleteFile, RestoreFile, Live
    <2>. QED
        BY <2>2, <2>3 DEF Row
<1>7. ASSUME NEW k \in Sessions,
             \/ StartUpload(k) \/ StartRecovery(k) \/ FetchNonce(k)
             \/ AskProgress(k) \/ SkipChunk(k) \/ SendChunk(k) \/ Answered(k)
             \/ Finish(k) \/ LoseAnswer(k) \/ PauseUpload(k) \/ ResumeUpload(k)
             \/ AdmitChunk(k) \/ WriteChunk(k) \/ RecordChunk(k)
             \/ CountChunks(k) \/ RequestFails(k)
      PROVE  UNCHANGED rows
    BY <1>7 DEF StartUpload, StartRecovery, FetchNonce, AskProgress, SkipChunk,
                SendChunk, Answered, Finish, LoseAnswer, PauseUpload,
                ResumeUpload, AdmitChunk, WriteChunk, RecordChunk, CountChunks,
                RequestFails, rowVars
<1>8. ASSUME \/ \E e \in FileIds : HardDeleteAborts(e)
             \/ \E g \in Collectors : \/ CollectorReads(g)
                                       \/ CollectorErases(g)
                                       \/ CollectorSweeps(g)
             \/ UNCHANGED vars
      PROVE  UNCHANGED rows
    BY <1>8 DEF HardDeleteAborts, CollectorReads, CollectorErases,
                CollectorSweeps, vars, rowVars
<1>9. ASSUME NEW e \in FileIds, HardDelete(e) PROVE rows'[f] = Gone
    BY <1>3, <1>9 DEF HardDelete
<1>10. ASSUME NEW g \in Collectors, CollectorCommits(g) PROVE rows'[f] = Gone
    BY <1>3, <1>10 DEF CollectorCommits
<1>. QED
    BY <1>2, <1>4, <1>5, <1>6, <1>7, <1>8, <1>9, <1>10
       DEF Next, SessionSteps, RequestSteps, CollectorSteps

\* A row that is there was there, or is new; an unfinished one was unfinished.
LEMMA RowsBefore ==
    ASSUME IInv, [Next]_vars, NEW f \in FileIds, f \in Rows'
    PROVE  /\ rows[f] = Unborn \/ f \in Rows
           /\ f \notin Complete' => rows[f] = Unborn \/ f \in Rows \ Complete
<1>1. rows'[f] \notin {Unborn, Gone} /\ Gone \notin Row /\ Unborn \notin Row
    BY UploadAssumption DEF Rows
<1>2. rows[f] = Unborn \/ f \in Rows
    BY <1>1, RowMoves DEF Rows
<1>3. ASSUME f \in Complete, rows[f] # Unborn PROVE rows'[f].upload = "complete"
    BY <1>1, <1>3, RowMoves DEF Complete
<1>. QED
    BY <1>2, <1>3 DEF Complete

\* Chunks are recorded by record_chunk_saved alone, one at a time.
LEMMA WhoSaves ==
    ASSUME IInv, [Next]_vars, NEW f \in FileIds
    PROVE  \/ saved'[f] = saved[f]
           \/ saved'[f] = {}
           \/ \E k \in Sessions :
                 /\ RecordChunk(k) /\ target[k] = f /\ f \in Rows
                 /\ saved'[f] = saved[f] \cup {next[k]}
<1>1. ASSUME NEW k \in Sessions, RecordChunk(k), saved'[f] # saved[f]
      PROVE  /\ target[k] = f /\ f \in Rows
             /\ saved'[f] = saved[f] \cup {next[k]}
    <2>1. /\ target[k] \in Rows
          /\ saved' = [saved EXCEPT ![target[k]] = @ \cup {next[k]}]
        BY <1>1 DEF RecordChunk
    <2>2. target[k] = f
        BY <1>1, <2>1 DEF IInv, TypeOK
    <2>. QED
        BY <2>1, <2>2 DEF IInv, TypeOK
<1>2. ASSUME NEW k \in Sessions, CommitUpload(k)
      PROVE  saved'[f] \in {saved[f], {}}
    BY <1>2 DEF CommitUpload
<1>3. ASSUME NEW F, Deletes(F) PROVE saved'[f] \in {saved[f], {}}
    BY <1>3 DEF Deletes
<1>4. ASSUME NEW e \in FileIds, HardDelete(e)
      PROVE  saved'[f] \in {saved[f], {}}
    BY <1>3, <1>4 DEF HardDelete
<1>5. ASSUME NEW g \in Collectors, CollectorSteps(g)
      PROVE  saved'[f] \in {saved[f], {}}
    BY <1>3, <1>5 DEF CollectorSteps, CollectorReads, CollectorErases,
                      CollectorCommits, CollectorSweeps, rowVars
<1>6. ASSUME NEW k \in Sessions,
             \/ StartUpload(k) \/ StartRecovery(k) \/ FetchNonce(k)
             \/ AskProgress(k) \/ SkipChunk(k) \/ SendChunk(k) \/ Answered(k)
             \/ Finish(k) \/ LoseAnswer(k) \/ PauseUpload(k) \/ ResumeUpload(k)
             \/ AdmitChunk(k) \/ WriteChunk(k) \/ MarkComplete(k)
             \/ CountChunks(k) \/ RequestFails(k)
      PROVE  UNCHANGED saved
    BY <1>6 DEF StartUpload, StartRecovery, FetchNonce, AskProgress, SkipChunk,
                SendChunk, Answered, Finish, LoseAnswer, PauseUpload,
                ResumeUpload, AdmitChunk, WriteChunk, MarkComplete, CountChunks,
                RequestFails, rowVars
<1>7. ASSUME \/ \E e \in FileIds : DeleteFile(e) \/ RestoreFile(e)
                                     \/ HardDeleteAborts(e)
             \/ HoursPass \/ MonthPasses \/ UNCHANGED vars
      PROVE  UNCHANGED saved
    BY <1>7 DEF DeleteFile, RestoreFile, HardDeleteAborts, HoursPass,
                MonthPasses, vars, rowVars
<1>. QED
    BY <1>1, <1>2, <1>4, <1>5, <1>6, <1>7 DEF Next, SessionSteps, RequestSteps

LEMMA UnsavedStep == IInv /\ UnbornUnsaved /\ [Next]_vars => UnbornUnsaved'
<1>. SUFFICES ASSUME IInv, UnbornUnsaved, [Next]_vars, NEW f \in FileIds,
                     rows'[f] = Unborn
              PROVE  saved'[f] = {}
    BY DEF UnbornUnsaved
<1>1. rows[f] = Unborn
    BY BornForGood
<1>2. f \notin Rows /\ saved[f] = {}
    BY <1>1 DEF Rows, UnbornUnsaved
<1>. QED
    BY <1>2, WhoSaves

\* A request keeps its place but by its handler's next step, or a failure.
LEMMA WhoCounts ==
    ASSUME IInv, [Next]_vars, NEW f \in FileIds, NEW k \in Sessions,
           Completing(k, f)
    PROVE  \/ Completing(k, f)'
           \/ CountChunks(k) \/ MarkComplete(k) \/ RequestFails(k)
<1>1. at[k] \in {"waiting", "failed"} /\ request[k] \in {"counting", "marking"}
        /\ target[k] = f
    BY DEF Completing, IInv, Asked
<1>2. ASSUME NEW l \in Sessions,
             \/ StartUpload(l) \/ StartRecovery(l) \/ CommitUpload(l)
      PROVE  Completing(k, f)'
    <2>1. l # k
        BY <1>1, <1>2 DEF StartUpload, StartRecovery, CommitUpload, Moves
    <2>2. target'[k] = target[k] /\ UNCHANGED request
        BY <1>2, <2>1 DEF StartUpload, StartRecovery, CommitUpload, IInv, TypeOK
    <2>. QED
        BY <1>1, <2>2 DEF Completing
<1>3. ASSUME NEW l \in Sessions,
             \/ FetchNonce(l) \/ AskProgress(l) \/ SkipChunk(l) \/ SendChunk(l)
             \/ Answered(l) \/ Finish(l) \/ LoseAnswer(l) \/ PauseUpload(l)
             \/ ResumeUpload(l) \/ AdmitChunk(l) \/ WriteChunk(l)
             \/ RecordChunk(l)
      PROVE  Completing(k, f)'
    <2>1. UNCHANGED target
        BY <1>3 DEF FetchNonce, AskProgress, SkipChunk, SendChunk, Answered,
                    Finish, LoseAnswer, PauseUpload, ResumeUpload, AdmitChunk,
                    WriteChunk, RecordChunk, sessionVars
    <2>2. \/ UNCHANGED request
          \/ l # k /\ \E to : request' = [request EXCEPT ![l] = to]
        BY <1>1, <1>3
           DEF FetchNonce, AskProgress, SkipChunk, SendChunk, Answered, Finish,
               LoseAnswer, PauseUpload, ResumeUpload, AdmitChunk, WriteChunk,
               RecordChunk, Moves, At
    <2>3. request'[k] = request[k]
        BY <2>2 DEF IInv, TypeOK
    <2>. QED
        BY <1>1, <2>1, <2>3 DEF Completing
<1>4. ASSUME NEW l \in Sessions \ {k},
             CountChunks(l) \/ MarkComplete(l) \/ RequestFails(l)
      PROVE  Completing(k, f)'
    <2>1. UNCHANGED target /\ \E to : request' = [request EXCEPT ![l] = to]
        BY <1>4 DEF CountChunks, MarkComplete, RequestFails, At, sessionVars
    <2>. QED
        BY <1>1, <2>1 DEF Completing, IInv, TypeOK
<1>5. ASSUME \/ \E e \in FileIds : DeleteFile(e) \/ RestoreFile(e)
                                     \/ HardDelete(e) \/ HardDeleteAborts(e)
             \/ \E g \in Collectors : CollectorSteps(g)
             \/ HoursPass \/ MonthPasses \/ UNCHANGED vars
      PROVE  Completing(k, f)'
    <2>1. UNCHANGED <<sessionVars, request>>
        BY <1>5 DEF DeleteFile, RestoreFile, HardDelete, HardDeleteAborts,
                    CollectorSteps, CollectorReads, CollectorErases,
                    CollectorCommits, CollectorSweeps, HoursPass, MonthPasses,
                    vars
    <2>. QED
        BY <1>1, <2>1 DEF Completing, sessionVars
<1>. QED
    BY <1>2, <1>3, <1>4, <1>5 DEF Next, SessionSteps, RequestSteps

LEMMA DueStep ==
    ASSUME IInv, UnbornUnsaved, Due, [Next]_vars, "request" \notin Faults
    PROVE  Due'
<1>. SUFFICES ASSUME NEW f \in FileIds, f \in Rows' \ Complete', saved'[f] = Chunks
              PROVE  \E k \in Sessions : Completing(k, f)'
    BY DEF Due, Rows
<1>0. Chunks # {} /\ Cardinality(Chunks) = LastChunk + 1
    <2>1. LastChunk \in Nat
        BY Markers
    <2>2. Cardinality(Chunks) = LastChunk + 1
        BY <2>1, FS_Interval, Z3 DEF Chunks
    <2>3. 0 \in Chunks
        BY <2>1 DEF Chunks
    <2>. QED
        BY <2>2, <2>3
<1>1. ASSUME NEW k \in Sessions, RecordChunk(k), target[k] = f, f \in Rows
      PROVE  Completing(k, f)'
    BY <1>1 DEF RecordChunk, At, Completing, IInv, TypeOK, sessionVars
<1>2. CASE saved'[f] = saved[f]
    <2>1. rows[f] # Unborn
        BY <1>0, <1>2 DEF UnbornUnsaved
    <2>2. f \in Rows \ Complete
        BY <2>1, RowsBefore
    <2>3. PICK k \in Sessions : Completing(k, f)
        BY <1>2, <2>2 DEF Due
    <2>4. ASSUME CountChunks(k) PROVE Completing(k, f)'
        <3>1. AllSaved(f) /\ target[k] = f /\ request[k] # "marking"
            BY <1>0, <1>2, <2>3, <2>4 DEF AllSaved, Completing, CountChunks, At
        <3>2. request' = [request EXCEPT ![k] = "marking"] /\ UNCHANGED target
            BY <2>2, <2>4, <3>1 DEF CountChunks, At, sessionVars
        <3>. QED
            BY <3>1, <3>2 DEF Completing, IInv, TypeOK
    <2>5. ASSUME MarkComplete(k) PROVE FALSE
        <3>1. target[k] = f /\ f \in Rows /\ rows[f] \in Row
            BY <2>2, <2>3 DEF Completing, Rows, IInv, TypeOK
        <3>2. rows'[f] = [rows[f] EXCEPT !.upload = "complete"]
            BY <2>5, <3>1 DEF MarkComplete
        <3>3. rows'[f].upload = "complete"
            BY <3>1, <3>2 DEF Row
        <3>. QED
            BY <3>3 DEF Complete
    <2>6. ~RequestFails(k)
        BY DEF RequestFails
    <2>. QED
        BY <2>3, <2>4, <2>5, <2>6, WhoCounts
<1>. QED
    BY <1>0, <1>1, <1>2, WhoSaves

\* A file with all its chunks becomes complete, whichever requests count them
\* and in whatever order (handle_upload_chunk): as long as no request fails
\* between its record_chunk_saved and its mark_upload_complete.
THEOREM CompletionDue == "request" \notin Faults => (Spec => []RecordedGetsComplete)
<1>. SUFFICES ASSUME "request" \notin Faults PROVE Spec => []RecordedGetsComplete
    OBVIOUS
<1>1. Init => UnbornUnsaved /\ Due
    BY DEF Init, UnbornUnsaved, Due, Rows
<1>2. IInv /\ UnbornUnsaved /\ Due /\ [Next]_vars => (UnbornUnsaved /\ Due)'
    BY DueStep, UnsavedStep
<1>3. Due => RecordedGetsComplete
    BY DEF Due, RecordedGetsComplete, Completing, Live
<1>. QED
    BY <1>1, <1>2, <1>3, Initially, Inductive, PTL DEF Spec

\* Chunk c of f is on disk.
Has(f, c) == disk[f] # Absent /\ disk[f][c] # Hole

\* What is recorded is on disk, and so is what is about to be recorded.
Written ==
    /\ \A f \in Rows : \A c \in saved[f] : Has(f, c)
    /\ \A k \in Sessions :
          request[k] = "recording" /\ target[k] \in Rows => Has(target[k], next[k])

\* A chunk on disk stays as long as the row.
LEMMA ChunkStays ==
    ASSUME IInv, [Next]_vars, Collectors = {}, "delete" \notin Faults,
           NEW f \in FileIds, f \in Rows', NEW c \in Chunks, Has(f, c)
    PROVE  Has(f, c)'
<1>. USE UploadAssumption
<1>1. CASE disk'[f] = disk[f]
    BY <1>1 DEF Has
<1>2. CASE disk'[f] # disk[f] /\ disk'[f] = Absent
    <2>1. ASSUME NEW e \in FileIds, HardDelete(e) PROVE FALSE
        BY <1>2, <2>1 DEF HardDelete, Deletes, Erases, Rows
    <2>2. ASSUME NEW e \in FileIds, HardDeleteAborts(e) PROVE FALSE
        BY <2>2 DEF HardDeleteAborts
    <2>3. ASSUME NEW k \in Sessions, WriteChunk(k) PROVE FALSE
        <3>1. target[k] \in FileIds /\ next[k] \in Chunks /\ nonce[k] \in Sessions
            BY <2>3 DEF WriteChunk, At, IInv, TypeOK, Aimed, Asked
        <3>2. Opened(target[k]) \in [Chunks -> Sessions \cup {Hole}]
            BY <3>1 DEF Opened, IInv, TypeOK
        <3>3. [Opened(target[k]) EXCEPT ![next[k]] = nonce[k]]
                  \in [Chunks -> Sessions \cup {Hole}]
            BY <3>1, <3>2
        <3>4. disk' = [disk EXCEPT ![target[k]] = disk'[target[k]]]
            BY <2>3, <3>1 DEF WriteChunk, IInv, TypeOK
        <3>5. target[k] = f
            BY <1>2, <3>4 DEF IInv, TypeOK
        <3>6. disk'[f] \in {Opened(f), [Opened(f) EXCEPT ![next[k]] = nonce[k]]}
            BY <2>3, <3>5 DEF WriteChunk, IInv, TypeOK
        <3>. QED
            BY <1>2, <3>2, <3>3, <3>5, <3>6
    <2>4. ASSUME NEW k \in Sessions,
                 \/ StartUpload(k) \/ StartRecovery(k) \/ CommitUpload(k)
                 \/ FetchNonce(k) \/ AskProgress(k) \/ SkipChunk(k)
                 \/ SendChunk(k) \/ Answered(k) \/ Finish(k) \/ LoseAnswer(k)
                 \/ PauseUpload(k) \/ ResumeUpload(k) \/ AdmitChunk(k)
                 \/ RecordChunk(k) \/ CountChunks(k) \/ MarkComplete(k)
                 \/ RequestFails(k)
          PROVE  UNCHANGED disk
        BY <2>4 DEF StartUpload, StartRecovery, CommitUpload, FetchNonce,
                    AskProgress, SkipChunk, SendChunk, Answered, Finish,
                    LoseAnswer, PauseUpload, ResumeUpload, AdmitChunk,
                    RecordChunk, CountChunks, MarkComplete, RequestFails, rowVars
    <2>5. ASSUME \/ \E e \in FileIds : DeleteFile(e) \/ RestoreFile(e)
                 \/ HoursPass \/ MonthPasses \/ UNCHANGED vars
          PROVE  UNCHANGED disk
        BY <2>5 DEF DeleteFile, RestoreFile, HoursPass, MonthPasses, vars, rowVars
    <2>. QED
        BY <1>2, <2>1, <2>2, <2>3, <2>4, <2>5
           DEF Next, SessionSteps, RequestSteps
<1>3. CASE disk'[f] # disk[f] /\ disk'[f] # Absent
    <2>1. PICK k \in Sessions : WriteChunk(k) /\ Owner(k, f)
        BY <1>3, WhoWrites
    <2>2. target[k] = f /\ next[k] \in Chunks /\ nonce[k] # Hole
        BY <2>1 DEF WriteChunk, At, Owner, IInv, TypeOK, Aimed, Asked
    <2>3. Opened(f) = disk[f] /\ disk[f] \in [Chunks -> Sessions \cup {Hole}]
        BY DEF Has, Opened, IInv, TypeOK
    <2>4. disk'[f] \in {disk[f], [disk[f] EXCEPT ![next[k]] = nonce[k]]}
        BY <2>1, <2>2, <2>3 DEF WriteChunk, IInv, TypeOK
    <2>5. disk'[f][c] \in {disk[f][c], nonce[k]}
        BY <2>2, <2>3, <2>4
    <2>. QED
        BY <1>3, <2>2, <2>5 DEF Has
<1>. QED
    BY <1>1, <1>2, <1>3

\* A request that is to record its chunk was so before, or has just written.
LEMMA WhoRecords ==
    ASSUME IInv, [Next]_vars, NEW k \in Sessions, request'[k] = "recording",
           ~WriteChunk(k)
    PROVE  request[k] = "recording" /\ target'[k] = target[k] /\ next'[k] = next[k]
<1>1. ASSUME NEW l \in Sessions,
             \/ AdmitChunk(l) \/ WriteChunk(l) \/ RecordChunk(l)
             \/ CountChunks(l) \/ MarkComplete(l) \/ RequestFails(l)
      PROVE  request'[k] = request[k] /\ UNCHANGED <<target, next>>
    <2>1. UNCHANGED <<target, next>>
        BY <1>1 DEF AdmitChunk, WriteChunk, RecordChunk, CountChunks,
                    MarkComplete, RequestFails, sessionVars
    <2>2. CASE WriteChunk(l)
        BY <2>1, <2>2 DEF WriteChunk, At, IInv, TypeOK
    <2>3. CASE \/ AdmitChunk(l) \/ RecordChunk(l) \/ CountChunks(l)
               \/ MarkComplete(l) \/ RequestFails(l)
        <3>1. \E to : to # "recording" /\ request' = [request EXCEPT ![l] = to]
            BY <2>3 DEF AdmitChunk, RecordChunk, CountChunks, MarkComplete,
                        RequestFails, At
        <3>. QED
            BY <2>1, <3>1 DEF IInv, TypeOK
    <2>. QED
        BY <1>1, <2>2, <2>3
<1>2. ASSUME request[k] = "recording", NEW l \in Sessions,
             \/ StartUpload(l) \/ StartRecovery(l) \/ CommitUpload(l)
             \/ FetchNonce(l) \/ AskProgress(l) \/ SkipChunk(l) \/ SendChunk(l)
             \/ Answered(l) \/ Finish(l) \/ LoseAnswer(l) \/ PauseUpload(l)
             \/ ResumeUpload(l)
      PROVE  target'[k] = target[k] /\ next'[k] = next[k]
    <2>1. at[k] \in {"waiting", "failed"}
        BY <1>2 DEF IInv, Asked
    <2>2. CASE l = k
        BY <1>2, <2>1, <2>2
           DEF StartUpload, StartRecovery, CommitUpload, FetchNonce,
               AskProgress, SkipChunk, SendChunk, Answered, Finish, LoseAnswer,
               PauseUpload, ResumeUpload, Moves
    <2>3. CASE l # k
        BY <1>2, <2>3
           DEF StartUpload, StartRecovery, CommitUpload, FetchNonce,
               AskProgress, SkipChunk, SendChunk, Answered, Finish, LoseAnswer,
               PauseUpload, ResumeUpload, Moves, IInv, TypeOK
    <2>. QED
        BY <2>2, <2>3
<1>3. ASSUME NEW l \in Sessions,
             \/ StartUpload(l) \/ StartRecovery(l) \/ CommitUpload(l)
             \/ FetchNonce(l) \/ AskProgress(l) \/ SkipChunk(l) \/ SendChunk(l)
             \/ Answered(l) \/ Finish(l) \/ LoseAnswer(l) \/ PauseUpload(l)
             \/ ResumeUpload(l)
      PROVE  request[k] = "recording"
    <2>1. \/ UNCHANGED request
          \/ \E to \in {"sent", "none"} : request' = [request EXCEPT ![l] = to]
        BY <1>3 DEF StartUpload, StartRecovery, CommitUpload, FetchNonce,
                    AskProgress, SkipChunk, SendChunk, Answered, Finish,
                    LoseAnswer, PauseUpload, ResumeUpload
    <2>. QED
        BY <2>1 DEF IInv, TypeOK
<1>4. ASSUME \/ \E e \in FileIds : DeleteFile(e) \/ RestoreFile(e)
                                     \/ HardDelete(e) \/ HardDeleteAborts(e)
             \/ \E g \in Collectors : CollectorSteps(g)
             \/ HoursPass \/ MonthPasses \/ UNCHANGED vars
      PROVE  UNCHANGED <<target, next, request>>
    BY <1>4 DEF DeleteFile, RestoreFile, HardDelete, HardDeleteAborts,
                CollectorSteps, CollectorReads, CollectorErases,
                CollectorCommits, CollectorSweeps, HoursPass, MonthPasses,
                vars, sessionVars
<1>. QED
    BY <1>1, <1>2, <1>3, <1>4 DEF Next, SessionSteps, RequestSteps

LEMMA WrittenStep ==
    ASSUME IInv, UnbornUnsaved, Written, [Next]_vars, Collectors = {},
           Faults \cap {"disk", "delete"} = {}
    PROVE  Written'
<1>. USE UploadAssumption
<1>1. ASSUME NEW f \in FileIds, f \in Rows', NEW c \in saved'[f]
      PROVE  Has(f, c)'
    <2>1. f \in Rows
        <3>1. ASSUME rows[f] = Unborn PROVE FALSE
            BY <1>1, <3>1, WhoSaves DEF UnbornUnsaved, Rows
        <3>. QED
            BY <1>1, <3>1, RowsBefore
    <2>2. saved[f] \subseteq Chunks
        BY DEF IInv, TypeOK
    <2>3. CASE c \in saved[f]
        BY <1>1, <2>1, <2>2, <2>3, ChunkStays DEF Written
    <2>4. CASE c \notin saved[f]
        <3>1. PICK k \in Sessions : RecordChunk(k) /\ target[k] = f /\ c = next[k]
            BY <1>1, <2>4, WhoSaves
        <3>2. request[k] = "recording" /\ c \in Chunks
            BY <3>1 DEF RecordChunk, At, IInv, Asked
        <3>. QED
            BY <1>1, <2>1, <3>1, <3>2, ChunkStays DEF Written
    <2>. QED
        BY <2>3, <2>4
<1>2. ASSUME NEW k \in Sessions, request'[k] = "recording", target'[k] \in Rows'
      PROVE  Has(target[k], next[k])'
    <2>1. CASE WriteChunk(k)
        <3>1. /\ target[k] \in FileIds /\ next[k] \in Chunks
              /\ nonce[k] \in Sessions
            BY <2>1 DEF WriteChunk, At, IInv, TypeOK, Aimed, Asked
        <3>2. Opened(target[k]) \in [Chunks -> Sessions \cup {Hole}]
            BY <3>1 DEF Opened, IInv, TypeOK
        <3>3. disk'[target[k]] = [Opened(target[k]) EXCEPT ![next[k]] = nonce[k]]
            BY <2>1, <3>1 DEF WriteChunk, IInv, TypeOK
        <3>4. disk'[target[k]] \in [Chunks -> Sessions \cup {Hole}]
            BY <3>1, <3>2, <3>3
        <3>5. disk'[target[k]][next[k]] = nonce[k]
            BY <3>1, <3>2, <3>3
        <3>6. UNCHANGED <<target, next>>
            BY <2>1 DEF WriteChunk, sessionVars
        <3>. QED
            BY <3>1, <3>4, <3>5, <3>6 DEF Has
    <2>2. CASE ~WriteChunk(k)
        <3>1. request[k] = "recording" /\ target'[k] = target[k] /\ next'[k] = next[k]
            BY <1>2, <2>2, WhoRecords
        <3>2. target[k] \in FileIds /\ rows[target[k]] # Unborn /\ next[k] \in Chunks
            BY <3>1 DEF IInv, Aimed, Asked
        <3>3. target[k] \in Rows /\ target[k] \in Rows'
            BY <1>2, <3>1, <3>2, RowsBefore
        <3>4. Has(target[k], next[k])
            BY <3>1, <3>3 DEF Written
        <3>5. ASSUME NEW f, NEW c, f = target[k], c = next[k] PROVE Has(f, c)'
            BY <3>2, <3>3, <3>4, <3>5, ChunkStays
        <3>. QED
            BY <3>1, <3>5 DEF Has
    <2>. QED
        BY <2>1, <2>2
<1>. QED
    BY <1>1, <1>2 DEF Written, Rows

\* What is complete is stored: a download of it finds every chunk, as long as
\* no write fails unseen, no hard deletion rolls back and no collector runs,
\* whatever else fails, waits, is repeated, replaced, trashed or restored.
THEOREM CompleteIsStored ==
    Collectors = {} /\ Faults \cap {"disk", "delete"} = {}
        => (Spec => []CompleteMeansStored)
<1>. SUFFICES ASSUME Collectors = {}, Faults \cap {"disk", "delete"} = {}
              PROVE  Spec => []CompleteMeansStored
    OBVIOUS
<1>1. Init => UnbornUnsaved /\ Written
    BY DEF Init, UnbornUnsaved, Written, Rows
<1>2. IInv /\ UnbornUnsaved /\ Written /\ [Next]_vars
          => (UnbornUnsaved /\ Written)'
    BY WrittenStep, UnsavedStep
<1>3. IInv /\ Written => CompleteMeansStored
    <2>. SUFFICES ASSUME IInv, Written, NEW f \in Live \cap Complete
                  PROVE  Stored(f)
        BY DEF CompleteMeansStored
    <2>1. f \in Rows /\ \A c \in Chunks : Has(f, c)
        BY DEF IInv, CompleteMeansRecorded, Written, Complete
    <2>2. 0 \in Chunks
        BY Markers DEF Chunks
    <2>. QED
        BY <2>1, <2>2 DEF Has, Stored
<1>. QED
    BY <1>1, <1>2, <1>3, Initially, Inductive, PTL DEF Spec
=============================================================================
