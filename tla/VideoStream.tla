---------------------------- MODULE VideoStream ----------------------------
(***************************************************************************)
(* VideoStreamService with its two workers, and the player that uses it: a *)
(* video is fetched in encrypted chunks, decrypted, transmuxed and appended *)
(* to a SourceBuffer, some way ahead of the playhead.                      *)
(*                                                                         *)
(* A call of initializeStream begins a stream. Some loads of a stream are  *)
(* fetched at a time; what follows a fetch is done in the order of the     *)
(* loads (processLock). A seek out of the buffer begins a new generation,  *)
(* and only a load that is appending goes on then. Steps are events:       *)
(* answers of the network and of workers, the end of an append or of a     *)
(* removal, timers, and what the user does.                                *)
(*                                                                         *)
(* Time is counted in chunks: chunk c plays from c to c + 1. Left out: the *)
(* bytes of boxes and segments, tracks, volume, speed and layout.          *)
(***************************************************************************)
EXTENDS Integers, Sequences, FiniteSetsExt

CONSTANTS Chunks,     \* totalChunks of the video
          Layouts,    \* whether the moov box is in chunk 0, or else in the last
          PerLoad,    \* chunks per request: 3 at Google, 1 here
          Slots,      \* requests at a time
          Ahead,      \* BUFFER_AHEAD_SECONDS
          Behind,     \* GC_BEHIND_SECONDS
          Segments,   \* segments that a chunk is transmuxed to
          Room,       \* chunks that the SourceBuffer has room for
          Faults,     \* what may fail: "request", "append"
          MaxStreams, \* bound: calls of initializeStream
          MaxSeeks    \* bound: seeks

ASSUME VideoAssumption ==
    /\ {Chunks, PerLoad, Slots, Ahead, Segments, Room} \subseteq Nat \ {0}
    /\ {Behind, MaxStreams, MaxSeeks} \subseteq Nat
    /\ Layouts \subseteq BOOLEAN /\ Faults \subseteq {"request", "append"}

Streams == 1..MaxStreams

NoStream == 0

Times == 0..Chunks

\* A stream that resumes begins with a seek.
Generations == 0..(MaxSeeks + 1)

VARIABLES stream,    \* what each call of initializeStream has made
          state,     \* VideoStreamService.state: a stream, or none
          isStreaming, isSeeking, error,
          player,    \* the open player, by the first stream it began, or none
          initial,   \* isInitialLoad of the player
          playing,   \* isPlaying of the player
          begun,     \* calls of initializeStream so far
          seeks,     \* seeks so far
          upset      \* history: what has happened that the promises exclude

service == <<state, isStreaming, isSeeking, error>>
user == <<player, initial, playing, begun, seeks>>
vars == <<stream, service, user, upset>>

NoClear == [at |-> "no", to |-> 0]

Idle == [by |-> "none", gen |-> 0]

Fresh == [at |-> "no", for |-> NoStream, from |-> 0, fast |-> TRUE,
          next |-> 0, active |-> 0, gen |-> 0, tasks |-> <<>>,
          clear |-> NoClear, timer |-> FALSE, op |-> Idle,
          buffered |-> {}, playhead |-> 0, ended |-> FALSE, workers |-> TRUE, fed |-> -1, mail |-> <<>>]

\* A task of the processLock: a load, of the chunks from todo to last, or an
\* eviction of what has been played.
TaskSteps == {"queue", "mux", "append", "wait", "full", "room", "evict"}

Tasks == [kind : {"load", "evict"}, gen : Generations, todo : Times, last : Times,
          seg : 0..Segments, at : TaskSteps]

TypeOK ==
    /\ \A s \in Streams :
         LET r == stream[s]
         IN  /\ r.at \in {"no", "header", "open", "first", "last", "mux", "ready",
                          "gone", "failed"}
             /\ r.for \in Streams \cup {NoStream} /\ r.from \in Times
             /\ r.next \in Times /\ r.active \in 0..Slots /\ r.gen \in Generations
             /\ r.tasks \in Seq(Tasks)
             /\ r.clear \in [at : {"no", "idle", "behind", "ahead", "sync"}, to : Times]
             /\ r.op \in [by : {"none", "load", "evict", "room", "clear"},
                          gen : Generations]
             /\ r.buffered \subseteq 0..(Chunks - 1) /\ r.playhead \in Times
             /\ {r.ended, r.workers, r.timer, r.fast} \subseteq BOOLEAN
             /\ r.fed \in -1..(Chunks - 1)
    /\ {state, player} \subseteq Streams \cup {NoStream}
    /\ {isStreaming, isSeeking, initial, playing} \subseteq BOOLEAN
    /\ error \in {"no", "locked", "aborted", "failed", "busy"}
    /\ begun \in 0..MaxStreams /\ seeks \in 0..MaxSeeks
    /\ upset \subseteq {"failed", "gap", "early", "late", "overlap"}

Init ==
    /\ stream = [s \in Streams |-> Fresh]
    /\ state = NoStream /\ player = NoStream
    /\ isStreaming = FALSE /\ isSeeking = FALSE /\ error = "no"
    /\ initial = TRUE /\ playing = FALSE /\ begun = 0 /\ seeks = 0 /\ upset = {}

Live(r) == r.at \notin {"no", "gone", "failed"}

(***************************************************************************)
(* The loads of a stream r.                                                *)
(***************************************************************************)
\* Where what is buffered from the playhead on without a gap ends.
BufferedTo(r) == Min({c \in r.playhead..Chunks : c \notin r.buffered})

NewLoad(r) ==
    [kind |-> "load", gen |-> r.gen, todo |-> r.next,
     last |-> Min({r.next + PerLoad, Chunks}) - 1, seg |-> 0, at |-> "queue"]

ScheduleNextChunk(r) ==
    IF r.active < Slots /\ r.next < Chunks
    THEN [r EXCEPT !.tasks = Append(@, NewLoad(r)), !.active = @ + 1,
                   !.next = Min({@ + PerLoad, Chunks})]
    ELSE r

\* The loop of onTimeupdateTick: what is buffered does not change in it.
SchedulesAhead(r) ==
    LET f[n \in 0..Slots] == IF n = 0 THEN r ELSE ScheduleNextChunk(f[n - 1])
    IN  IF BufferedTo(r) - r.playhead < Ahead THEN f[Slots] ELSE r

Stale(r) == {c \in r.buffered : c < r.playhead - Behind}

Eviction(r) ==
    [kind |-> "evict", gen |-> r.gen, todo |-> r.playhead, last |-> 0, seg |-> 0,
     at |-> "queue"]

\* Bound: an eviction that would find nothing, or that is waiting, is left out.
Evicts(r) ==
    IF Stale(r) # {} /\ \A i \in DOMAIN r.tasks : r.tasks[i].kind # "evict"
    THEN [r EXCEPT !.tasks = Append(@, Eviction(r))] ELSE r

\* onTimeupdateTick.
Ticks(r, seeking) ==
    IF seeking \/ r.active >= Slots \/ r.next >= Chunks THEN r
    ELSE Evicts(SchedulesAhead(r))

\* The tasks at the places in kept, in their order.
Kept(tasks, kept) ==
    LET f[n \in 0..Len(tasks)] == IF n = 0 THEN <<>>
                                  ELSE IF n \in kept THEN Append(f[n - 1], tasks[n])
                                  ELSE f[n - 1]
    IN  f[Len(tasks)]

Drops(r, gone) ==
    LET mine == {i \in gone : r.tasks[i].kind = "load" /\ r.tasks[i].gen = r.gen}
    IN  [r EXCEPT !.tasks = Kept(@, DOMAIN @ \ gone),
                  !.active = @ - Cardinality(mine)]

\* Mutant of Turn: the loads go on as they come.
TurnOfEach(r, i) == i \in DOMAIN r.tasks /\ r.tasks[i].gen = r.gen

\* The task whose turn it is.
Turn(r, i) ==
    /\ i \in DOMAIN r.tasks
    /\ r.tasks[i].gen = r.gen
    /\ \A j \in 1..(i - 1) : r.tasks[j].gen # r.gen

\* The load is done: the end of the stream is signalled, or the next load begun.
LoadEnds(r, i, seeking) ==
    LET d == Drops(r, {i})
    IN  IF r.tasks[i].gen # r.gen THEN d
        ELSE Ticks([d EXCEPT !.ended = @ \/ (d.next >= Chunks /\ d.active = 0)],
                   seeking)

(***************************************************************************)
(* The SourceBuffer of a stream r.                                         *)
(***************************************************************************)
Full(r, c) == c \notin r.buffered /\ Cardinality(r.buffered) >= Room

\* removeRangeRaw of what is behind the playhead, to make room for task i.
Played(r) == {c \in r.buffered : c < r.playhead}

MakesRoom(r, i) ==
    IF Played(r) = {} THEN [r EXCEPT !.tasks[i].at = "full"]
    ELSE IF r.op # Idle THEN [r EXCEPT !.tasks[i].at = "room"]
    ELSE [r EXCEPT !.tasks[i].at = "room", !.ended = FALSE,
                   !.op = [by |-> "room", gen |-> r.tasks[i].gen]]

\* appendToSourceBuffer for the next segment of task i.
Appends(r, i) ==
    IF r.op # Idle THEN [r EXCEPT !.tasks[i].at = "wait"]
    ELSE IF Full(r, r.tasks[i].todo) THEN MakesRoom(r, i)
    ELSE [r EXCEPT !.tasks[i].at = "append", !.ended = FALSE,
                   !.op = [by |-> "load", gen |-> r.tasks[i].gen]]

\* A segment of task i has been appended.
Appended(r, i, seeking) ==
    LET t == r.tasks[i]
        a == [r EXCEPT !.op = Idle]
    IN  IF t.seg + 1 < Segments
        THEN Appends([a EXCEPT !.tasks[i].seg = @ + 1], i)
        ELSE LET b == [a EXCEPT !.buffered = @ \cup {t.todo}]
             IN  IF t.todo = t.last \/ t.gen # r.gen THEN LoadEnds(b, i, seeking)
                 ELSE [b EXCEPT !.tasks[i] = [t EXCEPT !.todo = @ + 1, !.seg = 0,
                                                       !.at = "queue"]]

Syncs(r) ==
    [r EXCEPT !.clear.at = "sync",
              !.mail = Append(@, [type |-> "SEEK", to |-> r.clear.to, gen |-> r.gen])]

\* removeRange does nothing while the buffer is updating, or after the end.
MayRemove(r) == r.op = Idle /\ ~r.ended

RemovesAhead(r) ==
    IF MayRemove(r) /\ \E c \in r.buffered : c >= r.clear.to
    THEN [r EXCEPT !.clear.at = "ahead", !.op = [by |-> "clear", gen |-> r.gen]]
    ELSE Syncs(r)

\* clearAndResume, once the buffer has been idle.
RemovesBehind(r) ==
    IF MayRemove(r) /\ \E c \in r.buffered : c < r.clear.to - Behind
    THEN [r EXCEPT !.clear.at = "behind", !.op = [by |-> "clear", gen |-> r.gen]]
    ELSE RemovesAhead(r)

\* A removal of clearAndResume has ended; a newer seek has its own.
Cleared(r) ==
    LET a == [r EXCEPT !.op = Idle]
    IN  IF r.op.gen # r.gen THEN a
        ELSE IF r.clear.at = "behind"
        THEN RemovesAhead([a EXCEPT !.buffered = {c \in @ : c >= r.clear.to - Behind}])
        ELSE Syncs([a EXCEPT !.buffered = {c \in @ : c < r.clear.to}])

\* The task for which the SourceBuffer is at work.
Owner(r) ==
    CHOOSE i \in DOMAIN r.tasks :
        /\ r.tasks[i].gen = r.op.gen
        /\ r.tasks[i].at = CASE r.op.by = "load"  -> "append"
                             [] r.op.by = "room"  -> "room"
                             [] r.op.by = "evict" -> "evict"

\* updateend: whoever began the update goes on at once.
Updated(r, seeking) ==
    LET i == Owner(r)
    IN  CASE r.op.by = "load"  -> Appended(r, i, seeking)
          [] r.op.by = "room"  -> Appends([r EXCEPT !.op = Idle,
                                             !.buffered = @ \ Played(r)], i)
          [] r.op.by = "evict" -> Drops([r EXCEPT !.op = Idle,
                                           !.buffered = {c \in @ : c >= r.tasks[i].todo - Behind}],
                                        {i})
          [] r.op.by = "clear" -> Cleared(r)

\* Then those that have waited for it: a clearAndResume, the loads. What they
\* append while the buffer is updating again is an error.
Waiting(r) == {i \in DOMAIN r.tasks : r.tasks[i].at = "wait"}

Released(r) == IF r.clear.at = "idle" THEN RemovesBehind(r) ELSE r

(***************************************************************************)
(* Beginning and ending a stream.                                          *)
(***************************************************************************)
Fetching(r) == r.at \in {"first", "last"}

Destroyed == IF state = NoStream THEN stream
             ELSE [stream EXCEPT ![state] = [Fresh EXCEPT !.at = "gone"]]

\* A fetch of the bootstrap that is aborted makes initializeStream fail, before
\* anything else happens.
AbortShows == state # NoStream /\ Fetching(stream[state])

Overlaps ==
    upset' = upset \cup (IF \E s \in Streams \ {state} : Live(stream[s])
                         THEN {"overlap"} ELSE {})

\* initializeStream for player p up to its first await; there is no stream if
\* the vault is locked, or the file has no key.
Begins(p, from) ==
    /\ begun < MaxStreams /\ begun' = begun + 1
    /\ state' = NoStream /\ isSeeking' = FALSE /\ playing' = FALSE
    /\ Overlaps
    /\ \/ /\ stream' = [Destroyed EXCEPT ![begun'] =
                         [Fresh EXCEPT !.at = "header", !.for = p, !.from = from]]
          /\ isStreaming' = ~AbortShows
          /\ error' = IF AbortShows THEN "aborted" ELSE "no"
       \/ /\ stream' = Destroyed /\ isStreaming' = FALSE
          /\ error' = IF AbortShows THEN "aborted" ELSE "locked"

Open ==
    /\ player = NoStream
    /\ Begins(begun + 1, 0)
    /\ player' = begun + 1 /\ initial' = TRUE
    /\ UNCHANGED seeks

\* "Tentar Novamente".
RetryPlayback ==
    /\ player # NoStream /\ error # "no"
    /\ Begins(player, 0)
    /\ UNCHANGED <<player, initial, seeks>>

\* ngOnDestroy.
DestroyStream ==
    /\ player # NoStream /\ player' = NoStream
    /\ stream' = Destroyed /\ state' = NoStream /\ playing' = FALSE
    /\ error' = IF AbortShows THEN "aborted" ELSE error
    /\ isSeeking' = (isSeeking /\ state = NoStream)
    /\ isStreaming' = (isStreaming /\ state = NoStream)
    /\ Overlaps
    /\ UNCHANGED <<initial, begun, seeks>>

\* The header, after the key of the file and, at Google, the address.
HeaderRead(s) ==
    /\ stream[s].at = "header"
    /\ stream' = [stream EXCEPT ![s].at = "open"]
    /\ UNCHANGED <<service, user, upset>>

\* Whatever the service has meanwhile is replaced.
SourceOpened(s) ==
    /\ stream[s].at = "open"
    /\ stream' = [stream EXCEPT ![s].at = "first"]
    /\ state' = s
    /\ UNCHANGED <<isStreaming, isSeeking, error, user, upset>>

\* bootstrapLastChunk: chunk 0 has been read, and shows the layout.
FirstRead(s) ==
    /\ stream[s].at = "first" /\ stream[s].workers
    /\ \E fastStart \in Layouts :
          stream' = [stream EXCEPT ![s].at = IF fastStart THEN "mux" ELSE "last",
                                   ![s].fast = fastStart]
    /\ UNCHANGED <<service, user, upset>>

LastRead(s) ==
    /\ stream[s].at = "last" /\ stream[s].workers
    /\ stream' = [stream EXCEPT ![s].at = "mux"]
    /\ UNCHANGED <<service, user, upset>>

\* The catch of initializeStream ends the workers of whatever stream the
\* service has.
InitializeFails(s) ==
    /\ "request" \in Faults
    /\ stream[s].at \in {"header", "first", "last", "mux"}
    /\ stream' = [t \in Streams |->
                    IF t = s THEN [Fresh EXCEPT !.at = "failed"]
                    ELSE IF t = state THEN [stream[t] EXCEPT !.workers = FALSE]
                    ELSE stream[t]]
    /\ error' = "failed" /\ isStreaming' = FALSE
    /\ upset' = upset \cup {"failed"}
    /\ UNCHANGED <<state, isSeeking, user>>

\* What the segments made during the bootstrap bring to the buffer.
Prefetched(r) == IF r.fast THEN {0} ELSE {}

\* BOOTSTRAP: the transmuxer has been given chunk 0 if the moov box is in it.
Bootstrap(r) ==
    IF r.fast THEN [r EXCEPT !.fed = 0, !.buffered = Prefetched(r), !.next = 1]
    ELSE [r EXCEPT !.next = 0]

\* The init segments, the segments of chunk 0, the listeners; then the first
\* load, or a seek that resumes the playback.
Bootstrapped(s) ==
    LET r == Bootstrap([stream[s] EXCEPT !.at = "ready"])
        resumes == r.from > 0
    IN  /\ stream[s].at = "mux" /\ r.workers
        /\ stream' = [stream EXCEPT ![s] =
                        IF resumes THEN [r EXCEPT !.playhead = r.from, !.timer = TRUE]
                        ELSE ScheduleNextChunk(r)]
        /\ isSeeking' = (isSeeking \/ resumes)
        /\ UNCHANGED <<state, isStreaming, error, user, upset>>

(***************************************************************************)
(* Loading.                                                                *)
(***************************************************************************)
\* The next chunk of a load whose turn it is has been fetched and decrypted.
Decrypted(s, i) ==
    LET r == stream[s]
    IN  /\ Turn(r, i) /\ r.tasks[i].kind = "load" /\ r.tasks[i].at = "queue"
        /\ r.workers
        /\ stream' = [stream EXCEPT ![s].tasks[i].at = "mux",
                        ![s].mail = Append(@, [type |-> "CHUNK",
                                               to |-> r.tasks[i].todo, gen |-> r.gen])]
        /\ UNCHANGED <<service, user, upset>>

\* The request or a worker has failed: its chunks are not asked for again.
LoadFails(s, i) ==
    LET r == stream[s]
    IN  /\ "request" \in Faults
        /\ Turn(r, i) /\ r.tasks[i].kind = "load" /\ r.tasks[i].at = "queue"
        /\ stream' = [stream EXCEPT ![s] = Drops(r, {i})]
        /\ error' = "failed"
        /\ upset' = upset \cup {"failed"}
        /\ UNCHANGED <<state, isStreaming, isSeeking, user>>

\* The loads that wait for chunk c: they know it by its number only.
Listening(r, c) ==
    {i \in DOMAIN r.tasks : r.tasks[i].at = "mux" /\ r.tasks[i].todo = c}

\* The transmuxer answers with the segments of a chunk.
ChunkTransmuxed(s) ==
    LET r == stream[s]
        c == Head(r.mail).to
        a == [r EXCEPT !.mail = Tail(@), !.fed = c]
        listeners == Listening(r, c)
    IN  /\ r.mail # <<>> /\ Head(r.mail).type = "CHUNK" /\ r.workers
        /\ stream' = [stream EXCEPT ![s] =
                        IF listeners = {} THEN a
                        ELSE Appends(a, CHOOSE i \in listeners : TRUE)]
        /\ UNCHANGED <<service, user, upset>>

\* Mutant of SeekAnswered: any answer will do.
SeekAnsweredStale(s) ==
    LET r == stream[s]
        to == Head(r.mail).to
        a == [r EXCEPT !.mail = Tail(@), !.fed = to - 1]
    IN  /\ r.mail # <<>> /\ Head(r.mail).type = "SEEK" /\ r.workers
        /\ stream' = [stream EXCEPT ![s] =
              ScheduleNextChunk([a EXCEPT !.clear = NoClear, !.next = Min({to, Chunks - 1})])]
        /\ isSeeking' = FALSE
        /\ UNCHANGED <<state, isStreaming, error, user, upset>>

\* SEEK: a new mp4box file; clearAndResume goes on if it is still wanted.
SeekAnswered(s) ==
    LET r == stream[s]
        to == Head(r.mail).to
        a == [r EXCEPT !.mail = Tail(@), !.fed = to - 1]
    IN  /\ r.mail # <<>> /\ Head(r.mail).type = "SEEK" /\ r.workers
        /\ IF Head(r.mail).gen # r.gen
           THEN stream' = [stream EXCEPT ![s] = a] /\ UNCHANGED isSeeking
           ELSE /\ stream' = [stream EXCEPT ![s] =
                     ScheduleNextChunk([a EXCEPT !.clear = NoClear,
                                                 !.next = Min({to, Chunks - 1})])]
                /\ isSeeking' = FALSE
        /\ UNCHANGED <<state, isStreaming, error, user, upset>>

\* An append or a removal has ended.
UpdateEnds(s) ==
    LET r == stream[s]
        a == Released(Updated(r, isSeeking))
        mine(W) == \E i \in W : a.tasks[i].gen = a.gen
    IN  /\ r.op # Idle
        /\ \E first \in IF a.op = Idle /\ Waiting(a) # {} THEN Waiting(a) ELSE {0} :
             LET lost == Waiting(a) \ {first}
                 b == IF first = 0 THEN a ELSE Appends(a, first)
             IN  /\ stream' = [stream EXCEPT ![s] = Drops(b, lost)]
                 /\ error' = IF mine(lost) THEN "busy" ELSE error
                 /\ upset' = upset \cup (IF mine(lost) THEN {"failed"} ELSE {})
        /\ isStreaming' = (isStreaming /\ (r.ended \/ ~a.ended))
        /\ UNCHANGED <<state, isSeeking, user>>

\* 'Erro no appendBuffer.': the stream begins again one second later.
AppendFails(s) ==
    LET r == stream[s]
    IN  /\ "append" \in Faults
        /\ r.op.by = "load" /\ r.op.gen = r.gen
        /\ s = state /\ r.for = player
        /\ Begins(player, Min({r.playhead + 1, Chunks}))
        /\ UNCHANGED <<player, initial, seeks>>

\* Every 500 ms: there is something to evict by now.
RoomFound(s, i) ==
    LET r == stream[s]
    IN  /\ i \in DOMAIN r.tasks /\ r.tasks[i].at \in {"full", "room"}
        /\ r.op = Idle
        /\ IF r.tasks[i].at = "full" THEN Played(r) # {} ELSE TRUE
        /\ stream' = [stream EXCEPT ![s] = IF Played(r) = {} THEN Appends(r, i)
                                           ELSE MakesRoom(r, i)]
        /\ UNCHANGED <<service, user, upset>>

\* evictStaleRanges, in its turn.
EvictStaleRanges(s, i) ==
    LET r == stream[s]
    IN  /\ Turn(r, i) /\ r.tasks[i].kind = "evict" /\ r.tasks[i].at = "queue"
        /\ stream' = [stream EXCEPT ![s] =
             IF MayRemove(r) /\ \E c \in r.buffered : c < r.tasks[i].todo - Behind
             THEN [r EXCEPT !.tasks[i].at = "evict",
                            !.op = [by |-> "evict", gen |-> r.gen]]
             ELSE Drops(r, {i})]
        /\ UNCHANGED <<service, user, upset>>

(***************************************************************************)
(* Playing and seeking. The events of the video reach the stream that is   *)
(* attached to it.                                                         *)
(***************************************************************************)
Attached(s) ==
    player # NoStream /\ s = state /\ stream[s].at = "ready" /\ stream[s].for = player

\* The interval of ngAfterViewInit, or the one of a stream that resumes.
FirstPlay(s) ==
    /\ Attached(s) /\ ~playing /\ stream[s].playhead \in stream[s].buffered
    /\ initial \/ (stream[s].from > 0 /\ stream[s].playhead = stream[s].from)
    /\ playing' = TRUE /\ initial' = FALSE
    /\ UNCHANGED <<stream, service, player, begun, seeks, upset>>

\* Space, K, or a click; the keys act before the controls are shown.
TogglePlay(s) ==
    /\ Attached(s)
    /\ playing' = ~playing
    /\ UNCHANGED <<stream, service, player, initial, begun, seeks, upset>>

\* The playhead moves on; timeupdate.
Plays(s) ==
    LET r == [stream[s] EXCEPT !.playhead = @ + 1]
    IN  /\ Attached(s) /\ playing
        /\ stream[s].playhead \in stream[s].buffered
        /\ stream' = [stream EXCEPT ![s] = Ticks(r, isSeeking)]
        /\ playing' = (r.playhead < Chunks)
        /\ UNCHANGED <<service, player, initial, begun, seeks, upset>>

\* A timeupdate without progress.
TimeUpdate(s) ==
    /\ Attached(s) /\ playing
    /\ stream' = [stream EXCEPT ![s] = Ticks(@, isSeeking)]
    /\ stream' # stream
    /\ UNCHANGED <<service, user, upset>>

\* The slider, the arrows, J and L.
SeekTo(s, t) ==
    /\ Attached(s)
    /\ seeks < MaxSeeks /\ seeks' = seeks + 1
    /\ t # stream[s].playhead /\ t < Chunks
    /\ stream' = [stream EXCEPT ![s].playhead = t, ![s].timer = TRUE]
    /\ isSeeking' = TRUE
    /\ UNCHANGED <<state, isStreaming, error, player, initial, playing, begun, upset>>

\* A seek is no longer waited for, while it is still being prepared.
Early(r) == IF r.clear.at = "no" THEN {} ELSE {"early"}

\* seeked: the video has the frame.
Seeked(s) ==
    /\ Attached(s) /\ isSeeking
    /\ stream[s].playhead \in stream[s].buffered
    /\ isSeeking' = FALSE
    /\ upset' = upset \cup Early(stream[s])
    /\ UNCHANGED <<stream, state, isStreaming, error, user>>

Asked(r) ==
    UNION {r.tasks[i].todo..r.tasks[i].last :
             i \in {j \in DOMAIN r.tasks : r.tasks[j].kind = "load"
                                           /\ r.tasks[j].gen = r.gen}}

\* The first chunk that will be missed is buffered, on its way, or to come.
WillCome(r) == BufferedTo(r) \in {Chunks} \cup Asked(r) \cup r.next..Chunks

\* An eviction that was decided on before the seek takes what is played next.
EvictsAhead(r) ==
    \E i \in DOMAIN r.tasks :
        r.tasks[i].kind = "evict" /\ r.tasks[i].todo - Behind > r.playhead

\* onSeek within the buffer: what is on its way goes on.
SeekWithin(s) ==
    LET r == [stream[s] EXCEPT !.timer = FALSE]
    IN  /\ Live(r) /\ stream[s].timer /\ r.playhead \in r.buffered
        /\ isSeeking' = FALSE
        /\ stream' = [stream EXCEPT ![s] = Ticks(r, FALSE)]
        /\ upset' = upset \cup (IF WillCome(r) /\ ~EvictsAhead(r) THEN {}
                              ELSE {"gap"})
                          \cup Early(r)
        /\ UNCHANGED <<state, isStreaming, error, user>>

\* A load that has begun to append does not look at the generation.
GoesOn(t) == t.at \in {"append", "wait", "full", "room", "evict"}

\* onSeek out of the buffer.
SeekOut(s) ==
    LET r == stream[s]
        a == [r EXCEPT !.tasks = Kept(@, {i \in DOMAIN @ : GoesOn(r.tasks[i])}),
                       !.gen = @ + 1, !.active = 0, !.timer = FALSE,
                       !.clear = [at |-> "idle", to |-> Min({r.playhead, Chunks - 1})]]
    IN  /\ Live(r) /\ r.timer /\ r.playhead \notin r.buffered
        /\ isSeeking' = TRUE
        /\ stream' = [stream EXCEPT ![s] = IF r.op = Idle THEN RemovesBehind(a) ELSE a]
        /\ upset' = upset \cup (IF \E i \in DOMAIN r.tasks : GoesOn(r.tasks[i])
                                THEN {"late"} ELSE {})
        /\ UNCHANGED <<state, isStreaming, error, user>>

(***************************************************************************)
(* The specification.                                                      *)
(***************************************************************************)
Works(s) ==
    \/ HeaderRead(s) \/ SourceOpened(s) \/ FirstRead(s) \/ LastRead(s)
    \/ Bootstrapped(s) \/ ChunkTransmuxed(s) \/ SeekAnswered(s) \/ UpdateEnds(s)
    \/ SeekWithin(s) \/ SeekOut(s)
    \/ \E i \in DOMAIN stream[s].tasks :
          Decrypted(s, i) \/ RoomFound(s, i) \/ EvictStaleRanges(s, i)

Watches(s) == FirstPlay(s) \/ Plays(s) \/ TimeUpdate(s) \/ Seeked(s)

Breaks(s) ==
    \/ InitializeFails(s) \/ AppendFails(s)
    \/ \E i \in DOMAIN stream[s].tasks : LoadFails(s, i)

Acts ==
    \/ Open \/ RetryPlayback \/ DestroyStream
    \/ \E s \in Streams : TogglePlay(s) \/ \E t \in Times : SeekTo(s, t)

\* Bound: nothing new is done after two streams have overlapped.
MayAct == "overlap" \notin upset

Next == (MayAct /\ Acts) \/ \E s \in Streams : Works(s) \/ Watches(s) \/ Breaks(s)

Spec == Init /\ [][Next]_vars

(***************************************************************************)
(* Properties.                                                             *)
(***************************************************************************)
\* The transmuxer gets the chunks in order, from where it has been set to, the
\* one that was asked for in an older generation included: a seek leaves it in
\* the mail, where it is still the one that comes next. Two exceptions: a load
\* has failed ("failed"), or a seek out of the buffer was no longer waited for
\* while it was being prepared ("early").
FedInOrder ==
    [][\A s \in Streams :
          LET r == stream[s]
          IN  /\ r.mail # <<>> /\ Live(stream'[s]) /\ stream'[s].mail = Tail(r.mail)
              /\ Head(r.mail).type = "CHUNK"
              /\ upset \cap {"failed", "early"} = {}
              => Head(r.mail).to = r.fed + 1]_vars

\* The video has what it plays next, or it is on its way, or yet to be asked
\* for; unless a load has failed, or a seek within the buffer found a gap ahead.
NothingSkipped ==
    \A s \in Streams :
        /\ stream[s].at = "ready" /\ ~stream[s].timer /\ stream[s].clear.at = "no"
        /\ upset \cap {"failed", "gap", "early", "overlap"} = {}
        => WillCome(stream[s])

\* No update of the buffer meets another, unless a seek has met an append, or a
\* seek within the buffer one out of it.
BufferNotBusy == error = "busy" => upset \cap {"late", "early"} # {}
=============================================================================
