------------------------------ MODULE Downloads ------------------------------
(***************************************************************************)
(* One download of DriveStore or of the page of a shared link: a file of   *)
(* the drive is fetched range by range, one at Google and one behind a     *)
(* link in a single request; the first two can be paused, resumed and      *)
(* cancelled in the transfer panel at any await.                           *)
(*                                                                         *)
(* Pausing and cancelling only set flags: a loop of requests ends when it  *)
(* looks at them. Resuming begins another loop on the same state, whether  *)
(* or not the old one has ended.                                           *)
(***************************************************************************)
EXTENDS KasumiFormat, Sequences

CONSTANTS Files,     \* the stored files: records of size, meta and kept
          Channels,  \* ways of fetching: "ranges", "google", "link"
          Loops,     \* the loops of one transfer: 1..k, the first is downloadFile's
          Faults     \* {"request"}: a request may fail; or {}

ASSUME DownloadsAssumption ==
    /\ \A f \in Files : /\ f = [size |-> f.size, meta |-> f.meta,
                                kept |-> f.kept]
                        /\ f.size \in Nat /\ f.meta \in Nat /\ f.kept \in Nat
    /\ Loops \in SUBSET Nat /\ 1 \in Loops

VARIABLES file,     \* the file that is downloaded
          channel,  \* and how
          status,   \* of the transfer; "gone" when it is off the list
          paused,   \* the transfer is in pausedTransfers
          held,     \* it is in activeDownloads
          state,    \* the record there, which the loops share
          loop,     \* [Loops -> what each loop waits for]
          saved,    \* the files handed to the browser
          overlap,  \* a loop was begun while another one ran
          failed    \* a request failed

vars == <<file, channel, status, paused, held, state, loop, saved, overlap,
          failed>>

Running(l) == loop[l].at \notin {"unborn", "ended"}

Waiting(at) == [at |-> at, start |-> 0, plain |-> 0]

\* Mutant of Fresh: chunks are counted from one.
FreshFromOne(offset) ==
    [index |-> 1, offset |-> offset, total |-> 0, pieces |-> <<>>]

\* The record that downloadFile puts into activeDownloads.
Fresh(offset) == [index |-> 0, offset |-> offset, total |-> 0, pieces |-> <<>>]

\* The chunks of the file, in order.
Content(f) == [i \in 1..Cardinality(ChunkIndices(f.size)) |-> i - 1]

Init ==
    /\ file \in Files /\ channel \in Channels
    /\ status = "none" /\ paused = FALSE /\ held = FALSE
    /\ state = Fresh(0)
    /\ loop = [l \in Loops |-> Waiting("unborn")]
    /\ saved = <<>> /\ overlap = FALSE /\ failed = FALSE

\* updateTransfer finds nothing when the transfer is off the list.
Updated(s) == IF status = "gone" THEN "gone" ELSE s

\* Mutant of Save: a transfer paused meanwhile stays so in the panel.
SavePaused(l, content) ==
    /\ saved' = Append(saved, content)
    /\ status' = IF status = "paused" THEN "paused" ELSE Updated("success")
    /\ held' = FALSE
    /\ loop' = [loop EXCEPT ![l] = Waiting("ended")]

\* The anchor is clicked, the transfer is done and forgotten.
Save(l, content) ==
    /\ saved' = Append(saved, content)
    /\ status' = Updated("success") /\ held' = FALSE
    /\ loop' = [loop EXCEPT ![l] = Waiting("ended")]

\* Mutant of Abandon: the exception is only logged.
AbandonQuiet(l) ==
    /\ loop' = [loop EXCEPT ![l] = Waiting("ended")]
    /\ UNCHANGED <<status, held>>

\* An exception ends the loop; only downloadFile's own forgets the transfer.
Abandon(l) ==
    /\ loop' = [loop EXCEPT ![l] = Waiting("ended")]
    /\ status' = Updated("error")
    /\ held' = IF l = 1 THEN FALSE ELSE held

\* The head of the loop of ranges: it ends, returns because of a pause, or
\* asks for the next range. p is the pause flag there, st the status and h
\* whether the transfer is in activeDownloads.
Proceed(l, s, p, st, h) ==
    IF s.total >= file.size THEN Save(l, s.pieces)
    ELSE IF p
    THEN /\ loop' = [loop EXCEPT ![l] = Waiting("ended")]
         /\ status' = Updated("paused") /\ held' = h /\ UNCHANGED saved
    ELSE /\ loop' = [loop EXCEPT ![l] =
                [at |-> "asked", start |-> s.offset,
                 plain |-> Shorter(ChunkSize, file.size - s.total)]]
         /\ status' = st /\ held' = h /\ UNCHANGED saved

-----------------------------------------------------------------------------
(* downloadFile, and the loop of ranges.                                   *)

\* The button. The key of the file, and the header or the metadata of the
\* external file, are awaited before the transfer is in activeDownloads.
DownloadFile ==
    /\ status = "none" /\ status' = "processing"
    /\ loop' = [loop EXCEPT ![1] =
           Waiting(IF channel = "link" THEN "asked" ELSE "preparing")]
    /\ UNCHANGED <<file, channel, paused, held, state, saved, overlap, failed>>

\* The first range is there: its header says where the chunks begin.
HeaderRead ==
    /\ loop[1].at = "preparing" /\ channel = "ranges"
    /\ IF ServedRange(file, 0, Window - 1) > 0 /\ HeaderReadable(file)
       THEN /\ state' = Fresh(DataOffset(file, Shorter(Window, file.kept)))
            /\ Proceed(1, state', paused, status, TRUE)
       ELSE Abandon(1) /\ UNCHANGED <<state, saved>>
    /\ UNCHANGED <<file, channel, paused, overlap, failed>>

\* The link of the external file is there; the whole file is asked for.
MetadataRead ==
    /\ loop[1].at = "preparing" /\ channel = "google"
    /\ held' = TRUE /\ loop' = [loop EXCEPT ![1] = Waiting("asked")]
    /\ UNCHANGED <<file, channel, status, paused, state, saved, overlap,
                   failed>>

\* The chunk whose bytes begin where the loop has asked.
Asked(l) == CHOOSE i \in ChunkIndices(file.size) : loop[l].start = Start(i, file)

\* Mutant of Opened: the index of the chunk is remembered from before the
\* request, as its range is.
OpenedBefore(l) ==
    \E i \in ChunkIndices(file.size) :
        Opens(file, loop[l].start, MacSize + loop[l].plain, i)

\* decryptFileChunk takes the index that the state has when the bytes are
\* there, while their range was chosen before they were asked for.
Opened(l) ==
    Opens(file, loop[l].start, MacSize + loop[l].plain, state.index)

\* The bytes of a range are there. They are decrypted, the state moves on and
\* the loop asks for the next. A range cut short, or one that does not open,
\* ends the loop. The await of arrayBuffer(), on a Blob that has arrived, is
\* taken together with the await of its request; decrypting awaits nothing that
\* has still to happen.
RangeRead(l) ==
    /\ loop[l].at = "asked" /\ channel = "ranges"
    /\ LET length == MacSize + loop[l].plain
           served == ServedRange(file, loop[l].start,
                                 loop[l].start + length - 1)
       IN  IF served >= length /\ Opened(l)
           THEN /\ state' = [index  |-> state.index + 1,
                             offset |-> state.offset + length,
                             total  |-> state.total + loop[l].plain,
                             pieces |-> Append(state.pieces, Asked(l))]
                /\ Proceed(l, state', paused, status, held)
           ELSE Abandon(l) /\ UNCHANGED <<state, saved>>
    /\ UNCHANGED <<file, channel, paused, overlap, failed>>

-----------------------------------------------------------------------------
(* A file in one request: at Google, and behind a link.                    *)

\* Only Google's download looks at the pause, and only here.
WholeRead(l) ==
    /\ loop[l].at = "asked" /\ channel \in {"google", "link"}
    /\ \/ /\ channel = "link" /\ ~ServedWhole(file)
          /\ Abandon(l)
       \/ /\ channel = "google" /\ paused
          /\ loop' = [loop EXCEPT ![l] = Waiting("ended")]
          /\ status' = Updated("paused") /\ UNCHANGED held
       \/ /\ IF channel = "link" THEN ServedWhole(file) ELSE ~paused
          /\ loop' = [loop EXCEPT ![l] = Waiting("decrypting")]
          /\ UNCHANGED <<status, held>>
    /\ UNCHANGED <<file, channel, paused, state, saved, overlap, failed>>

\* decryptFile ends, whatever the user did meanwhile.
WholeDecrypted(l) ==
    /\ loop[l].at = "decrypting"
    /\ IF DecryptFile(file) THEN Save(l, Content(file))
                            ELSE Abandon(l) /\ UNCHANGED saved
    /\ UNCHANGED <<file, channel, paused, state, overlap, failed>>

\* A request is refused or its connection is lost.
RequestFails(l) ==
    /\ loop[l].at \in {"preparing", "asked"} /\ "request" \in Faults
    /\ Abandon(l) /\ failed' = TRUE
    /\ UNCHANGED <<file, channel, paused, state, saved, overlap>>

-----------------------------------------------------------------------------
(* The buttons of the transfer panel.                                      *)

PauseTransfer ==
    /\ status = "processing" /\ channel # "link"
    /\ paused' = TRUE /\ status' = "paused"
    /\ UNCHANGED <<file, channel, held, state, loop, saved, overlap, failed>>

\* Nothing is done, and the pause stays, for a transfer that is not (yet)
\* in activeDownloads.
ResumeDownload(l) ==
    /\ status = "paused" /\ held
    /\ loop[l].at = "unborn" /\ \A k \in Loops : k < l => loop[k].at # "unborn"
    /\ paused' = FALSE
    /\ overlap' = (overlap \/ \E k \in Loops : Running(k))
    /\ \/ channel = "ranges" /\ Proceed(l, state, FALSE, "processing", held)
       \/ /\ channel = "google"
          /\ loop' = [loop EXCEPT ![l] = Waiting("asked")]
          /\ status' = "processing" /\ UNCHANGED <<held, saved>>
    /\ UNCHANGED <<file, channel, state, failed>>

\* All the flags are gone when a loop next looks at them: it goes on.
CancelTransfer ==
    /\ status = "paused"
    /\ status' = "gone" /\ held' = FALSE /\ paused' = FALSE
    /\ UNCHANGED <<file, channel, state, loop, saved, overlap, failed>>

Next ==
    \/ DownloadFile \/ HeaderRead \/ MetadataRead
    \/ \E l \in Loops : \/ RangeRead(l) \/ WholeRead(l) \/ WholeDecrypted(l)
                        \/ RequestFails(l) \/ ResumeDownload(l)
    \/ PauseTransfer \/ CancelTransfer

\* A request ends, one way or another, and so does a decryption. What the
\* user does is not fair.
Fairness ==
    /\ WF_vars(HeaderRead) /\ WF_vars(MetadataRead)
    /\ \A l \in Loops : /\ WF_vars(RangeRead(l)) /\ WF_vars(WholeRead(l))
                        /\ WF_vars(WholeDecrypted(l))

Spec == Init /\ [][Next]_vars /\ Fairness

-----------------------------------------------------------------------------
(* Properties.                                                             *)

Places == {"unborn", "preparing", "asked", "decrypting", "ended"}

Statuses == {"none", "processing", "paused", "success", "error", "gone"}

TypeOK ==
    /\ file \in Files /\ channel \in Channels
    /\ status \in Statuses
    /\ {paused, held, overlap, failed} \subseteq BOOLEAN
    /\ state \in [index : Nat, offset : Nat, total : Nat, pieces : Seq(Nat)]
    /\ loop \in [Loops -> [at : Places, start : Nat, plain : Nat]]
    /\ saved \in Seq(Seq(Nat))

\* Whatever is handed to the browser is the whole file, its chunks in order
\* and each once: pauses, a second loop on the same state, failures and
\* cancelling may lose a download but never damage it.
SavedIsWhole == \A i \in DOMAIN saved : saved[i] = Content(file)

\* What a download can read: all the bytes are there and, by channel, the
\* header fits the first range, or the server sends the file without one.
Readable ==
    /\ DecryptFile(file)
    /\ channel = "ranges" => HeaderReadable(file)
    /\ channel = "link" => ServedWhole(file)

\* A download that fails has a reason: a request failed, or the file cannot
\* be read. The exception: it was resumed while the old loop still waited.
ErrorsHaveCauses ==
    status = "error" => failed \/ ~Readable \/ overlap

\* decryptFile and the loop of ranges accept the same files: those with all
\* their bytes. (Nothing but the header is read of an empty file.)
WholeMeansReadable ==
    file.size > 0 => (DecryptFile(file) <=> Whole(file))

\* Once no loop runs, what the panel shows is what happened: a transfer
\* shown as done was saved, one shown as failed or paused was not, and a
\* paused one can be resumed. The exception is the same.
PanelTellsTrue ==
    status # "none" /\ ~overlap /\ (\A l \in Loops : ~Running(l)) =>
        /\ status # "processing"
        /\ status = "success" => Len(saved) = 1
        /\ status \in {"paused", "error"} => saved = <<>>
        /\ status = "paused" => held

\* A download that is not paused ends.
DownloadsEnd == status = "processing" ~> status # "processing"
=============================================================================
