------------------------------ MODULE DriveView ------------------------------
(***************************************************************************)
(* What the browser shows of a drive and what it does to it: the DriveStore *)
(* with its copies of the tree and of the trash, the folder that is open    *)
(* and the way there, the selection, the menus and dialogs, the pins of     *)
(* PinnedFoldersStore, and the requests that change the drive and reload    *)
(* the copies. The server is the storage ledger, whose actions are the      *)
(* requests' effects.                                                       *)
(*                                                                          *)
(* An asynchronous method is a task: the list of what it has still to await.*)
(* Tasks interleave; a request has its effect, or not, before its task goes *)
(* on, and its answer may be lost. A load is three steps: the server reads  *)
(* the rows, the browser decrypts their names, the store shows them.        *)
(*                                                                          *)
(* Left out: more than a page of files, sizes and the quota, sorting, the   *)
(* place of menus, the theme, and everything about uploads but the folder   *)
(* that a drop is for.                                                      *)
(***************************************************************************)
EXTENDS Integers, Sequences, FiniteSets

CONSTANTS FileIds,  \* bound: files on the server
          Folders,  \* bound: folders on the server
          Root,     \* parentId, folderId or currentFolderId null
          Absent,   \* no row; undefined
          Bases,    \* names of files, without what marks a proxy
          Number,   \* the id of a file or folder: each table counts its own
          Pictures, \* files with a thumbnail
          Starts,   \* bound: what the server holds at first, and what the
                    \* user does then
          Tasks,    \* bound: methods under way at once
          MaxTrail, \* bound: folders gone through
          MaxDrops, \* bound: drops from outside that are being read at once
          Pairs     \* each video with its proxy, [of, proxy]

\* A file's name: its own, or that of the proxy of the file called base;
\* "legacy" proxies have the prefix that older versions gave them.
FileNames == [base : Bases, form : {"own", "proxy", "legacy"}]

ASSUME DriveViewAssumption ==
    /\ IsFiniteSet(FileIds) /\ IsFiniteSet(Folders) /\ IsFiniteSet(Bases)
    /\ Root \notin Folders
    /\ Root \notin FileIds /\ FileIds \cap Folders = {}
    /\ Absent \notin Nat \cup Folders \cup {Root}
    /\ Number \in [FileIds \cup Folders -> Nat \ {0}]
    /\ Pictures \subseteq FileIds
    /\ MaxTrail \in Nat /\ MaxDrops \in Nat

VARIABLES files, folders, parent, used, refund, \* the ledger
          pins,     \* table pinned_folders
          clock,    \* changes the server has made, from 1 on
          list,     \* DriveStore.files: [rows, at], at 0 not yet loaded
          trash,    \* DriveStore.trashFiles: [rows, at]
          locked,   \* no vault key and AppStatus.Locked
          view,     \* currentView
          current,  \* currentFolderId
          back,     \* backHistory
          forward,  \* forwardHistory
          selected, \* selectedFileIds
          menu,     \* activeMenuFileId, 0 for null
          dialog,   \* activeDialog: [do, rows]
          dragged,  \* draggedFiles
          thumbs,   \* files with a picture in thumbnails
          fetching, \* calls of loadThumbnail under way
          pinned,   \* PinnedFoldersStore.ids
          pending,  \* PinnedFoldersStore.pending
          dropInto, \* dropTargetFolderId, Absent for undefined
          drops,    \* the drops being read, each with its number and folder
          tasks,    \* what each task has still to do
          budget,   \* bound: methods that the user may still call
          picked,   \* what the user has selected in the folder that is open
          pointed,  \* what the menu was opened on
          odd,      \* named ways by which the code departs from a property
          play      \* what the user does in this behaviour

ledger == <<files, folders, parent, used, refund>>
server == <<files, folders, parent, used, refund, pins, clock>>
place == <<view, current, back, forward, selected, picked>>
screen == <<menu, dialog, dragged, pointed>>
pictures == <<thumbs, fetching>>
pinning == <<pinned, pending>>
dropping == <<dropInto, drops>>
progress == <<tasks, budget>>
vars == <<server, list, trash, locked, place, screen, pictures, pinning,
          dropping, progress, odd, play>>

Ledger == INSTANCE StorageLedger
            WITH Names <- FileNames, Providers <- {"local"}, MaxSize <- 1,
                 Sizes <- {1}, MetadataCost <- 1, Collectors <- {},
                 MaxStorage <- Cardinality(FileIds)

\* A video and its proxy go together: they are in one folder, under one name,
\* both in the trash or none, and there is none of them without the other.
Together(video, proxy) ==
    IF video = Absent \/ proxy = Absent THEN video = proxy
    ELSE /\ proxy.folder = video.folder
         /\ proxy.name.base = video.name.base
         /\ (proxy.trash = "live") = (video.trash = "live")

\* What the ledger promises of what it holds when the page is opened, and
\* that no earlier visit has left a proxy without its video.
ASSUME StartsAssumption ==
    /\ Absent \notin Ledger!Ages \cup Ledger!File
    /\ Pairs \subseteq [of : FileIds, proxy : FileIds]
    /\ \A pair \in Pairs : pair.of # pair.proxy
    /\ \A one, two \in Pairs :
          one # two => {one.of, one.proxy} \cap {two.of, two.proxy} = {}
    /\ \A s \in Starts :
          /\ s.files \in [FileIds -> Ledger!File \cup {Absent}]
          /\ s.folders \in [Folders -> Ledger!Ages \cup {Absent}]
          /\ s.parent \in [Folders -> Folders \cup {Root}]
          /\ s.pins \subseteq {d \in Folders : s.folders[d] # Absent}
          /\ s.budget \in Nat
          /\ \A f \in FileIds :
                s.files[f] # Absent /\ s.files[f].folder # Root =>
                    s.folders[s.files[f].folder] # Absent
          /\ \A d \in Folders :
                /\ s.folders[d] # Absent
                /\ s.parent[d] # Root
                /\ s.folders[s.parent[d]] # "live"
                => s.folders[d] = s.folders[s.parent[d]]
          /\ \A pair \in Pairs : Together(s.files[pair.of], s.files[pair.proxy])

-----------------------------------------------------------------------------
(***************************************************************************)
(* Rows                                                                    *)
(***************************************************************************)

FileRow(f) == [is |-> "file", key |-> f, up |-> files[f].folder,
               name |-> files[f].name, named |-> FALSE]
FolderRow(d) == [is |-> "folder", key |-> d, up |-> parent[d],
                 name |-> Absent, named |-> FALSE]
Row == [is : {"file"}, key : FileIds, up : Folders \cup {Root},
        name : FileNames, named : BOOLEAN]
       \cup [is : {"folder"}, key : Folders, up : Folders \cup {Root},
             name : {Absent}, named : BOOLEAN]

\* What getTree and getTrash answer.
TreeRows == {FileRow(f) : f \in Ledger!Live}
            \cup {FolderRow(d) : d \in {e \in Folders : folders[e] = "live"}}
TrashRows == {FileRow(f) : f \in Ledger!Trashed}
             \cup {FolderRow(d) :
                     d \in {e \in Folders : folders[e] \notin {"live", Absent}}}

Named(rows, yes) == {[r EXCEPT !.named = yes] : r \in rows}
Keys(rows) == {r.key : r \in rows}
FilesOf(rows) == {r \in rows : r.is = "file"}
FoldersOf(rows) == {r \in rows : r.is = "folder"}
Hidden(row) == row.is = "file" /\ row.name.form # "own"

\* currentFolderFiles
CurrentFolderFiles ==
    {r \in list.rows : ~Hidden(r) /\ r.up = current}

\* currentTrashFolderFiles: in the root, what was not trashed with its folder.
CurrentTrashFolderFiles ==
    IF current = Root
    THEN {r \in trash.rows : r.up \notin Keys(FoldersOf(trash.rows))}
    ELSE {r \in trash.rows : r.up = current}

\* currentStorageFiles
CurrentStorageFiles == {r \in FilesOf(list.rows) : ~Hidden(r)}

\* The rows of the list of files in each view.
Shown == CASE view = "drive" -> CurrentFolderFiles
           [] view = "trash" -> CurrentTrashFolderFiles
           [] view = "storage" -> CurrentStorageFiles
           [] view = "transfers" -> {}

\* getSelectedFiles and activeMenuFile search both copies, whole, by number.
SelectedFiles ==
    {r \in list.rows \cup trash.rows : Number[r.key] \in selected}
ActiveMenuFile ==
    LET in(rows) == {r \in rows : Number[r.key] = menu}
        first(rows) == IF FoldersOf(in(rows)) # {} THEN FoldersOf(in(rows))
                                                   ELSE in(rows)
    IN  IF in(list.rows) # {} THEN first(list.rows) ELSE first(trash.rows)

\* Mutant of Proxies: only the prefix of older versions is looked for.
ProxiesLegacy(row, rows, forms) ==
    {p \in FilesOf(rows) : /\ row.named /\ p.named
                           /\ p.name.base = row.name.base
                           /\ p.name.form = "legacy"
                           /\ p.up = row.up}

\* The rows of a file's proxies, found by their names in the same folder.
Proxies(row, rows, forms) ==
    {p \in FilesOf(rows) : /\ row.named /\ p.named
                           /\ p.name.base = row.name.base
                           /\ p.name.form \in forms
                           /\ p.up = row.up}

-----------------------------------------------------------------------------
(***************************************************************************)
(* Tasks                                                                   *)
(***************************************************************************)

\* A step: what is asked for, on which files or folders, with what.
Step(do, on, with) == [do |-> do, on |-> on, with |-> with]
Loads == {"tree", "trash", "names", "pins"}
Load(what) == Step(what, {}, Absent)
TwinSteps == {"twinTrash", "twinRename", "twinRestore", "twinPurge"}

\* rows, at: the answer of a load; got: how far it is; on failure a task
\* ends ("stops"), goes on with its loads ("loads"), or does so while its
\* other requests go on as well ("all"); clears: whether it then clears the
\* selection; joins: whether the tasks of the same drop must have ended.
Idle == [todo |-> <<>>, rows |-> {}, at |-> 0, got |-> "nothing",
         fails |-> "stops", clears |-> FALSE, joins |-> FALSE]
Task(todo) == [Idle EXCEPT !.todo = todo]

Busy(t) == tasks[t].todo # <<>>
Now(t) == Head(tasks[t].todo)
Free == {t \in Tasks : ~Busy(t)}

\* The calls on each element of S, in some order.
Orders(S) == {q \in [1..Cardinality(S) -> S] :
                \A i, j \in DOMAIN q : i # j => q[i] # q[j]}

\* Begins a task that the user asks for.
Begins(task) ==
    /\ budget > 0
    /\ budget' = budget - 1
    /\ \E t \in Free : tasks' = [tasks EXCEPT ![t] = task]

\* Goes on with the rest of a task, or ends it: the handlers of several
\* files clear the selection at the end, whatever it is then.
Continues(t, rest, failed) ==
    LET task == tasks[t]
        ends == rest = <<>> /\ task.clears
        waits == ~failed /\ \E u \in Tasks \ {t} : Busy(u) /\ tasks[u].joins
        apart == IF failed /\ task.joins
                 THEN [u \in Tasks |-> IF tasks[u].joins
                                       THEN [tasks[u] EXCEPT !.clears = FALSE,
                                                             !.joins = FALSE]
                                       ELSE tasks[u]]
                 ELSE tasks
    IN  /\ tasks' = [apart EXCEPT
                       ![t] = IF rest = <<>> THEN Idle
                              ELSE [task EXCEPT !.todo = rest, !.rows = {},
                                                !.at = 0, !.got = "nothing"]]
        /\ IF ends /\ ~(task.joins /\ waits)
           THEN selected' = {} /\ picked' = {}
           ELSE UNCHANGED <<selected, picked>>

IsLoad(step) == step.do \in Loads
IsCall(step) == ~IsLoad(step)

\* What is left of a task one of whose requests has failed. The requests
\* that Promise.all has made go on before, or after, the loads, which are
\* the end of every task.
Left(t) ==
    LET rest == Tail(tasks[t].todo)
        cuts == {n \in 0..Len(rest) :
                   \A i \in 1..Len(rest) : IsCall(rest[i]) <=> i <= n}
        loads(n) == SubSeq(rest, n + 1, Len(rest))
    IN  CASE tasks[t].fails = "stops" -> {<<>>}
          [] tasks[t].fails = "loads" -> {loads(n) : n \in cuts}
          [] tasks[t].fails = "all" ->
               {rest} \cup {loads(n) \o SubSeq(rest, 1, n) : n \in cuts}

-----------------------------------------------------------------------------
(***************************************************************************)
(* The server                                                              *)
(***************************************************************************)

NameOf(f) == files[f].name

\* What a request changes. A new folder's id is a new one: it is not that of
\* a deleted folder whose pin is still shown.
Effect(do, on, with) ==
    \/ do = "trashFile" /\ Ledger!DeleteFiles(on)
    \/ do = "trashFiles" /\ Ledger!DeleteFiles(on \cap Ledger!Live)
    \/ do = "trashFolder" /\ \E d \in on : Ledger!DeleteFolder(d)
    \/ do = "trashFolders" /\ Ledger!BatchDeleteFolders(on)
    \/ do = "restoreFile" /\ \E f \in on : Ledger!RestoreFile(f)
    \/ do = "restoreFolder" /\ \E d \in on : Ledger!RestoreFolder(d)
    \/ do = "purgeFile" /\ Ledger!HardDeleteFiles(on)
    \/ do = "purgeFiles" /\ Ledger!HardDeleteFiles(on \cap Ledger!Trashed)
    \/ do = "purgeFolder" /\ Ledger!HardDeleteFolders(on)
    \/ do = "purgeFolders" /\ Ledger!HardDeleteFolders(on)
    \/ do = "empty" /\ TrashRows # {} /\ Ledger!EmptyTrash
    \/ do = "renameFile" /\ \E f \in on \cap Ledger!Live :
                               Ledger!UpdateFile(f, with, files[f].folder)
    \/ do = "moveFile" /\ \E f \in on \cap Ledger!Live :
                             Ledger!UpdateFile(f, NameOf(f), with)
    \/ do = "moveFolder" /\ \E d \in on : Ledger!UpdateFolder(d, with)
    \/ do = "create" /\ \E d \in Folders \ (pinned \cup pending) :
                           Ledger!CreateFolder(d, with)

\* The requests that succeed without a change: a batch of which nothing is
\* left, a move to where the item is, a file's own name, a folder's new one.
Vacuous(do, on, with) ==
    \/ do = "trashFiles" /\ on \cap Ledger!Live = {}
    \/ do = "trashFolders" /\ \A d \in on : folders[d] # "live"
    \/ do = "purgeFiles" /\ on \cap Ledger!Trashed = {}
    \/ do = "purgeFolders" /\ \A d \in on : folders[d] \in {"live", Absent}
    \/ do = "empty" /\ TrashRows = {}
    \/ do = "renameFile" /\ \E f \in on \cap Ledger!Live : NameOf(f) = with
    \/ do = "renameFolder" /\ \A d \in on : folders[d] = "live"
    \/ do = "moveFile" /\ \E f \in on \cap Ledger!Live : files[f].folder = with
    \/ do = "moveFolder" /\ \E d \in on : folders[d] = "live" /\ parent[d] = with
    \/ do = "pin" /\ on \subseteq pins /\ \A d \in on : folders[d] = "live"

\* pin_folder and unpin_folder want a live folder.
PinEffect(do, on) ==
    /\ do \in {"pin", "unpin"}
    /\ \A d \in on : folders[d] = "live"
    /\ \/ do = "pin" /\ ~(on \subseteq pins) /\ pins' = pins \cup on
       \/ do = "unpin" /\ pins' = pins \ on

\* The change of a request; a folder's pin goes with its row.
Made(step) ==
    /\ clock' = clock + 1
    /\ \/ /\ Effect(step.do, step.on, step.with)
          /\ pins' = {d \in pins : folders'[d] # Absent}
       \/ PinEffect(step.do, step.on) /\ UNCHANGED ledger

-----------------------------------------------------------------------------
(***************************************************************************)
(* The steps of a task                                                     *)
(***************************************************************************)

\* Mutant of NoLongerPending: only a request that fails ends the wait.
PendingUnlessFailed(step) ==
    pending' = IF step.do \in {"pin", "unpin"} THEN pending \ step.on
                                               ELSE pending

\* setPending(id, false), in the finally of pin and unpin.
NoLongerPending(step) ==
    pending' = IF step.do \in {"pin", "unpin", "kept"} THEN pending \ step.on
                                                       ELSE pending

\* What task t has still to do for a proxy, its video's request being made.
Owes(t, pair) ==
    \E i \in DOMAIN tasks[t].todo :
        LET step(j) == tasks[t].todo[j]
        IN  /\ IF step(i).do \in TwinSteps THEN pair.of \in step(i).on
                                           ELSE step(i).on = {pair.proxy}
            /\ \A j \in 1..i : step(j).do \notin TwinSteps
                                => pair.of \notin step(j).on

\* What is noted of a request: that a folder takes a live file along when it
\* is deleted, that a folder comes back which was pinned before and whose pin
\* is not shown, that it meets a video whose proxy another task still owes.
Notes(t) ==
    (IF \E f \in Ledger!Live : files'[f] = Absent THEN {"swept"} ELSE {})
    \cup (IF /\ \E d \in pins \ (pinned \cup pending) :
                   folders[d] # "live" /\ folders'[d] = "live"
             /\ \A u \in Tasks : Busy(u) => Now(u).do # "pins"
          THEN {"repinned"} ELSE {})
    \cup (IF \E pair \in Pairs :
                /\ \E u \in Tasks \ {t} : Owes(u, pair)
                /\ \E f \in {pair.of, pair.proxy} :
                      f \in Now(t).on \/ files'[f] # files[f]
          THEN {"crossed"} ELSE {})

\* A request is made and its answer comes.
RequestMade(t) ==
    /\ Busy(t) /\ IsCall(Now(t))
    /\ \/ Made(Now(t))
       \/ Vacuous(Now(t).do, Now(t).on, Now(t).with) /\ UNCHANGED server
    /\ Continues(t, Tail(tasks[t].todo), FALSE)
    /\ odd' = odd \cup Notes(t)
    /\ UNCHANGED <<list, trash, locked, view, current, back, forward, screen,
                   pictures, pinning, dropping, budget, play>>

\* It is refused or its answer is lost, the change made or not.
RequestFails(t) ==
    /\ Busy(t) /\ IsCall(Now(t)) /\ Now(t).do \notin TwinSteps \cup {"kept"}
    /\ Made(Now(t)) \/ UNCHANGED server
    /\ \E rest \in Left(t) : Continues(t, rest, TRUE)
    /\ NoLongerPending(Now(t))
    /\ odd' = odd \cup {"failed"}
    /\ UNCHANGED <<list, trash, locked, view, current, back, forward, screen,
                   pictures, pinned, dropping, budget, play>>

\* The rows do not show a file's proxy beside it under a name that is looked
\* for, or show something else so.
ProxyUnseen(row, rows, forms) ==
    LET beside == {q \in rows : q.is = "file" /\ q.up = row.up}
        called == {q \in beside : /\ q.name.base = row.name.base
                                  /\ q.name.form \in forms}
    IN  \/ \E q \in called \cup {row} : ~q.named
        \/ Keys(called) # {p \in FileIds :
                             /\ [of |-> row.key, proxy |-> p] \in Pairs
                             /\ files[p] # Absent}

\* Once a video's own request has been answered, its proxy is looked up in
\* the copy that the store has by then, and gets a request of its own.
TwinFound(t) ==
    LET step == Now(t)
        row == step.with.row
        copies == IF step.do \in {"twinTrash", "twinRename"} THEN list.rows
                                                            ELSE trash.rows
        forms == IF step.do \in {"twinTrash", "twinRename"}
                 THEN {"proxy", "legacy"} ELSE {"legacy"}
        found == Proxies(row, copies, forms)
        rest == Tail(tasks[t].todo)
    IN  /\ Busy(t) /\ step.do \in TwinSteps
        /\ odd' = odd \cup (IF ProxyUnseen(row, copies, forms) THEN {"strays"}
                                                               ELSE {})
        /\ \/ found = {} /\ Continues(t, rest, FALSE)
           \/ \E p \in found :
                 Continues(t, <<[step.with.call EXCEPT !.on = {p.key}]>> \o rest,
                           FALSE)
        /\ UNCHANGED <<server, list, trash, locked, view, current, back,
                       forward, screen, pictures, pinning, dropping, budget,
                       play>>

\* The server reads the rows of a load.
LoadServed(t) ==
    /\ Busy(t) /\ Now(t).do \in {"tree", "trash", "pins"}
    /\ tasks[t].got = "nothing"
    /\ LET rows == CASE Now(t).do = "tree" -> TreeRows
                     [] Now(t).do = "trash" -> TrashRows
                     [] Now(t).do = "pins" ->
                          {FolderRow(d) : d \in {e \in pins :
                                                   folders[e] = "live"}}
       IN  tasks' = [tasks EXCEPT ![t].rows = rows, ![t].at = clock,
                                  ![t].got = "served"]
    /\ UNCHANGED <<server, list, trash, locked, place, screen, pictures,
                   pinning, dropping, budget, odd, play>>

\* The names are decrypted, if the vault is unlocked.
LoadNamed(t) ==
    /\ Busy(t) /\ Now(t).do # "pins" /\ tasks[t].got = "served"
    /\ tasks' = [tasks EXCEPT ![t].rows = Named(@, ~locked),
                              ![t].got = "named"]
    /\ UNCHANGED <<server, list, trash, locked, place, screen, pictures,
                   pinning, dropping, budget, odd, play>>

\* What is noted of rows that are shown: older ones than those they replace,
\* with names though locked, without though unlocked.
Remarks(task) ==
    (IF task.at < list.at THEN {"overtaken"} ELSE {})
    \cup (IF locked /\ \E r \in task.rows : r.named THEN {"late"} ELSE {})
    \cup (IF ~locked /\ \E r \in task.rows : ~r.named THEN {"nameless"}
                                                     ELSE {})

\* files.set: loadTree and reDecryptAll replace the whole copy.
TreeShown(t) ==
    /\ Busy(t) /\ Now(t).do \in {"tree", "names"} /\ tasks[t].got = "named"
    /\ list' = [rows |-> tasks[t].rows, at |-> tasks[t].at]
    /\ odd' = odd \cup Remarks(tasks[t])
    /\ Continues(t, Tail(tasks[t].todo), FALSE)
    /\ UNCHANGED <<server, trash, locked, view, current, back, forward, screen,
                   pictures, pinning, dropping, budget, play>>

TrashShown(t) ==
    /\ Busy(t) /\ Now(t).do = "trash" /\ tasks[t].got = "named"
    /\ trash' = [rows |-> tasks[t].rows, at |-> tasks[t].at]
    /\ Continues(t, Tail(tasks[t].todo), FALSE)
    /\ UNCHANGED <<server, list, locked, view, current, back, forward, screen,
                   pictures, pinning, dropping, budget, odd, play>>

\* PinnedFoldersStore.load: the answer replaces the ids, whatever has been
\* pinned since it was given.
PinsShown(t) ==
    /\ Busy(t) /\ Now(t).do = "pins" /\ tasks[t].got = "served"
    /\ pinned' = Keys(tasks[t].rows)
    /\ odd' = odd \cup (IF pinned' # {d \in pins : folders[d] = "live"}
                       THEN {"pinsOvertaken"} ELSE {})
    /\ Continues(t, Tail(tasks[t].todo), FALSE)
    /\ UNCHANGED <<server, list, trash, locked, view, current, back, forward,
                   screen, pictures, pending, dropping, budget, play>>

\* A load that fails leaves the copy as it is.
LoadFails(t) ==
    /\ Busy(t) /\ IsLoad(Now(t)) /\ Now(t).do # "names"
    /\ tasks[t].got = "nothing"
    /\ odd' = odd \cup {"failed"}
    /\ Continues(t, Tail(tasks[t].todo), FALSE)
    /\ UNCHANGED <<server, list, trash, locked, view, current, back, forward,
                   screen, pictures, pinning, dropping, budget, play>>

\* A pin, or its removal, is shown once the server has confirmed it.
PinKept(t) ==
    /\ Busy(t) /\ Now(t).do = "kept"
    /\ pinned' = IF Now(t).with = Absent THEN pinned \ Now(t).on
                                         ELSE pinned \cup Now(t).on
    /\ NoLongerPending(Now(t))
    /\ Continues(t, Tail(tasks[t].todo), FALSE)
    /\ UNCHANGED <<server, list, trash, locked, view, current, back, forward,
                   screen, pictures, dropping, budget, odd, play>>

-----------------------------------------------------------------------------
(***************************************************************************)
(* The way through the folders                                             *)
(***************************************************************************)

\* The user may do a: no menu, dialog or drag is in the way.
May(a) == a \in play /\ menu = 0 /\ dialog = Absent /\ dragged = {}

\* Mutant of SetCurrentFolder: the selection is kept.
SetCurrentFolderOnly(d) ==
    /\ current' = d
    /\ selected' = selected
    /\ picked' = {}

\* setCurrentFolder
SetCurrentFolder(d) ==
    /\ current' = d
    /\ selected' = {}
    /\ picked' = {}

\* navigateTo
NavigateTo(d) ==
    IF d = current
    THEN UNCHANGED <<current, back, forward, selected, picked>>
    ELSE /\ back' = Append(back, current)
         /\ forward' = <<>>
         /\ SetCurrentFolder(d)

Goes == Len(back) < MaxTrail

\* goBack, from the toolbar's button, which the lock leaves enabled.
GoBack ==
    /\ May("go") /\ back # <<>>
    /\ back' = SubSeq(back, 1, Len(back) - 1)
    /\ forward' = Append(forward, current)
    /\ SetCurrentFolder(back[Len(back)])
    /\ UNCHANGED <<server, list, trash, locked, view, screen, pictures,
                   pinning, dropping, progress, odd, play>>

\* goForward
GoForward ==
    /\ May("go") /\ forward # <<>>
    /\ forward' = SubSeq(forward, 1, Len(forward) - 1)
    /\ back' = Append(back, current)
    /\ SetCurrentFolder(forward[Len(forward)])
    /\ UNCHANGED <<server, list, trash, locked, view, screen, pictures,
                   pinning, dropping, progress, odd, play>>

\* The folders that the copy shows above d, d included.
RowOf(d) == {r \in FoldersOf(list.rows) : r.key = d}
Above(d) == IF RowOf(d) = {} THEN Root ELSE (CHOOSE r \in RowOf(d) : TRUE).up
CurrentPath ==
    {Root} \cup
    {d \in Folders :
        /\ RowOf(d) # {}
        /\ \A S \in SUBSET Folders :
              /\ current \in S \cup {Root}
              /\ \A e \in S : RowOf(e) # {} => Above(e) \in S \cup {Root}
              => d \in S}

\* What may be kept of a selection whose items are no longer shown.
Keeps == odd' = odd \cup (IF selected # {} THEN {"kept"} ELSE {})

\* navigateUp, which leaves the selection.
NavigateUp ==
    /\ May("go") /\ Goes
    /\ current # Root /\ Above(current) # current
    /\ back' = Append(back, current)
    /\ forward' = <<>>
    /\ current' = Above(current)
    /\ picked' = {}
    /\ Keeps
    /\ UNCHANGED <<server, list, trash, locked, view, selected, screen,
                   pictures, pinning, dropping, progress, play>>

\* The folders a double click, ".." included, or a link of the path leads to.
FolderLinks ==
    (IF locked THEN {} ELSE Keys(FoldersOf(Shown)))
    \cup (IF ~locked /\ view = "drive" /\ current # Root THEN {Above(current)}
                                                         ELSE {})
    \cup (IF view = "drive" THEN CurrentPath \ {current} ELSE {})

OpenFolder(d) ==
    /\ May("go") /\ Goes
    /\ d \in FolderLinks
    /\ NavigateTo(d)
    /\ UNCHANGED <<server, list, trash, locked, view, screen, pictures,
                   pinning, dropping, progress, odd, play>>

\* The folders an address can name: every part of it is found by its name.
Addressable ==
    {d \in Folders \cup {Root} :
        \A S \in SUBSET (Folders \cup {Root}) :
            /\ Root \in S
            /\ \A r \in FoldersOf(list.rows) :
                  r.named /\ r.up \in S => r.key \in S
            => d \in S}

\* onAddressNavigate, and onPinnedFolderNavigate for what is available.
ShowsFolder(d) ==
    /\ May("go") /\ Goes /\ ~locked
    /\ \/ d \in Addressable
       \/ d \in pinned /\ RowOf(d) # {} /\ d \notin pending
    /\ view' = "drive"
    /\ NavigateTo(d)
    /\ odd' = odd \cup (IF view # "drive" /\ d = current /\ selected # {}
                        THEN {"kept"} ELSE {})
    /\ UNCHANGED <<server, list, trash, locked, screen, pictures, pinning,
                   dropping, progress, play>>

\* onViewChange: only the drive is gone to from its root; the trash is
\* loaded each time.
ViewChange(v) ==
    /\ May("view") /\ Goes
    /\ view' = v
    /\ IF v = "drive" THEN NavigateTo(Root)
       ELSE /\ picked' = (IF v = view THEN picked ELSE {})
            /\ UNCHANGED <<current, back, forward, selected>>
    /\ odd' = odd \cup (IF selected # {} /\ v # view
                           /\ (v # "drive" \/ current = Root)
                        THEN {"kept"} ELSE {})
    /\ IF v = "trash"
       THEN \E t \in Free : tasks' = [tasks EXCEPT ![t] = Task(<<Load("trash")>>)]
       ELSE UNCHANGED tasks
    /\ UNCHANGED <<server, list, trash, locked, screen, pictures, pinning,
                   dropping, budget, play>>

-----------------------------------------------------------------------------
(***************************************************************************)
(* The lock and the pictures                                               *)
(***************************************************************************)

\* Mutant of LockDrive: the names are not cleared.
LockDriveNamed ==
    /\ May("lock") /\ ~locked /\ budget > 0
    /\ budget' = budget - 1
    /\ locked' = TRUE
    /\ list' = list
    /\ NavigateTo(Root)
    /\ thumbs' = {}
    /\ UNCHANGED <<server, trash, view, screen, fetching, pinning, dropping,
                   tasks, odd, play>>

\* lockDrive and lockVault, with the effect that forgets the thumbnails. The
\* names in the copy of the trash stay.
LockDrive ==
    /\ May("lock") /\ ~locked /\ budget > 0
    /\ budget' = budget - 1
    /\ locked' = TRUE
    /\ list' = [list EXCEPT !.rows = Named(@, FALSE)]
    /\ NavigateTo(Root)
    /\ thumbs' = {}
    /\ UNCHANGED <<server, trash, view, screen, fetching, pinning, dropping,
                   tasks, odd, play>>

\* The vault is unlocked: the effect of VaultHomeComponent decrypts the
\* names of the copy there is at this moment.
Unlock ==
    /\ May("lock") /\ locked
    /\ locked' = FALSE
    /\ IF list.rows = {} THEN UNCHANGED tasks
       ELSE \E t \in Free :
               tasks' = [tasks EXCEPT ![t] = [Task(<<Load("names")>>) EXCEPT
                           !.rows = list.rows, !.at = list.at,
                           !.got = "served"]]
    /\ UNCHANGED <<server, list, trash, place, screen, pictures, pinning,
                   dropping, budget, odd, play>>

\* The effect of FileListComponent that asks for the thumbnails of what is
\* shown, or of a folder that is.
ThumbnailAsked(f) ==
    /\ "lock" \in play /\ ~locked
    /\ f \in Pictures \ (thumbs \cup fetching)
    /\ \E r \in list.rows : r.key = f /\ r.named /\ ~Hidden(r)
                            /\ (r \in Shown \/ r.up \in Keys(Shown))
    /\ fetching' = fetching \cup {f}
    /\ UNCHANGED <<server, list, trash, locked, place, screen, thumbs, pinning,
                   dropping, progress, odd, play>>

\* loadThumbnail: the picture is kept, locked or not, or there is none.
ThumbnailRead(f) ==
    /\ f \in fetching
    /\ fetching' = fetching \ {f}
    /\ \/ /\ thumbs' = thumbs \cup {f}
          /\ odd' = odd \cup (IF locked THEN {"late"} ELSE {})
       \/ UNCHANGED <<thumbs, odd>>
    /\ UNCHANGED <<server, list, trash, locked, place, screen, pinning,
                   dropping, progress, play>>

-----------------------------------------------------------------------------
(***************************************************************************)
(* The selection, the menu and the dialogs                                 *)
(***************************************************************************)

Numbers(rows) == {Number[r.key] : r \in rows}

\* onFileClick, with and without Ctrl.
Click(row) ==
    /\ May("select") /\ ~locked
    /\ row \in Shown
    /\ selected' = {Number[row.key]}
    /\ picked' = {row.key}
    /\ UNCHANGED <<server, list, trash, locked, view, current, back, forward,
                   screen, pictures, pinning, dropping, progress, odd, play>>

CtrlClick(row) ==
    /\ May("select") /\ ~locked
    /\ row \in Shown
    /\ IF Number[row.key] \in selected
       THEN selected' = selected \ {Number[row.key]} /\ picked' = picked \ {row.key}
       ELSE selected' = selected \cup {Number[row.key]}
            /\ picked' = picked \cup {row.key}
    /\ UNCHANGED <<server, list, trash, locked, view, current, back, forward,
                   screen, pictures, pinning, dropping, progress, odd, play>>

\* A box drawn over some of the items, with Ctrl or without; an empty one,
\* a click beside the items and the bar's button select nothing.
DrawBox(rows, ctrl) ==
    /\ May("select")
    /\ rows \subseteq Shown
    /\ locked => rows = {} /\ ~ctrl
    /\ selected' = Numbers(rows) \cup IF ctrl THEN selected ELSE {}
    /\ picked' = Keys(rows) \cup IF ctrl THEN picked ELSE {}
    /\ UNCHANGED <<server, list, trash, locked, view, current, back, forward,
                   screen, pictures, pinning, dropping, progress, odd, play>>

\* onContextMenu and toggleMenu
OpenMenu(row) ==
    /\ May("menu") /\ ~locked
    /\ row \in Shown
    /\ menu' = Number[row.key]
    /\ pointed' = {row.key}
    /\ UNCHANGED <<server, list, trash, locked, place, dialog, dragged,
                   pictures, pinning, dropping, progress, odd, play>>

CloseMenu ==
    /\ menu # 0
    /\ menu' = 0 /\ pointed' = {}
    /\ UNCHANGED <<server, list, trash, locked, place, dialog, dragged,
                   pictures, pinning, dropping, progress, odd, play>>

\* Notes that something else is acted on than the user has chosen: a file
\* besides a folder that has the same number, or the converse ("alike"), or
\* what has no number in common with what was chosen ("another").
Others(rows, keys) ==
    (IF Keys(rows) \subseteq keys THEN {} ELSE {"alike"})
    \cup (IF Numbers(rows) \subseteq {Number[k] : k \in keys} THEN {}
                                                           ELSE {"another"})
Chosen(rows, keys) == odd' = odd \cup Others(rows, keys)

Dialog(do, rows) == [do |-> do, rows |-> rows]

\* onDelete, onRename and onPermanentDelete ask first.
MenuAsks(do) ==
    /\ menu # 0
    /\ do \in (IF view = "trash" THEN {"purge"} ELSE {"trash", "rename"})
    /\ \E row \in ActiveMenuFile :
          dialog' = Dialog(do, {row}) /\ Chosen({row}, pointed)
    /\ menu' = 0 /\ pointed' = {}
    /\ UNCHANGED <<server, list, trash, locked, place, dragged, pictures,
                   pinning, dropping, progress, play>>

\* The bar over a selection: onBulkDelete, onBulkPermanentDelete. Nothing
\* asks whether the drive is locked.
BulkAsks ==
    /\ May("bulk") /\ selected # {}
    /\ dialog' = Dialog(IF view = "trash" THEN "bulkPurge" ELSE "bulkTrash",
                        SelectedFiles)
    /\ Chosen(SelectedFiles, picked)
    /\ UNCHANGED <<server, list, trash, locked, place, menu, dragged, pointed,
                   pictures, pinning, dropping, progress, play>>

\* onEmptyTrash and createNewFolder
DriveAsks(do) ==
    /\ May(do)
    /\ \/ do = "empty" /\ view = "trash" /\ trash.rows # {}
       \/ do = "create" /\ ~locked
    /\ dialog' = Dialog(do, {})
    /\ UNCHANGED <<server, list, trash, locked, place, menu, dragged, pointed,
                   pictures, pinning, dropping, progress, odd, play>>

Cancel ==
    /\ dialog # Absent
    /\ dialog' = Absent
    /\ UNCHANGED <<server, list, trash, locked, place, menu, dragged, pointed,
                   pictures, pinning, dropping, progress, odd, play>>

-----------------------------------------------------------------------------
(***************************************************************************)
(* What the user asks for                                                  *)
(***************************************************************************)

\* A call about one item, and one for its proxy once it is known.
Call(do, key, with) == Step(do, {key}, with)
Twin(do, row, call) == Step(do, {row.key}, [row |-> row, call |-> call])

Tree == <<Load("tree")>>
Trash == <<Load("trash")>>

\* Mutant of TrashItem: the tree is not loaded afterwards.
TrashItemOnly(row) ==
    IF row.is = "folder" THEN <<Call("trashFolder", row.key, Absent)>>
    ELSE <<Call("trashFile", row.key, Absent),
           Twin("twinTrash", row, Call("trashFile", row.key, Absent))>>

\* trashItem, permanentDeleteItem, restoreItem
TrashItem(row) ==
    IF row.is = "folder" THEN <<Call("trashFolder", row.key, Absent)>> \o Tree
    ELSE <<Call("trashFile", row.key, Absent),
           Twin("twinTrash", row, Call("trashFile", row.key, Absent))>> \o Tree

PermanentDeleteItem(row) ==
    IF row.is = "folder" THEN <<Call("purgeFolder", row.key, Absent)>> \o Trash
    ELSE <<Call("purgeFile", row.key, Absent),
           Twin("twinPurge", row, Call("purgeFile", row.key, Absent))>> \o Trash

RestoreItem(row) ==
    (IF row.is = "folder" THEN <<Call("restoreFolder", row.key, Absent)>>
     ELSE <<Call("restoreFile", row.key, Absent),
            Twin("twinRestore", row, Call("restoreFile", row.key, Absent))>>)
    \o Trash \o Tree

\* renameItem: the proxy is then called after the new name.
RenameItem(row, base) ==
    (IF row.is = "folder" THEN <<Call("renameFolder", row.key, Absent)>>
     ELSE LET new(form) == [base |-> base, form |-> form]
          IN  <<Call("renameFile", row.key, new("own")),
                Twin("twinRename", row,
                     Call("renameFile", row.key, new("proxy")))>>)
    \o Tree

\* moveItem
MoveItem(row, to) ==
    <<Call(IF row.is = "folder" THEN "moveFolder" ELSE "moveFile",
           row.key, to)>> \o Tree

\* A request for all of some files, or folders, if there are any.
Batch(do, rows) == IF rows = {} THEN <<>> ELSE <<Step(do, Keys(rows), Absent)>>

\* batchTrashItems: no proxy is looked for.
BatchTrashItems(rows) ==
    [Task(Batch("trashFiles", FilesOf(rows))
          \o Batch("trashFolders", FoldersOf(rows)) \o Tree)
     EXCEPT !.fails = "loads", !.clears = TRUE]

BothForms == {"proxy", "legacy"}
WithProxies(rows) ==
    rows \cup UNION {Proxies(r, trash.rows, BothForms) : r \in FilesOf(rows)}

\* batchPermanentDeleteItems: the proxies in the copy of the trash go too.
BatchPermanentDeleteItems(rows) ==
    [Task(Batch("purgeFiles", FilesOf(WithProxies(rows)))
          \o Batch("purgeFolders", FoldersOf(rows)) \o Trash)
     EXCEPT !.fails = "loads", !.clears = TRUE]

\* batchRestoreItems: for each item a chain of requests, its own and those of
\* its proxies, and all chains at once: a turn is an item with what is asked
\* for in its chain.
Turns(rows) ==
    {<<r, r>> : r \in rows}
    \cup UNION {{r} \X Proxies(r, trash.rows, BothForms) : r \in FilesOf(rows)}
RestoreOrders(rows) ==
    {order \in Orders(Turns(rows)) :
       \A i, j \in DOMAIN order :
           order[i] = <<order[j][1], order[j][1]>> => i <= j}
BatchRestoreItems(order) ==
    LET call(r) == Call(IF r.is = "file" THEN "restoreFile"
                                         ELSE "restoreFolder", r.key, Absent)
    IN  [Task([i \in DOMAIN order |-> call(order[i][2])] \o Trash \o Tree)
         EXCEPT !.fails = "all", !.clears = TRUE]

\* A proxy is taken without its video: only the list of the trash shows it.
Lone(rows) ==
    \E pair \in Pairs :
       pair.proxy \in Keys(rows) /\ pair.of \notin Keys(rows)

\* A video is taken without its proxy, or a proxy without its video.
Parted(rows) ==
    \E pair \in Pairs : (pair.of \in Keys(rows)) # (pair.proxy \in Keys(rows))
Strays(parts) == odd' = odd \cup IF parts THEN {"strays"} ELSE {}

\* What is confirmed is done; createFolder and renameItem want the key.
Confirm ==
    /\ dialog # Absent
    /\ dialog' = Absent
    /\ LET rows == dialog.rows
           do == dialog.do
       IN  \/ /\ do = "trash"
              /\ \E r \in rows : Begins(Task(TrashItem(r)))
              /\ Strays(Lone(rows))
           \/ /\ do = "purge"
              /\ \E r \in rows : Begins(Task(PermanentDeleteItem(r)))
              /\ Strays(Lone(rows))
           \/ /\ do = "rename" /\ ~locked
              /\ \E r \in rows, b \in Bases :
                    Begins(Task(RenameItem(r, b)))
              /\ Strays(Lone(rows))
           \/ /\ do = "bulkTrash"
              /\ Begins(BatchTrashItems(rows))
              /\ Strays(Parted(rows))
           \/ /\ do = "bulkPurge"
              /\ Begins(BatchPermanentDeleteItems(rows))
              /\ Strays(Parted(WithProxies(rows)))
           \/ /\ do = "empty"
              /\ Begins(Task(<<Step("empty", {}, Absent)>> \o Trash))
              /\ odd' = odd
           \/ /\ do = "create" /\ ~locked
              /\ Begins(Task(<<Step("create", {}, current)>> \o Tree))
              /\ odd' = odd
    /\ UNCHANGED <<server, list, trash, locked, place, menu, dragged, pointed,
                   pictures, pinning, dropping, play>>

\* onRestore, from the menu.
MenuRestores ==
    /\ menu # 0 /\ view = "trash"
    /\ \E row \in ActiveMenuFile :
          /\ Begins(Task(RestoreItem(row)))
          /\ odd' = odd \cup Others({row}, pointed)
                        \cup IF Lone({row}) THEN {"strays"} ELSE {}
    /\ menu' = 0 /\ pointed' = {}
    /\ UNCHANGED <<server, list, trash, locked, place, dialog, dragged,
                   pictures, pinning, dropping, play>>

\* A file is asked for twice, or one that is another's proxy, or not all that
\* are its own: both copies may have a row of it, and names may be alike.
Misread(rows) ==
    \/ \E one, two \in rows : one # two /\ one.key = two.key
    \/ \E r \in FilesOf(rows) :
          Keys(Proxies(r, trash.rows, BothForms))
             # {p \in FileIds : [of |-> r.key, proxy |-> p] \in Pairs}
    \/ \E pair \in Pairs : pair.proxy \in Keys(rows)

\* onBulkRestore, which asks twice for a proxy that is selected with its video.
BulkRestores ==
    /\ May("bulk") /\ selected # {} /\ view = "trash"
    /\ \E order \in RestoreOrders(SelectedFiles) :
          Begins(BatchRestoreItems(order))
    /\ odd' = odd \cup Others(SelectedFiles, picked)
                  \cup (IF Misread(SelectedFiles) THEN {"strays"} ELSE {})
    /\ UNCHANGED <<server, list, trash, locked, place, screen, pictures,
                   pinning, dropping, play>>

\* onDragStart: what is selected is dragged with the item, if that is.
DragStart(row) ==
    /\ May("drag") /\ ~locked
    /\ row \in Shown
    /\ LET rows == IF Number[row.key] \in selected THEN SelectedFiles ELSE {row}
       IN  dragged' = rows /\ Chosen(rows, picked \cup {row.key})
    /\ UNCHANGED <<server, list, trash, locked, place, menu, dialog, pointed,
                   pictures, pinning, dropping, progress, play>>

DragEnd ==
    /\ dragged # {}
    /\ dragged' = {}
    /\ UNCHANGED <<server, list, trash, locked, place, menu, dialog, pointed,
                   pictures, pinning, dropping, progress, odd, play>>

\* onDragOver: a folder that is none of the items nor holds one already;
\* ".." stands for the parent of the folder that is open.
DropTargets ==
    {d \in Keys(FoldersOf(Shown)) :
        \A r \in dragged : Number[r.key] # Number[d] /\ r.up # d}
    \cup IF view = "drive" /\ current # Root
         THEN {d \in {Above(current)} : \A r \in dragged : r.up # d} ELSE {}

\* onDrop: moveItem for each of them at once.
DropOn(d) ==
    /\ dragged # {} /\ ~locked
    /\ d \in DropTargets
    /\ budget > 0
    /\ budget' = budget - 1
    /\ \E at \in [dragged -> Free] :
          /\ \A r, s \in dragged : r # s => at[r] # at[s]
          /\ tasks' = [t \in Tasks |->
                IF \E r \in dragged : at[r] = t
                THEN [Task(MoveItem(CHOOSE r \in dragged : at[r] = t, d))
                      EXCEPT !.clears = TRUE, !.joins = TRUE]
                ELSE tasks[t]]
    /\ dragged' = {}
    /\ Strays(\E r \in dragged, pair \in Pairs : r.key \in {pair.of, pair.proxy})
    /\ UNCHANGED <<server, list, trash, locked, place, menu, dialog, pointed,
                   pictures, pinning, dropping, play>>

-----------------------------------------------------------------------------
(***************************************************************************)
(* Pins and drops from outside                                             *)
(***************************************************************************)

\* togglePinned, from the menu of a folder: pin or unpin, if none of the two
\* is under way.
TogglePinned ==
    /\ menu # 0 /\ view = "drive"
    /\ \E row \in FoldersOf(ActiveMenuFile) :
          /\ row.key \notin pending
          /\ pending' = pending \cup {row.key}
          /\ Chosen({row}, pointed)
          /\ Begins(Task(IF row.key \in pinned
                         THEN <<Call("unpin", row.key, Absent),
                                Call("kept", row.key, Absent)>>
                         ELSE <<Call("pin", row.key, Absent),
                                Call("kept", row.key, Root)>>))
    /\ menu' = 0 /\ pointed' = {}
    /\ UNCHANGED <<server, list, trash, locked, place, dialog, dragged,
                   pictures, pinned, dropping, play>>

\* The menu of the pins, for those whose folder the copy has: onUnpin.
PinMenu(d) == May("menu") /\ ~locked /\ d \in pinned /\ RowOf(d) # {}

PinUnpins(d) ==
    /\ PinMenu(d)
    /\ d \notin pending
    /\ pending' = pending \cup {d}
    /\ Begins(Task(<<Call("unpin", d, Absent), Call("kept", d, Absent)>>))
    /\ UNCHANGED <<server, list, trash, locked, place, screen, pictures,
                   pinned, dropping, odd, play>>

\* Its onRename and onDelete, which want no more than the row.
PinAsks(d, do) ==
    /\ PinMenu(d)
    /\ dialog' = Dialog(do, RowOf(d))
    /\ UNCHANGED <<server, list, trash, locked, place, menu, dragged, pointed,
                   pictures, pinning, dropping, progress, odd, play>>

\* DriveDropZoneDirective.onDrop, onDropStarted: the folder is noted in one
\* place for all drops.
DropStarted ==
    /\ May("drop") /\ ~locked /\ view = "drive"
    /\ Cardinality(drops) < MaxDrops
    /\ dropInto' = current
    /\ \E n \in 1..MaxDrops :
          /\ \A drop \in drops : drop.n # n
          /\ drops' = drops \cup {[n |-> n, onto |-> current]}
    /\ odd' = odd \cup IF drops # {} THEN {"dropsMeet"} ELSE {}
    /\ UNCHANGED <<server, list, trash, locked, place, screen, pictures,
                   pinning, progress, play>>

\* Mutant of Dropped: the upload is for the folder that is open by then.
DroppedHere(drop) ==
    /\ drop \in drops
    /\ drops' = drops \ {drop}
    /\ dropInto' = Absent
    /\ odd' = odd \cup
              IF dropInto = Absent \/ locked \/ view # "drive"
              THEN IF locked \/ view # "drive" THEN {} ELSE {"dropLost"}
              ELSE IF current = drop.onto THEN {} ELSE {"dropAstray"}
    /\ UNCHANGED <<server, list, trash, locked, place, screen, pictures,
                   pinning, progress, play>>

\* onDropped, when a drop has been read: the upload is for the folder that
\* was noted. Nothing is uploaded if there is none, if the drive has been
\* locked or another view is shown.
Dropped(drop) ==
    /\ drop \in drops
    /\ drops' = drops \ {drop}
    /\ dropInto' = Absent
    /\ odd' = odd \cup
              IF dropInto = Absent \/ locked \/ view # "drive"
              THEN IF locked \/ view # "drive" THEN {} ELSE {"dropLost"}
              ELSE IF dropInto = drop.onto THEN {} ELSE {"dropAstray"}
    /\ UNCHANGED <<server, list, trash, locked, place, screen, pictures,
                   pinning, progress, play>>

\* onDropError: the drop could not be read.
DropUnread(drop) ==
    /\ drop \in drops
    /\ drops' = drops \ {drop}
    /\ UNCHANGED <<server, list, trash, locked, place, screen, pictures,
                   pinning, dropInto, progress, odd, play>>

-----------------------------------------------------------------------------
\* The page is opened: the tree and the pins are loaded, the vault locked or
\* not. Nothing has been uploaded into the trash before.
Init ==
    /\ \E start \in Starts :
          /\ files = start.files
          /\ folders = start.folders
          /\ parent = start.parent
          /\ pins = start.pins
          /\ used = Cardinality({f \in FileIds : start.files[f] # Absent})
          /\ play = start.play
          /\ budget = start.budget
    /\ refund = [g \in {} |-> Absent]
    /\ clock = 1
    /\ list = [rows |-> {}, at |-> 0] /\ trash = [rows |-> {}, at |-> 0]
    /\ locked \in BOOLEAN
    /\ view = "drive"
    /\ current = Root
    /\ back = <<>> /\ forward = <<>>
    /\ selected = {} /\ menu = 0 /\ dialog = Absent /\ dragged = {}
    /\ thumbs = {} /\ fetching = {}
    /\ pinned = {} /\ pending = {}
    /\ dropInto = Absent /\ drops = {}
    /\ \E t, u \in Tasks :
          /\ t # u
          /\ tasks = [v \in Tasks |-> CASE v = t -> Task(Tree)
                                        [] v = u -> Task(<<Load("pins")>>)
                                        [] OTHER -> Idle]
    /\ picked = {} /\ pointed = {}
    /\ odd = {}

\* The steps of what is under way.
TaskSteps ==
    \E t \in Tasks :
        \/ RequestMade(t) \/ RequestFails(t) \/ TwinFound(t)
        \/ LoadServed(t) \/ LoadNamed(t) \/ LoadFails(t)
        \/ TreeShown(t) \/ TrashShown(t) \/ PinsShown(t) \/ PinKept(t)

NavigationSteps ==
    \/ GoBack \/ GoForward \/ NavigateUp
    \/ \E d \in Folders \cup {Root} : OpenFolder(d) \/ ShowsFolder(d)
    \/ \E v \in {"drive", "trash", "storage", "transfers"} : ViewChange(v)

LockSteps ==
    \/ LockDrive \/ Unlock
    \/ \E f \in Pictures : ThumbnailAsked(f) \/ ThumbnailRead(f)

\* What a card or a row listens to; its double click is OpenFolder.
RowSteps ==
    \E row \in Shown :
        Click(row) \/ CtrlClick(row) \/ OpenMenu(row) \/ DragStart(row)

ChoiceSteps ==
    \/ RowSteps
    \/ \E rows \in SUBSET Shown, ctrl \in BOOLEAN : DrawBox(rows, ctrl)
    \/ CloseMenu \/ DragEnd
    \/ \E do \in {"trash", "purge", "rename"} : MenuAsks(do)
    \/ BulkAsks
    \/ \E do \in {"empty", "create"} : DriveAsks(do)
    \/ \E d \in Folders, do \in {"trash", "rename"} : PinAsks(d, do)
    \/ Cancel

UserSteps ==
    \/ Confirm \/ MenuRestores \/ BulkRestores \/ TogglePinned
    \/ \E d \in Folders : PinUnpins(d)
    \/ \E d \in Folders \cup {Root} : DropOn(d)
    \/ DropStarted
    \/ \E drop \in drops : Dropped(drop) \/ DropUnread(drop)

Next == TaskSteps \/ NavigationSteps \/ LockSteps \/ ChoiceSteps \/ UserSteps

Spec == Init /\ [][Next]_vars

-----------------------------------------------------------------------------
(***************************************************************************)
(* Properties                                                              *)
(***************************************************************************)

Views == {"drive", "trash", "storage", "transfers"}
Copy == [rows : SUBSET Row, at : Nat]
Reasons == {"failed", "overtaken", "late", "nameless", "pinsOvertaken",
            "strays", "crossed", "swept", "repinned", "kept", "alike",
            "another", "dropsMeet", "dropLost", "dropAstray"}

\* The place, the selection, the copies and the pins have their types.
TypeOK ==
    /\ Ledger!TypeOK
    /\ list \in Copy /\ trash \in Copy
    /\ locked \in BOOLEAN /\ view \in Views
    /\ current \in Folders \cup {Root}
    /\ back \in Seq(Folders \cup {Root}) /\ forward \in Seq(Folders \cup {Root})
    /\ selected \subseteq Nat /\ menu \in Nat
    /\ thumbs \subseteq Pictures /\ fetching \subseteq Pictures
    /\ pins \subseteq Folders
    /\ pinned \subseteq Folders /\ pending \subseteq Folders
    /\ dropInto \in Folders \cup {Root, Absent}
    /\ \A t \in Tasks : /\ tasks[t].rows \subseteq Row
                        /\ tasks[t].got \in {"nothing", "served", "named"}
    /\ odd \subseteq Reasons

Settled == \A t \in Tasks : ~Busy(t)
But(reasons) == odd \cap reasons = {}

\* When nothing is under way, the list shows what the server has, and with
\* names if the drive is unlocked, however the user's changes, their loads,
\* the lock and the unlock have interleaved: unless something has failed, a
\* load has been overtaken by a later one, or a live file has been deleted
\* with a folder of the trash, after which only the trash is loaded.
ViewSettles ==
    Settled /\ But({"failed", "overtaken", "swept"}) =>
        /\ Named(list.rows, FALSE) = TreeRows
        /\ ~locked /\ But({"nameless"}) => \A r \in list.rows : r.named

\* A proxy, which no list shows, follows its video into the trash, out of
\* it, to its new name and into nothing. The exceptions are requests that
\* fail and the calls that do not find it ("strays"): the batch into the
\* trash and moves, which do not look for it, the restoring and deleting of
\* a single video, which look for the name of older versions, and any for
\* which the copy that is searched does not show it; and requests for a video
\* while the proxy's of an earlier one is still to be made ("crossed").
TwinsTogether ==
    Settled /\ But({"failed", "strays", "crossed"}) =>
        \A pair \in Pairs : Together(files[pair.of], files[pair.proxy])

\* While the drive is locked no name and no thumbnail is left to show: but
\* for what was being read when it was locked.
NamesHidden ==
    locked /\ ((\E r \in list.rows : r.named) \/ thumbs # {}) => "late" \in odd

\* When nothing is under way, the pins that are shown are the server's, and
\* every folder's pin can be changed again: unless a request has failed, the
\* first load has overwritten a change, or a folder pinned before has come
\* back from the trash, with its pin, after that load.
PinsSettle ==
    Settled /\ But({"failed", "pinsOvertaken", "repinned"}) =>
        /\ pending = {}
        /\ {d \in pinned : folders[d] = "live"} =
           {d \in pins : folders[d] = "live"}

\* What a menu, the bar over a selection or a drag acts on is what the user
\* has chosen in what is shown, or has its number, whatever the loads and the
\* ways through the folders: unless a selection was kept while other items
\* came to be shown.
ActsOnPicked == "another" \in odd => "kept" \in odd

\* A drop is uploaded into the folder it was made on, however the user goes
\* on meanwhile, if no other is being read at the same time.
DropsLand == {"dropLost", "dropAstray"} \cap odd # {} => "dropsMeet" \in odd
=============================================================================
