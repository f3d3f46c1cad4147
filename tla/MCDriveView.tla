---------------------------- MODULE MCDriveView ----------------------------
(***************************************************************************)
(* Instances of the drive in the browser for TLC.                          *)
(***************************************************************************)
EXTENDS DriveView, TLC

CONSTANTS clip, twin,   \* a video and its proxy
          dir1, dir2,   \* folders
          t1, t2

MCSymmetry == Permutations({t1, t2})

\* Files and folders are numbered apart.
MCNumber == (clip :> 1) @@ (twin :> 2) @@ (dir1 :> 1) @@ (dir2 :> 2)

MCPairs == {[of |-> clip, proxy |-> twin]}

Kept(base, form, folder, trashed) ==
    [provider |-> "local", size |-> 1, name |-> [base |-> base, form |-> form],
     folder |-> folder, upload |-> "complete", trash |-> trashed]

Folder(first, second) == (dir1 :> first) @@ (dir2 :> second)

\* The video and its proxy, named as now or as by older versions, live or in
\* the trash, in a folder or beside it.
MCStart(form, folder, trashed, made, calls, does) ==
    [files |-> (clip :> Kept("a", "own", folder, trashed))
               @@ (twin :> Kept("a", form, folder, trashed)),
     folders |-> made,
     parent |-> [f \in {dir1, dir2} |-> Root],
     pins |-> {},
     budget |-> calls,
     play |-> does]

None == Folder(Absent, Absent)
One == Folder("live", Absent)
Two == Folder("live", "live")
Gone == Folder("recent", Absent)

MCStarts ==
    {MCStart(form, dir1, trashed, One, 1, {"menu", "view"}) :
        form \in {"proxy", "legacy"}, trashed \in {"live", "recent"}}
    \cup {MCStart("proxy", Root, "live", One, 2, {"menu", "lock"}),
          [MCStart("proxy", dir1, "recent", Gone, 2, {"menu", "view"})
             EXCEPT !.pins = {dir1}],
          MCStart("proxy", dir1, "live", Gone, 1, {"empty", "view"}),
          MCStart("proxy", Root, "recent", None, 1, {"view", "select", "bulk"}),
          MCStart("proxy", dir1, "recent", Gone, 1, {"view", "select", "bulk"}),
          MCStart("proxy", dir1, "live", One, 1, {"go", "select", "bulk"}),
          MCStart("proxy", dir1, "live", One, 2, {"lock", "go"}),
          MCStart("proxy", dir1, "live", One, 0, {"drop", "go", "view"}),
          MCStart("proxy", Root, "live", Two, 2, {"drag", "select"}),
          MCStart("proxy", Root, "recent", None, 1, {"create", "empty", "view"})}
=============================================================================
