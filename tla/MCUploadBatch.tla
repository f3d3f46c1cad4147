--------------------------- MODULE MCUploadBatch ---------------------------
(***************************************************************************)
(* Instances of the browser's uploads for TLC.                             *)
(***************************************************************************)
EXTENDS UploadBatch, TLC

CONSTANTS t1, t2, t3, t4, t5, t6, v1, r1

\* Two windows, the first with a name twice; a folder of one file; and a
\* video with one file.
MCBatch == << <<t1, t2, t3>>, <<t4>>, <<t5>>, <<t6>> >>

MCVideos == << {}, {}, {v1}, {} >>

MCHash == [t \in {t1, t2, t3, t4, t5, t6} |-> IF t \in {t1, t2} THEN 1 ELSE 2]

MCScenarios == {{1}, {2, 4}, {3}, {r1}}
=============================================================================
