--------------------------- MODULE MCVideoStream ---------------------------
(***************************************************************************)
(* Instances of the video stream for TLC.                                  *)
(***************************************************************************)
EXTENDS VideoStream

\* Videos that begin with their moov box, and videos that end with it.
MCLayouts == {TRUE, FALSE}
=============================================================================
