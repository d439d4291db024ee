------------------------- MODULE MCGlobalController -------------------------
(***************************************************************************)
(* Small ladders for TLC: two steps down in bitrate, one in frame rate and *)
(* one in resolution.                                                      *)
(***************************************************************************)
EXTENDS GlobalController

MCBase == [bitrate |-> 3, fps |-> 5, width |-> 8, height |-> 8]
MCFloor == [bitrate |-> 1, fps |-> 4, width |-> 6, height |-> 6]
=============================================================================
