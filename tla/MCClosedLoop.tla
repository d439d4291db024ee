---------------------------- MODULE MCClosedLoop ----------------------------
(* A ladder with a step of bitrate and one of size. *)
EXTENDS ClosedLoop

MCBase == [bitrate |-> 2, fps |-> 1, width |-> 4, height |-> 2]
MCFloor == [bitrate |-> 1, fps |-> 1, width |-> 2, height |-> 2]
MCStartup == [bitrate |-> 2, fps |-> 1, size |-> <<4, 2>>,
              video |-> "NORMAL", audio |-> "NORMAL"]
=============================================================================
