--------------------------- MODULE MCPusherControl ---------------------------
(***************************************************************************)
(* Small sets of commands and a small pipeline for TLC.                    *)
(***************************************************************************)
EXTENDS PusherControl

MCStart == [video |-> "NORMAL", audio |-> "NORMAL", bitrate |-> 2, fps |-> 2,
            size |-> 2, vcaps |-> <<2, 2>>, blackcaps |-> <<2, 2>>]
MCCommands == {[cmd |-> "PAUSE", arg |-> 0], [cmd |-> "RESUME", arg |-> 0],
               [cmd |-> "SET_FPS", arg |-> 1],
               [cmd |-> "SET_RESOLUTION", arg |-> 1],
               [cmd |-> "garbage", arg |-> 0]}
=============================================================================
