------------------------- MODULE MCPublisherIngest -------------------------
(* One publisher without H.264 and one with, on different PMT pids.        *)
EXTENDS PublisherIngest

CONSTANTS plain, h264
MCPmtPid == [p \in Pub |-> IF p = plain THEN 1 ELSE 2]
=============================================================================
