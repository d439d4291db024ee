--------------------------- MODULE MCRelayFanout ---------------------------
(* Instances of RelayFanout for TLC.                                       *)
EXTENDS RelayFanout, TLC

\* The connections are interchangeable (safety runs only).
SubSymmetry == Permutations(Sub)
=============================================================================
