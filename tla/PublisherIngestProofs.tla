------------------------ MODULE PublisherIngestProofs ------------------------
(***************************************************************************)
(* Theorems about PublisherIngest, for any publishers and any timeout: a   *)
(* silent publisher loses its place in time, what an earlier publisher     *)
(* left in the validator never refuses a chunk of a good one, and once the *)
(* signal arrived every thread has finitely many steps left.               *)
(***************************************************************************)
EXTENDS PublisherIngest, TLAPS

\* The types of what the two properties depend on.
Typed ==
    /\ accPc \in {"top", "accept", "set", "spawn", "join", "close", "done"}
    /\ rdPc \in {"none", "top", "sock", "recv", "inspect", "cast", "ended"}
    /\ accSock \in Pub \cup {NoPub} /\ pubSock \in Pub \cup {NoPub}
    /\ rdSock \in Pub \cup {NoPub}
    /\ recvAge \in 0 .. Limit /\ idleAge \in 0 .. AgeCap /\ holdAge \in 0 .. Hold
    /\ chunk \in Chunk /\ shown \subseteq {"pat", "pmt"}
    /\ pmtPid \in Nat /\ sawPmt \in BOOLEAN /\ sawH264 \in BOOLEAN

\* The acceptor hands one publisher at a time to a reader and waits for it.
OneAtATime ==
    /\ accPc \in {"top", "accept", "set", "done"} => pubSock = NoPub
    /\ accPc = "set" => accSock \in Pub
    /\ accPc = "join" <=> rdPc # "none"
    /\ rdPc \in {"recv", "inspect", "cast"} =>
          rdSock \in Pub /\ pubSock \in {rdSock, NoPub}

\* How long the publisher may have been silent, by where its reader is.
SilenceKnown ==
    pubSock # NoPub =>
        /\ accPc = "spawn" => idleAge = 0
        /\ rdPc \in {"top", "sock"} => idleAge <= Limit
        /\ rdPc = "recv" => idleAge <= Limit + recvAge
        /\ rdPc = "inspect" => idleAge = 0
        /\ rdPc = "cast" => idleAge <= holdAge
        /\ rdPc = "ended" \/ accPc = "close" => idleAge <= 2 * Limit

\* What the validator knows of the publisher that is being read.
ValidatorKnown ==
    rdPc \in {"top", "sock", "recv", "inspect", "cast"} /\ shown # {} =>
        /\ rdSock \in Pub /\ pubSock \in {rdSock, NoPub}
        /\ "pat" \in shown /\ pmtPid = PmtPid[rdSock]
        /\ "pmt" \in shown /\ rdSock \in HasH264 => sawH264

IInv == Typed /\ OneAtATime /\ SilenceKnown /\ ValidatorKnown
-----------------------------------------------------------------------------
LEMMA Limits == /\ Limit \in Nat /\ 0 < Limit /\ Hold \in Nat /\ Hold <= Limit
                /\ NoPub \notin Pub /\ PmtPid \in [Pub -> Nat \ {0}]
BY IngestAssumption DEF IngestAssumption

LEMMA InitIInv == Init => IInv
<1> SUFFICES ASSUME Init PROVE IInv
  OBVIOUS
<1> USE DEF Init
<1>1. chunk \in Chunk
  BY DEF NoChunk, Chunk
<1>2. sawPmt \in BOOLEAN /\ sawH264 \in BOOLEAN
  <2>1. sawPmt = FALSE /\ sawH264 = FALSE
    OBVIOUS
  <2> QED
    BY <2>1
<1>3. idleAge \in 0 .. AgeCap
  BY Limits DEF AgeCap
<1>4. Typed
  BY <1>1, <1>2, <1>3, Limits DEF Typed
<1> QED
  BY <1>4, Limits DEF IInv, OneAtATime, SilenceKnown, ValidatorKnown

LEMMA AccTopStep == IInv /\ AccTop => IInv'
<1> SUFFICES ASSUME IInv, AccTop PROVE IInv'
  OBVIOUS
<1> USE Limits DEF IInv, AccTop, stopVars, accVars, rdVars, netVars, ages, validator
<1>1. Typed'
  BY DEF Typed, AgeCap
<1>2. OneAtATime'
  BY DEF Typed, OneAtATime
<1>3. SilenceKnown'
  BY DEF Typed, OneAtATime, SilenceKnown, AgeCap
<1>4. ValidatorKnown'
  BY DEF Typed, OneAtATime, ValidatorKnown
<1> QED
  BY <1>1, <1>2, <1>3, <1>4

LEMMA AccFailedStep == IInv /\ AccFailed => IInv'
<1> SUFFICES ASSUME IInv, AccFailed PROVE IInv'
  OBVIOUS
<1> USE Limits DEF IInv, AccFailed, stopVars, accVars, rdVars, netVars, ages, validator
<1>1. Typed'
  BY DEF Typed, AgeCap
<1>2. OneAtATime'
  BY DEF Typed, OneAtATime
<1>3. SilenceKnown'
  BY DEF Typed, OneAtATime, SilenceKnown, AgeCap
<1>4. ValidatorKnown'
  BY DEF Typed, OneAtATime, ValidatorKnown
<1> QED
  BY <1>1, <1>2, <1>3, <1>4

LEMMA AccSetStep == IInv /\ AccSet => IInv'
<1> SUFFICES ASSUME IInv, AccSet PROVE IInv'
  OBVIOUS
<1> USE Limits DEF IInv, AccSet, stopVars, accVars, rdVars, netVars, ages, validator
<1>1. Typed'
  BY DEF Typed, AgeCap
<1>2. OneAtATime'
  BY DEF Typed, OneAtATime
<1>3. SilenceKnown'
  BY DEF Typed, OneAtATime, SilenceKnown, AgeCap
<1>4. ValidatorKnown'
  BY DEF Typed, OneAtATime, ValidatorKnown
<1> QED
  BY <1>1, <1>2, <1>3, <1>4

LEMMA AccSpawnStep == IInv /\ AccSpawn => IInv'
<1> SUFFICES ASSUME IInv, AccSpawn PROVE IInv'
  OBVIOUS
<1> USE Limits DEF IInv, AccSpawn, stopVars, accVars, rdVars, netVars, ages, validator
<1>1. Typed'
  BY DEF Typed, AgeCap
<1>2. OneAtATime'
  BY DEF Typed, OneAtATime
<1>3. SilenceKnown'
  BY DEF Typed, OneAtATime, SilenceKnown, AgeCap
<1>4. ValidatorKnown'
  BY DEF Typed, OneAtATime, ValidatorKnown
<1> QED
  BY <1>1, <1>2, <1>3, <1>4

LEMMA AccJoinStep == IInv /\ AccJoin => IInv'
<1> SUFFICES ASSUME IInv, AccJoin PROVE IInv'
  OBVIOUS
<1> USE Limits DEF IInv, AccJoin, stopVars, accVars, rdVars, netVars, ages, validator
<1>1. Typed'
  BY DEF Typed, AgeCap
<1>2. OneAtATime'
  BY DEF Typed, OneAtATime
<1>3. SilenceKnown'
  BY DEF Typed, OneAtATime, SilenceKnown, AgeCap
<1>4. ValidatorKnown'
  BY DEF Typed, OneAtATime, ValidatorKnown
<1> QED
  BY <1>1, <1>2, <1>3, <1>4

LEMMA AccCloseStep == IInv /\ AccClose => IInv'
<1> SUFFICES ASSUME IInv, AccClose PROVE IInv'
  OBVIOUS
<1> USE Limits DEF IInv, AccClose, ClosePublisher, stopVars, accVars, rdVars, netVars, ages, validator
<1>1. Typed'
  BY DEF Typed, AgeCap
<1>2. OneAtATime'
  BY DEF Typed, OneAtATime
<1>3. SilenceKnown'
  BY DEF Typed, OneAtATime, SilenceKnown, AgeCap
<1>4. ValidatorKnown'
  BY DEF Typed, OneAtATime, ValidatorKnown
<1> QED
  BY <1>1, <1>2, <1>3, <1>4

LEMMA RdTopStep == IInv /\ RdTop => IInv'
<1> SUFFICES ASSUME IInv, RdTop PROVE IInv'
  OBVIOUS
<1> USE Limits DEF IInv, RdTop, stopVars, accVars, rdVars, netVars, ages, validator
<1>1. Typed'
  BY DEF Typed, AgeCap
<1>2. OneAtATime'
  BY DEF Typed, OneAtATime
<1>3. SilenceKnown'
  BY DEF Typed, OneAtATime, SilenceKnown, AgeCap
<1>4. ValidatorKnown'
  BY DEF Typed, OneAtATime, ValidatorKnown
<1> QED
  BY <1>1, <1>2, <1>3, <1>4

LEMMA RdSockStep == IInv /\ RdSock => IInv'
<1> SUFFICES ASSUME IInv, RdSock PROVE IInv'
  OBVIOUS
<1> USE Limits DEF IInv, RdSock, stopVars, accVars, rdVars, netVars, ages, validator
<1>1. Typed'
  BY DEF Typed, AgeCap
<1>2. OneAtATime'
  BY DEF Typed, OneAtATime
<1>3. SilenceKnown'
  BY DEF Typed, OneAtATime, SilenceKnown, AgeCap
<1>4. ValidatorKnown'
  BY DEF Typed, OneAtATime, ValidatorKnown
<1> QED
  BY <1>1, <1>2, <1>3, <1>4

LEMMA RdDataStep == IInv /\ RdData => IInv'
<1> SUFFICES ASSUME IInv, RdData PROVE IInv'
  OBVIOUS
<1> USE Limits DEF IInv, RdData, stopVars, accVars, rdVars, netVars, ages, validator
<1>1. Typed'
  BY DEF Typed, AgeCap
<1>2. OneAtATime'
  BY DEF Typed, OneAtATime
<1>3. SilenceKnown'
  BY DEF Typed, OneAtATime, SilenceKnown, AgeCap
<1>4. ValidatorKnown'
  BY DEF Typed, OneAtATime, ValidatorKnown
<1> QED
  BY <1>1, <1>2, <1>3, <1>4

LEMMA RdTimeoutStep == IInv /\ RdTimeout => IInv'
<1> SUFFICES ASSUME IInv, RdTimeout PROVE IInv'
  OBVIOUS
<1> USE Limits DEF IInv, RdTimeout, Idle, stopVars, accVars, rdVars, netVars, ages, validator
<1>1. Typed'
  BY DEF Typed, AgeCap
<1>2. OneAtATime'
  BY DEF Typed, OneAtATime
<1>3. SilenceKnown'
  BY DEF Typed, OneAtATime, SilenceKnown, AgeCap
<1>4. ValidatorKnown'
  BY DEF Typed, OneAtATime, ValidatorKnown
<1> QED
  BY <1>1, <1>2, <1>3, <1>4

LEMMA RdErrorStep == IInv /\ RdError => IInv'
<1> SUFFICES ASSUME IInv, RdError PROVE IInv'
  OBVIOUS
<1> USE Limits DEF IInv, RdError, stopVars, accVars, rdVars, netVars, ages, validator
<1>1. Typed'
  BY DEF Typed, AgeCap
<1>2. OneAtATime'
  BY DEF Typed, OneAtATime
<1>3. SilenceKnown'
  BY DEF Typed, OneAtATime, SilenceKnown, AgeCap
<1>4. ValidatorKnown'
  BY DEF Typed, OneAtATime, ValidatorKnown
<1> QED
  BY <1>1, <1>2, <1>3, <1>4

LEMMA RdInspectStep == IInv /\ RdInspect => IInv'
<1> SUFFICES ASSUME IInv, RdInspect PROVE IInv'
  OBVIOUS
<1> USE Limits DEF IInv
<1>1. /\ rdPc = "inspect" /\ rdPc' \in {"cast", "top"} /\ holdAge' = 0
      /\ UNCHANGED <<accPc, accSock, pubSock, rdSock, recvAge, idleAge>>
      /\ chunk' = NoChunk /\ shown' = Shown
  BY DEF RdInspect, stopVars, accVars, netVars
<1>2. rdSock \in Pub /\ rdPc # "none" /\ rdPc' # "none"
  BY <1>1 DEF OneAtATime
<1>3. PICK pid \in Nat, pmt \in BOOLEAN :
         /\ pid = IF "pat" \in chunk.tables THEN PmtPid[rdSock] ELSE pmtPid
         /\ pmt <=> "pmt" \in chunk.tables /\ pid = PmtPid[rdSock]
  <2>1. (IF "pat" \in chunk.tables THEN PmtPid[rdSock] ELSE pmtPid) \in Nat
    BY <1>2 DEF Typed
  <2> QED
    BY <2>1
<1>4. /\ pmtPid' = pid
      /\ sawPmt' = (sawPmt \/ pmt)
      /\ sawH264' = (sawH264 \/ (pmt /\ rdSock \in HasH264))
  BY <1>3 DEF RdInspect, Inspect, LastPat
<1>5. sawPmt' \in BOOLEAN /\ sawH264' \in BOOLEAN
  BY <1>4
<1>6. shown' \subseteq {"pat", "pmt"} /\ chunk' \in Chunk
  BY <1>1 DEF Typed, Shown, Chunk, NoChunk
<1>7. Typed'
  BY <1>1, <1>4, <1>5, <1>6 DEF Typed
<1>8. OneAtATime'
  BY <1>1, <1>2 DEF OneAtATime
<1>9. SilenceKnown'
  BY <1>1 DEF Typed, OneAtATime, SilenceKnown
<1>10. ASSUME shown' # {}
       PROVE  /\ "pat" \in shown' /\ pid = PmtPid[rdSock]
              /\ "pmt" \in shown' /\ rdSock \in HasH264 => sawH264'
  <2>1. "pat" \in shown' /\ shown' = shown \cup chunk.tables
    BY <1>1, <1>10 DEF Shown
  <2>2. "pat" \in chunk.tables \/ ("pat" \in shown /\ pmtPid = PmtPid[rdSock])
    BY <1>1, <2>1 DEF ValidatorKnown
  <2>3. pid = PmtPid[rdSock]
    BY <1>3, <2>2
  <2>4. ASSUME "pmt" \in shown', rdSock \in HasH264 PROVE pmt \/ sawH264
    BY <1>1, <1>3, <2>1, <2>3, <2>4 DEF ValidatorKnown
  <2>5. "pmt" \in shown' /\ rdSock \in HasH264 => sawH264'
    BY <1>4, <2>4
  <2> QED
    BY <2>1, <2>3, <2>5
<1>11. ValidatorKnown'
  BY <1>1, <1>2, <1>4, <1>10 DEF OneAtATime, ValidatorKnown
<1> QED
  BY <1>7, <1>8, <1>9, <1>11

LEMMA RdCastStep == IInv /\ RdCast => IInv'
<1> SUFFICES ASSUME IInv, RdCast PROVE IInv'
  OBVIOUS
<1> USE Limits DEF IInv, RdCast, stopVars, accVars, rdVars, netVars, ages, validator
<1>1. Typed'
  BY DEF Typed, AgeCap
<1>2. OneAtATime'
  BY DEF Typed, OneAtATime
<1>3. SilenceKnown'
  BY DEF Typed, OneAtATime, SilenceKnown, AgeCap
<1>4. ValidatorKnown'
  BY DEF Typed, OneAtATime, ValidatorKnown
<1> QED
  BY <1>1, <1>2, <1>3, <1>4

LEMMA SignalStep == IInv /\ Signal => IInv'
<1> SUFFICES ASSUME IInv, Signal PROVE IInv'
  OBVIOUS
<1> USE Limits DEF IInv, Signal, stopVars, accVars, rdVars, netVars, ages, validator
<1>1. Typed'
  BY DEF Typed, AgeCap
<1>2. OneAtATime'
  BY DEF Typed, OneAtATime
<1>3. SilenceKnown'
  BY DEF Typed, OneAtATime, SilenceKnown, AgeCap
<1>4. ValidatorKnown'
  BY DEF Typed, OneAtATime, ValidatorKnown
<1> QED
  BY <1>1, <1>2, <1>3, <1>4

LEMMA StopListeningStep == IInv /\ StopListening => IInv'
<1> SUFFICES ASSUME IInv, StopListening PROVE IInv'
  OBVIOUS
<1> USE Limits DEF IInv, StopListening, stopVars, accVars, rdVars, netVars, ages, validator
<1>1. Typed'
  BY DEF Typed, AgeCap
<1>2. OneAtATime'
  BY DEF Typed, OneAtATime
<1>3. SilenceKnown'
  BY DEF Typed, OneAtATime, SilenceKnown, AgeCap
<1>4. ValidatorKnown'
  BY DEF Typed, OneAtATime, ValidatorKnown
<1> QED
  BY <1>1, <1>2, <1>3, <1>4

LEMMA StopPublisherStep == IInv /\ StopPublisher => IInv'
<1> SUFFICES ASSUME IInv, StopPublisher PROVE IInv'
  OBVIOUS
<1> USE Limits DEF IInv, StopPublisher, ClosePublisher, stopVars, accVars, rdVars, netVars, ages, validator
<1>1. Typed'
  BY DEF Typed, AgeCap
<1>2. OneAtATime'
  BY DEF Typed, OneAtATime
<1>3. SilenceKnown'
  BY DEF Typed, OneAtATime, SilenceKnown, AgeCap
<1>4. ValidatorKnown'
  BY DEF Typed, OneAtATime, ValidatorKnown
<1> QED
  BY <1>1, <1>2, <1>3, <1>4

LEMMA StopJoinStep == IInv /\ StopJoin => IInv'
<1> SUFFICES ASSUME IInv, StopJoin PROVE IInv'
  OBVIOUS
<1> USE Limits DEF IInv, StopJoin, stopVars, accVars, rdVars, netVars, ages, validator
<1>1. Typed'
  BY DEF Typed, AgeCap
<1>2. OneAtATime'
  BY DEF Typed, OneAtATime
<1>3. SilenceKnown'
  BY DEF Typed, OneAtATime, SilenceKnown, AgeCap
<1>4. ValidatorKnown'
  BY DEF Typed, OneAtATime, ValidatorKnown
<1> QED
  BY <1>1, <1>2, <1>3, <1>4

LEMMA TickStep == IInv /\ Tick => IInv'
<1> SUFFICES ASSUME IInv, Tick PROVE IInv'
  OBVIOUS
<1> USE Limits DEF IInv, Tick, Waits, Older, stopVars, accVars, rdVars, netVars, ages, validator
<1>1. Typed'
  BY DEF Typed, AgeCap
<1>2. OneAtATime'
  BY DEF Typed, OneAtATime
<1>3. SilenceKnown'
  BY DEF Typed, OneAtATime, SilenceKnown, AgeCap
<1>4. ValidatorKnown'
  BY DEF Typed, OneAtATime, ValidatorKnown
<1> QED
  BY <1>1, <1>2, <1>3, <1>4

LEMMA AccAcceptStep == ASSUME IInv, NEW p \in Pub, AccAccept(p) PROVE IInv'
<1> USE Limits DEF IInv, AccAccept, stopVars, accVars, rdVars, netVars, ages, validator
<1>1. Typed'
  BY DEF Typed, AgeCap
<1>2. OneAtATime'
  BY DEF Typed, OneAtATime
<1>3. SilenceKnown'
  BY DEF Typed, OneAtATime, SilenceKnown, AgeCap
<1>4. ValidatorKnown'
  BY DEF Typed, OneAtATime, ValidatorKnown
<1> QED
  BY <1>1, <1>2, <1>3, <1>4

LEMMA ConnectStep == ASSUME IInv, NEW p \in Pub, Connect(p) PROVE IInv'
<1> USE Limits DEF IInv, Connect, stopVars, accVars, rdVars, netVars, ages, validator
<1>1. Typed'
  BY DEF Typed, AgeCap
<1>2. OneAtATime'
  BY DEF Typed, OneAtATime
<1>3. SilenceKnown'
  BY DEF Typed, OneAtATime, SilenceKnown, AgeCap
<1>4. ValidatorKnown'
  BY DEF Typed, OneAtATime, ValidatorKnown
<1> QED
  BY <1>1, <1>2, <1>3, <1>4

LEMMA SendStep == ASSUME IInv, NEW p \in Pub, Send(p) PROVE IInv'
<1> USE Limits DEF IInv, Send, stopVars, accVars, rdVars, netVars, ages, validator
<1>1. Typed'
  BY DEF Typed, AgeCap
<1>2. OneAtATime'
  BY DEF Typed, OneAtATime
<1>3. SilenceKnown'
  BY DEF Typed, OneAtATime, SilenceKnown, AgeCap
<1>4. ValidatorKnown'
  BY DEF Typed, OneAtATime, ValidatorKnown
<1> QED
  BY <1>1, <1>2, <1>3, <1>4

LEMMA GoneStep == ASSUME IInv, NEW p \in Pub, Gone(p) PROVE IInv'
<1> USE Limits DEF IInv, Gone, stopVars, accVars, rdVars, netVars, ages, validator
<1>1. Typed'
  BY DEF Typed, AgeCap
<1>2. OneAtATime'
  BY DEF Typed, OneAtATime
<1>3. SilenceKnown'
  BY DEF Typed, OneAtATime, SilenceKnown, AgeCap
<1>4. ValidatorKnown'
  BY DEF Typed, OneAtATime, ValidatorKnown
<1> QED
  BY <1>1, <1>2, <1>3, <1>4

-----------------------------------------------------------------------------
\* A chunk that is refused is bad, or its publisher has not shown H.264.
LEMMA RefusedIsBad ==
    ASSUME IInv, Next, rdPc = "inspect", rdPc' = "top", chunk.good,
           rdSock \in HasH264
    PROVE  ~({"pat", "pmt"} \subseteq shown')
<1>1. rdSock' = rdSock /\ RdInspect
  BY DEF Next, Acceptor, Reader, Main, Publishers, AccTop, AccFailed, AccSet,
     AccSpawn, AccJoin, AccClose, AccAccept, RdTop, RdSock, RdData, RdTimeout,
     RdError, RdInspect, RdCast, Signal, StopListening, StopPublisher, StopJoin,
     Stopped, Connect, Send, Gone, Tick, stopVars, accVars, rdVars, netVars,
     ages, vars, IInv, OneAtATime
<1>2. ~sawH264'
  BY <1>1 DEF RdInspect, Valid
<1>3. IInv'
  BY <1>1, RdInspectStep
<1> QED
  BY <1>1, <1>2, <1>3 DEF IInv, ValidatorKnown

GoodNotRefusedStep ==
    rdPc = "inspect" /\ rdPc' = "top" /\ chunk.good /\ rdSock \in HasH264
        => ~({"pat", "pmt"} \subseteq shown')

LEMMA NextPreserves == IInv /\ [Next]_vars => IInv' /\ [GoodNotRefusedStep]_vars
<1> SUFFICES ASSUME IInv, [Next]_vars PROVE IInv' /\ [GoodNotRefusedStep]_vars
  OBVIOUS
<1>1. ASSUME Acceptor PROVE IInv'
  BY <1>1, AccTopStep, AccFailedStep, AccSetStep, AccSpawnStep, AccJoinStep,
     AccCloseStep, AccAcceptStep, Zenon DEF Acceptor
<1>2. ASSUME Reader PROVE IInv'
  BY <1>2, RdTopStep, RdSockStep, RdDataStep, RdTimeoutStep, RdErrorStep,
     RdInspectStep, RdCastStep, Zenon DEF Reader
<1>3. ASSUME UNCHANGED vars PROVE IInv'
  BY <1>3 DEF vars, stopVars, accVars, rdVars, netVars, ages, validator, IInv,
     Typed, OneAtATime, SilenceKnown, ValidatorKnown
<1>4. ASSUME Main PROVE IInv'
  BY <1>3, <1>4, SignalStep, StopListeningStep, StopPublisherStep, StopJoinStep,
     Zenon DEF Main, Stopped
<1>5. ASSUME Publishers PROVE IInv'
  BY <1>5, ConnectStep, SendStep, GoneStep, Zenon DEF Publishers
<1>6. IInv'
  BY <1>1, <1>2, <1>3, <1>4, <1>5, TickStep, Zenon DEF Next
<1>7. [GoodNotRefusedStep]_vars
  BY RefusedIsBad DEF GoodNotRefusedStep
<1> QED
  BY <1>6, <1>7

\* A publisher that sends nothing loses its place within twice the timeout,
\* wherever the reader, broadcast and stop() are.
THEOREM SilentDroppedCorrect == Spec => []SilentDropped
<1>1. IInv => SilentDropped
  <2> SUFFICES ASSUME IInv, pubSock # NoPub PROVE idleAge <= 2 * Limit
    BY DEF SilentDropped
  <2>1. accPc \in {"spawn", "join", "close"}
    BY DEF IInv, Typed, OneAtATime
  <2>2. idleAge \in Nat /\ recvAge \in Nat /\ holdAge \in Nat
        /\ recvAge <= Limit /\ holdAge <= Hold
    BY Limits DEF IInv, Typed, AgeCap
  <2>3. CASE accPc = "join"
    BY <2>2, <2>3, Limits DEF IInv, Typed, OneAtATime, SilenceKnown
  <2>4. CASE accPc \in {"spawn", "close"}
    BY <2>2, <2>4, Limits DEF IInv, SilenceKnown
  <2> QED
    BY <2>1, <2>3, <2>4
<1> QED
  BY <1>1, InitIInv, NextPreserves, PTL DEF Spec

\* Whatever earlier publishers left in the validator, no well-formed chunk of
\* one that has shown its PAT and a PMT with H.264 is refused.
THEOREM GoodNotRefusedCorrect == Spec => GoodNotRefused
BY InitIInv, NextPreserves, PTL DEF Spec, GoodNotRefused, GoodNotRefusedStep
-----------------------------------------------------------------------------
(* Coming down.  StopReturns needs fairness and is left to TLC; what it    *)
(* needs of the threads is that none has more than finitely many steps and *)
(* finitely long waits left once the signal arrived.                       *)

StopLeft == CASE stopPc = "run" -> 3 [] stopPc = "close" -> 2
              [] stopPc = "join" -> 1 [] OTHER -> 0

\* The acceptor may have a publisher in hand: it is still served.
AccLeft ==
    CASE accPc = "accept" -> 6 [] accPc = "set" -> 5 [] accPc = "spawn" -> 4
      [] accPc = "join" -> 3 [] accPc = "close" -> 2 [] accPc = "top" -> 1
      [] OTHER -> 0

\* The reader may be about to receive, and then inspects and broadcasts what
\* it received; it waits in srt_recv and in broadcast.
RdLeft ==
    CASE rdPc = "sock" -> 5 [] rdPc = "recv" -> 4 [] rdPc = "inspect" -> 3
      [] rdPc = "cast" -> 2 [] rdPc = "top" -> 1 [] OTHER -> 0
RdWait ==
    CASE rdPc = "recv" -> Limit - recvAge [] rdPc = "cast" -> Hold - holdAge
      [] OTHER -> 0

\* Every step brings its thread's end nearer and undoes nothing of another's,
\* except that the acceptor may start one more reader.
ComesDownStep ==
    ~gRunning =>
        /\ ~gRunning'
        /\ Acceptor => AccLeft' < AccLeft /\ StopLeft' = StopLeft
        /\ Reader => RdLeft' < RdLeft /\ UNCHANGED <<AccLeft, StopLeft>>
        /\ StopListening \/ StopPublisher \/ StopJoin =>
              StopLeft' < StopLeft /\ UNCHANGED <<AccLeft, RdLeft, RdWait>>
        /\ Publishers => UNCHANGED <<AccLeft, StopLeft, RdLeft, RdWait>>
        /\ Tick => /\ UNCHANGED <<AccLeft, StopLeft, RdLeft>>
                   /\ rdPc \in {"recv", "cast"} => RdWait' < RdWait
ComesDown == [][ComesDownStep]_vars

LEMMA LeftFalls == IInv /\ [Next]_vars => [ComesDownStep]_vars
<1> SUFFICES ASSUME IInv, Next, ~gRunning
             PROVE  /\ ~gRunning'
                    /\ Acceptor => AccLeft' < AccLeft /\ StopLeft' = StopLeft
                    /\ Reader => RdLeft' < RdLeft /\ UNCHANGED <<AccLeft, StopLeft>>
                    /\ StopListening \/ StopPublisher \/ StopJoin =>
                          StopLeft' < StopLeft /\ UNCHANGED <<AccLeft, RdLeft, RdWait>>
                    /\ Publishers => UNCHANGED <<AccLeft, StopLeft, RdLeft, RdWait>>
                    /\ Tick => /\ UNCHANGED <<AccLeft, StopLeft, RdLeft>>
                               /\ rdPc \in {"recv", "cast"} => RdWait' < RdWait
  BY Zenon DEF ComesDownStep
<1> USE DEF accVars, rdVars, netVars, ages, validator, stopVars
<1>1. ~gRunning'
  BY Zenon DEF Next, Acceptor, AccTop, AccFailed, AccSet, AccSpawn, AccJoin, AccClose,
     AccAccept, Reader, RdTop, RdSock, RdData, RdTimeout, RdError, RdInspect,
     RdCast, Main, Signal, StopListening, StopPublisher, StopJoin, Stopped, vars,
     Publishers, Connect, Send, Gone, Tick
<1>2. ASSUME Acceptor PROVE AccLeft' < AccLeft /\ StopLeft' = StopLeft
  BY <1>2 DEF Acceptor, AccTop, AccFailed, AccSet, AccSpawn, AccJoin, AccClose,
     AccAccept, AccLeft, StopLeft
<1>3. ASSUME Reader PROVE RdLeft' < RdLeft /\ UNCHANGED <<AccLeft, StopLeft>>
  <2>1. UNCHANGED <<AccLeft, StopLeft>>
    BY <1>3 DEF Reader, RdTop, RdSock, RdData, RdTimeout, RdError, RdInspect,
       RdCast, AccLeft, StopLeft
  <2>2. CASE RdTop \/ RdSock \/ RdError \/ RdCast
    BY <2>1, <2>2 DEF RdTop, Reads, RdSock, RdError, RdCast, RdLeft
  <2>3. CASE RdData
    BY <2>1, <2>3 DEF RdData, RdLeft
  <2>4. CASE RdTimeout
    BY <2>1, <2>4 DEF RdTimeout, RdLeft
  <2>5. CASE RdInspect
    <3>1. rdPc = "inspect" /\ rdPc' \in {"cast", "top"}
      BY <2>5, Zenon DEF RdInspect
    <3> QED  BY <2>1, <3>1 DEF RdLeft
  <2> QED
    BY <1>3, <2>2, <2>3, <2>4, <2>5 DEF Reader
<1>4. ASSUME StopListening \/ StopPublisher \/ StopJoin
      PROVE  StopLeft' < StopLeft /\ UNCHANGED <<AccLeft, RdLeft, RdWait>>
  BY <1>4 DEF StopListening, StopPublisher, StopJoin, StopLeft, AccLeft, RdLeft, RdWait
<1>5. ASSUME Publishers PROVE UNCHANGED <<AccLeft, StopLeft, RdLeft, RdWait>>
  BY <1>5 DEF Publishers, Connect, Send, Gone, StopLeft, AccLeft, RdLeft, RdWait
<1>6. ASSUME Tick
      PROVE  /\ UNCHANGED <<AccLeft, StopLeft, RdLeft>>
             /\ rdPc \in {"recv", "cast"} => RdWait' < RdWait
  <2>1. UNCHANGED <<AccLeft, StopLeft, RdLeft>>
    BY <1>6 DEF Tick, StopLeft, AccLeft, RdLeft
  <2>2. recvAge \in Nat /\ holdAge \in Nat
    BY Limits DEF IInv, Typed
  <2> QED
    BY <1>6, <2>1, <2>2, Limits DEF Tick, RdWait
<1> QED
  BY <1>1, <1>2, <1>3, <1>4, <1>5, <1>6

\* Whatever the acceptor and the reader were doing when the signal arrived,
\* also when a new publisher was accepted behind stop()'s back and sends
\* without end, each has finitely many steps left, and the time a step may
\* take is bounded by the timeouts.
THEOREM ComesDownCorrect == Spec => ComesDown
BY InitIInv, NextPreserves, LeftFalls, PTL DEF Spec, ComesDown
=============================================================================
