----------------------- MODULE PlayerLifecycleProofs -----------------------
(***************************************************************************)
(* Theorems about PlayerLifecycle: the recorder never outlives its input,  *)
(* record_phase tells the truth about it, the button shows that phase, and *)
(* stop() leaves nothing behind and is at most eight steps of the playing  *)
(* thread away from its end.                                               *)
(***************************************************************************)
EXTENDS PlayerLifecycle, TLAPS

\* What the main thread knows of the playing thread, by where it is.
Known ==
    /\ mainPc \in {"init", "spawn"} => workPc = "none" /\ ~stopFlag
    /\ mainPc \in {"ui", "reqStart", "reqStop"} =>
          lifecycle = (IF workPc = "none" THEN "Stopped" ELSE "Started")
    /\ mainPc \in {"stopping", "join"} => workPc # "none"
    /\ mainPc = "join" => stopFlag
    /\ mainPc = "done" => workPc \in {"none", "done"}

\* The playing thread has an input from its opening to the one place where it
\* is closed, and runs the recorder only inside the packet loop.
InLoop == {"record", "started", "stop", "read", "report", "handle", "blind",
           "leave"}
Holds ==
    /\ input <=> workPc \in InLoop \cup {"probe", "setup", "start", "stopped",
                                         "left", "close"}
    /\ recording => workPc \in InLoop

\* What may have become of the phase that the playing thread read before it
\* called the recorder: a start may have been taken back, a stop is not.
Answering ==
    /\ workPc \in {"start", "started"} => phase \in {"Requested", "StopRequested"}
    /\ workPc = "started" => recording
    /\ workPc = "stop" => phase = "StopRequested"
    /\ phase = "Active" => recording \/ workPc = "left"
    /\ recording => phase # "Idle"
    /\ recording /\ phase = "Requested" => workPc = "started"

IInv == TypeOK /\ Known /\ Holds /\ Answering /\ LabelIsCurrent /\ StopIsClean
-----------------------------------------------------------------------------
LEMMA InitIInv == Init => IInv
BY DEF Init, IInv, TypeOK, Known, Holds, InLoop, Answering, LabelIsCurrent,
       StopIsClean, PlayerState, RecordPhase

\* The flags stay Boolean: of all of the type invariant, this needs the values
\* that are stored, and nothing else.
Flags == /\ stopFlag \in BOOLEAN /\ posted \in BOOLEAN
         /\ input \in BOOLEAN /\ synced \in BOOLEAN /\ recording \in BOOLEAN

LEMMA FlagsKept == Flags /\ [Next]_vars => Flags'
<1> SUFFICES ASSUME Flags, [Next]_vars PROVE Flags'
  OBVIOUS
<1> USE DEF Flags, uiVars, playVars
<1>1. CASE Main
  BY <1>1, Zenon DEF Main, Start, Spawn, Paint, RequestStartRecord,
     RequestStopRecord, StopFlag, StopEnd
<1>2. CASE Ui
  BY <1>2, Zenon DEF Ui, ClickRecord, StopBegin
<1>3. CASE Worker
  <2>1. CASE Top \/ Announce \/ Open \/ Probe \/ Setup \/ Failed \/ Retry
    BY <2>1, Zenon DEF Top, Announce, Open, Probe, Setup, Failed, Retry
  <2>2. CASE ReadPhase \/ StartRecorder \/ ReportStarted \/ StopRecorder \/ ReportStopped
    BY <2>2, Zenon DEF ReadPhase, StartRecorder, ReportStarted, StopRecorder, ReportStopped
  <2>3. CASE ReadFails \/ ReportBroken \/ ReadPacket \/ Handle \/ ReportBlind
    BY <2>3, Zenon DEF ReadFails, ReportBroken, ReadPacket, Handle, ReportBlind
  <2>4. CASE Leave \/ ReportLeft \/ Close
    BY <2>4, Zenon DEF Leave, ReportLeft, Close
  <2> QED  BY <1>3, <2>1, <2>2, <2>3, <2>4 DEF Worker
<1>4. CASE PostStep
  BY <1>4, Zenon DEF PostStep, Post, Queued
<1>5. CASE Network
  BY <1>5, Zenon DEF Network, Silence, Resume, Break
<1>6. CASE UNCHANGED vars
  BY <1>6, Zenon DEF vars
<1> QED
  BY <1>1, <1>2, <1>3, <1>4, <1>5, <1>6 DEF Next, MainStep, UiStep, WorkerStep,
     Terminated

\* The types are kept by every step, whatever else is known of the state.
Others ==
    /\ mainPc \in {"init", "spawn", "ui", "reqStart", "reqStop", "stopping",
                  "join", "done"}
    /\ lifecycle \in {"Stopped", "Starting", "Started", "Stopping"}
    /\ workPc \in {"none", "top", "announce", "open", "probe", "setup",
                   "failed", "retry", "record", "start", "started", "stop", "stopped",
                   "read", "report", "handle", "blind", "leave", "left",
                   "close", "done"}
    /\ state \in PlayerState /\ phase \in RecordPhase /\ shown \in RecordPhase
    /\ posting \subseteq {"main", "worker"}
    /\ link \in {"flowing", "silent", "broken"}
    /\ lifecycle = "Started" => workPc # "none"

LEMMA TypesKept == TypeOK /\ [Next]_vars => TypeOK'
<1> SUFFICES ASSUME Others, [Next]_vars PROVE Others'
  BY FlagsKept DEF TypeOK, Flags, Others
<1> USE DEF Others, PlayerState, RecordPhase, SetState, SetPhase, uiVars,
        statusVars, playVars
<1>2. CASE Main
  <2>1. CASE Start  BY <2>1 DEF Start
  <2>2. CASE Spawn  BY <2>2 DEF Spawn
  <2>3. CASE Paint  BY <2>3 DEF Paint
  <2>4. CASE RequestStartRecord  BY <2>4 DEF RequestStartRecord, AfterStartRequest
  <2>5. CASE RequestStopRecord  BY <2>5 DEF RequestStopRecord, AfterStopRequest
  <2>6. CASE StopFlag  BY <2>6 DEF StopFlag
  <2>7. CASE StopEnd  BY <2>7 DEF StopEnd
  <2> QED
    BY <1>2, <2>1, <2>2, <2>3, <2>4, <2>5, <2>6, <2>7 DEF Main
<1>3. CASE Ui
  <2>1. CASE ClickRecord  BY <2>1 DEF ClickRecord
  <2>2. CASE StopBegin
    <3>1. CASE lifecycle = "Stopped"
      BY <2>2, <3>1 DEF StopBegin
    <3>2. CASE lifecycle # "Stopped"
      BY <2>2, <3>2 DEF StopBegin
    <3> QED
      BY <3>1, <3>2
  <2> QED
    BY <1>3, <2>1, <2>2 DEF Ui
<1>4. CASE Worker
  <2>1. CASE Top  BY <2>1 DEF Top
  <2>2. CASE Announce  BY <2>2 DEF Announce
  <2>3. CASE Open
    <3>1. CASE workPc' = "probe" /\ link' = "flowing" /\ SetState("worker", "ProbingStreams")
      BY <2>3, <3>1 DEF Open
    <3>2. CASE workPc' = "failed" /\ UNCHANGED statusVars /\ link' = link
      BY <2>3, <3>2 DEF Open
    <3>3. CASE workPc' = "done" /\ SetState("worker", "Error") /\ link' = link
      BY <2>3, <3>3 DEF Open
    <3> QED
      BY <2>3, <3>1, <3>2, <3>3 DEF Open
  <2>4. CASE Probe  BY <2>4 DEF Probe
  <2>5. CASE Setup
    <3>1. CASE workPc' = "record" /\ SetState("worker", "WaitingKeyframe")
      BY <2>5, <3>1 DEF Setup
    <3>2. CASE workPc' = "failed" /\ UNCHANGED statusVars
      BY <2>5, <3>2 DEF Setup
    <3>3. CASE workPc' = "done" /\ SetState("worker", "Error")
      BY <2>5, <3>3 DEF Setup
    <3> QED
      BY <2>5, <3>1, <3>2, <3>3 DEF Setup
  <2>6. CASE Failed  BY <2>6 DEF Failed
  <2>7. CASE Retry  BY <2>7 DEF Retry
  <2>8. CASE ReadPhase  BY <2>8 DEF ReadPhase, StopSeen, StopsRecording
  <2>9. CASE StartRecorder  BY <2>9 DEF StartRecorder
  <2>10. CASE ReportStarted  BY <2>10 DEF ReportStarted
  <2>11. CASE StopRecorder  BY <2>11 DEF StopRecorder
  <2>12. CASE ReportStopped  BY <2>12 DEF ReportStopped
  <2>13. CASE ReadFails  BY <2>13 DEF ReadFails
  <2>14. CASE ReportBroken  BY <2>14 DEF ReportBroken
  <2>15. CASE ReadPacket  BY <2>15 DEF ReadPacket
  <2>16. CASE Handle  BY <2>16 DEF Handle, StopSeen
  <2>17. CASE ReportBlind  BY <2>17 DEF ReportBlind
  <2>18. CASE Leave  BY <2>18 DEF Leave
  <2>19. CASE ReportLeft  BY <2>19 DEF ReportLeft
  <2>20. CASE Close  BY <2>20 DEF Close
  <2> QED
    BY <1>4, <2>1, <2>2, <2>3, <2>4, <2>5, <2>6, <2>7, <2>8, <2>9, <2>10, <2>11, <2>12, <2>13, <2>14, <2>15, <2>16, <2>17, <2>18, <2>19, <2>20 DEF Worker
<1>5. ASSUME NEW t, Post(t) PROVE Others'
  BY <1>5 DEF Post
<1>6. CASE Network
  BY <1>6 DEF Network, Silence, Resume, Break
<1>7. CASE UNCHANGED vars
  BY <1>7 DEF vars
<1> QED
  BY <1>2, <1>3, <1>4, <1>5, <1>6, <1>7 DEF Next, MainStep, UiStep, WorkerStep,
     PostStep, Terminated

\* The main thread keeps the invariant.
LEMMA MainKeeps == IInv /\ MainStep => IInv'
<1> SUFFICES ASSUME IInv, "main" \notin posting, Main, TypeOK' PROVE IInv'
  BY TypesKept DEF MainStep, Next, IInv
<1> USE DEF IInv, TypeOK, Known, Holds, InLoop, Answering, LabelIsCurrent,
            StopIsClean, PlayerState, RecordPhase, SetState, SetPhase, uiVars,
            statusVars, playVars
<1>1. CASE Start  BY <1>1 DEF Start
<1>2. CASE Spawn  BY <1>2 DEF Spawn
<1>3. CASE Paint  BY <1>3 DEF Paint
<1>4. CASE RequestStartRecord  BY <1>4 DEF RequestStartRecord, AfterStartRequest
<1>5. CASE RequestStopRecord  BY <1>5 DEF RequestStopRecord, AfterStopRequest
<1>6. CASE StopFlag  BY <1>6 DEF StopFlag
<1>7. CASE StopEnd  BY <1>7 DEF StopEnd, Joined
<1> QED  BY <1>1, <1>2, <1>3, <1>4, <1>5, <1>6, <1>7 DEF Main

\* So do clicks, and the end of the window.
LEMMA UiKeeps == IInv /\ UiStep => IInv'
<1> SUFFICES ASSUME IInv, "main" \notin posting, Ui, TypeOK' PROVE IInv'
  BY TypesKept DEF UiStep, Next, IInv
<1> USE DEF IInv, TypeOK, Known, Holds, InLoop, Answering, LabelIsCurrent,
            StopIsClean, PlayerState, RecordPhase, SetState, uiVars, statusVars,
            playVars
<1>1. CASE ClickRecord  BY <1>1 DEF ClickRecord
<1>2. CASE StopBegin  BY <1>2 DEF StopBegin
<1> QED  BY <1>1, <1>2 DEF Ui

\* The playing thread keeps it, in every state of run().
LEMMA WorkerKeeps == IInv /\ WorkerStep => IInv'
<1> SUFFICES ASSUME IInv, "worker" \notin posting, Worker, TypeOK' PROVE IInv'
  BY TypesKept DEF WorkerStep, Next, IInv
<1> USE DEF IInv, TypeOK, Known, Holds, InLoop, Answering, LabelIsCurrent,
            StopIsClean, PlayerState, RecordPhase, SetState, SetPhase, uiVars,
            statusVars, playVars
<1>1. CASE Top  BY <1>1 DEF Top
<1>2. CASE Announce  BY <1>2 DEF Announce
<1>3. CASE Open  BY <1>3 DEF Open
<1>4. CASE Probe
  <2>1. CASE workPc' = "setup" /\ input' = input /\ SetState("worker", "Initializing")
    BY <1>4, <2>1 DEF Probe
  <2>2. CASE workPc' = "failed" /\ input' = FALSE /\ UNCHANGED statusVars
    BY <1>4, <2>2 DEF Probe
  <2> QED
    BY <1>4, <2>1, <2>2 DEF Probe
<1>5. CASE Setup  BY <1>5 DEF Setup
<1>6. CASE Failed  BY <1>6 DEF Failed
<1>7. CASE Retry  BY <1>7 DEF Retry
<1>8. CASE ReadPhase  BY <1>8 DEF ReadPhase, StopSeen, StopsRecording
<1>9. CASE StartRecorder  BY <1>9 DEF StartRecorder
<1>10. CASE ReportStarted  BY <1>10 DEF ReportStarted
<1>11. CASE StopRecorder  BY <1>11 DEF StopRecorder
<1>12. CASE ReportStopped  BY <1>12 DEF ReportStopped
<1>13. CASE ReadFails  BY <1>13 DEF ReadFails
<1>14. CASE ReportBroken  BY <1>14 DEF ReportBroken
<1>15. CASE ReadPacket  BY <1>15 DEF ReadPacket
<1>16. CASE Handle  BY <1>16 DEF Handle, StopSeen
<1>17. CASE ReportBlind  BY <1>17 DEF ReportBlind
<1>18. CASE Leave  BY <1>18 DEF Leave, EndsRecording
<1>19. CASE ReportLeft  BY <1>19 DEF ReportLeft
<1>20. CASE Close  BY <1>20 DEF Close
<1> QED
  BY <1>1, <1>2, <1>3, <1>4, <1>5, <1>6, <1>7, <1>8, <1>9, <1>10, <1>11, <1>12,
     <1>13, <1>14, <1>15, <1>16, <1>17, <1>18, <1>19, <1>20 DEF Worker

\* Events and the network touch nothing of it but the label's freshness.
LEMMA PostKeeps == IInv /\ PostStep => IInv'
<1> SUFFICES ASSUME IInv, NEW t \in {"main", "worker"}, Post(t), TypeOK' PROVE IInv'
  BY TypesKept DEF PostStep, Next, IInv
<1> QED
  BY DEF IInv, TypeOK, Known, Holds, InLoop, Answering, LabelIsCurrent,
         StopIsClean, Post, Queued, uiVars, playVars

LEMMA NetworkKeeps == IInv /\ Network => IInv'
BY TypesKept DEF Next, IInv, TypeOK, Known, Holds, InLoop, Answering, LabelIsCurrent,
       StopIsClean, Network, Silence, Resume, Break, uiVars, statusVars, playVars

LEMMA StutterKeeps == IInv /\ UNCHANGED vars => IInv'
BY TypesKept DEF IInv, TypeOK, Known, Holds, InLoop, Answering, LabelIsCurrent,
       StopIsClean, vars, uiVars, statusVars, playVars

LEMMA Invariant == Spec => []IInv
<1>1. IInv /\ [Next]_vars => IInv'
  BY MainKeeps, UiKeeps, WorkerKeeps, PostKeeps, NetworkKeeps, StutterKeeps
     DEF Next, Terminated
<1> QED  BY InitIInv, <1>1, PTL DEF Spec
-----------------------------------------------------------------------------
(* Theorems.                                                               *)

\* Every variable has its type, and a started player has a playing thread.
THEOREM TypeCorrect == Spec => []TypeOK
<1>1. IInv => TypeOK
  BY DEF IInv
<1> QED  BY <1>1, Invariant, PTL

\* The recorder never runs without the input it was started on: every way out
\* of the packet loop passes Leave, which stops it, before Close.
THEOREM HasInputCorrect == Spec => []RecorderHasInput
<1>1. IInv => RecorderHasInput
  BY DEF IInv, Holds, InLoop, RecorderHasInput
<1> QED  BY <1>1, Invariant, PTL

\* record_phase tells the truth about the recorder, although the playing
\* thread reads it, calls the recorder and reports in three steps.
THEOREM HonestCorrect == Spec => []RecordHonest
<1>1. IInv => RecordHonest
  BY DEF IInv, Answering, RecordHonest
<1> QED  BY <1>1, Invariant, PTL

\* No change of record_phase is lost on the way to the button, in whichever
\* order the two threads post their events.
THEOREM LabelCorrect == Spec => []LabelIsCurrent
<1>1. IInv => LabelIsCurrent
  BY DEF IInv
<1> QED  BY <1>1, Invariant, PTL

\* After stop() nothing is open or recording, wherever the playing thread was.
THEOREM CleanCorrect == Spec => []StopIsClean
<1>1. IInv => StopIsClean
  BY DEF IInv
<1> QED  BY <1>1, Invariant, PTL

\* How many steps of its own the playing thread is away from its end, at most,
\* once the stop flag is up.
StepsLeft(pc) ==
    CASE pc \in {"none", "done"}               -> 0
      [] pc \in {"top", "failed", "close"}     -> 1
      [] pc \in {"left", "retry"}              -> 2
      [] pc = "leave"                          -> 3
      [] pc \in {"record", "report", "blind"}  -> 4
      [] pc \in {"handle", "setup"}            -> 5
      [] pc \in {"read", "probe"}              -> 6
      [] pc \in {"open", "started", "stopped"} -> 7
      [] pc \in {"announce", "start", "stop"}  -> 8

\* stop() is heard: the flag stays up, and every step of the playing thread,
\* through opening, recording and every error path, brings its end nearer.
EndsSoon ==
    [][stopFlag =>
          /\ stopFlag'
          /\ workPc' # workPc => StepsLeft(workPc') < StepsLeft(workPc)]_vars

THEOREM EndsSoonCorrect == Spec => EndsSoon
<1>1. ASSUME IInv, Next, stopFlag
      PROVE  stopFlag' /\ (workPc' # workPc => StepsLeft(workPc') < StepsLeft(workPc))
  <2> USE <1>1 DEF StepsLeft
  <2>1. CASE MainStep
    <3>1. ~Start /\ ~Spawn
      BY DEF IInv, Known, Start, Spawn
    <3> QED
      BY <2>1, <3>1 DEF MainStep, Main, Paint, RequestStartRecord,
         RequestStopRecord, StopFlag, StopEnd, uiVars
  <2>2. CASE UiStep
    BY <2>2 DEF UiStep, Ui, ClickRecord, StopBegin
  <2>3. CASE WorkerStep
    <3>1. stopFlag'
      BY <2>3, Zenon DEF WorkerStep, Worker, Top, Announce, Open, Probe, Setup,
         Failed, Retry, ReadPhase, StartRecorder, ReportStarted, StopRecorder,
         ReportStopped, ReadFails, ReportBroken, ReadPacket, Handle, ReportBlind,
         Leave, ReportLeft, Close, uiVars
    <3> SUFFICES ASSUME Worker PROVE StepsLeft(workPc') < StepsLeft(workPc)
      BY <2>3, <3>1 DEF WorkerStep
    <3>2. CASE Top \/ Announce \/ Open \/ Probe \/ Setup \/ Failed \/ Retry
      BY <3>2 DEF Top, Announce, Open, Probe, Setup, Failed, Retry
    <3>3. CASE ReadPhase \/ StartRecorder \/ ReportStarted \/ StopRecorder \/ ReportStopped
      BY <3>3 DEF ReadPhase, StopSeen, StartRecorder, ReportStarted, StopRecorder,
         ReportStopped
    <3>4. CASE ReadFails \/ ReportBroken \/ ReadPacket \/ ReportBlind
      BY <3>4 DEF ReadFails, ReportBroken, ReadPacket, ReportBlind
    <3>5. CASE Handle
      <4>1. workPc = "handle" /\ workPc' \in {"record", "leave", "blind"}
        BY <3>5, <1>1, Zenon DEF Handle, StopSeen
      <4> QED
        BY <4>1
    <3>6. CASE Leave \/ ReportLeft \/ Close
      <4>1. \/ workPc = "leave" /\ workPc' \in {"left", "close"}
            \/ workPc = "left" /\ workPc' = "close"
            \/ workPc = "close" /\ workPc' = "done"
        BY <3>6, <1>1, Zenon DEF Leave, ReportLeft, Close
      <4> QED
        BY <4>1
    <3> QED
      BY <3>2, <3>3, <3>4, <3>5, <3>6 DEF Worker
  <2>4. CASE PostStep \/ Network
    BY <2>4 DEF PostStep, Post, Network, Silence, Resume, Break, uiVars
  <2>5. CASE Terminated
    BY <2>5 DEF Terminated, vars, uiVars
  <2> QED
    BY <2>1, <2>2, <2>3, <2>4, <2>5 DEF Next
<1>2. IInv /\ [Next]_vars =>
          [stopFlag =>
             /\ stopFlag'
             /\ workPc' # workPc => StepsLeft(workPc') < StepsLeft(workPc)]_vars
  BY <1>1
<1> QED  BY <1>2, Invariant, PTL DEF Spec, EndsSoon

\* The button turns to "stop" when the user asked for a recording, and in one
\* other case only: the report of a start overtakes the request to stop it.
TurnsOnWhy ==
    [][~ShowStop(phase) /\ ShowStop(phase') =>
          RequestStartRecord \/ (ReportStarted /\ phase = "StopRequested")]_vars

THEOREM TurnsOnCorrect == Spec => TurnsOnWhy
<1>1. ASSUME IInv, Next, ~ShowStop(phase), ShowStop(phase')
      PROVE  RequestStartRecord \/ (ReportStarted /\ phase = "StopRequested")
  <2> USE <1>1 DEF ShowStop, SetState, SetPhase, uiVars, statusVars, playVars
  <2>1. CASE MainStep
    <3>1. ~Start /\ ~Spawn /\ ~Paint
      BY DEF Start, Spawn, Paint
    <3>2. ~RequestStopRecord
      BY DEF RequestStopRecord, AfterStopRequest
    <3>3. ~StopFlag /\ ~StopEnd
      BY DEF StopFlag, StopEnd
    <3> QED
      BY <2>1, <3>1, <3>2, <3>3, Zenon DEF MainStep, Main
  <2>2. CASE UiStep
    BY <2>2 DEF UiStep, Ui, ClickRecord, StopBegin
  <2>3. CASE WorkerStep
    <3> SUFFICES ASSUME Worker PROVE ReportStarted /\ phase = "StopRequested"
      BY <2>3 DEF WorkerStep
    <3>1. ~Top /\ ~Announce /\ ~Open /\ ~Probe /\ ~Setup /\ ~Failed /\ ~Retry
      BY DEF Top, Announce, Open, Probe, Setup, Failed, Retry
    <3>2. ~ReadPhase /\ ~StartRecorder /\ ~StopRecorder /\ ~ReportStopped
      BY DEF ReadPhase, StartRecorder, StopRecorder, ReportStopped
    <3>3. ~ReadFails /\ ~ReportBroken /\ ~ReadPacket /\ ~Handle /\ ~ReportBlind
      BY DEF ReadFails, ReportBroken, ReadPacket, Handle, ReportBlind
    <3>4. ~Leave /\ ~ReportLeft /\ ~Close
      BY DEF Leave, ReportLeft, Close
    <3>5. ReportStarted
      BY <3>1, <3>2, <3>3, <3>4 DEF Worker
    <3> QED
      BY <3>5 DEF ReportStarted, IInv, Answering
  <2>4. CASE PostStep \/ Network
    BY <2>4 DEF PostStep, Post, Network, Silence, Resume, Break
  <2>5. CASE Terminated
    BY <2>5 DEF Terminated, vars
  <2> QED
    BY <2>1, <2>2, <2>3, <2>4, <2>5 DEF Next
<1>2. IInv /\ [Next]_vars =>
          [~ShowStop(phase) /\ ShowStop(phase') =>
              RequestStartRecord \/ (ReportStarted /\ phase = "StopRequested")]_vars
  BY <1>1
<1> QED  BY <1>2, Invariant, PTL DEF Spec, TurnsOnWhy
=============================================================================
