---------------------------- MODULE PlayerLifecycle ----------------------------
(***************************************************************************)
(* The player (player/FFmpegD3D11Player.h, Recorder.cpp, the handlers of   *)
(* main.cpp and PlayerUi.h): the main thread starts and stops the playing  *)
(* thread, turns clicks on the record button into changes of record_phase  *)
(* and paints what queued status events bring; the playing thread opens    *)
(* the stream, reads packets, records on request and reconnects.           *)
(*                                                                         *)
(* A step is one critical section of statusMutex_ or one library call of a *)
(* thread.  Every change of the status posts an event, after the mutex was *)
(* released; an event paints the status as it is when it is delivered, so  *)
(* all that matters of the posted ones is whether there is any.            *)
(***************************************************************************)
EXTENDS Integers

PlayerState == {"Idle", "Starting", "OpeningInput", "ProbingStreams",
                "Initializing", "WaitingKeyframe", "Playing", "Reconnecting",
                "Stopping", "Stopped", "Error"}
RecordPhase == {"Idle", "Requested", "Active", "StopRequested"}

VARIABLES
    mainPc,     \* "init", "spawn", "ui", "reqStart", "reqStop", "stopping",
                \* "join", "done"
    lifecycle,  \* lifecycleState_
    stopFlag,   \* stopFlag_
    workPc,     \* the playing thread: "none", then where it is in run()
    state,      \* status_.state
    phase,      \* status_.record_phase
    posting,    \* the threads that changed status_ and are yet to post
    posted,     \* a status event waits in the queue of the main thread
    shown,      \* the record_phase last painted
    input,      \* fmt_ctx is open
    synced,     \* video_synced_
    recording,  \* recorder_.recording_, then with inFmtCtx_ pointing to input
    link        \* the connection: "flowing", "silent", "broken"

uiVars == <<mainPc, lifecycle, stopFlag>>
statusVars == <<state, phase, posting>>
playVars == <<input, synced, recording>>
vars == <<uiVars, workPc, statusVars, posted, shown, playVars, link>>

Init ==
    /\ mainPc = "init" /\ lifecycle = "Stopped" /\ stopFlag = FALSE
    /\ workPc = "none"
    /\ state = "Idle" /\ phase = "Idle" /\ shown = "Idle"
    /\ posting = {} /\ posted = FALSE
    /\ input = FALSE /\ synced = FALSE /\ recording = FALSE
    /\ link = "broken"

\* mutateStatus in thread t, for one field: the change,
SetState(t, s) == state' = s /\ posting' = posting \union {t} /\ phase' = phase
SetPhase(t, p) == phase' = p /\ posting' = posting \union {t} /\ state' = state

\* and the event.
QueuedUnlessBusy == posted \/ mainPc = "ui"
Queued == TRUE
Post(t) ==
    /\ t \in posting /\ posting' = posting \ {t}
    /\ posted' = Queued
    /\ UNCHANGED <<uiVars, workPc, state, phase, shown, playVars, link>>

\* recordBtnShowStop: the label of the record button.
ShowStop(p) == p \in {"Requested", "Active"}
-----------------------------------------------------------------------------
(* The main thread.                                                        *)

\* start() of a player that was never started; the thread may not be had.
Start ==
    /\ mainPc = "init" /\ mainPc' = "spawn"
    /\ stopFlag' = FALSE /\ lifecycle' = "Starting"
    /\ SetState("main", "Starting")
    /\ UNCHANGED <<workPc, posted, shown, playVars, link>>

Spawn ==
    /\ mainPc = "spawn" /\ mainPc' = "ui"
    /\ \/ lifecycle' = "Started" /\ workPc' = "top" /\ UNCHANGED statusVars
       \/ /\ lifecycle' = "Stopped" /\ workPc' = workPc
          /\ SetState("main", "Error")
    /\ UNCHANGED <<stopFlag, posted, shown, playVars, link>>

\* A posted event is delivered.
Paint ==
    /\ mainPc = "ui" /\ posted
    /\ shown' = phase /\ posted' = FALSE
    /\ UNCHANGED <<uiVars, workPc, statusVars, playVars, link>>

\* A click reads the status as it is now, which may be newer than the label,
ClickRecord ==
    /\ mainPc = "ui"
    /\ mainPc' = IF phase \in {"Idle", "StopRequested"}
                 THEN "reqStart" ELSE "reqStop"
    /\ UNCHANGED <<lifecycle, stopFlag, workPc, statusVars, posted, shown,
                   playVars, link>>

\* and then changes it, if it still has a phase from which that is possible.
StartAnyway(p) == "Requested"
AfterStartRequest(p) == IF p = "Idle" THEN "Requested" ELSE p
AfterStopRequest(p) ==
    IF p \in {"Active", "Requested"} THEN "StopRequested" ELSE p

RequestStartRecord ==
    /\ mainPc = "reqStart" /\ mainPc' = "ui"
    /\ SetPhase("main", AfterStartRequest(phase))
    /\ UNCHANGED <<lifecycle, stopFlag, workPc, posted, shown, playVars, link>>

RequestStopRecord ==
    /\ mainPc = "reqStop" /\ mainPc' = "ui"
    /\ SetPhase("main", AfterStopRequest(phase))
    /\ UNCHANGED <<lifecycle, stopFlag, workPc, posted, shown, playVars, link>>

\* aboutToQuit calls stop(), which has nothing to do for a stopped player.
StopBegin ==
    /\ mainPc = "ui"
    /\ IF lifecycle = "Stopped"
       THEN mainPc' = "done" /\ UNCHANGED <<lifecycle, statusVars>>
       ELSE /\ mainPc' = "stopping" /\ lifecycle' = "Stopping"
            /\ SetState("main", "Stopping")
    /\ UNCHANGED <<stopFlag, workPc, posted, shown, playVars, link>>

StopFlag ==
    /\ mainPc = "stopping"
    /\ stopFlag' = TRUE /\ mainPc' = "join"
    /\ UNCHANGED <<lifecycle, workPc, statusVars, posted, shown, playVars,
                   link>>

\* The thread has ended; an error it reported last is kept.
JoinSkipped == TRUE
Joined == workPc = "done"
StopEnd ==
    /\ mainPc = "join" /\ Joined
    /\ lifecycle' = "Stopped" /\ mainPc' = "done"
    /\ IF state = "Error" THEN UNCHANGED statusVars
                         ELSE SetState("main", "Stopped")
    /\ UNCHANGED <<stopFlag, workPc, posted, shown, playVars, link>>
-----------------------------------------------------------------------------
(* The playing thread: connecting.                                         *)

Top ==
    /\ workPc = "top"
    /\ workPc' = IF stopFlag THEN "done" ELSE "announce"
    /\ synced' = IF stopFlag THEN synced ELSE FALSE
    /\ UNCHANGED <<uiVars, statusVars, posted, shown, input, recording, link>>

Announce ==
    /\ workPc = "announce" /\ workPc' = "open"
    /\ SetState("worker", "OpeningInput")
    /\ UNCHANGED <<uiVars, posted, shown, playVars, link>>

\* avformat_open_input: a connection, a failure, or no memory for a context.
Open ==
    /\ workPc = "open"
    /\ \/ /\ workPc' = "probe" /\ input' = TRUE /\ link' = "flowing"
          /\ SetState("worker", "ProbingStreams")
       \/ /\ workPc' = "failed" /\ UNCHANGED <<statusVars, input, link>>
       \/ /\ workPc' = "done" /\ SetState("worker", "Error")
          /\ UNCHANGED <<input, link>>
    /\ UNCHANGED <<uiVars, posted, shown, synced, recording>>

\* A call that reads from the connection comes back when there is data, when
\* the connection is broken, or when the stop flag interrupts it.
Readable == link # "silent" \/ stopFlag

Probe ==
    /\ workPc = "probe" /\ Readable
    /\ \/ /\ workPc' = "setup" /\ input' = input
          /\ SetState("worker", "Initializing")
       \/ /\ workPc' = "failed" /\ input' = FALSE /\ UNCHANGED statusVars
    /\ UNCHANGED <<uiVars, posted, shown, synced, recording, link>>

\* Finding the video stream, the decoder and the device; then the packet.
Setup ==
    /\ workPc = "setup"
    /\ \/ /\ workPc' = "record" /\ input' = input
          /\ SetState("worker", "WaitingKeyframe")
       \/ /\ workPc' = "failed" /\ input' = FALSE /\ UNCHANGED statusVars
       \/ /\ workPc' = "done" /\ input' = FALSE /\ SetState("worker", "Error")
    /\ UNCHANGED <<uiVars, posted, shown, synced, recording, link>>

Failed ==
    /\ workPc = "failed"
    /\ workPc' = IF stopFlag THEN "done" ELSE "retry"
    /\ UNCHANGED <<uiVars, statusVars, posted, shown, playVars, link>>

Retry ==
    /\ workPc = "retry" /\ workPc' = "top"
    /\ SetState("worker", "Reconnecting")
    /\ UNCHANGED <<uiVars, posted, shown, playVars, link>>
-----------------------------------------------------------------------------
(* The playing thread: one turn of the packet loop.                        *)

StopUnseen == FALSE
StopSeen == stopFlag

StopsIdle(p) == p = "Idle"
StopsRecording(p) == p = "StopRequested"

\* The record phase is read here and answered in later steps.
ReadPhase ==
    /\ workPc = "record"
    /\ workPc' = IF StopSeen THEN "leave"
                 ELSE IF phase = "Requested" THEN "start"
                 ELSE IF StopsRecording(phase) THEN "stop" ELSE "read"
    /\ UNCHANGED <<uiVars, statusVars, posted, shown, playVars, link>>

StartRecorder ==
    /\ workPc = "start"
    /\ \/ workPc' = "started" /\ recording' = TRUE
       \/ workPc' = "stopped" /\ recording' = FALSE   \* it cannot be started
    /\ UNCHANGED <<uiVars, statusVars, posted, shown, input, synced, link>>

ReportStarted ==
    /\ workPc = "started" /\ workPc' = "read"
    /\ SetPhase("worker", "Active")
    /\ UNCHANGED <<uiVars, posted, shown, playVars, link>>

StopRecorder ==
    /\ workPc = "stop" /\ workPc' = "stopped"
    /\ recording' = FALSE
    /\ UNCHANGED <<uiVars, statusVars, posted, shown, input, synced, link>>

ReportStopped ==
    /\ workPc = "stopped" /\ workPc' = "read"
    /\ SetPhase("worker", "Idle")
    /\ UNCHANGED <<uiVars, posted, shown, playVars, link>>

\* av_read_frame: an error of the connection is reported, its end or the
\* interruption is not.
ReadFails ==
    /\ workPc = "read" /\ (link = "broken" \/ stopFlag)
    /\ \/ workPc' = "report" /\ ~stopFlag
       \/ workPc' = "leave"
    /\ UNCHANGED <<uiVars, statusVars, posted, shown, playVars, link>>

ReportBroken ==
    /\ workPc = "report" /\ workPc' = "leave"
    /\ SetState("worker", "Reconnecting")
    /\ UNCHANGED <<uiVars, posted, shown, playVars, link>>

\* A packet; it is recorded if the recorder runs.  Video before the first key
\* frame is skipped.
ReadPacket ==
    /\ workPc = "read" /\ link = "flowing"
    /\ \/ /\ ~synced /\ workPc' = "record"
          /\ UNCHANGED <<statusVars, synced>>
       \/ /\ ~synced /\ synced' = TRUE /\ workPc' = "handle"
          /\ SetState("worker", "Playing")
       \/ /\ workPc' = "handle"
          /\ UNCHANGED <<statusVars, synced>>
    /\ UNCHANGED <<uiVars, posted, shown, input, recording, link>>

\* Decoding and rendering: done, in time or more than five seconds after the
\* packet came; without a renderer handlePacket itself raises the stop flag.
Handle ==
    /\ workPc = "handle"
    /\ \/ workPc' = "record" /\ stopFlag' = stopFlag
       \/ /\ workPc' = IF StopSeen THEN "leave" ELSE "report"
          /\ stopFlag' = stopFlag
       \/ synced /\ workPc' = "blind" /\ stopFlag' = TRUE
    /\ UNCHANGED <<mainPc, lifecycle, statusVars, posted, shown, playVars,
                   link>>

ReportBlind ==
    /\ workPc = "blind" /\ workPc' = "leave"
    /\ SetState("worker", "Error")
    /\ UNCHANGED <<uiVars, posted, shown, playVars, link>>

EndsNever == FALSE
EndsRecording == recording

\* After the packet loop: a recording ends with its connection.
Leave ==
    /\ workPc = "leave"
    /\ workPc' = IF EndsRecording THEN "left" ELSE "close"
    /\ recording' = IF EndsRecording THEN FALSE ELSE recording
    /\ UNCHANGED <<uiVars, statusVars, posted, shown, input, synced, link>>

ReportLeft ==
    /\ workPc = "left" /\ workPc' = "close"
    /\ SetPhase("worker", "Idle")
    /\ UNCHANGED <<uiVars, posted, shown, playVars, link>>

Close ==
    /\ workPc = "close"
    /\ input' = FALSE
    /\ workPc' = IF stopFlag THEN "done" ELSE "top"
    /\ UNCHANGED <<uiVars, statusVars, posted, shown, synced, recording, link>>
-----------------------------------------------------------------------------
(* The relay and the network.                                              *)

Silence ==
    /\ input /\ link = "flowing" /\ link' = "silent"
    /\ UNCHANGED <<uiVars, workPc, statusVars, posted, shown, playVars>>

Resume ==
    /\ input /\ link = "silent" /\ link' = "flowing"
    /\ UNCHANGED <<uiVars, workPc, statusVars, posted, shown, playVars>>

Break ==
    /\ input /\ link # "broken" /\ link' = "broken"
    /\ UNCHANGED <<uiVars, workPc, statusVars, posted, shown, playVars>>
-----------------------------------------------------------------------------
Ui == ClickRecord \/ StopBegin
Main == \/ Start \/ Spawn \/ Paint \/ RequestStartRecord \/ RequestStopRecord
        \/ StopFlag \/ StopEnd
Worker == \/ Top \/ Announce \/ Open \/ Probe \/ Setup \/ Failed \/ Retry
          \/ ReadPhase \/ StartRecorder \/ ReportStarted
          \/ StopRecorder \/ ReportStopped
          \/ ReadFails \/ ReportBroken \/ ReadPacket \/ Handle \/ ReportBlind
          \/ Leave \/ ReportLeft \/ Close
Network == Silence \/ Resume \/ Break
Terminated == mainPc = "done" /\ UNCHANGED vars

MainStep == "main" \notin posting /\ Main
UiStep == "main" \notin posting /\ Ui
WorkerStep == "worker" \notin posting /\ Worker
PostStep == Post("main") \/ Post("worker")

Next == MainStep \/ UiStep \/ WorkerStep \/ PostStep \/ Network \/ Terminated

Spec == Init /\ [][Next]_vars

\* Both threads run; the network owes nothing, and the user does nothing.
FairSpec == Spec /\ WF_vars(WorkerStep) /\ WF_vars(MainStep)
                 /\ WF_vars(Post("main")) /\ WF_vars(Post("worker"))

\* A connection that is silent carries data again or is closed: the relay
\* disconnects a subscriber to which it could not send.  What arrived waits in
\* the receive buffer, so a read that could return again and again returns.
FairLinkSpec == FairSpec /\ WF_vars(Resume \/ Break)
                         /\ SF_vars(Probe) /\ SF_vars(ReadPacket \/ ReadFails)
-----------------------------------------------------------------------------
TypeOK ==
    /\ mainPc \in {"init", "spawn", "ui", "reqStart", "reqStop", "stopping",
                  "join", "done"}
    /\ lifecycle \in {"Stopped", "Starting", "Started", "Stopping"}
    /\ stopFlag \in BOOLEAN
    /\ workPc \in {"none", "top", "announce", "open", "probe", "setup",
                   "failed", "retry", "record", "start", "started", "stop", "stopped",
                   "read", "report", "handle", "blind", "leave", "left",
                   "close", "done"}
    /\ state \in PlayerState /\ phase \in RecordPhase /\ shown \in RecordPhase
    /\ posting \subseteq {"main", "worker"} /\ posted \in BOOLEAN
    /\ input \in BOOLEAN /\ synced \in BOOLEAN /\ recording \in BOOLEAN
    /\ link \in {"flowing", "silent", "broken"}
    /\ lifecycle = "Started" => workPc # "none"

\* The recorder writes with the time bases of the input it was started on: it
\* never runs without that input, through failures, reconnections and stop().
RecorderHasInput == recording => input

\* record_phase tells the truth about the recorder, up to the one report that
\* is on its way: "Active" means that it runs, and while it runs the user can
\* stop it or has asked to, which no later click takes back.
RecordHonest ==
    /\ phase = "Active" => recording \/ workPc \in {"left", "stopped"}
    /\ recording => phase # "Idle"
    /\ recording /\ phase = "Requested" => workPc = "started"

\* When no event waits and no thread is about to post one, the button shows
\* the record phase: no change of the two threads is lost on the way to it.
LabelIsCurrent == ~posted /\ posting = {} => shown = phase

\* When stop() returned the thread is gone, nothing is open or recording, and
\* the last word on the state is Stopped or the error that ended it.
StopIsClean ==
    mainPc = "done" /\ workPc # "none" =>
        /\ workPc = "done" /\ ~input /\ ~recording
        /\ state \in {"Stopped", "Error"}

\* stop() returns wherever the playing thread is, also from a read that waits
\* on a silent connection.
StopReturns == (mainPc = "stopping") ~> (mainPc = "done")

\* A recording that the user asked to stop stops, or its start is reported
\* after the request and the button offers to stop it again.
StopIsNoticed ==
    (recording /\ phase = "StopRequested") ~> (~recording \/ phase = "Active")

\* player/ReadMe.md, section 8.2: the phases are there to avoid flicker of the
\* record button and races on its state.  The button turns to "stop" only when
\* the user clicked it.
NoFlicker == [][~ShowStop(phase) /\ ShowStop(phase') => workPc' = workPc]_vars
=============================================================================
