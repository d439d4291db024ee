---------------------------- MODULE PusherControl ----------------------------
(***************************************************************************)
(* The control server of the pusher (pusher/control_server.c, started and  *)
(* stopped by pusher/srt_cam_push.c): a thread accepts one TCP client at a *)
(* time, parses its command, hands it to the GLib main context as a        *)
(* reference-counted request, waits for it with a timeout and answers.     *)
(* The main loop applies the requests to the pipeline, until a bus message *)
(* ends it and main() takes the server down.                               *)
(*                                                                         *)
(* A client has one connection and one command, so its name stands for the *)
(* connection and for the request.                                         *)
(***************************************************************************)
EXTENDS Integers, Sequences

CONSTANTS
    Client,    \* the connections that may arrive
    Commands,  \* what they may send: [cmd: ..., arg: ...]
    Start      \* the pipeline as configured

CommandNames == {"PAUSE", "RESUME", "IDR", "SET_BITRATE", "SET_FPS",
                 "SET_RESOLUTION", "VIDEO_MODE", "AUDIO_MODE", "garbage"}
Video == {"NORMAL", "BLACK"}
Audio == {"NORMAL", "SILENT"}
Pipeline == [video: Video, audio: Audio, bitrate: Nat,
             fps: Nat, size: Nat,                 \* current_fps, _width/_height
             vcaps: Nat \X Nat, blackcaps: Nat \X Nat]  \* size and rate set

NoCommand == [cmd |-> "none", arg |-> 0]
NoClient == "nobody"

ASSUME CommandAssumption ==
    /\ NoClient \notin Client
    /\ \A k \in Commands : /\ k.cmd \in CommandNames
                           /\ k.cmd \in {"SET_BITRATE", "SET_FPS",
                                "SET_RESOLUTION"} => k.arg \in Nat \ {0}
                           /\ k.cmd = "VIDEO_MODE" => k.arg \in Video
                           /\ k.cmd = "AUDIO_MODE" => k.arg \in Audio
    /\ Start \in Pipeline
    /\ Start.vcaps = <<Start.size, Start.fps>>
    /\ Start.blackcaps = Start.vcaps

VARIABLES
    mainPc,    \* main(): "start", "loop", "quit", "null", "stop", "join",
               \* "released", "aborted"
    applying,  \* the request whose callback the main loop is in
    ctlPc,     \* control_thread: "socket", "listen", "check", "arm", "select",
               \* "accept", "recv", "invoke", "inline", "wait", "close", "done"
    cur,       \* its client
    stop,      \* cs->stop
    listenFd,  \* cs->listen_fd: "none" (-1), "bound", "open", "closed"
    owner,     \* which thread owns the main context: "none", "main", "ctl"
    pending,   \* idle sources of the context, in the order they were attached
    refs, done, ok,   \* the fields of a ControlRequest
    pipe,      \* the pipeline and the current_* fields
    conn,      \* "none", "backlog", "accepted", "closed"
    gone,      \* the client closed its end
    sent,      \* the command that arrived on the connection
    reply,     \* what was sent to it: "none", "OK", "ERR", "UNKNOWN"
    issued, applied   \* history: requests in the order made, and carried out

ctlVars == <<ctlPc, cur>>
reqVars == <<refs, done, ok>>
netVars == <<conn, gone, sent, reply>>
hisVars == <<issued, applied>>
mainVars == <<mainPc, applying, stop>>
vars == <<mainVars, ctlVars, listenFd, owner, pending, reqVars, pipe, netVars,
          hisVars>>

Init ==
    /\ mainPc = "start" /\ applying = NoClient /\ stop = FALSE
    /\ ctlPc = "socket" /\ cur = NoClient
    /\ listenFd = "none" /\ owner = "none" /\ pending = <<>>
    /\ refs = [c \in Client |-> 0]
    /\ done = [c \in Client |-> FALSE] /\ ok = [c \in Client |-> FALSE]
    /\ pipe = Start
    /\ conn = [c \in Client |-> "none"] /\ gone = [c \in Client |-> FALSE]
    /\ sent = [c \in Client |-> NoCommand]
    /\ reply = [c \in Client |-> "none"]
    /\ issued = <<>> /\ applied = <<>>
-----------------------------------------------------------------------------
\* What a command does to the pipeline (apply_control_command_in_main).  The
\* selectors and filters exist: the pipeline description names them all.
ApplyCaps(p) == [p EXCEPT !.vcaps = <<p.size, p.fps>>,
                          !.blackcaps = <<p.size, p.fps>>]

Effect(p, k) ==
    CASE k.cmd = "PAUSE" -> [p EXCEPT !.video = "BLACK", !.audio = "SILENT"]
      [] k.cmd = "RESUME" -> [p EXCEPT !.video = "NORMAL", !.audio = "NORMAL"]
      [] k.cmd = "SET_BITRATE" -> [p EXCEPT !.bitrate = k.arg]
      [] k.cmd = "SET_FPS" -> ApplyCaps([p EXCEPT !.fps = k.arg])
      [] k.cmd = "SET_RESOLUTION" -> ApplyCaps([p EXCEPT !.size = k.arg])
      [] k.cmd = "VIDEO_MODE" -> [p EXCEPT !.video = k.arg]
      [] k.cmd = "AUDIO_MODE" -> [p EXCEPT !.audio = k.arg]
      [] OTHER -> p

\* The outcome of applying it: sending the key-frame event may fail, and the
\* command has had its other effects all the same.
Outcomes(k) == IF k.cmd \in {"RESUME", "IDR"} THEN BOOLEAN ELSE {TRUE}

ApplyRequest(c) ==
    /\ pipe' = Effect(pipe, sent[c])
    /\ applied' = Append(applied, c)
    /\ \E res \in Outcomes(sent[c]) : ok' = [ok EXCEPT ![c] = res]

Unref(c) == refs' = [refs EXCEPT ![c] = @ - 1]
-----------------------------------------------------------------------------
(* The control thread.                                                     *)

CtlSocket ==
    /\ ctlPc = "socket"
    /\ \/ listenFd' = "bound" /\ ctlPc' = "listen"
       \/ listenFd' = "none" /\ ctlPc' = "done"   \* socket() failed
    /\ UNCHANGED <<mainVars, cur, owner, pending, reqVars, pipe, netVars, hisVars>>

\* bind and listen fail when the port is taken, and when stop_control_server
\* has closed the descriptor meanwhile.
CtlListen ==
    /\ ctlPc = "listen"
    /\ \/ listenFd = "bound" /\ listenFd' = "open" /\ ctlPc' = "check"
       \/ listenFd' = "none" /\ ctlPc' = "done"
    /\ UNCHANGED <<mainVars, cur, owner, pending, reqVars, pipe, netVars, hisVars>>

StopUnseen == FALSE
StopSeen == stop
CtlCheck ==
    /\ ctlPc = "check"
    /\ ctlPc' = IF StopSeen THEN "done" ELSE "arm"
    /\ cur' = NoClient
    /\ UNCHANGED <<mainVars, listenFd, owner, pending, reqVars, pipe, netVars,
                   hisVars>>

\* FD_SET on cs->listen_fd.
CtlArm ==
    /\ ctlPc = "arm" /\ listenFd = "open"
    /\ ctlPc' = "select"
    /\ UNCHANGED <<mainVars, cur, listenFd, owner, pending, reqVars, pipe,
                   netVars, hisVars>>

\* stop_control_server has set it to -1 since the flag was read: FD_SET(-1)
\* is undefined.  A plain build has select return nothing; a fortified one
\* aborts the process.
CtlArmClosed ==
    /\ ctlPc = "arm" /\ listenFd = "closed"
    /\ \/ ctlPc' = "check" /\ mainPc' = mainPc
       \/ ctlPc' = "done" /\ mainPc' = "aborted"
    /\ UNCHANGED <<applying, stop, cur, listenFd, owner, pending, reqVars, pipe,
                   netVars, hisVars>>

CtlSelect ==
    /\ ctlPc = "select"
    /\ \/ ctlPc' = "check"      \* one second without a client
       \/ /\ listenFd = "open" /\ \E c \in Client : conn[c] = "backlog"
          /\ ctlPc' = "accept"
    /\ UNCHANGED <<mainVars, cur, listenFd, owner, pending, reqVars, pipe,
                   netVars, hisVars>>

CtlAccept ==
    /\ ctlPc = "accept" /\ listenFd = "open"
    /\ \E c \in Client :
          /\ conn[c] = "backlog"
          /\ conn' = [conn EXCEPT ![c] = "accepted"]
          /\ cur' = c
    /\ ctlPc' = "recv"
    /\ UNCHANGED <<mainVars, listenFd, owner, pending, reqVars, pipe, gone,
                   sent, reply, hisVars>>

CtlAcceptFailed ==
    /\ ctlPc = "accept" /\ listenFd # "open"
    /\ ctlPc' = "check"
    /\ UNCHANGED <<mainVars, cur, listenFd, owner, pending, reqVars, pipe,
                   netVars, hisVars>>

Closed(c) == [conn EXCEPT ![c] = "closed"]

\* recv has no timeout: the thread waits for the client to send or to close.
CtlRecv ==
    /\ ctlPc = "recv"
    /\ \/ sent[cur].cmd \notin {"none", "garbage"} /\ ctlPc' = "invoke"
          /\ UNCHANGED <<conn, reply>>
       \/ sent[cur].cmd = "garbage" /\ ctlPc' = "check"
          /\ reply' = [reply EXCEPT ![cur] = "UNKNOWN"]
          /\ conn' = Closed(cur)
       \/ sent[cur] = NoCommand /\ gone[cur] /\ ctlPc' = "check"
          /\ conn' = Closed(cur) /\ reply' = reply
    /\ UNCHANGED <<mainVars, cur, listenFd, owner, pending, reqVars, pipe, gone,
                   sent, hisVars>>

InlineAlways == TRUE
InlineAllowed == owner = "none"
Prepended(c) == <<c>> \o pending
Attached(c) == Append(pending, c)
OneRef == 1
NewRefs == 2

\* control_execute_sync: one reference for the waiting thread, one for the
\* callback.  While no thread owns the context, which is before main() enters
\* the loop and after it left, g_main_context_invoke_full takes it and calls
\* the callback itself; otherwise it attaches an idle source.
CtlInvoke ==
    /\ ctlPc = "invoke"
    /\ refs' = [refs EXCEPT ![cur] = NewRefs]
    /\ issued' = Append(issued, cur)
    /\ IF InlineAllowed
       THEN owner' = "ctl" /\ ctlPc' = "inline" /\ pending' = pending
       ELSE owner' = owner /\ ctlPc' = "wait" /\ pending' = Attached(cur)
    /\ UNCHANGED <<mainVars, cur, listenFd, done, ok, pipe, netVars, applied>>

CtlInline ==
    /\ ctlPc = "inline"
    /\ ApplyRequest(cur)
    /\ done' = [done EXCEPT ![cur] = TRUE]
    /\ Unref(cur)
    /\ owner' = "none" /\ ctlPc' = "wait"
    /\ UNCHANGED <<mainVars, cur, listenFd, pending, netVars, issued>>

\* The wait ends with the callback done, or with the two seconds over: the
\* answer is what the request says at that moment.
OkUnlessFailed(c) == done[c] => ok[c]
Succeeded(c) == done[c] /\ ok[c]
CtlWait ==
    /\ ctlPc = "wait"
    /\ reply' = [reply EXCEPT ![cur] = IF Succeeded(cur) THEN "OK" ELSE "ERR"]
    /\ Unref(cur)
    /\ ctlPc' = "close"
    /\ UNCHANGED <<mainVars, cur, listenFd, owner, pending, done, ok, pipe,
                   conn, gone, sent, hisVars>>

CtlClose ==
    /\ ctlPc = "close"
    /\ conn' = Closed(cur)
    /\ ctlPc' = "check"
    /\ UNCHANGED <<mainVars, cur, listenFd, owner, pending, reqVars, pipe, gone,
                   sent, reply, hisVars>>
-----------------------------------------------------------------------------
(* main().                                                                 *)

\* g_main_loop_run waits for the context.
MainRun ==
    /\ mainPc = "start" /\ owner = "none"
    /\ mainPc' = "loop" /\ owner' = "main"
    /\ UNCHANGED <<applying, stop, ctlVars, listenFd, pending, reqVars, pipe,
                   netVars, hisVars>>

\* control_apply_in_main applies the command ...
MainApply ==
    /\ mainPc \in {"loop", "quit"} /\ applying = NoClient /\ pending # <<>>
    /\ applying' = Head(pending) /\ pending' = Tail(pending)
    /\ ApplyRequest(Head(pending))
    /\ UNCHANGED <<mainPc, stop, ctlVars, listenFd, owner, refs, done, netVars,
                   issued>>

\* ... and only then reports it done, under the request's lock.
MainFinish ==
    /\ applying # NoClient
    /\ done' = [done EXCEPT ![applying] = TRUE]
    /\ Unref(applying)
    /\ applying' = NoClient
    /\ UNCHANGED <<mainPc, stop, ctlVars, listenFd, owner, pending, ok, pipe,
                   netVars, hisVars>>

\* bus_call on EOS or an error.  The iteration it is in may still dispatch
\* sources that were ready.
BusQuit ==
    /\ mainPc = "loop" /\ applying = NoClient
    /\ mainPc' = "quit"
    /\ UNCHANGED <<applying, stop, ctlVars, listenFd, owner, pending, reqVars,
                   pipe, netVars, hisVars>>

MainLeave ==
    /\ mainPc = "quit" /\ applying = NoClient
    /\ mainPc' = "null" /\ owner' = "none"
    /\ UNCHANGED <<applying, stop, ctlVars, listenFd, pending, reqVars, pipe,
                   netVars, hisVars>>

\* The pipeline is set to NULL, then stop_control_server raises the flag,
StopFlag ==
    /\ mainPc = "null"
    /\ mainPc' = "stop" /\ stop' = TRUE
    /\ UNCHANGED <<applying, ctlVars, listenFd, owner, pending, reqVars, pipe,
                   netVars, hisVars>>

\* closes the listening socket, if the thread has opened it by now,
StopClose ==
    /\ mainPc = "stop"
    /\ mainPc' = "join"
    /\ listenFd' = IF listenFd = "none" THEN "none" ELSE "closed"
    /\ UNCHANGED <<applying, stop, ctlVars, owner, pending, reqVars, pipe,
                   netVars, hisVars>>

\* joins the thread and lets go of the elements.
JoinSkipped == TRUE
Joined == ctlPc = "done"
StopJoin ==
    /\ mainPc = "join" /\ Joined
    /\ mainPc' = "released"
    /\ UNCHANGED <<applying, stop, ctlVars, listenFd, owner, pending, reqVars,
                   pipe, netVars, hisVars>>
-----------------------------------------------------------------------------
(* The clients: the relay (pusher_control_client.hpp) sends one command,   *)
(* waits 1.2 s for the answer and closes; the player (ControlClient.cpp)   *)
(* sends one and closes.  Either may fail before it has sent.              *)

Connect(c) ==
    /\ conn[c] = "none" /\ listenFd = "open"
    /\ conn' = [conn EXCEPT ![c] = "backlog"]
    /\ UNCHANGED <<mainVars, ctlVars, listenFd, owner, pending, reqVars, pipe,
                   gone, sent, reply, hisVars>>

Send(c) ==
    /\ conn[c] \in {"backlog", "accepted"} /\ ~gone[c] /\ sent[c] = NoCommand
    /\ \E k \in Commands : sent' = [sent EXCEPT ![c] = k]
    /\ UNCHANGED <<mainVars, ctlVars, listenFd, owner, pending, reqVars, pipe,
                   conn, gone, reply, hisVars>>

HangUp(c) ==
    /\ conn[c] \in {"backlog", "accepted"} /\ ~gone[c]
    /\ gone' = [gone EXCEPT ![c] = TRUE]
    /\ UNCHANGED <<mainVars, ctlVars, listenFd, owner, pending, reqVars, pipe,
                   conn, sent, reply, hisVars>>
-----------------------------------------------------------------------------
Control == \/ CtlSocket \/ CtlListen \/ CtlCheck \/ CtlArm \/ CtlArmClosed
           \/ CtlSelect \/ CtlAccept \/ CtlAcceptFailed \/ CtlRecv
           \/ CtlInvoke \/ CtlInline \/ CtlWait \/ CtlClose
Main == \/ MainRun \/ MainApply \/ MainFinish \/ MainLeave
        \/ StopFlag \/ StopClose \/ StopJoin
Alive == mainPc # "aborted"
Terminated == mainPc \in {"released", "aborted"} /\ UNCHANGED vars

Next ==
    \/ Alive /\ (Control \/ Main \/ BusQuit)
    \/ \E c \in Client : Connect(c) \/ Send(c) \/ HangUp(c)
    \/ Terminated

Spec == Init /\ [][Next]_vars

\* Both threads run.  Nothing is assumed of the clients, nor of when the loop
\* ends.
Fairness == WF_vars(Alive /\ Control) /\ WF_vars(Alive /\ Main)
FairSpec == Spec /\ Fairness
-----------------------------------------------------------------------------
InSeq(c, s) == \E i \in DOMAIN s : s[i] = c
Holders(c) == (IF ctlPc \in {"inline", "wait"} /\ cur = c THEN 1 ELSE 0)
              + (IF ctlPc = "inline" /\ cur = c THEN 1 ELSE 0)
              + (IF InSeq(c, pending) \/ applying = c THEN 1 ELSE 0)

TypeOK ==
    /\ mainPc \in {"start", "loop", "quit", "null", "stop", "join", "released",
                   "aborted"}
    /\ ctlPc \in {"socket", "listen", "check", "arm", "select", "accept", "recv",
                  "invoke", "inline", "wait", "close", "done"}
    /\ applying \in Client \cup {NoClient} /\ cur \in Client \cup {NoClient}
    /\ owner \in {"none", "main", "ctl"} /\ stop \in BOOLEAN
    /\ listenFd \in {"none", "bound", "open", "closed"}
    /\ pending \in Seq(Client)
    /\ refs \in [Client -> 0 .. 2]
    /\ done \in [Client -> BOOLEAN] /\ ok \in [Client -> BOOLEAN]
    /\ pipe \in Pipeline
    /\ conn \in [Client -> {"none", "backlog", "accepted", "closed"}]
    /\ gone \in [Client -> BOOLEAN]
    /\ sent \in [Client -> Commands \cup {NoCommand}]
    /\ reply \in [Client -> {"none", "OK", "ERR", "UNKNOWN"}]
    /\ issued \in Seq(Client) /\ applied \in Seq(Client)

\* A request is freed exactly when the last of those who may still touch it is
\* through, whichever of the waiting thread and the callback that is: the
\* count is the number of holders.
RefsExact == \A c \in Client : refs[c] = Holders(c)

\* "OK" is only ever answered for a command that took effect.
OkMeansApplied == \A c \in Client : reply[c] = "OK" => InSeq(c, applied)

\* Commands take effect in the order they were accepted and at most once, also
\* those whose client was told ERR because the main loop was late.
Position(c, s) == CHOOSE i \in DOMAIN s : s[i] = c
InOrder ==
    \A i, j \in DOMAIN applied :
        i < j => Position(applied[i], issued) < Position(applied[j], issued)

\* No two threads run a request's callback at the same time: while the control
\* thread applies a command itself, main() is not inside its loop.  This says
\* nothing of what main() does outside it: the pipeline may be on its way to
\* NULL meanwhile.
SoleApplier == ctlPc = "inline" =>
                  applying = NoClient /\ mainPc \notin {"loop", "quit"}

\* Nothing is applied to elements the server has let go of.
UntouchedStep == mainPc = "released" => pipe' = pipe /\ applied' = applied
Untouched == [][UntouchedStep]_vars

\* Once the loop is left stop_control_server returns, with a command in hand
\* too, on two conditions the code does not see to: no client keeps the control
\* thread in recv for ever, and the process survives FD_SET(-1).
StopReturns ==
    []<>(ctlPc # "recv") /\ [](mainPc # "aborted") =>
        (mainPc = "quit" ~> mainPc = "released")
=============================================================================
