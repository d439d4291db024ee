------------------------- MODULE PusherControlProofs -------------------------
(***************************************************************************)
(* Theorems about PusherControl, for any number of clients and any         *)
(* commands: a request is freed by whoever is through with it last, OK is  *)
(* only said of what was done, commands apply in the order they were made, *)
(* the two threads never apply one at the same time, nothing is applied    *)
(* after the server let go of the pipeline, and once the flag is up both   *)
(* threads have finitely many steps left.                                  *)
(***************************************************************************)
EXTENDS PusherControl, SequenceTheorems, TLAPS

\* Types, the reference counts taken as integers.
Typed ==
    /\ mainPc \in {"start", "loop", "quit", "null", "stop", "join", "released",
                   "aborted"}
    /\ ctlPc \in {"socket", "listen", "check", "arm", "select", "accept", "recv",
                  "invoke", "inline", "wait", "close", "done"}
    /\ applying \in Client \cup {NoClient} /\ cur \in Client \cup {NoClient}
    /\ owner \in {"none", "main", "ctl"} /\ stop \in BOOLEAN
    /\ listenFd \in {"none", "bound", "open", "closed"}
    /\ pending \in Seq(Client)
    /\ refs \in [Client -> Int]
    /\ done \in [Client -> BOOLEAN] /\ ok \in [Client -> BOOLEAN]
    /\ pipe \in Pipeline
    /\ conn \in [Client -> {"none", "backlog", "accepted", "closed"}]
    /\ gone \in [Client -> BOOLEAN]
    /\ sent \in [Client -> Commands \cup {NoCommand}]
    /\ reply \in [Client -> {"none", "OK", "ERR", "UNKNOWN"}]
    /\ issued \in Seq(Client) /\ applied \in Seq(Client)

\* The control thread has a client while it serves one.
Serving == ctlPc \in {"recv", "invoke", "inline", "wait", "close"}
ServesClient ==
    /\ Serving => cur \in Client /\ conn[cur] = "accepted"
    /\ ctlPc \in {"invoke", "inline", "wait"} => sent[cur] \in Commands

\* Who works on the pipeline owns the main context.
OwnerKnown ==
    /\ owner = "ctl" <=> ctlPc = "inline"
    /\ owner = "main" <=> mainPc \in {"loop", "quit"}
    /\ applying # NoClient => mainPc \in {"loop", "quit"}
    /\ listenFd = "closed" => mainPc \in {"join", "released", "aborted"}
    /\ mainPc = "released" => ctlPc = "done"

\* A connection makes one request, after it was read.
OneRequest ==
    \A c \in Client :
        /\ conn[c] \in {"none", "backlog"} => ~InSeq(c, issued)
        /\ ctlPc \in {"recv", "invoke"} /\ cur = c => ~InSeq(c, issued)
        /\ InSeq(c, issued) => sent[c] \in Commands

\* a was put into s before b.
Earlier(a, b, s) == \E m, n \in DOMAIN s : m < n /\ s[m] = a /\ s[n] = b

\* Requests wait and are applied in the order they were issued; what the main
\* loop has applied comes before what waits for it.
Ordered ==
    /\ \A m, n \in DOMAIN issued : issued[m] = issued[n] => m = n
    /\ \A c \in Client : InSeq(c, applied) \/ InSeq(c, pending) => InSeq(c, issued)
    /\ \A m, n \in DOMAIN applied : m < n => Earlier(applied[m], applied[n], issued)
    /\ \A m, n \in DOMAIN pending : m < n => Earlier(pending[m], pending[n], issued)
    /\ mainPc = "start" => pending = <<>>
    /\ mainPc \in {"loop", "quit"} =>
          \A a, p \in Client :
             InSeq(a, applied) /\ InSeq(p, pending) => Earlier(a, p, issued)
    /\ ctlPc = "inline" =>
          /\ ~InSeq(cur, applied) /\ ~InSeq(cur, pending)
          /\ issued # <<>> /\ issued[Len(issued)] = cur

\* What is done, or under way in the main loop, was applied.
DoneApplied ==
    /\ \A c \in Client : done[c] => InSeq(c, applied)
    /\ applying # NoClient => InSeq(applying, applied)

IInv == /\ Typed /\ ServesClient /\ OwnerKnown /\ OneRequest
        /\ Ordered /\ DoneApplied /\ RefsExact /\ OkMeansApplied
-----------------------------------------------------------------------------
(* Sequences.                                                              *)

LEMMA InAppend ==
    ASSUME NEW s \in Seq(Client), NEW x \in Client
    PROVE  /\ Append(s, x) \in Seq(Client) /\ Append(s, x) # <<>>
           /\ Len(Append(s, x)) = Len(s) + 1
           /\ Append(s, x)[Len(Append(s, x))] = x
           /\ DOMAIN Append(s, x) = DOMAIN s \cup {Len(s) + 1}
           /\ Len(s) \in Nat /\ DOMAIN s = 1 .. Len(s)
           /\ \A k \in DOMAIN s : Append(s, x)[k] = s[k]
           /\ Append(s, x)[Len(s) + 1] = x
           /\ \A c : InSeq(c, Append(s, x)) <=> InSeq(c, s) \/ c = x
<1> DEFINE t == Append(s, x)
<1>1. /\ t \in Seq(Client) /\ t # <<>>
      /\ Len(t) = Len(s) + 1 /\ t[Len(t)] = x
      /\ \A k \in 1 .. Len(s) : t[k] = s[k]
  BY AppendProperties
<1>2. Len(s) \in Nat /\ DOMAIN s = 1 .. Len(s) /\ DOMAIN t = 1 .. Len(t)
  BY <1>1, LenProperties
<1>3. DOMAIN t = DOMAIN s \cup {Len(s) + 1}
  BY <1>1, <1>2
<1> HIDE DEF t
<1>4. \A c : InSeq(c, t) <=> InSeq(c, s) \/ c = x
  BY <1>1, <1>2, <1>3 DEF InSeq
<1> QED
  BY <1>1, <1>2, <1>3, <1>4 DEF t

LEMMA InTail ==
    ASSUME NEW s \in Seq(Client), s # <<>>
    PROVE  /\ Head(s) \in Client /\ Tail(s) \in Seq(Client)
           /\ 1 \in DOMAIN s /\ Head(s) = s[1]
           /\ \A k \in DOMAIN Tail(s) : k + 1 \in DOMAIN s /\ Tail(s)[k] = s[k + 1] /\ k \in Nat /\ 0 < k
           /\ \A c : InSeq(c, s) <=> c = Head(s) \/ InSeq(c, Tail(s))
<1> DEFINE t == Tail(s)
<1>1. /\ Head(s) \in Client /\ t \in Seq(Client)
      /\ Len(t) = Len(s) - 1
      /\ \A k \in 1 .. Len(t) : t[k] = s[k + 1]
  BY HeadTailProperties
<1>2. PICK n \in Nat : n = Len(s) /\ DOMAIN s = 1 .. n /\ 1 <= n
  BY EmptySeq, LenProperties
<1>3. DOMAIN t = 1 .. n - 1 /\ Head(s) = s[1]
  BY <1>1, <1>2, LenProperties
<1>4. \A k \in 1 .. n - 1 : t[k] = s[k + 1]
  BY <1>1, <1>2
<1>5. 1 \in DOMAIN s
  BY <1>2
<1> HIDE DEF t
<1>6. \A k \in DOMAIN t : k + 1 \in DOMAIN s /\ t[k] = s[k + 1] /\ k \in Nat /\ 0 < k
  BY <1>2, <1>3, <1>4
<1>7. \A c : InSeq(c, s) <=> c = Head(s) \/ InSeq(c, t)
  <2> TAKE c
  <2>1. ASSUME InSeq(c, s), c # Head(s) PROVE InSeq(c, t)
    <3>1. PICK k \in 1 .. n : s[k] = c
      BY <1>2, <2>1 DEF InSeq
    <3>2. k - 1 \in 1 .. n - 1 /\ k - 1 + 1 = k
      BY <1>3, <2>1, <3>1
    <3>3. t[k - 1] = c
      BY <1>4, <3>1, <3>2
    <3> QED
      BY <1>3, <3>2, <3>3 DEF InSeq
  <2>2. c = Head(s) => InSeq(c, s)
    BY <1>3, <1>5 DEF InSeq
  <2>3. InSeq(c, t) => InSeq(c, s)
    BY <1>6 DEF InSeq
  <2> QED
    BY <2>1, <2>2, <2>3
<1> QED
  BY <1>1, <1>3, <1>5, <1>6, <1>7 DEF t

LEMMA NothingIn == \A c : ~InSeq(c, <<>>)
BY DEF InSeq

LEMMA EarlierAppend ==
    ASSUME NEW s \in Seq(Client), NEW x \in Client
    PROVE  /\ \A a, b : Earlier(a, b, s) => Earlier(a, b, Append(s, x))
           /\ \A a : InSeq(a, s) => Earlier(a, x, Append(s, x))
<1> DEFINE t == Append(s, x)
<1>1. /\ DOMAIN t = DOMAIN s \cup {Len(s) + 1} /\ t[Len(s) + 1] = x
      /\ Len(s) \in Nat /\ DOMAIN s = 1 .. Len(s)
      /\ \A k \in DOMAIN s : t[k] = s[k]
  BY InAppend
<1> HIDE DEF t
<1>2. \A a, b : Earlier(a, b, s) => Earlier(a, b, t)
  BY <1>1 DEF Earlier
<1>3. ASSUME NEW a, InSeq(a, s) PROVE Earlier(a, x, t)
  <2>1. PICK k \in DOMAIN s : s[k] = a
    BY <1>3 DEF InSeq
  <2>2. k \in DOMAIN t /\ Len(s) + 1 \in DOMAIN t /\ k < Len(s) + 1
    BY <1>1
  <2> QED
    BY <1>1, <2>1, <2>2 DEF Earlier
<1> QED
  BY <1>2, <1>3 DEF t
-----------------------------------------------------------------------------
(* Steps that issue, apply and finish nothing.                             *)

\* The control thread neither comes to, nor leaves, nor changes a request.
ControlQuiet ==
    \/ ctlPc' = ctlPc /\ cur' = cur
    \/ ctlPc \notin {"inline", "wait"} /\ ctlPc' \notin {"inline", "wait"}

QuietStep ==
    /\ UNCHANGED <<applying, pending, refs, done, ok, pipe, issued, applied>>
    /\ \/ mainPc' = mainPc
       \/ mainPc' \notin {"start", "loop", "quit"}
       \/ mainPc \in {"start", "loop"} /\ mainPc' \in {"loop", "quit"}
    /\ ControlQuiet
    /\ \A c \in Client : reply'[c] = "OK" => reply[c] = "OK"

LEMMA QuietRest ==
    ASSUME IInv, QuietStep
    PROVE  Ordered' /\ DoneApplied' /\ RefsExact' /\ OkMeansApplied'
<1>1. \A c : ~InSeq(c, <<>>)
  BY NothingIn
<1>2. mainPc' \in {"loop", "quit"} =>
          \A a, p \in Client :
             InSeq(a, applied) /\ InSeq(p, pending) => Earlier(a, p, issued)
  BY <1>1 DEF IInv, Ordered, QuietStep
<1>3. ctlPc' = "inline" => ctlPc = "inline" /\ cur' = cur
  BY DEF QuietStep, ControlQuiet
<1>4. mainPc' = "start" => mainPc = "start"
  BY DEF QuietStep
<1>5. Ordered'
  BY <1>2, <1>3, <1>4 DEF IInv, Ordered, QuietStep
<1>6. DoneApplied'
  BY DEF IInv, DoneApplied, QuietStep
<1>7. RefsExact'
  BY DEF IInv, RefsExact, Holders, QuietStep, ControlQuiet
<1>8. OkMeansApplied'
  BY DEF IInv, OkMeansApplied, QuietStep
<1> QED
  BY <1>5, <1>6, <1>7, <1>8

Quiet == /\ QuietStep
         /\ Typed' /\ ServesClient' /\ OwnerKnown' /\ OneRequest'

LEMMA QuietPreserves == IInv /\ Quiet => IInv'
BY QuietRest DEF Quiet, IInv

LEMMA SocketQuiet == IInv /\ CtlSocket => Quiet
<1> SUFFICES ASSUME IInv, CtlSocket PROVE Quiet
  OBVIOUS
<1> USE DEF CtlSocket, mainVars, netVars, reqVars, hisVars
<1>1. QuietStep
  BY DEF QuietStep, ControlQuiet
<1>2. Typed'
  BY DEF IInv, Typed
<1>3. ServesClient' /\ OwnerKnown' /\ OneRequest'
  BY DEF IInv, Typed, ServesClient, Serving, OwnerKnown, OneRequest
<1> QED
  BY <1>1, <1>2, <1>3 DEF Quiet
LEMMA ListenQuiet == IInv /\ CtlListen => Quiet
<1> SUFFICES ASSUME IInv, CtlListen PROVE Quiet
  OBVIOUS
<1> USE DEF CtlListen, mainVars, ctlVars, netVars, reqVars, hisVars
<1>1. QuietStep
  BY DEF QuietStep, ControlQuiet
<1>2. Typed'
  BY DEF IInv, Typed
<1>3. ServesClient' /\ OwnerKnown' /\ OneRequest'
  BY DEF IInv, Typed, ServesClient, Serving, OwnerKnown, OneRequest
<1> QED
  BY <1>1, <1>2, <1>3 DEF Quiet

LEMMA CheckQuiet == IInv /\ CtlCheck => Quiet
<1> SUFFICES ASSUME IInv, CtlCheck PROVE Quiet
  OBVIOUS
<1> USE DEF CtlCheck, mainVars, ctlVars, netVars, reqVars, hisVars
<1>1. QuietStep
  BY DEF QuietStep, ControlQuiet
<1>2. Typed'
  BY DEF IInv, Typed
<1>3. ServesClient' /\ OwnerKnown' /\ OneRequest'
  BY DEF IInv, Typed, ServesClient, Serving, OwnerKnown, OneRequest
<1> QED
  BY <1>1, <1>2, <1>3 DEF Quiet

LEMMA ArmQuiet == IInv /\ CtlArm => Quiet
<1> SUFFICES ASSUME IInv, CtlArm PROVE Quiet
  OBVIOUS
<1> USE DEF CtlArm, mainVars, ctlVars, netVars, reqVars, hisVars
<1>1. QuietStep
  BY DEF QuietStep, ControlQuiet
<1>2. Typed'
  BY DEF IInv, Typed
<1>3. ServesClient' /\ OwnerKnown' /\ OneRequest'
  BY DEF IInv, Typed, ServesClient, Serving, OwnerKnown, OneRequest
<1> QED
  BY <1>1, <1>2, <1>3 DEF Quiet

LEMMA ArmClosedQuiet == IInv /\ CtlArmClosed => Quiet
<1> SUFFICES ASSUME IInv, CtlArmClosed PROVE Quiet
  OBVIOUS
<1> USE DEF CtlArmClosed, mainVars, ctlVars, netVars, reqVars, hisVars
<1>1. QuietStep
  BY DEF QuietStep, ControlQuiet
<1>2. Typed'
  BY DEF IInv, Typed
<1>3. ServesClient' /\ OwnerKnown' /\ OneRequest'
  BY DEF IInv, Typed, ServesClient, Serving, OwnerKnown, OneRequest
<1> QED
  BY <1>1, <1>2, <1>3 DEF Quiet

LEMMA SelectQuiet == IInv /\ CtlSelect => Quiet
<1> SUFFICES ASSUME IInv, CtlSelect PROVE Quiet
  OBVIOUS
<1> USE DEF CtlSelect, mainVars, ctlVars, netVars, reqVars, hisVars
<1>1. QuietStep
  BY DEF QuietStep, ControlQuiet
<1>2. Typed'
  BY DEF IInv, Typed
<1>3. ServesClient' /\ OwnerKnown' /\ OneRequest'
  BY DEF IInv, Typed, ServesClient, Serving, OwnerKnown, OneRequest
<1> QED
  BY <1>1, <1>2, <1>3 DEF Quiet

LEMMA AcceptQuiet == IInv /\ CtlAccept => Quiet
<1> SUFFICES ASSUME IInv, CtlAccept PROVE Quiet
  OBVIOUS
<1> USE DEF CtlAccept, mainVars, ctlVars, netVars, reqVars, hisVars
<1>1. QuietStep
  BY DEF QuietStep, ControlQuiet
<1>2. Typed'
  BY DEF IInv, Typed
<1>3. ServesClient' /\ OwnerKnown' /\ OneRequest'
  BY DEF IInv, Typed, ServesClient, Serving, OwnerKnown, OneRequest
<1> QED
  BY <1>1, <1>2, <1>3 DEF Quiet

LEMMA AcceptFailedQuiet == IInv /\ CtlAcceptFailed => Quiet
<1> SUFFICES ASSUME IInv, CtlAcceptFailed PROVE Quiet
  OBVIOUS
<1> USE DEF CtlAcceptFailed, mainVars, ctlVars, netVars, reqVars, hisVars
<1>1. QuietStep
  BY DEF QuietStep, ControlQuiet
<1>2. Typed'
  BY DEF IInv, Typed
<1>3. ServesClient' /\ OwnerKnown' /\ OneRequest'
  BY DEF IInv, Typed, ServesClient, Serving, OwnerKnown, OneRequest
<1> QED
  BY <1>1, <1>2, <1>3 DEF Quiet

LEMMA RecvQuiet == IInv /\ CtlRecv => Quiet
<1> SUFFICES ASSUME IInv, CtlRecv PROVE Quiet
  OBVIOUS
<1> USE DEF CtlRecv, mainVars, netVars, reqVars, hisVars, Closed
<1>1. QuietStep
  BY DEF QuietStep, ControlQuiet, IInv, Typed
<1>2. cur \in Client /\ conn[cur] = "accepted" /\ cur' = cur
  BY DEF IInv, ServesClient, Serving
<1>3. ctlPc' = "invoke" => sent[cur] \in Commands
  BY <1>2 DEF IInv, Typed, NoCommand
<1>4. /\ ctlPc' \in {"invoke", "check"} /\ ctlPc = "recv"
      /\ conn' = IF ctlPc' = "invoke" THEN conn ELSE [conn EXCEPT ![cur] = "closed"]
      /\ reply' = reply \/ reply' = [reply EXCEPT ![cur] = "UNKNOWN"]
  OBVIOUS
<1>5. /\ UNCHANGED <<mainPc, applying, stop, cur, listenFd, owner, pending, refs>>
      /\ UNCHANGED <<done, ok, pipe, gone, sent, issued, applied>>
  OBVIOUS
<1> USE DEF IInv
<1> HIDE DEF CtlRecv
<1>6. conn' \in [Client -> {"none", "backlog", "accepted", "closed"}]
  BY <1>2, <1>4 DEF Typed
<1>7. reply' \in [Client -> {"none", "OK", "ERR", "UNKNOWN"}]
  BY <1>2, <1>4 DEF Typed
<1>8. Typed'
  BY <1>4, <1>5, <1>6, <1>7 DEF Typed
<1>9. ServesClient' /\ OwnerKnown'
  BY <1>2, <1>3, <1>4, <1>5 DEF ServesClient, Serving, OwnerKnown
<1>10. \A c \in Client : conn'[c] \in {"none", "backlog"} => conn[c] \in {"none", "backlog"}
  BY <1>2, <1>4 DEF Typed
<1>11. OneRequest'
  BY <1>4, <1>5, <1>10 DEF OneRequest
<1> QED
  BY <1>1, <1>8, <1>9, <1>11 DEF Quiet

LEMMA CloseQuiet == IInv /\ CtlClose => Quiet
<1> SUFFICES ASSUME IInv, CtlClose PROVE Quiet
  OBVIOUS
<1> USE DEF CtlClose, mainVars, ctlVars, netVars, reqVars, hisVars, Closed
<1>1. QuietStep
  BY DEF QuietStep, ControlQuiet, IInv, Typed
<1>2. Typed'
  BY DEF IInv, Typed
<1>3. ServesClient' /\ OwnerKnown' /\ OneRequest'
  BY DEF IInv, Typed, ServesClient, Serving, OwnerKnown, OneRequest
<1> QED
  BY <1>1, <1>2, <1>3 DEF Quiet

LEMMA MainRunQuiet == IInv /\ MainRun => Quiet
<1> SUFFICES ASSUME IInv, MainRun PROVE Quiet
  OBVIOUS
<1> USE DEF MainRun, mainVars, ctlVars, netVars, reqVars, hisVars
<1>1. QuietStep
  BY DEF QuietStep, ControlQuiet
<1>2. Typed'
  BY DEF IInv, Typed
<1>3. ServesClient' /\ OwnerKnown' /\ OneRequest'
  BY DEF IInv, Typed, ServesClient, Serving, OwnerKnown, OneRequest
<1> QED
  BY <1>1, <1>2, <1>3 DEF Quiet

LEMMA BusQuitQuiet == IInv /\ BusQuit => Quiet
<1> SUFFICES ASSUME IInv, BusQuit PROVE Quiet
  OBVIOUS
<1> USE DEF BusQuit, mainVars, ctlVars, netVars, reqVars, hisVars
<1>1. QuietStep
  BY DEF QuietStep, ControlQuiet
<1>2. Typed'
  BY DEF IInv, Typed
<1>3. ServesClient' /\ OwnerKnown' /\ OneRequest'
  BY DEF IInv, Typed, ServesClient, Serving, OwnerKnown, OneRequest
<1> QED
  BY <1>1, <1>2, <1>3 DEF Quiet

LEMMA MainLeaveQuiet == IInv /\ MainLeave => Quiet
<1> SUFFICES ASSUME IInv, MainLeave PROVE Quiet
  OBVIOUS
<1> USE DEF MainLeave, mainVars, ctlVars, netVars, reqVars, hisVars
<1>1. QuietStep
  BY DEF QuietStep, ControlQuiet
<1>2. Typed'
  BY DEF IInv, Typed
<1>3. ServesClient' /\ OwnerKnown' /\ OneRequest'
  BY DEF IInv, Typed, ServesClient, Serving, OwnerKnown, OneRequest
<1> QED
  BY <1>1, <1>2, <1>3 DEF Quiet

LEMMA StopFlagQuiet == IInv /\ StopFlag => Quiet
<1> SUFFICES ASSUME IInv, StopFlag PROVE Quiet
  OBVIOUS
<1> USE DEF StopFlag, mainVars, ctlVars, netVars, reqVars, hisVars
<1>1. QuietStep
  BY DEF QuietStep, ControlQuiet
<1>2. Typed'
  BY DEF IInv, Typed
<1>3. ServesClient' /\ OwnerKnown' /\ OneRequest'
  BY DEF IInv, Typed, ServesClient, Serving, OwnerKnown, OneRequest
<1> QED
  BY <1>1, <1>2, <1>3 DEF Quiet

LEMMA StopCloseQuiet == IInv /\ StopClose => Quiet
<1> SUFFICES ASSUME IInv, StopClose PROVE Quiet
  OBVIOUS
<1> USE DEF StopClose, mainVars, ctlVars, netVars, reqVars, hisVars
<1>1. QuietStep
  BY DEF QuietStep, ControlQuiet
<1>2. Typed'
  BY DEF IInv, Typed
<1>3. ServesClient' /\ OwnerKnown' /\ OneRequest'
  BY DEF IInv, Typed, ServesClient, Serving, OwnerKnown, OneRequest
<1> QED
  BY <1>1, <1>2, <1>3 DEF Quiet

LEMMA StopJoinQuiet == IInv /\ StopJoin => Quiet
<1> SUFFICES ASSUME IInv, StopJoin PROVE Quiet
  OBVIOUS
<1> USE DEF StopJoin, mainVars, ctlVars, netVars, reqVars, hisVars, Joined
<1>1. QuietStep
  BY DEF QuietStep, ControlQuiet
<1>2. Typed'
  BY DEF IInv, Typed
<1>3. ServesClient' /\ OwnerKnown' /\ OneRequest'
  BY DEF IInv, Typed, ServesClient, Serving, OwnerKnown, OneRequest
<1> QED
  BY <1>1, <1>2, <1>3 DEF Quiet

LEMMA ConnectQuiet == ASSUME IInv, NEW c \in Client, Connect(c) PROVE Quiet
<1> USE DEF Connect, mainVars, ctlVars, netVars, reqVars, hisVars
<1>1. QuietStep
  BY DEF QuietStep, ControlQuiet
<1>2. Typed'
  BY DEF IInv, Typed
<1>3. ServesClient' /\ OwnerKnown' /\ OneRequest'
  BY DEF IInv, Typed, ServesClient, Serving, OwnerKnown, OneRequest
<1> QED
  BY <1>1, <1>2, <1>3 DEF Quiet

LEMMA SendQuiet == ASSUME IInv, NEW c \in Client, Send(c) PROVE Quiet
<1> USE DEF Send, mainVars, ctlVars, netVars, reqVars, hisVars
<1>1. QuietStep
  BY DEF QuietStep, ControlQuiet
<1>2. Typed'
  BY DEF IInv, Typed
<1>3. ServesClient' /\ OwnerKnown' /\ OneRequest'
  BY DEF IInv, Typed, ServesClient, Serving, OwnerKnown, OneRequest
<1> QED
  BY <1>1, <1>2, <1>3 DEF Quiet

LEMMA HangUpQuiet == ASSUME IInv, NEW c \in Client, HangUp(c) PROVE Quiet
<1> USE DEF HangUp, mainVars, ctlVars, netVars, reqVars, hisVars
<1>1. QuietStep
  BY DEF QuietStep, ControlQuiet
<1>2. Typed'
  BY DEF IInv, Typed
<1>3. ServesClient' /\ OwnerKnown' /\ OneRequest'
  BY DEF IInv, Typed, ServesClient, Serving, OwnerKnown, OneRequest
<1> QED
  BY <1>1, <1>2, <1>3 DEF Quiet
-----------------------------------------------------------------------------
(* Steps that issue, apply, answer and finish requests.                    *)

LEMMA EffectTyped ==
    ASSUME NEW p \in Pipeline, NEW k \in Commands
    PROVE  Effect(p, k) \in Pipeline
<1>1. /\ k.cmd \in {"SET_BITRATE", "SET_FPS", "SET_RESOLUTION"} => k.arg \in Nat
      /\ k.cmd = "VIDEO_MODE" => k.arg \in Video
      /\ k.cmd = "AUDIO_MODE" => k.arg \in Audio
  BY CommandAssumption DEF CommandAssumption
<1>2. \A q \in Pipeline : ApplyCaps(q) \in Pipeline
  BY DEF ApplyCaps, Pipeline
<1>3. CASE k.cmd \in {"PAUSE", "RESUME"}
  BY <1>3 DEF Effect, Pipeline, Video, Audio
<1>4. CASE k.cmd = "SET_BITRATE"
  BY <1>1, <1>4 DEF Effect, Pipeline
<1>5. CASE k.cmd = "SET_FPS"
  <2>1. [p EXCEPT !.fps = k.arg] \in Pipeline
    BY <1>1, <1>5 DEF Pipeline
  <2> QED
    BY <1>2, <1>5, <2>1 DEF Effect
<1>6. CASE k.cmd = "SET_RESOLUTION"
  <2>1. [p EXCEPT !.size = k.arg] \in Pipeline
    BY <1>1, <1>6 DEF Pipeline
  <2> QED
    BY <1>2, <1>6, <2>1 DEF Effect
<1>7. CASE k.cmd = "VIDEO_MODE"
  BY <1>1, <1>7 DEF Effect, Pipeline
<1>8. CASE k.cmd = "AUDIO_MODE"
  BY <1>1, <1>8 DEF Effect, Pipeline
<1>9. CASE k.cmd \notin {"PAUSE", "RESUME", "SET_BITRATE", "SET_FPS",
                         "SET_RESOLUTION", "VIDEO_MODE", "AUDIO_MODE"}
  BY <1>9 DEF Effect
<1> QED
  BY <1>3, <1>4, <1>5, <1>6, <1>7, <1>8, <1>9

LEMMA ApplyTyped ==
    ASSUME IInv, NEW c \in Client, sent[c] \in Commands, ApplyRequest(c)
    PROVE  /\ pipe' \in Pipeline /\ ok' \in [Client -> BOOLEAN]
           /\ applied' \in Seq(Client) /\ applied' = Append(applied, c)
<1>1. pipe' \in Pipeline
  BY EffectTyped DEF IInv, Typed, ApplyRequest
<1>2. ok' \in [Client -> BOOLEAN]
  <2>1. PICK res \in Outcomes(sent[c]) : ok' = [ok EXCEPT ![c] = res]
    BY DEF ApplyRequest
  <2>2. res \in BOOLEAN
    BY DEF Outcomes
  <2> QED
    BY <2>1, <2>2 DEF IInv, Typed
<1> QED
  BY <1>1, <1>2, InAppend DEF IInv, Typed, ApplyRequest

LEMMA InvokePreserves == IInv /\ CtlInvoke => IInv'
<1> SUFFICES ASSUME IInv, CtlInvoke PROVE IInv'
  OBVIOUS
<1> USE DEF IInv
<1>1. /\ cur \in Client /\ ctlPc = "invoke" /\ conn[cur] = "accepted"
      /\ sent[cur] \in Commands /\ ~InSeq(cur, issued)
      /\ ~InSeq(cur, applied) /\ ~InSeq(cur, pending)
  BY DEF CtlInvoke, ServesClient, Serving, OneRequest, Ordered
<1>2. /\ UNCHANGED <<mainPc, applying, stop, cur, listenFd, done, ok, pipe>>
      /\ UNCHANGED <<conn, gone, sent, reply, applied>>
      /\ issued' = Append(issued, cur) /\ refs' = [refs EXCEPT ![cur] = NewRefs]
  BY DEF CtlInvoke, mainVars, netVars
<1>3. \/ /\ owner = "none" /\ owner' = "ctl" /\ ctlPc' = "inline"
         /\ pending' = pending
      \/ /\ owner # "none" /\ owner' = owner /\ ctlPc' = "wait"
         /\ pending' = Append(pending, cur)
  BY DEF CtlInvoke, InlineAllowed, Attached
<1>4. /\ issued' \in Seq(Client) /\ issued' # <<>> /\ issued'[Len(issued')] = cur
      /\ DOMAIN issued' = DOMAIN issued \cup {Len(issued) + 1}
      /\ Len(issued) \in Nat /\ DOMAIN issued = 1 .. Len(issued)
      /\ \A k \in DOMAIN issued : issued'[k] = issued[k]
      /\ issued'[Len(issued) + 1] = cur
      /\ \A c : InSeq(c, issued') <=> InSeq(c, issued) \/ c = cur
  BY <1>1, <1>2, InAppend DEF Typed
<1>5. /\ \A a, b : Earlier(a, b, issued) => Earlier(a, b, issued')
      /\ \A a : InSeq(a, issued) => Earlier(a, cur, issued')
  BY <1>1, <1>2, EarlierAppend DEF Typed
<1>13. ASSUME pending' = Append(pending, cur)
       PROVE  \A c : InSeq(c, pending') <=> InSeq(c, pending) \/ c = cur
  BY <1>1, <1>13, InAppend DEF Typed
<1>6. /\ pending' \in Seq(Client)
      /\ \A c : InSeq(c, pending') => InSeq(c, pending) \/ c = cur
      /\ \A m, n \in DOMAIN pending' :
            m < n => Earlier(pending'[m], pending'[n], issued')
  <2>1. CASE pending' = pending
    BY <1>5, <2>1 DEF Typed, Ordered
  <2>2. CASE pending' = Append(pending, cur)
    <3>1. /\ pending' \in Seq(Client)
          /\ DOMAIN pending' = DOMAIN pending \cup {Len(pending) + 1}
          /\ Len(pending) \in Nat /\ DOMAIN pending = 1 .. Len(pending)
          /\ \A k \in DOMAIN pending : pending'[k] = pending[k]
          /\ pending'[Len(pending) + 1] = cur
          /\ \A c : InSeq(c, pending') <=> InSeq(c, pending) \/ c = cur
      BY <1>1, <2>2, InAppend DEF Typed
    <3>2. ASSUME NEW m \in DOMAIN pending', NEW n \in DOMAIN pending', m < n
          PROVE  Earlier(pending'[m], pending'[n], issued')
      <4>1. m \in DOMAIN pending /\ pending'[m] = pending[m]
        BY <3>1, <3>2
      <4>2. CASE n \in DOMAIN pending
        BY <1>5, <3>1, <3>2, <4>1, <4>2 DEF Ordered
      <4>3. CASE n = Len(pending) + 1
        <5>1. InSeq(pending[m], pending)
          BY <4>1 DEF InSeq
        <5>2. InSeq(pending[m], issued)
          BY <4>1, <5>1, ElementOfSeq, <3>1 DEF Typed, Ordered
        <5> QED
          BY <1>5, <3>1, <4>1, <4>3, <5>2
      <4> QED
        BY <3>1, <4>2, <4>3
    <3> QED
      BY <3>1, <3>2
  <2> QED
    BY <1>3, <2>1, <2>2
<1>7. Typed'
  <2>1. refs' \in [Client -> Int]
    BY <1>1, <1>2 DEF Typed, NewRefs
  <2> QED
    BY <1>2, <1>3, <1>4, <1>6, <2>1 DEF Typed
<1>8. ServesClient' /\ OwnerKnown'
  BY <1>1, <1>2, <1>3 DEF ServesClient, Serving, OwnerKnown
<1>9. OneRequest'
  BY <1>1, <1>2, <1>3, <1>4 DEF OneRequest
<1>10. Ordered'
  <2>1. \A m, n \in DOMAIN issued' : issued'[m] = issued'[n] => m = n
    BY <1>1, <1>4 DEF Ordered, InSeq
  <2>2. \A c \in Client : InSeq(c, applied') \/ InSeq(c, pending') => InSeq(c, issued')
    BY <1>2, <1>4, <1>6 DEF Ordered
  <2>3. \A m, n \in DOMAIN applied' :
           m < n => Earlier(applied'[m], applied'[n], issued')
    BY <1>2, <1>5 DEF Ordered
  <2>4. mainPc' = "start" => pending' = <<>>
    BY <1>1, <1>2, <1>3 DEF Typed, Ordered, OwnerKnown
  <2>5. mainPc' \in {"loop", "quit"} =>
          \A a, p \in Client :
             InSeq(a, applied') /\ InSeq(p, pending') => Earlier(a, p, issued')
    BY <1>2, <1>5, <1>6 DEF Ordered
  <2>6. ctlPc' = "inline" =>
          /\ ~InSeq(cur', applied') /\ ~InSeq(cur', pending')
          /\ issued' # <<>> /\ issued'[Len(issued')] = cur'
    BY <1>1, <1>2, <1>3, <1>4
  <2> QED
    BY <1>6, <2>1, <2>2, <2>3, <2>4, <2>5, <2>6 DEF Ordered
<1>11. DoneApplied' /\ OkMeansApplied'
  BY <1>2 DEF DoneApplied, OkMeansApplied
<1>12. RefsExact'
  <2>1. applying # cur
    BY <1>1, CommandAssumption DEF CommandAssumption, DoneApplied
  <2>2. ASSUME NEW c \in Client, c # cur PROVE refs'[c] = Holders(c)'
    <3>1. InSeq(c, pending') <=> InSeq(c, pending)
      BY <1>3, <1>13, <2>2
    <3> QED
      BY <1>1, <1>2, <2>2, <3>1 DEF RefsExact, Holders, Typed
  <2>3. refs'[cur] = 2
    BY <1>1, <1>2 DEF Typed, NewRefs
  <2>4. Holders(cur)' = 2
    <3>1. CASE ctlPc' = "inline"
      BY <1>1, <1>2, <1>3, <2>1, <3>1 DEF Holders
    <3>2. CASE ctlPc' = "wait"
      <4>1. InSeq(cur, pending')
        BY <1>3, <1>13, <3>2
      <4> QED
        BY <1>2, <3>2, <4>1 DEF Holders
    <3> QED
      BY <1>3, <3>1, <3>2
  <2> QED
    BY <1>2, <2>2, <2>3, <2>4 DEF RefsExact
<1> QED
  BY <1>7, <1>8, <1>9, <1>10, <1>11, <1>12
\* What is applied next comes after all that was applied.
LEMMA AppliedNext ==
    ASSUME IInv, NEW c \in Client, issued' = issued, applied' = Append(applied, c),
           \A a \in Client : InSeq(a, applied) => Earlier(a, c, issued)
    PROVE  /\ \A x : InSeq(x, applied') <=> InSeq(x, applied) \/ x = c
           /\ \A m, n \in DOMAIN applied' :
                 m < n => Earlier(applied'[m], applied'[n], issued')
<1> USE DEF IInv
<1>1. /\ DOMAIN applied' = DOMAIN applied \cup {Len(applied) + 1}
      /\ Len(applied) \in Nat /\ DOMAIN applied = 1 .. Len(applied)
      /\ \A k \in DOMAIN applied : applied'[k] = applied[k]
      /\ applied'[Len(applied) + 1] = c
      /\ \A x : InSeq(x, applied') <=> InSeq(x, applied) \/ x = c
  BY InAppend DEF Typed
<1>2. ASSUME NEW m \in DOMAIN applied', NEW n \in DOMAIN applied', m < n
      PROVE  Earlier(applied'[m], applied'[n], issued')
  <2>1. m \in DOMAIN applied /\ applied'[m] = applied[m]
    BY <1>1, <1>2
  <2>2. CASE n \in DOMAIN applied
    BY <1>1, <1>2, <2>1, <2>2 DEF Ordered
  <2>3. CASE n = Len(applied) + 1
    <3>1. InSeq(applied[m], applied) /\ applied[m] \in Client
      BY <1>1, <2>1, ElementOfSeq DEF InSeq, Typed
    <3> QED
      BY <1>1, <2>1, <2>3, <3>1
  <2> QED
    BY <1>1, <2>2, <2>3
<1> QED
  BY <1>1, <1>2

LEMMA InlinePreserves == IInv /\ CtlInline => IInv'
<1> SUFFICES ASSUME IInv, CtlInline PROVE IInv'
  OBVIOUS
<1> USE DEF IInv
<1>1. /\ cur \in Client /\ ctlPc = "inline" /\ conn[cur] = "accepted"
      /\ sent[cur] \in Commands /\ owner = "ctl" /\ mainPc \notin {"loop", "quit"}
      /\ applying = NoClient
      /\ issued # <<>> /\ issued[Len(issued)] = cur /\ ~InSeq(cur, applied)
  BY DEF CtlInline, ServesClient, Serving, OwnerKnown, Ordered
<1>2. /\ UNCHANGED <<mainPc, applying, stop, cur, listenFd, pending>>
      /\ UNCHANGED <<conn, gone, sent, reply, issued>>
      /\ owner' = "none" /\ ctlPc' = "wait"
      /\ done' = [done EXCEPT ![cur] = TRUE]
      /\ refs' = [refs EXCEPT ![cur] = @ - 1]
  BY DEF CtlInline, mainVars, netVars, Unref
<1>3. /\ pipe' \in Pipeline /\ ok' \in [Client -> BOOLEAN]
      /\ applied' \in Seq(Client) /\ applied' = Append(applied, cur)
  BY <1>1, ApplyTyped DEF CtlInline
<1>4. \A a \in Client : InSeq(a, applied) => Earlier(a, cur, issued)
  <2> SUFFICES ASSUME NEW a \in Client, InSeq(a, applied)
               PROVE  Earlier(a, cur, issued)
    OBVIOUS
  <2>1. PICK k \in DOMAIN issued : issued[k] = a
    BY DEF Ordered, InSeq
  <2>2. DOMAIN issued = 1 .. Len(issued) /\ Len(issued) \in Nat
    BY LenProperties DEF Typed
  <2>3. k < Len(issued) /\ Len(issued) \in DOMAIN issued
    BY <1>1, <2>1, <2>2
  <2> QED
    BY <1>1, <2>1, <2>3 DEF Earlier
<1>5. /\ \A x : InSeq(x, applied') <=> InSeq(x, applied) \/ x = cur
      /\ \A m, n \in DOMAIN applied' :
            m < n => Earlier(applied'[m], applied'[n], issued')
  BY <1>1, <1>2, <1>3, <1>4, AppliedNext
<1>6. InSeq(cur, issued)
  <2>1. Len(issued) \in DOMAIN issued
    BY <1>1, LenProperties, EmptySeq DEF Typed
  <2> QED
    BY <1>1, <2>1 DEF InSeq
<1>7. Typed'
  <2>1. refs' \in [Client -> Int] /\ done' \in [Client -> BOOLEAN]
    BY <1>1, <1>2 DEF Typed
  <2> QED
    BY <1>2, <1>3, <2>1 DEF Typed
<1>8. ServesClient' /\ OwnerKnown'
  BY <1>1, <1>2 DEF ServesClient, Serving, OwnerKnown
<1>9. OneRequest'
  BY <1>1, <1>2 DEF OneRequest
<1>10. Ordered'
  BY <1>1, <1>2, <1>5, <1>6 DEF Ordered
<1>11. DoneApplied' /\ OkMeansApplied'
  BY <1>1, <1>2, <1>5 DEF DoneApplied, OkMeansApplied, Typed
<1>12. RefsExact'
  BY <1>1, <1>2 DEF RefsExact, Holders, Typed
<1> QED
  BY <1>7, <1>8, <1>9, <1>10, <1>11, <1>12

LEMMA WaitPreserves == IInv /\ CtlWait => IInv'
<1> SUFFICES ASSUME IInv, CtlWait PROVE IInv'
  OBVIOUS
<1> USE DEF IInv
<1>1. /\ cur \in Client /\ ctlPc = "wait" /\ conn[cur] = "accepted"
  BY DEF CtlWait, ServesClient, Serving
<1>2. /\ UNCHANGED <<mainPc, applying, stop, cur, listenFd, pending>>
      /\ UNCHANGED <<conn, gone, sent, issued, applied, owner, done, ok, pipe>>
      /\ ctlPc' = "close"
      /\ reply' = [reply EXCEPT ![cur] = IF Succeeded(cur) THEN "OK" ELSE "ERR"]
      /\ refs' = [refs EXCEPT ![cur] = @ - 1]
  BY DEF CtlWait, mainVars, hisVars, Unref
<1>3. Typed'
  <2>1. refs' \in [Client -> Int]
    BY <1>1, <1>2 DEF Typed
  <2>2. reply' \in [Client -> {"none", "OK", "ERR", "UNKNOWN"}]
    BY <1>1, <1>2 DEF Typed
  <2> QED
    BY <1>2, <2>1, <2>2 DEF Typed
<1>4. ServesClient' /\ OwnerKnown' /\ OneRequest' /\ DoneApplied'
  BY <1>1, <1>2 DEF ServesClient, Serving, OwnerKnown, OneRequest, DoneApplied
<1>5. Ordered'
  BY <1>1, <1>2 DEF Ordered
<1>6. OkMeansApplied'
  <2>1. reply'[cur] = "OK" => InSeq(cur, applied)
    BY <1>1, <1>2 DEF Succeeded, DoneApplied, Typed
  <2> QED
    BY <1>1, <1>2, <2>1 DEF OkMeansApplied, Typed
<1>7. RefsExact'
  BY <1>1, <1>2 DEF RefsExact, Holders, Typed
<1> QED
  BY <1>3, <1>4, <1>5, <1>6, <1>7
LEMMA MainApplyPreserves == IInv /\ MainApply => IInv'
<1> SUFFICES ASSUME IInv, MainApply PROVE IInv'
  OBVIOUS
<1> USE DEF IInv
<1> DEFINE c == Head(pending)
<1>1. /\ mainPc \in {"loop", "quit"} /\ applying = NoClient /\ pending # <<>>
      /\ owner = "main" /\ ctlPc # "inline"
  BY DEF MainApply, OwnerKnown
<1>2. /\ UNCHANGED <<mainPc, stop, ctlPc, cur, listenFd, owner, refs, done>>
      /\ UNCHANGED <<conn, gone, sent, reply, issued>>
      /\ applying' = c /\ pending' = Tail(pending)
  BY DEF MainApply, ctlVars, netVars
<1>3. /\ c \in Client /\ pending' \in Seq(Client)
      /\ 1 \in DOMAIN pending /\ c = pending[1]
      /\ \A k \in DOMAIN pending' : /\ k + 1 \in DOMAIN pending
                                    /\ pending'[k] = pending[k + 1]
                                    /\ k \in Nat /\ 0 < k
      /\ \A x : InSeq(x, pending) <=> x = c \/ InSeq(x, pending')
  BY <1>1, <1>2, InTail DEF Typed
<1>4. InSeq(c, issued) /\ sent[c] \in Commands
  BY <1>3 DEF Ordered, OneRequest
<1>5. /\ pipe' \in Pipeline /\ ok' \in [Client -> BOOLEAN]
      /\ applied' \in Seq(Client) /\ applied' = Append(applied, c)
  BY <1>3, <1>4, ApplyTyped DEF MainApply
<1>6. \A a \in Client : InSeq(a, applied) => Earlier(a, c, issued)
  BY <1>1, <1>3 DEF Ordered
<1> HIDE DEF c
<1>7. /\ \A x : InSeq(x, applied') <=> InSeq(x, applied) \/ x = c
      /\ \A m, n \in DOMAIN applied' :
            m < n => Earlier(applied'[m], applied'[n], issued')
  BY <1>2, <1>3, <1>5, <1>6, AppliedNext
<1>8. Typed'
  BY <1>2, <1>3, <1>5 DEF Typed
<1>9. ServesClient' /\ OneRequest'
  BY <1>2 DEF ServesClient, Serving, OneRequest
<1>10. OwnerKnown'
  BY <1>1, <1>2 DEF OwnerKnown
<1>11. Ordered'
  <2>1. \A p \in Client : InSeq(p, pending') => Earlier(c, p, issued)
    <3> SUFFICES ASSUME NEW p \in Client, InSeq(p, pending')
                 PROVE  Earlier(c, p, issued)
      OBVIOUS
    <3>1. PICK k \in DOMAIN pending' : pending'[k] = p
      BY DEF InSeq
    <3>2. /\ k + 1 \in DOMAIN pending /\ 1 < k + 1 /\ pending[k + 1] = p
      BY <1>3, <3>1
    <3> QED
      BY <1>3, <3>2 DEF Ordered
  <2>2. \A a, p \in Client :
           InSeq(a, applied') /\ InSeq(p, pending') => Earlier(a, p, issued')
    BY <1>1, <1>2, <1>3, <1>7, <2>1 DEF Ordered
  <2>3. \A m, n \in DOMAIN pending' :
           m < n => Earlier(pending'[m], pending'[n], issued')
    BY <1>2, <1>3 DEF Ordered
  <2>4. \A x \in Client : InSeq(x, applied') \/ InSeq(x, pending') => InSeq(x, issued')
    BY <1>2, <1>3, <1>4, <1>7 DEF Ordered
  <2> QED
    BY <1>1, <1>2, <1>7, <2>2, <2>3, <2>4 DEF Ordered
<1>12. DoneApplied' /\ OkMeansApplied'
  BY <1>2, <1>7 DEF DoneApplied, OkMeansApplied
<1>13. RefsExact'
  <2>1. \A x \in Client : InSeq(x, pending) \/ applying = x
                          <=> InSeq(x, pending') \/ applying' = x
    BY <1>1, <1>2, <1>3, CommandAssumption DEF CommandAssumption
  <2> QED
    BY <1>2, <2>1 DEF RefsExact, Holders
<1> QED
  BY <1>8, <1>9, <1>10, <1>11, <1>12, <1>13

LEMMA MainFinishPreserves == IInv /\ MainFinish => IInv'
<1> SUFFICES ASSUME IInv, MainFinish PROVE IInv'
  OBVIOUS
<1> USE DEF IInv
<1>1. /\ applying \in Client /\ mainPc \in {"loop", "quit"}
      /\ InSeq(applying, applied) /\ applying' = NoClient
  BY DEF MainFinish, Typed, OwnerKnown, DoneApplied
<1>2. /\ UNCHANGED <<mainPc, stop, ctlPc, cur, listenFd, owner, pending, ok, pipe>>
      /\ UNCHANGED <<conn, gone, sent, reply, issued, applied>>
      /\ done' = [done EXCEPT ![applying] = TRUE]
      /\ refs' = [refs EXCEPT ![applying] = @ - 1]
  BY DEF MainFinish, ctlVars, netVars, hisVars, Unref
<1>3. ~InSeq(applying, pending)
  <2> SUFFICES ASSUME InSeq(applying, pending) PROVE FALSE
    OBVIOUS
  <2>1. Earlier(applying, applying, issued)
    BY <1>1 DEF Ordered
  <2>2. PICK m \in DOMAIN issued, n \in DOMAIN issued :
           m < n /\ issued[m] = applying /\ issued[n] = applying
    BY <2>1 DEF Earlier
  <2>3. m = n /\ DOMAIN issued = 1 .. Len(issued)
    BY <2>2, LenProperties DEF Ordered, Typed
  <2> QED
    BY <2>2, <2>3, LenProperties DEF Typed
<1>4. Typed'
  <2>1. refs' \in [Client -> Int] /\ done' \in [Client -> BOOLEAN]
    BY <1>1, <1>2 DEF Typed
  <2> QED
    BY <1>1, <1>2, <2>1 DEF Typed
<1>5. ServesClient' /\ OwnerKnown' /\ OneRequest'
  BY <1>1, <1>2 DEF ServesClient, Serving, OwnerKnown, OneRequest
<1>6. Ordered'
  BY <1>2 DEF Ordered
<1>7. DoneApplied' /\ OkMeansApplied'
  BY <1>1, <1>2 DEF DoneApplied, OkMeansApplied, Typed
<1>8. RefsExact'
  <2>1. NoClient \notin Client
    BY CommandAssumption DEF CommandAssumption
  <2>2. ASSUME NEW x \in Client, x # applying PROVE refs'[x] = Holders(x)'
    BY <1>1, <1>2, <2>1, <2>2 DEF RefsExact, Holders, Typed
  <2>3. ASSUME NEW x \in Client, x = applying PROVE refs'[x] = Holders(x)'
    BY <1>1, <1>2, <1>3, <2>1, <2>3 DEF RefsExact, Holders, Typed
  <2> QED
    BY <2>2, <2>3 DEF RefsExact
<1> QED
  BY <1>4, <1>5, <1>6, <1>7, <1>8
-----------------------------------------------------------------------------
LEMMA InitIInv == Init => IInv
<1> SUFFICES ASSUME Init PROVE IInv
  OBVIOUS
<1> USE DEF Init
<1>1. \A c : ~InSeq(c, <<>>)
  BY NothingIn
<1>2. NoClient \notin Client /\ pipe \in Pipeline
  BY CommandAssumption DEF CommandAssumption
<1>3. Typed
  <2>1. /\ done \in [Client -> BOOLEAN] /\ ok \in [Client -> BOOLEAN]
        /\ gone \in [Client -> BOOLEAN] /\ refs \in [Client -> Int]
    OBVIOUS
  <2>2. stop \in BOOLEAN
    <3>1. stop = FALSE
      OBVIOUS
    <3> QED
      BY <3>1
  <2> QED
    BY <1>2, <2>1, <2>2 DEF Typed
<1>4. ServesClient /\ OwnerKnown
  BY DEF ServesClient, Serving, OwnerKnown
<1>5. OneRequest
  BY <1>1 DEF OneRequest
<1>6. Ordered
  BY <1>1 DEF Ordered
<1>7. DoneApplied /\ OkMeansApplied
  BY DEF DoneApplied, OkMeansApplied
<1>8. RefsExact
  <2>1. ASSUME NEW c \in Client PROVE Holders(c) = 0
    BY <1>1, <1>2 DEF Holders
  <2> QED
    BY <2>1 DEF RefsExact
<1> QED
  BY <1>3, <1>4, <1>5, <1>6, <1>7, <1>8 DEF IInv

\* Once the server let go of the pipeline nobody applies anything to it.
LEMMA ReleasedIsOver ==
    IInv /\ Next /\ mainPc = "released" => pipe' = pipe /\ applied' = applied
<1> SUFFICES ASSUME IInv, Next, mainPc = "released"
             PROVE  pipe' = pipe /\ applied' = applied
  OBVIOUS
<1>1. ctlPc = "done" /\ applying = NoClient
  BY DEF IInv, OwnerKnown
<1>2. ASSUME NEW c \in Client, Connect(c) \/ Send(c) \/ HangUp(c)
      PROVE  pipe' = pipe /\ applied' = applied
  BY <1>2 DEF Connect, Send, HangUp, hisVars
<1>3. CASE Terminated
  BY <1>3 DEF Terminated, vars, hisVars
<1>4. CASE Control
  BY <1>1, <1>4 DEF Control, CtlSocket, CtlListen, CtlCheck, CtlArm, CtlArmClosed,
     CtlSelect, CtlAccept, CtlAcceptFailed, CtlRecv, CtlInvoke, CtlInline,
     CtlWait, CtlClose
<1>5. CASE Main \/ BusQuit
  BY <1>1, <1>5 DEF Main, BusQuit, MainRun, MainApply, MainFinish, MainLeave,
     StopFlag, StopClose, StopJoin
<1> QED
  BY <1>2, <1>3, <1>4, <1>5 DEF Next

LEMMA NextPreserves == IInv /\ [Next]_vars => IInv' /\ [UntouchedStep]_vars
<1> SUFFICES ASSUME IInv, [Next]_vars PROVE IInv' /\ [UntouchedStep]_vars
  OBVIOUS
<1>1. ASSUME Control PROVE IInv'
  <2>1. \/ Quiet \/ CtlInvoke \/ CtlInline \/ CtlWait
    BY <1>1, SocketQuiet, ListenQuiet, CheckQuiet, ArmQuiet, ArmClosedQuiet,
       SelectQuiet, AcceptQuiet, AcceptFailedQuiet, RecvQuiet, CloseQuiet, Zenon
       DEF Control
  <2> QED
    BY <2>1, QuietPreserves, InvokePreserves, InlinePreserves, WaitPreserves, Zenon
<1>2. ASSUME Main \/ BusQuit PROVE IInv'
  <2>1. \/ Quiet \/ MainApply \/ MainFinish
    BY <1>2, MainRunQuiet, BusQuitQuiet, MainLeaveQuiet, StopFlagQuiet,
       StopCloseQuiet, StopJoinQuiet, Zenon DEF Main
  <2> QED
    BY <2>1, QuietPreserves, MainApplyPreserves, MainFinishPreserves, Zenon
<1>3. ASSUME NEW c \in Client, Connect(c) \/ Send(c) \/ HangUp(c) PROVE IInv'
  BY <1>3, QuietPreserves, ConnectQuiet, SendQuiet, HangUpQuiet
<1>4. ASSUME UNCHANGED vars PROVE IInv'
  <2> USE <1>4 DEF vars, mainVars, ctlVars, reqVars, netVars, hisVars
  <2>1. Typed' /\ ServesClient' /\ OwnerKnown'
    BY DEF IInv, Typed, ServesClient, Serving, OwnerKnown
  <2>2. OneRequest' /\ Ordered' /\ DoneApplied'
    BY DEF IInv, OneRequest, Ordered, DoneApplied
  <2>3. RefsExact' /\ OkMeansApplied'
    BY DEF IInv, RefsExact, Holders, OkMeansApplied
  <2> QED
    BY <2>1, <2>2, <2>3 DEF IInv
<1>5. IInv'
  BY <1>1, <1>2, <1>3, <1>4 DEF Next, Terminated
<1>6. [UntouchedStep]_vars
  BY ReleasedIsOver DEF UntouchedStep
<1> QED
  BY <1>5, <1>6

\* A request's reference count is the number of those who may still touch it,
\* for any number of clients: it is freed once, by the last of them.
THEOREM RefsCorrect == Spec => []RefsExact
<1>1. IInv => RefsExact
  BY DEF IInv
<1> QED
  BY <1>1, InitIInv, NextPreserves, PTL DEF Spec

\* Every variable has its type; the reference count is 0, 1 or 2.
THEOREM TypeCorrect == Spec => []TypeOK
<1>1. IInv => refs \in [Client -> 0 .. 2]
  <2> SUFFICES ASSUME IInv, NEW c \in Client PROVE refs[c] \in 0 .. 2
    BY DEF IInv, Typed
  <2>1. Holders(c) \in {0, 1, 2}
    <3>1. ctlPc = "inline" /\ cur = c => ~InSeq(c, pending) /\ applying # c
      BY CommandAssumption DEF CommandAssumption, IInv, Ordered, OwnerKnown
    <3> QED
      BY <3>1 DEF Holders
  <2> QED
    BY <2>1 DEF IInv, RefsExact
<1>2. IInv => TypeOK
  BY <1>1 DEF IInv, Typed, TypeOK
<1> QED
  BY <1>2, InitIInv, NextPreserves, PTL DEF Spec

\* OK is only ever answered for a command that took effect.
THEOREM OkCorrect == Spec => []OkMeansApplied
<1>1. IInv => OkMeansApplied
  BY DEF IInv
<1> QED
  BY <1>1, InitIInv, NextPreserves, PTL DEF Spec

\* The control thread applies a request itself only while the main loop is
\* neither running nor in a callback; main() may be setting the pipeline to NULL.
THEOREM SoleApplierCorrect == Spec => []SoleApplier
<1>1. IInv => SoleApplier
  BY DEF IInv, OwnerKnown, SoleApplier
<1> QED
  BY <1>1, InitIInv, NextPreserves, PTL DEF Spec

\* Nothing is applied to elements the server let go of.
THEOREM UntouchedCorrect == Spec => Untouched
BY InitIInv, NextPreserves, PTL DEF Spec, Untouched

\* Commands take effect in the order they were made, and once.
THEOREM InOrderCorrect == Spec => []InOrder
<1>1. IInv => InOrder
  <2> SUFFICES ASSUME IInv, NEW i \in DOMAIN applied, NEW j \in DOMAIN applied, i < j
               PROVE  Position(applied[i], issued) < Position(applied[j], issued)
    BY DEF InOrder
  <2>1. \A m, n \in DOMAIN issued : issued[m] = issued[n] => m = n
    BY DEF IInv, Ordered
  <2>2. PICK m \in DOMAIN issued, n \in DOMAIN issued :
           m < n /\ issued[m] = applied[i] /\ issued[n] = applied[j]
    BY DEF IInv, Ordered, Earlier
  <2>3. Position(applied[i], issued) = m
    BY <2>1, <2>2 DEF Position
  <2>4. Position(applied[j], issued) = n
    BY <2>1, <2>2 DEF Position
  <2> QED
    BY <2>2, <2>3, <2>4
<1> QED
  BY <1>1, InitIInv, NextPreserves, PTL DEF Spec
-----------------------------------------------------------------------------
(* Coming down.  StopReturns needs fairness and is left to TLC; what it    *)
(* needs of the two threads is that each has finitely many steps left.     *)

\* How many steps the control thread is from its end, once the flag is up: a
\* client it has accepted is still served.
StepsLeft ==
    CASE ctlPc = "arm" -> 9 [] ctlPc = "select" -> 8 [] ctlPc = "accept" -> 7
      [] ctlPc = "recv" -> 6 [] ctlPc = "invoke" -> 5 [] ctlPc = "inline" -> 4
      [] ctlPc = "wait" -> 3 [] ctlPc = "socket" -> 3
      [] ctlPc \in {"close", "listen"} -> 2 [] ctlPc = "check" -> 1 [] OTHER -> 0

MainLeft ==
    CASE mainPc = "stop" -> 2 [] mainPc = "join" -> 1 [] OTHER -> 0

\* The flag stays up and main() goes on to the join; the control thread ends
\* whatever it was doing, and neither main() nor a client makes it begin anew.
ComesDownStep ==
    stop =>
        /\ stop'
        /\ Control => StepsLeft' < StepsLeft /\ MainLeft' <= MainLeft
        /\ Main => MainLeft' < MainLeft /\ StepsLeft' = StepsLeft
        /\ \A c \in Client : Connect(c) \/ Send(c) \/ HangUp(c) =>
              UNCHANGED <<StepsLeft, MainLeft>>
ComesDown == [][ComesDownStep]_vars


\* The flag goes up only after main() has left its loop.
Stopping == stop => mainPc \in {"stop", "join", "released", "aborted"}

LEMMA StoppingStep == IInv /\ Stopping /\ [Next]_vars => Stopping'
<1> SUFFICES ASSUME IInv, Stopping, [Next]_vars PROVE Stopping'
  OBVIOUS
<1> USE DEF Stopping, mainVars, ctlVars, reqVars, netVars, hisVars
<1>1. CASE Control
  <2>1. stop' = stop /\ (mainPc' = mainPc \/ mainPc' = "aborted")
    BY <1>1, Zenon DEF Control, CtlSocket, CtlListen, CtlCheck, CtlArm,
       CtlArmClosed, CtlSelect, CtlAccept, CtlAcceptFailed, CtlRecv, CtlInvoke,
       CtlInline, CtlWait, CtlClose
  <2> QED  BY <2>1, Zenon
<1>2. CASE Main
  BY <1>2 DEF Main, MainRun, MainApply, MainFinish, MainLeave, StopFlag,
     StopClose, StopJoin, IInv, OwnerKnown
<1>3. CASE BusQuit
  BY <1>3 DEF BusQuit
<1>4. ASSUME NEW c \in Client, Connect(c) \/ Send(c) \/ HangUp(c) PROVE Stopping'
  BY <1>4 DEF Connect, Send, HangUp
<1>5. CASE UNCHANGED vars
  BY <1>5 DEF vars
<1> QED
  BY <1>1, <1>2, <1>3, <1>4, <1>5 DEF Next, Terminated

LEMMA ControlFalls ==
    ASSUME IInv, Stopping, stop, Control
    PROVE  stop' /\ StepsLeft' < StepsLeft /\ MainLeft' <= MainLeft
<1>0. stop'
  BY Zenon DEF Control, CtlSocket, CtlListen, CtlCheck, CtlArm, CtlArmClosed,
     CtlSelect, CtlAccept, CtlAcceptFailed, CtlRecv, CtlInvoke, CtlInline,
     CtlWait, CtlClose, mainVars
<1> SUFFICES StepsLeft' < StepsLeft /\ MainLeft' <= MainLeft
  BY <1>0
<1> USE DEF StepsLeft, MainLeft, mainVars
<1>1. CASE CtlSocket \/ CtlListen \/ CtlArm \/ CtlSelect
  <2>1. /\ mainPc' = mainPc
        /\ \/ ctlPc = "socket" /\ (ctlPc' = "listen" \/ ctlPc' = "done")
           \/ ctlPc = "listen" /\ (ctlPc' = "check" \/ ctlPc' = "done")
           \/ ctlPc = "arm" /\ ctlPc' = "select"
           \/ ctlPc = "select" /\ (ctlPc' = "check" \/ ctlPc' = "accept")
    BY <1>1, Zenon DEF CtlSocket, CtlListen, CtlArm, CtlSelect
  <2> QED  BY <2>1
<1>2. CASE CtlCheck
  <2>1. mainPc' = mainPc /\ ctlPc = "check" /\ ctlPc' = "done"
    BY <1>2, Zenon DEF CtlCheck, StopSeen
  <2> QED  BY <2>1
<1>3. CASE CtlArmClosed
  <2>1. ctlPc = "arm" /\ ctlPc' \in {"check", "done"}
        /\ mainPc' \in {mainPc, "aborted"}
    BY <1>3, Zenon DEF CtlArmClosed
  <2> QED  BY <2>1
<1>4. CASE CtlAccept \/ CtlAcceptFailed \/ CtlRecv
  <2>1. /\ mainPc' = mainPc
        /\ \/ ctlPc = "accept" /\ (ctlPc' = "recv" \/ ctlPc' = "check")
           \/ ctlPc = "recv" /\ (ctlPc' = "invoke" \/ ctlPc' = "check")
    BY <1>4, Zenon DEF CtlAccept, CtlAcceptFailed, CtlRecv
  <2> QED  BY <2>1
<1>5. CASE CtlInvoke
  <2>1. mainPc' = mainPc /\ ctlPc = "invoke" /\ ctlPc' \in {"inline", "wait"}
    BY <1>5, Zenon DEF CtlInvoke
  <2> QED  BY <2>1
<1>6. CASE CtlInline \/ CtlWait \/ CtlClose
  <2>1. /\ mainPc' = mainPc
        /\ \/ ctlPc = "inline" /\ ctlPc' = "wait"
           \/ ctlPc = "wait" /\ ctlPc' = "close"
           \/ ctlPc = "close" /\ ctlPc' = "check"
    BY <1>6, Zenon DEF CtlInline, CtlWait, CtlClose
  <2> QED  BY <2>1
<1> QED
  BY <1>1, <1>2, <1>3, <1>4, <1>5, <1>6 DEF Control

LEMMA MainFalls ==
    ASSUME IInv, Stopping, stop, Main \/ BusQuit
    PROVE  stop' /\ Main /\ MainLeft' < MainLeft /\ StepsLeft' = StepsLeft
<1>1. StopClose \/ StopJoin
  BY DEF Main, MainRun, MainApply, MainFinish, MainLeave, StopFlag, BusQuit,
     Stopping, IInv, OwnerKnown
<1>2. stop' /\ Main
  BY <1>1, Zenon DEF Main, StopClose, StopJoin
<1>3. MainLeft' < MainLeft /\ StepsLeft' = StepsLeft
  <2>1. /\ ctlPc' = ctlPc
        /\ \/ mainPc = "stop" /\ mainPc' = "join"
           \/ mainPc = "join" /\ mainPc' = "released"
    BY <1>1, Zenon DEF StopClose, StopJoin, ctlVars
  <2> QED  BY <2>1 DEF MainLeft, StepsLeft
<1> QED
  BY <1>2, <1>3

LEMMA LeftFalls == IInv /\ Stopping /\ [Next]_vars => [ComesDownStep]_vars
<1> SUFFICES ASSUME IInv, Stopping, Next, stop
             PROVE  /\ stop'
                    /\ Control => StepsLeft' < StepsLeft /\ MainLeft' <= MainLeft
                    /\ Main => MainLeft' < MainLeft /\ StepsLeft' = StepsLeft
                    /\ \A c \in Client : Connect(c) \/ Send(c) \/ HangUp(c) =>
                          UNCHANGED <<StepsLeft, MainLeft>>
  BY Zenon DEF ComesDownStep
<1>1. ASSUME NEW c \in Client, Connect(c) \/ Send(c) \/ HangUp(c)
      PROVE  stop' = stop /\ UNCHANGED <<StepsLeft, MainLeft>>
  BY <1>1 DEF Connect, Send, HangUp, mainVars, ctlVars, StepsLeft, MainLeft
<1>2. stop'
  BY <1>1, ControlFalls, MainFalls, Zenon DEF Next, Terminated, vars, mainVars
<1>3. Control => StepsLeft' < StepsLeft /\ MainLeft' <= MainLeft
  BY ControlFalls
<1>4. Main => MainLeft' < MainLeft /\ StepsLeft' = StepsLeft
  BY MainFalls
<1> QED
  BY <1>1, <1>2, <1>3, <1>4

\* Once stop_control_server has raised its flag, the control thread ends
\* within nine steps of its own, wherever it is: before it has a socket, at a
\* descriptor that was closed under it, or with a command in hand that the
\* main loop will never apply; and main() only waits for that.
THEOREM ComesDownCorrect == Spec => ComesDown
<1>1. Init => Stopping
  BY DEF Init, Stopping
<1> QED
  BY <1>1, InitIInv, NextPreserves, StoppingStep, LeftFalls, PTL DEF Spec, ComesDown
=============================================================================
