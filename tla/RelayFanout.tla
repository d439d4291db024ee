---------------------------- MODULE RelayFanout ----------------------------
(***************************************************************************)
(* The fan-out core of the SRT relay (srt_server/src/relay_server.hpp and  *)
(* subscriber_session.hpp): one publisher reader copies every TS chunk     *)
(* into the queue of each subscriber session, one sender thread drains all *)
(* the queues through a single SRT epoll, an acceptor adds sessions, the   *)
(* monitor throttles or disconnects them, and stop() takes it all down.    *)
(*                                                                         *)
(* The five threads share `subscribers' (under sub_mu_, here `lock'), one  *)
(* queue per session (under the session's own mutex, every critical        *)
(* section of which is a single step here), atomics, and an eventfd.  A    *)
(* step is one critical section or one library call of one thread; what a  *)
(* thread reads in one critical section and uses in the next is kept in    *)
(* that thread's local variables, so every race between them is explored.  *)
(* A local that went out of scope gets its initial value back.             *)
(***************************************************************************)
EXTENDS Integers, Sequences, FiniteSets

CONSTANTS
    Sub,        \* the connections that may arrive; a session's id_
    MaxSubs,    \* cfg_.max_subscribers
    QueueMax,   \* cfg_.subscriber_queue_max_chunks
    MaxChunks,  \* bound: how many chunks the publisher sends
    SignalBy,   \* bound: how many of them precede the signal, at most
    Burst,      \* chunks sent per socket and wake-up (32 in the code)
    Rap,        \* the chunk numbers that carry a random access point
    Actions     \* the actions the subscriber controller may decide

\* The command line does not check --max-subs or --sub-queue; the code is
\* meaningful for positive values only (pop_front on an empty deque below).
ASSUME BoundsAssumption ==
    /\ MaxSubs \in Nat \ {0}
    /\ QueueMax \in Nat \ {0}
    /\ MaxChunks \in Nat /\ SignalBy \in Nat
    /\ Burst \in Nat \ {0}
    /\ Rap \subseteq Nat
    /\ Actions \subseteq {"Normal", "Warn", "Drop", "Placeholder"}

VARIABLES
    gRunning,    \* g_running
    listening,   \* sub_listener_ is open
    stopPc,      \* main: "run", "join", "done"
    lock,        \* holder of sub_mu_ over several steps: "free", "pub", "mon"
    subscribers, \* keys of subscribers_
    wake,        \* the eventfd counter is non-zero
    count,       \* status_.subscriber_count
    accPc, accSub,                       \* accept_subscriber_loop
    sess,        \* session object: "none", "live", "stopped" (stopped_)
    sock,        \* its socket: "none", "connected", "broken", "closed"
    room,        \* the SRT send buffer of the socket accepts a message
    queue, synced, action, closing,      \* the session's fields
    dropped,     \* history: its chunks counted in subscriber_queue_drops
    accepted,    \* history: the chunks push_chunk took for it once in sync
    wire,        \* history: what srt_send took for it, in order
    chunks,      \* number of the last chunk broadcast
    pubPc, pubTodo, queued,              \* broadcast
    sndPc, needsSync, todo, cur, wants, chunk, burst, \* subscriber_send_loop
    reg,         \* registered: "no", "idle" (ERR only), "out" (ERR and OUT)
    monPc, monTodo, disc                 \* monitor_loop

mainVars == <<gRunning, listening, stopPc>>
accVars  == <<accPc, accSub>>
linkVars == <<sess, sock, room>>
flowVars == <<queue, synced, action, dropped, accepted, wire>>
sessVars == <<linkVars, flowVars, closing>>
pubVars  == <<chunks, pubPc, pubTodo, queued>>
sndLocals == <<wants, chunk, burst>>
sndVars  == <<sndPc, needsSync, todo, cur, sndLocals, reg>>
monVars  == <<monPc, monTodo, disc>>
sharedVars == <<lock, subscribers, wake, count>>
vars == <<mainVars, sharedVars, accVars, sessVars, pubVars, sndVars, monVars>>

\* The variables of the other threads.
notAcc == <<mainVars, pubVars, sndVars, monVars>>
notPub == <<mainVars, accVars, sndVars, monVars>>
notSnd == <<mainVars, accVars, pubVars, monVars>>
notMon == <<mainVars, accVars, pubVars, sndVars>>
notNet == <<mainVars, accVars, pubVars, sndVars, monVars, sharedVars>>

\* A queue element: the chunk of broadcast n, or the null-TS chunk queued in
\* its place.  One session holds one element per n, so equality of elements is
\* the shared_ptr equality the sender tests.
Element == [n: Nat, null: BOOLEAN]
NoElement == [n |-> 0, null |-> FALSE]
Numbers(q) == {q[i].n : i \in DOMAIN q}

Live    == {s \in Sub : sess[s] = "live"}
RunningIfLive(s) == sess[s] = "live"
Running(s) == sess[s] = "live" /\ ~closing[s]
LockFree == lock = "free"
-----------------------------------------------------------------------------
Init ==
    /\ gRunning = TRUE /\ listening = TRUE /\ stopPc = "run"
    /\ lock = "free" /\ subscribers = {} /\ wake = FALSE /\ count = 0
    /\ accPc = "top" /\ accSub \in Sub
    /\ sess = [s \in Sub |-> "none"]
    /\ sock = [s \in Sub |-> "none"]
    /\ room = [s \in Sub |-> TRUE]
    /\ queue = [s \in Sub |-> <<>>]
    /\ synced = [s \in Sub |-> FALSE]
    /\ action = [s \in Sub |-> "Normal"]
    /\ closing = [s \in Sub |-> FALSE]
    /\ dropped = [s \in Sub |-> {}]
    /\ accepted = [s \in Sub |-> {}]
    /\ wire = [s \in Sub |-> <<>>]
    /\ chunks = 0 /\ pubPc = "recv" /\ pubTodo = {} /\ queued = FALSE
    /\ sndPc = "top" /\ needsSync = TRUE /\ todo = {} /\ cur = accSub
    /\ wants = FALSE /\ chunk = NoElement /\ burst = 0
    /\ reg = [s \in Sub |-> "no"]
    /\ monPc = "sleep" /\ monTodo = {} /\ disc = {}
-----------------------------------------------------------------------------
(* The subscriber acceptor.                                                *)

AccTop ==
    /\ accPc = "top"
    /\ accPc' = IF gRunning THEN "accept" ELSE "done"
    /\ UNCHANGED <<notAcc, sessVars, sharedVars, accSub>>

Full == Cardinality(subscribers) >= MaxSubs

\* srt_accept returns a connection that is refused: max_subscribers is
\* reached, or srt_setsockflag fails.
AcceptRefuse(s) ==
    /\ accPc = "accept" /\ listening /\ LockFree /\ sock[s] = "none"
    /\ sock' = [sock EXCEPT ![s] = "closed"] /\ accPc' = "top"
    /\ UNCHANGED <<notAcc, flowVars, sharedVars, accSub, sess, room, closing>>

\* The check against max_subscribers is made in a critical section of its own,
\* before the session exists; the session is inserted in a later one.
Accept(s) ==
    /\ accPc = "accept" /\ listening /\ LockFree /\ sock[s] = "none" /\ ~Full
    /\ sock' = [sock EXCEPT ![s] = "connected"]
    /\ sess' = [sess EXCEPT ![s] = "live"]
    /\ count' = count + 1
    /\ accPc' = "insert" /\ accSub' = s
    /\ UNCHANGED <<notAcc, flowVars, lock, subscribers, wake, room, closing>>

AccInsert ==
    /\ accPc = "insert" /\ LockFree
    /\ subscribers' = subscribers \cup {accSub}
    /\ accPc' = "wake"
    /\ UNCHANGED <<notAcc, sessVars, lock, wake, count, accSub>>

AccWake ==
    /\ accPc = "wake"
    /\ wake' = TRUE /\ accPc' = "top"
    /\ UNCHANGED <<notAcc, sessVars, lock, subscribers, count, accSub>>

\* srt_accept fails: on the closed listener, or on any error before that, which
\* ends the acceptor although the relay runs on.
AccExit ==
    /\ accPc = "accept"
    /\ accPc' = "done"
    /\ UNCHANGED <<notAcc, sessVars, sharedVars, accSub>>
-----------------------------------------------------------------------------
(* The publisher reader: broadcast holds sub_mu_ from Begin to End.        *)

BroadcastBegin ==
    /\ pubPc = "recv" /\ chunks < MaxChunks /\ LockFree
    /\ lock' = "pub" /\ chunks' = chunks + 1
    /\ pubTodo' = subscribers /\ queued' = FALSE /\ pubPc' = "push"
    /\ UNCHANGED <<notPub, sessVars, subscribers, wake, count>>

\* A session that is not running is skipped.  push_chunk refuses one whose
\* closing_ was raised after that test; the request_close that follows then
\* finds closing_ already set, so both cases are this step.
PushSkip(s) ==
    /\ pubPc = "push" /\ s \in pubTodo /\ ~Running(s)
    /\ pubTodo' = pubTodo \ {s}
    /\ UNCHANGED <<notPub, sessVars, sharedVars, chunks, pubPc, queued>>

AlwaysInSync(s) == TRUE
InSync(s) == synced[s] \/ chunks \in Rap

\* push_chunk returns true without queueing until the first access point.
PushUnsynced(s) ==
    /\ pubPc = "push" /\ s \in pubTodo /\ Running(s) /\ ~InSync(s)
    /\ pubTodo' = pubTodo \ {s} /\ queued' = TRUE
    /\ UNCHANGED <<notPub, sessVars, sharedVars, chunks, pubPc>>

\* What push_chunk keeps of queue q before it appends.
KeptOffByOne(q, a) ==
    IF a \in {"Placeholder", "Drop"} THEN <<>>
    ELSE IF Len(q) > QueueMax THEN Tail(q) ELSE q
Kept(q, a) ==
    IF a \in {"Placeholder", "Drop"} THEN <<>>
    ELSE IF Len(q) >= QueueMax THEN Tail(q) ELSE q

\* It adds to subscriber_queue_drops what it removed, and the chunk that a null
\* chunk replaces.
Push(s) ==
    /\ pubPc = "push" /\ s \in pubTodo /\ Running(s) /\ InSync(s)
    /\ LET null == action[s] = "Placeholder"
           kept == Kept(queue[s], action[s])
       IN  /\ queue' = [queue EXCEPT ![s] = Append(kept, [n |-> chunks, null |-> null])]
           /\ dropped' = [dropped EXCEPT ![s] =
                  @ \cup (Numbers(queue[s]) \ Numbers(kept))
                    \cup (IF null THEN {chunks} ELSE {})]
    /\ synced' = [synced EXCEPT ![s] = TRUE]
    /\ accepted' = [accepted EXCEPT ![s] = @ \cup {chunks}]
    /\ pubTodo' = pubTodo \ {s} /\ queued' = TRUE
    /\ UNCHANGED <<notPub, sharedVars, linkVars, action, closing, wire,
                   chunks, pubPc>>

BroadcastEnd ==
    /\ pubPc = "push" /\ pubTodo = {}
    /\ lock' = "free"
    /\ pubPc' = IF queued THEN "wake" ELSE "recv"
    /\ UNCHANGED <<notPub, sessVars, subscribers, wake, count, chunks,
                   pubTodo, queued>>

PubWake ==
    /\ pubPc = "wake"
    /\ wake' = TRUE /\ pubPc' = "recv" /\ queued' = FALSE
    /\ UNCHANGED <<notPub, sessVars, lock, subscribers, count, chunks, pubTodo>>

PubExit ==
    /\ pubPc = "recv" /\ ~gRunning
    /\ pubPc' = "done"
    /\ UNCHANGED <<notPub, sessVars, sharedVars, chunks, pubTodo, queued>>
-----------------------------------------------------------------------------
(* The sender: synchronise the epoll set with the sessions.                *)

SndExit ==
    /\ sndPc = "top" /\ ~gRunning
    /\ sndPc' = "done" /\ reg' = [s \in Sub |-> "no"]
    /\ UNCHANGED <<notSnd, sessVars, sharedVars, sndLocals, needsSync, todo,
                   cur>>

SndTop ==
    /\ sndPc = "top" /\ gRunning
    /\ \/ /\ needsSync /\ LockFree
          /\ needsSync' = FALSE /\ todo' = subscribers /\ sndPc' = "sync"
       \/ ~needsSync /\ sndPc' = "wait" /\ UNCHANGED <<needsSync, todo>>
    /\ UNCHANGED <<notSnd, sessVars, sharedVars, sndLocals, cur, reg>>

DeadIfBroken(s) == sock[s] \in {"broken", "closed"}
Dead(s) == closing[s] \/ sock[s] \in {"broken", "closed"}

SyncDead(s) ==
    /\ sndPc = "sync" /\ s \in todo /\ Dead(s)
    /\ reg' = [reg EXCEPT ![s] = "no"]
    /\ cur' = s /\ sndPc' = "erase"
    /\ UNCHANGED <<notSnd, sessVars, sharedVars, sndLocals, needsSync, todo>>

SyncEraseUnlocked ==
    /\ sndPc = "erase"
    /\ subscribers' = subscribers \ {cur}
    /\ sndPc' = "stop"
    /\ UNCHANGED <<notSnd, sessVars, sndLocals, lock, wake, count, needsSync,
                   todo, cur, reg>>

SyncErase ==
    /\ sndPc = "erase" /\ LockFree
    /\ subscribers' = subscribers \ {cur}
    /\ sndPc' = "stop"
    /\ UNCHANGED <<notSnd, sessVars, sndLocals, lock, wake, count, needsSync,
                   todo, cur, reg>>

StopUncounted(S) ==
    /\ sess'  = [s \in Sub |-> IF s \in S THEN "stopped" ELSE sess[s]]
    /\ queue' = [s \in Sub |-> IF s \in S THEN <<>> ELSE queue[s]]
    /\ sock'  = [s \in Sub |-> IF s \in S THEN "closed" ELSE sock[s]]
    /\ count' = count

\* SubscriberSession::stop() on every session of S; stopped_ makes it run once.
StopAll(S) ==
    LET hit == S \cap Live
    IN  /\ sess'  = [s \in Sub |-> IF s \in hit THEN "stopped" ELSE sess[s]]
        /\ queue' = [s \in Sub |-> IF s \in hit THEN <<>> ELSE queue[s]]
        /\ sock'  = [s \in Sub |-> IF s \in hit THEN "closed" ELSE sock[s]]
        /\ count' = count - Cardinality(hit)

SyncStop ==
    /\ sndPc = "stop"
    /\ StopAll({cur})
    /\ todo' = todo \ {cur} /\ sndPc' = "sync"
    /\ UNCHANGED <<notSnd, sndLocals, lock, subscribers, wake, room, synced,
                   action, closing, dropped, accepted, wire, needsSync, cur,
                   reg>>

NeverWants(s) == FALSE
WantsWrite(s) == queue[s] # <<>>

\* queue_depth() is read in one critical section and used in the next step.
SyncDepth(s) ==
    /\ sndPc = "sync" /\ s \in todo /\ ~Dead(s)
    /\ cur' = s /\ wants' = WantsWrite(s) /\ sndPc' = "apply"
    /\ UNCHANGED <<notSnd, sessVars, sharedVars, needsSync, todo, chunk,
                   burst, reg>>

SyncApply ==
    /\ sndPc = "apply"
    /\ LET want == IF wants THEN "out" ELSE "idle" IN
         \/ reg' = [reg EXCEPT ![cur] = want] /\ UNCHANGED closing
         \/ /\ reg[cur] # want         \* the srt_epoll call fails
            /\ closing' = [closing EXCEPT ![cur] = TRUE] /\ UNCHANGED reg
    /\ todo' = todo \ {cur} /\ wants' = FALSE /\ sndPc' = "sync"
    /\ UNCHANGED <<notSnd, flowVars, sharedVars, linkVars, needsSync, cur,
                   chunk, burst>>

SyncDone ==
    /\ sndPc = "sync" /\ todo = {}
    /\ sndPc' = "wait"
    /\ UNCHANGED <<notSnd, sessVars, sharedVars, sndLocals, needsSync, todo,
                   cur, reg>>
-----------------------------------------------------------------------------
(* The sender: wait for events, then send.                                 *)

ErrReady == {s \in Sub : reg[s] # "no" /\ sock[s] = "broken"}
OutReady == {s \in Sub : reg[s] = "out" /\ sock[s] = "connected" /\ room[s]}
Ready == wake \/ ErrReady # {} \/ OutReady # {}

SyncIfError == needsSync \/ ErrReady # {}
SyncNeeded == needsSync \/ wake \/ ErrReady # {}

\* srt_epoll_wait returns, the eventfd is drained, failed sockets are closed.
SndEvents ==
    /\ sndPc = "wait" /\ Ready
    /\ wake' = FALSE
    /\ closing' = [s \in Sub |-> closing[s] \/ s \in ErrReady]
    /\ needsSync' = SyncNeeded
    /\ todo' = OutReady /\ sndPc' = "write"
    /\ UNCHANGED <<notSnd, flowVars, linkVars, sndLocals, lock, subscribers,
                   count, cur, reg>>

\* 500 ms without an event: srt_epoll_wait reports SRT_ETIMEOUT.
SndTimeout ==
    /\ sndPc = "wait" /\ ~Ready
    /\ needsSync' = TRUE /\ sndPc' = "top"
    /\ UNCHANGED <<notSnd, sessVars, sharedVars, sndLocals, todo, cur, reg>>

WriteSkip(s) ==
    /\ sndPc = "write" /\ s \in todo /\ closing[s]
    /\ todo' = todo \ {s}
    /\ UNCHANGED <<notSnd, sessVars, sharedVars, sndLocals, sndPc, needsSync,
                   cur, reg>>

WriteBroken(s) ==
    /\ sndPc = "write" /\ s \in todo /\ ~closing[s] /\ sock[s] # "connected"
    /\ closing' = [closing EXCEPT ![s] = TRUE]
    /\ needsSync' = TRUE /\ todo' = todo \ {s}
    /\ UNCHANGED <<notSnd, flowVars, sharedVars, linkVars, sndLocals, sndPc,
                   cur, reg>>

WriteBegin(s) ==
    /\ sndPc = "write" /\ s \in todo /\ ~closing[s] /\ sock[s] = "connected"
    /\ cur' = s /\ sndPc' = "take"
    /\ UNCHANGED <<notSnd, sessVars, sharedVars, sndLocals, needsSync, todo,
                   reg>>

MoreInBurst == burst < Burst

\* send_one, first critical section: look at the front, leave it queued.
SendTake ==
    /\ sndPc = "take" /\ MoreInBurst
    /\ queue[cur] # <<>> /\ ~closing[cur]
    /\ chunk' = Head(queue[cur]) /\ sndPc' = "send"
    /\ UNCHANGED <<notSnd, sessVars, sharedVars, needsSync, todo, cur, wants,
                   burst, reg>>

SendNone ==
    /\ sndPc = "take" /\ (~MoreInBurst \/ queue[cur] = <<>> \/ closing[cur])
    /\ burst' = 0 /\ sndPc' = "after"
    /\ UNCHANGED <<notSnd, sessVars, sharedVars, needsSync, todo, cur, wants,
                   chunk, reg>>

\* srt_send outside the mutex: taken (the buffer may now be full) ...
SendOk ==
    /\ sndPc = "send" /\ sock[cur] = "connected" /\ room[cur]
    /\ wire' = [wire EXCEPT ![cur] = Append(@, chunk)]
    /\ \E b \in BOOLEAN : room' = [room EXCEPT ![cur] = b]
    /\ sndPc' = "pop"
    /\ UNCHANGED <<notSnd, sharedVars, sndLocals, sess, sock, queue, synced,
                   action, closing, dropped, accepted, needsSync, todo, cur,
                   reg>>

\* ... SRT_EASYNCSND: the buffer is full ...
SendBlocked ==
    /\ sndPc = "send" /\ sock[cur] = "connected" /\ ~room[cur]
    /\ chunk' = NoElement /\ burst' = 0 /\ sndPc' = "after"
    /\ UNCHANGED <<notSnd, sessVars, sharedVars, needsSync, todo, cur, wants,
                   reg>>

\* ... or an error or a short send, after which the session closes.
SendFailed ==
    /\ sndPc = "send"
    /\ closing' = [closing EXCEPT ![cur] = TRUE]
    /\ chunk' = NoElement /\ burst' = 0 /\ sndPc' = "after"
    /\ UNCHANGED <<notSnd, flowVars, sharedVars, linkVars, needsSync, todo,
                   cur, wants, reg>>

PoppedNever(q, c)  == q
PoppedAlways(q, c) == IF q # <<>> THEN Tail(q) ELSE q
Popped(q, c) == IF q # <<>> /\ Head(q) = c THEN Tail(q) ELSE q

\* send_one, second critical section: the front may have changed meanwhile.
SendPop ==
    /\ sndPc = "pop"
    /\ queue' = [queue EXCEPT ![cur] = Popped(@, chunk)]
    /\ chunk' = NoElement /\ burst' = burst + 1 /\ sndPc' = "take"
    /\ UNCHANGED <<notSnd, sharedVars, linkVars, synced, action, closing,
                   dropped, accepted, wire, needsSync, todo, cur, wants, reg>>

\* After the burst: a drained session stops listening for EPOLL_OUT, but only
\* in the next step; broadcast may queue a chunk in between.
WriteAfter ==
    /\ sndPc = "after"
    /\ \/ /\ ~closing[cur] /\ reg[cur] = "out" /\ queue[cur] = <<>>
          /\ sndPc' = "quiet" /\ UNCHANGED <<needsSync, todo>>
       \/ /\ closing[cur] \/ reg[cur] # "out" \/ queue[cur] # <<>>
          /\ needsSync' = (needsSync \/ closing[cur])
          /\ todo' = todo \ {cur} /\ sndPc' = "write"
    /\ UNCHANGED <<notSnd, sessVars, sharedVars, sndLocals, cur, reg>>

WriteQuiet ==
    /\ sndPc = "quiet"
    /\ \/ reg' = [reg EXCEPT ![cur] = "idle"] /\ UNCHANGED <<closing, needsSync>>
       \/ /\ closing' = [closing EXCEPT ![cur] = TRUE]
          /\ needsSync' = TRUE /\ UNCHANGED reg
    /\ todo' = todo \ {cur} /\ sndPc' = "write"
    /\ UNCHANGED <<notSnd, flowVars, sharedVars, linkVars, sndLocals, cur>>

WriteDone ==
    /\ sndPc = "write" /\ todo = {}
    /\ sndPc' = "top"
    /\ UNCHANGED <<notSnd, sessVars, sharedVars, sndLocals, needsSync, todo,
                   cur, reg>>
-----------------------------------------------------------------------------
(* The monitor: holds sub_mu_ from Begin to Close.  What the controller    *)
(* decides from queue depth and idle time is any action here.              *)

MonBegin ==
    /\ monPc = "sleep" /\ gRunning /\ LockFree
    /\ lock' = "mon" /\ monTodo' = subscribers /\ monPc' = "eval"
    /\ UNCHANGED <<notMon, sessVars, subscribers, wake, count, disc>>

\* evaluate_control, then set_control_action when the action changed: it
\* stores the action and then clears the queue.  Only broadcast reads the
\* action and it cannot run now, so one step stands for both.
MonEvaluate(s, a) ==
    /\ monPc = "eval" /\ s \in monTodo
    /\ action' = [action EXCEPT ![s] = a]
    /\ IF a # action[s] /\ a \in {"Drop", "Placeholder"}
       THEN /\ dropped' = [dropped EXCEPT ![s] = @ \cup Numbers(queue[s])]
            /\ queue' = [queue EXCEPT ![s] = <<>>]
       ELSE UNCHANGED <<dropped, queue>>
    /\ monTodo' = monTodo \ {s}
    /\ UNCHANGED <<notMon, sharedVars, linkVars, synced, closing, accepted,
                   wire, monPc, disc>>

\* The controller gives up on a session it already holds in PLACEHOLDER.
MonGiveUp(s) ==
    /\ monPc = "eval" /\ s \in monTodo /\ action[s] = "Placeholder"
    /\ disc' = disc \cup {s} /\ monTodo' = monTodo \ {s}
    /\ UNCHANGED <<notMon, sessVars, sharedVars, monPc>>

MonClose ==
    /\ monPc = "eval" /\ monTodo = {}
    /\ closing' = [s \in Sub |-> closing[s] \/ s \in disc]
    /\ lock' = "free" /\ disc' = {} /\ monPc' = IF disc # {} THEN "wake" ELSE "sleep"
    /\ UNCHANGED <<notMon, flowVars, linkVars, subscribers, wake, count,
                   monTodo>>

MonWake ==
    /\ monPc = "wake"
    /\ wake' = TRUE /\ monPc' = "sleep"
    /\ UNCHANGED <<notMon, sessVars, lock, subscribers, count, monTodo, disc>>

MonExit ==
    /\ monPc = "sleep" /\ ~gRunning
    /\ monPc' = "done"
    /\ UNCHANGED <<notMon, sessVars, sharedVars, monTodo, disc>>
-----------------------------------------------------------------------------
(* The network, the signal handler and stop().                             *)

Break(s) ==
    /\ sock[s] = "connected"
    /\ sock' = [sock EXCEPT ![s] = "broken"]
    /\ UNCHANGED <<notNet, flowVars, sess, room, closing>>

Drain(s) ==
    /\ sock[s] = "connected" /\ ~room[s]
    /\ room' = [room EXCEPT ![s] = TRUE]
    /\ UNCHANGED <<notNet, flowVars, sess, sock, closing>>

Signal ==
    /\ gRunning /\ chunks <= SignalBy
    /\ gRunning' = FALSE
    /\ UNCHANGED <<sessVars, sndVars, sharedVars, pubVars, monVars, accVars,
                   listening, stopPc>>

StopStillListening ==
    /\ stopPc = "run" /\ ~gRunning
    /\ wake' = TRUE /\ stopPc' = "join"
    /\ UNCHANGED <<sessVars, sndVars, pubVars, monVars, accVars, gRunning,
                   listening, lock, subscribers, count>>

StopBegin ==
    /\ stopPc = "run" /\ ~gRunning
    /\ wake' = TRUE /\ listening' = FALSE /\ stopPc' = "join"
    /\ UNCHANGED <<sessVars, sndVars, pubVars, monVars, accVars, gRunning,
                   lock, subscribers, count>>

JoinedButAcceptor == monPc = "done" /\ pubPc = "done" /\ sndPc = "done"
Joined == accPc = "done" /\ monPc = "done" /\ pubPc = "done" /\ sndPc = "done"

\* Every thread is joined; close_all_subscribers.
StopEnd ==
    /\ stopPc = "join" /\ Joined /\ LockFree
    /\ StopAll(subscribers)
    /\ subscribers' = {} /\ stopPc' = "done"
    /\ UNCHANGED <<sndVars, pubVars, monVars, accVars, gRunning, listening,
                   lock, wake, room, synced, action, closing, dropped,
                   accepted, wire>>

Stopped == stopPc = "done" /\ UNCHANGED vars
-----------------------------------------------------------------------------
Acceptor == \/ \E s \in Sub : AcceptRefuse(s) \/ Accept(s)
            \/ AccTop \/ AccInsert \/ AccWake \/ AccExit

Publisher == \/ \E s \in Sub : PushSkip(s) \/ PushUnsynced(s) \/ Push(s)
             \/ BroadcastBegin \/ BroadcastEnd \/ PubWake \/ PubExit

Sender == \/ \E s \in Sub : SyncDead(s) \/ SyncDepth(s)
          \/ SndExit \/ SndTop \/ SyncErase \/ SyncStop \/ SyncApply \/ SyncDone
          \/ SndEvents \/ SndTimeout
          \/ \E s \in Sub : WriteSkip(s) \/ WriteBroken(s) \/ WriteBegin(s)
          \/ SendTake \/ SendNone \/ SendOk \/ SendBlocked \/ SendFailed \/ SendPop
          \/ WriteAfter \/ WriteQuiet \/ WriteDone

Monitor == \/ \E s \in Sub : MonGiveUp(s) \/ \E a \in Actions : MonEvaluate(s, a)
           \/ MonBegin \/ MonClose \/ MonWake \/ MonExit

Network == \E s \in Sub : Break(s) \/ Drain(s)

Main == Signal \/ StopBegin \/ StopEnd \/ Stopped

Next == Acceptor \/ Publisher \/ Sender \/ Monitor \/ Network \/ Main

Spec == Init /\ [][Next]_vars

(* Fairness: every thread keeps running; a mutex that is free again and    *)
(* again is obtained, because every holder is busy for a bounded time and  *)
(* then sleeps or blocks; the peer of a connected socket keeps receiving.  *)
(* Connections, chunks, signals and failures are never forced to happen;   *)
(* srt_accept is only bound to fail once its listener is closed.           *)

Fairness ==
    /\ SF_accPc(AccTop \/ AccInsert \/ AccWake \/ (AccExit /\ ~listening))
    /\ WF_pubVars(\/ \E s \in Sub : PushSkip(s) \/ PushUnsynced(s) \/ Push(s)
                  \/ BroadcastEnd \/ PubWake \/ PubExit)
    /\ SF_sndVars(Sender) /\ WF_monVars(Monitor)
    /\ \A s \in Sub : WF_room(Drain(s))
    /\ WF_mainVars(StopBegin \/ StopEnd)

FairSpec == Spec /\ Fairness
-----------------------------------------------------------------------------
(* Safety.                                                                 *)

\* Every variable has its type; a burst is at most Burst sends.
TypeOK ==
    /\ gRunning \in BOOLEAN /\ listening \in BOOLEAN
    /\ stopPc \in {"run", "join", "done"}
    /\ lock \in {"free", "pub", "mon"}
    /\ subscribers \subseteq Sub /\ wake \in BOOLEAN /\ count \in Int
    /\ accPc \in {"top", "accept", "insert", "wake", "done"} /\ accSub \in Sub
    /\ sess \in [Sub -> {"none", "live", "stopped"}]
    /\ sock \in [Sub -> {"none", "connected", "broken", "closed"}]
    /\ room \in [Sub -> BOOLEAN]
    /\ queue \in [Sub -> Seq(Element)]
    /\ synced \in [Sub -> BOOLEAN] /\ closing \in [Sub -> BOOLEAN]
    /\ action \in [Sub -> {"Normal", "Warn", "Drop", "Placeholder"}]
    /\ dropped \in [Sub -> SUBSET Nat] /\ accepted \in [Sub -> SUBSET Nat]
    /\ wire \in [Sub -> Seq(Element)]
    /\ chunks \in Nat /\ pubPc \in {"recv", "push", "wake", "done"}
    /\ pubTodo \subseteq Sub /\ queued \in BOOLEAN
    /\ sndPc \in {"top", "sync", "erase", "stop", "apply", "wait", "write", "take",
                  "send", "pop", "after", "quiet", "done"}
    /\ needsSync \in BOOLEAN /\ todo \subseteq Sub /\ cur \in Sub
    /\ wants \in BOOLEAN /\ chunk \in Element /\ burst \in 0..Burst
    /\ reg \in [Sub -> {"no", "idle", "out"}]
    /\ monPc \in {"sleep", "eval", "wake", "done"}
    /\ monTodo \subseteq Sub /\ disc \subseteq Sub

Increasing(q) == \A i, j \in 1..Len(q) : i < j => q[i].n < q[j].n

\* A subscriber receives chunks in the order they were broadcast and no chunk
\* twice, although the sender copies the front, sends it unlocked, and pops it
\* later while broadcast and the monitor shorten the queue.
WireInOrder == \A s \in Sub : Increasing(wire[s])

\* No chunk a live session accepted disappears unnoticed: it is on the wire,
\* queued, or counted in subscriber_queue_drops.  The sender must not pop a
\* chunk that took the place of the one it sent.
NoSilentLoss ==
    \A s \in Live :
        accepted[s] \subseteq Numbers(wire[s]) \cup Numbers(queue[s]) \cup dropped[s]

\* The queue of one session never exceeds subscriber_queue_max_chunks.
QueueBounded == \A s \in Sub : Len(queue[s]) <= QueueMax

\* Somebody is about to wake the sender.
WakeComing == wake \/ (pubPc = "push" /\ queued) \/ pubPc = "wake" \/ accPc = "wake"

\* The sender never sleeps in srt_epoll_wait, deaf to the writability of a
\* session that has data, without a wake-up under way: the queue depth it read
\* is stale when it sets the epoll events, and the wake-up must cover that.
NoLostWakeup ==
    \A s \in subscribers :
        sndPc = "wait" /\ ~closing[s] /\ queue[s] # <<>> /\ reg[s] # "out"
            => WakeComing

\* Threads only reach sessions that have not been stopped: those listed, those
\* a holder of sub_mu_ still has to visit (its iterator stays valid), those
\* registered in the epoll, and the one the sender is sending to.
NoUseAfterStop ==
    /\ subscribers \subseteq Live
    /\ pubTodo \subseteq subscribers /\ monTodo \subseteq subscribers
    /\ \A s \in Sub : reg[s] # "no" => s \in subscribers
    /\ sndPc \in {"apply", "take", "send", "pop", "after", "quiet"} => cur \in subscribers

\* subscriber_count is the number of listed sessions plus the one being
\* inserted and the one being stopped; each session is subtracted once.
CountExact ==
    count = Cardinality(subscribers) + (IF accPc = "insert" THEN 1 ELSE 0)
                                     + (IF sndPc = "stop" THEN 1 ELSE 0)

\* After stop() no session, socket or epoll registration is left.
ShutdownClean ==
    stopPc = "done" =>
        /\ count = 0 /\ Live = {}
        /\ \A s \in Sub : sock[s] \in {"none", "closed"} /\ reg[s] = "no"

\* Once closing_ is set it stays set, the session accepts no chunk, and the
\* sender begins no further send to it.
ClosingIsFinal ==
    [][\A s \in Sub : closing[s] =>
           /\ closing'[s] /\ accepted'[s] = accepted[s]
           /\ sndPc' = "send" /\ cur' = s => sndPc = "send"]_vars
-----------------------------------------------------------------------------
(* The abstract stream.  A chunk that srt_send took but send_one has not   *)
(* popped yet is delivered, and no longer pending.                         *)

Unsent(s) ==
    IF sndPc = "pop" /\ s = cur THEN Popped(queue[s], chunk) ELSE queue[s]

Stream == INSTANCE LossyStream WITH
    Reader <- Sub, Capacity <- QueueMax, Entry <- Rap,
    published <- chunks, open <- Live, taken <- accepted,
    pending <- [s \in Sub |-> Unsent(s)], lost <- dropped, delivered <- wire

\* Whatever the threads do, every subscriber sees a LossyStream: it begins at
\* an access point, holds at most subscriber_queue_max_chunks, delivers in
\* order and once, and counts what it drops.
ImplementsStream == Stream!Spec
-----------------------------------------------------------------------------
(* Liveness, of FairSpec.                                                  *)

\* Queued chunks leave the queue, sent, dropped, or discarded with the session,
\* or the session is closing: the depth read before the epoll events are set is
\* stale, and still no session is left waiting with data for ever.
QueueDrains == \A s \in Sub : []<>(queue[s] = <<>> \/ closing[s])

\* A session the sender must learn is over: its connection broke while it was
\* in the epoll set, the monitor gave up on it, or a burst to it ended closing.
Failing(s) ==
    \/ sock[s] = "broken" /\ reg[s] # "no"
    \/ s \in disc
    \/ sndPc = "after" /\ cur = s /\ closing[s]

\* A session that fails in one of these ways is taken down: each of them makes
\* the sender synchronise.  The epoll call that fails during a synchronisation
\* (SyncApply) does not, and a session closed by it is not promised its end: if
\* EPOLL_OUT is still set for a queue the monitor has emptied, every wait
\* returns at once, the closing session is skipped, and no timeout ever comes.
DeadReaped == \A s \in Sub : sess[s] = "live" /\ Failing(s) ~> sess[s] = "stopped"

\* Whatever is going on when a signal arrives, stop() returns.
ShutdownCompletes == []<>(gRunning \/ stopPc = "done")
=============================================================================
