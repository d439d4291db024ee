-------------------------- MODULE PublisherIngest --------------------------
(***************************************************************************)
(* The publisher side of the relay (srt_server/src/relay_server.hpp and    *)
(* ts_validator.hpp): the acceptor serves one publisher at a time, its     *)
(* reader receives chunks, lets the validator inspect them and broadcasts  *)
(* them, and gives the publisher up when it is silent for too long; stop() *)
(* interrupts them wherever they are.                                      *)
(*                                                                         *)
(* Time is the age of three things in ticks.  A thread that can go on does *)
(* so before the next tick; only srt_recv and broadcast take time.         *)
(* broadcast itself is RelayFanout.  A chunk is what the validator sees in *)
(* it: which tables it carries, and whether it ends in a packet without a  *)
(* sync byte.  Continuity counters only feed a statistic and are left out. *)
(***************************************************************************)
EXTENDS Integers

CONSTANTS
    Pub,         \* the publishers that may connect
    NoPub,       \* SRT_INVALID_SOCK
    PmtPid,      \* the pid of each publisher's PMT, a positive number
    HasH264,     \* the publishers whose PMT lists H.264
    RequireH264, \* cfg_.require_h264
    Limit,       \* cfg_.publisher_idle_timeout_ms, also SRTO_RCVTIMEO
    Hold         \* bound: how long broadcast may wait for its lock

ASSUME IngestAssumption ==
    /\ NoPub \notin Pub
    /\ PmtPid \in [Pub -> Nat \ {0}] /\ HasH264 \subseteq Pub
    /\ RequireH264 \in BOOLEAN
    /\ Limit \in Nat \ {0} /\ Hold \in 0..Limit

VARIABLES
    gRunning,    \* g_running
    listening,   \* pub_listener_ is open
    stopPc,      \* stop(): "run", "close", "join", "done"
    accPc, accSock,              \* accept_publisher_loop
    pubSock,     \* pub_sock_
    rdPc, rdSock, chunk,         \* publisher_read_loop
    link,        \* per publisher: "away", "waiting" (in the listener's
                 \* backlog), "up", "broken", "closed"
    inbox,       \* per publisher: a chunk has arrived that was not read yet
    recvAge,     \* time since srt_recv was called
    idleAge,     \* time since publisher_last_active_at_ms
    holdAge,     \* time since broadcast was called
    pmtPid, sawPmt, sawH264,     \* the validator; pmtPid is 0 before any PAT
    shown        \* history: the tables the current publisher has shown, in order

accVars   == <<accPc, accSock>>
rdVars    == <<rdPc, rdSock, chunk>>
netVars   == <<link, inbox>>
ages      == <<recvAge, idleAge, holdAge>>
validator == <<pmtPid, sawPmt, sawH264>>
stopVars  == <<gRunning, listening, stopPc>>
vars == <<stopVars, accVars, pubSock, rdVars, netVars, ages, validator, shown>>

Chunk == [tables: SUBSET {"pat", "pmt"}, good: BOOLEAN]
NoChunk == [tables |-> {}, good |-> TRUE]
AgeCap == 2 * Limit + 1

Init ==
    /\ gRunning = TRUE /\ listening = TRUE /\ stopPc = "run"
    /\ accPc = "top" /\ accSock = NoPub /\ pubSock = NoPub
    /\ rdPc = "none" /\ rdSock = NoPub /\ chunk = NoChunk
    /\ link = [p \in Pub |-> "away"] /\ inbox = [p \in Pub |-> FALSE]
    /\ recvAge = 0 /\ idleAge = AgeCap /\ holdAge = 0
    /\ pmtPid = 0 /\ sawPmt = FALSE /\ sawH264 = FALSE
    /\ shown = {}
-----------------------------------------------------------------------------
(* accept_publisher_loop.                                                  *)

AccTop ==
    /\ accPc = "top"
    /\ accPc' = IF gRunning THEN "accept" ELSE "done"
    /\ UNCHANGED <<stopVars, accSock, pubSock, rdVars, netVars, ages, validator, shown>>

AccAccept(p) ==
    /\ accPc = "accept" /\ listening /\ link[p] = "waiting"
    /\ link' = [link EXCEPT ![p] = "up"]
    /\ accSock' = p /\ accPc' = "set"
    /\ UNCHANGED <<stopVars, pubSock, rdVars, inbox, ages, validator, shown>>

\* srt_accept fails: on the closed listener, or on any error before that, which
\* ends the acceptor although the relay runs on.
AccFailed ==
    /\ accPc = "accept"
    /\ accPc' = "done"
    /\ UNCHANGED <<stopVars, accSock, pubSock, rdVars, netVars, ages, validator, shown>>

\* An extra publisher is refused; since the loop serves one publisher to its
\* end, there never is one.
AccSet ==
    /\ accPc = "set"
    /\ IF pubSock # NoPub
       THEN /\ link' = [link EXCEPT ![accSock] = "closed"]
            /\ accPc' = "top" /\ UNCHANGED <<pubSock, idleAge>>
       ELSE /\ pubSock' = accSock /\ idleAge' = 0
            /\ accPc' = "spawn" /\ UNCHANGED link
    /\ accSock' = NoPub
    /\ UNCHANGED <<stopVars, rdVars, inbox, recvAge, holdAge, validator, shown>>

AccSpawn ==
    /\ accPc = "spawn"
    /\ rdPc' = "top" /\ accPc' = "join"
    /\ shown' = {}
    /\ UNCHANGED <<stopVars, accSock, pubSock, rdSock, chunk, netVars, ages, validator>>

AccJoin ==
    /\ accPc = "join" /\ rdPc = "ended"
    /\ rdPc' = "none" /\ rdSock' = NoPub /\ accPc' = "close"
    /\ UNCHANGED <<stopVars, accSock, pubSock, chunk, netVars, ages, validator, shown>>

ClosePublisher ==
    /\ link' = [p \in Pub |-> IF p = pubSock THEN "closed" ELSE link[p]]
    /\ pubSock' = NoPub

AccClose ==
    /\ accPc = "close"
    /\ ClosePublisher
    /\ accPc' = "top"
    /\ UNCHANGED <<stopVars, accSock, rdVars, inbox, ages, validator, shown>>
-----------------------------------------------------------------------------
(* publisher_read_loop.                                                    *)

KeepsReading == TRUE
Reads == gRunning
RdTop ==
    /\ rdPc = "top"
    /\ rdPc' = IF Reads THEN "sock" ELSE "ended"
    /\ UNCHANGED <<stopVars, accVars, pubSock, rdSock, chunk, netVars, ages, validator, shown>>

RdSock ==
    /\ rdPc = "sock"
    /\ rdSock' = pubSock
    /\ rdPc' = IF pubSock = NoPub THEN "ended" ELSE "recv"
    /\ recvAge' = 0
    /\ UNCHANGED <<stopVars, accVars, pubSock, chunk, netVars, idleAge, holdAge, validator, shown>>

\* Data counts as activity before anything is known of its content.
RdData ==
    /\ rdPc = "recv" /\ link[rdSock] \in {"up", "broken"} /\ inbox[rdSock]
    /\ chunk' \in Chunk /\ inbox' = [inbox EXCEPT ![rdSock] = FALSE]
    /\ idleAge' = 0 /\ recvAge' = 0
    /\ rdPc' = "inspect"
    /\ UNCHANGED <<stopVars, accVars, pubSock, rdSock, link, holdAge, validator, shown>>

NeverIdle == FALSE
IdleSinceRecv == recvAge > Limit
Idle == idleAge > Limit

RdTimeout ==
    /\ rdPc = "recv" /\ recvAge = Limit
    /\ link[rdSock] = "up" /\ ~inbox[rdSock]
    /\ rdPc' = IF Idle THEN "ended" ELSE "top"
    /\ UNCHANGED <<stopVars, accVars, pubSock, rdSock, chunk, netVars, ages, validator, shown>>

\* The connection broke, or pub_sock_ was closed meanwhile.
RdError ==
    /\ rdPc = "recv" /\ link[rdSock] \in {"broken", "closed"}
    /\ rdPc' = "ended"
    /\ UNCHANGED <<stopVars, accVars, pubSock, rdSock, chunk, netVars, ages, validator, shown>>
-----------------------------------------------------------------------------
(* The validator.                                                          *)

\* parse_pat: the last PAT names the pid of the PMT.
FirstPat(p) == IF pmtPid = 0 THEN PmtPid[p] ELSE pmtPid
LastPat(p) == PmtPid[p]

\* inspect, packet by packet; a packet without a sync byte ends it, but what
\* was learnt from the packets before it stays.
Inspect(p) ==
    LET pid  == IF "pat" \in chunk.tables THEN LastPat(p) ELSE pmtPid
        pmt  == "pmt" \in chunk.tables /\ pid = PmtPid[p]
    IN  /\ pmtPid' = pid
        /\ sawPmt' = (sawPmt \/ pmt)
        /\ sawH264' = (sawH264 \/ (pmt /\ p \in HasH264))

Valid == chunk.good /\ ~(RequireH264 /\ sawPmt' /\ ~sawH264')

\* The tables shown so far, a PMT counting only once its PAT was seen.
Shown == LET T == shown \cup chunk.tables IN IF "pat" \in T THEN T ELSE {}

RdInspect ==
    /\ rdPc = "inspect"
    /\ Inspect(rdSock)
    /\ rdPc' = IF Valid THEN "cast" ELSE "top"
    /\ holdAge' = 0 /\ chunk' = NoChunk
    /\ shown' = Shown
    /\ UNCHANGED <<stopVars, accVars, pubSock, rdSock, netVars, recvAge, idleAge>>

RdCast ==
    /\ rdPc = "cast"
    /\ rdPc' = "top" /\ holdAge' = 0
    /\ UNCHANGED <<stopVars, accVars, pubSock, rdSock, chunk, netVars, recvAge, idleAge, validator, shown>>
-----------------------------------------------------------------------------
(* stop(), the signal, the publishers, and time.                           *)

Signal ==
    /\ gRunning /\ gRunning' = FALSE
    /\ UNCHANGED <<listening, stopPc, accVars, pubSock, rdVars, netVars, ages, validator, shown>>

StopListening ==
    /\ stopPc = "run" /\ ~gRunning
    /\ listening' = FALSE /\ stopPc' = "close"
    /\ link' = [p \in Pub |-> IF link[p] = "waiting" THEN "closed" ELSE link[p]]
    /\ UNCHANGED <<gRunning, accVars, pubSock, rdVars, inbox, ages, validator, shown>>

StopPublisher ==
    /\ stopPc = "close"
    /\ ClosePublisher
    /\ stopPc' = "join"
    /\ UNCHANGED <<gRunning, listening, accVars, rdVars, inbox, ages, validator, shown>>

StopJoin ==
    /\ stopPc = "join" /\ accPc = "done"
    /\ stopPc' = "done"
    /\ UNCHANGED <<gRunning, listening, accVars, pubSock, rdVars, netVars, ages, validator, shown>>

Connect(p) ==
    /\ link[p] = "away" /\ listening
    /\ link' = [link EXCEPT ![p] = "waiting"] /\ inbox' = [inbox EXCEPT ![p] = FALSE]
    /\ UNCHANGED <<stopVars, accVars, pubSock, rdVars, ages, validator, shown>>

Send(p) ==
    /\ link[p] = "up" /\ ~inbox[p]
    /\ inbox' = [inbox EXCEPT ![p] = TRUE]
    /\ UNCHANGED <<stopVars, accVars, pubSock, rdVars, link, ages, validator, shown>>

\* A publisher leaves, or finds its connection closed.
Gone(p) ==
    /\ link[p] \in {"waiting", "up", "closed"}
    /\ link' = [link EXCEPT ![p] = IF @ = "up" THEN "broken"
                                   ELSE IF p \in {rdSock, accSock} THEN @ ELSE "away"]
    /\ inbox' = [inbox EXCEPT ![p] = @ /\ link[p] = "up"]
    /\ UNCHANGED <<stopVars, accVars, pubSock, rdVars, ages, validator, shown>>

Older(age) == IF age < AgeCap THEN age + 1 ELSE age
Waits ==
    /\ accPc \in {"accept", "join", "done"}
    /\ rdPc = "recv" => /\ recvAge < Limit
                        /\ link[rdSock] = "up" /\ ~inbox[rdSock]
    /\ rdPc = "cast" => holdAge < Hold
    /\ rdPc \in {"none", "recv", "cast"}
Tick ==
    /\ Waits /\ stopPc # "done"
    /\ recvAge' = IF rdPc = "recv" THEN recvAge + 1 ELSE recvAge
    /\ holdAge' = IF rdPc = "cast" THEN holdAge + 1 ELSE holdAge
    /\ idleAge' = Older(idleAge)
    /\ UNCHANGED <<stopVars, accVars, pubSock, rdVars, netVars, validator, shown>>

Stopped == stopPc = "done" /\ UNCHANGED vars
-----------------------------------------------------------------------------
Acceptor == \/ AccTop \/ AccFailed \/ AccSet \/ AccSpawn \/ AccJoin \/ AccClose
            \/ \E p \in Pub : AccAccept(p)
Reader == \/ RdTop \/ RdSock \/ RdData \/ RdTimeout \/ RdError
          \/ RdInspect \/ RdCast
Main == Signal \/ StopListening \/ StopPublisher \/ StopJoin \/ Stopped
Publishers == \E p \in Pub : Connect(p) \/ Send(p) \/ Gone(p)

Next == Acceptor \/ Reader \/ Main \/ Publishers \/ Tick

Spec == Init /\ [][Next]_vars

(* Fairness: the threads run, time passes, broadcast obtains its lock; no  *)
(* publisher has to come, to send or to leave, and srt_accept is only      *)
(* bound to fail once its listener is closed.                              *)
FairSpec ==
    /\ Spec
    /\ WF_vars(Acceptor /\ (AccFailed => ~listening))
    /\ WF_vars(Reader) /\ WF_vars(Tick)
    /\ WF_vars(StopListening) /\ WF_vars(StopPublisher) /\ WF_vars(StopJoin)
-----------------------------------------------------------------------------
TypeOK ==
    /\ gRunning \in BOOLEAN /\ listening \in BOOLEAN
    /\ stopPc \in {"run", "close", "join", "done"}
    /\ accPc \in {"top", "accept", "set", "spawn", "join", "close", "done"}
    /\ {accSock, pubSock, rdSock} \subseteq Pub \cup {NoPub}
    /\ rdPc \in {"none", "top", "sock", "recv", "inspect", "cast", "ended"}
    /\ chunk \in Chunk /\ inbox \in [Pub -> BOOLEAN]
    /\ link \in [Pub -> {"away", "waiting", "up", "broken", "closed"}]
    /\ recvAge \in 0..Limit /\ idleAge \in 0..AgeCap /\ holdAge \in 0..Hold
    /\ pmtPid \in Nat /\ sawPmt \in BOOLEAN /\ sawH264 \in BOOLEAN
    /\ shown \subseteq {"pat", "pmt"}

\* A publisher that sends nothing keeps its place for at most twice
\* publisher_idle_timeout_ms: the idle test is only made when srt_recv timed
\* out, which takes as long, and at the first of them the limit may not be
\* exceeded yet.
SilentDropped == pubSock # NoPub => idleAge <= 2 * Limit

\* Whatever an earlier publisher left in the validator, a publisher that has
\* shown its PAT and a PMT with H.264 has no well-formed chunk refused.
GoodNotRefused ==
    [][rdPc = "inspect" /\ rdPc' = "top" /\ chunk.good /\ rdSock \in HasH264
          => ~({"pat", "pmt"} \subseteq shown')]_vars

\* As long as no error ends the acceptor while the relay runs, a publisher that
\* waits for its turn gets it, or is refused at the end, unless the one before
\* it goes on sending, or new ones coming, for ever.
WaitingServed ==
    [](accPc = "done" => ~gRunning) /\ <>[][~RdData /\ \A p \in Pub : ~Connect(p)]_vars =>
        \A p \in Pub : link[p] = "waiting" ~> link[p] # "waiting"

\* stop() returns, even when it closes the publisher's socket just before the
\* acceptor stores a new one that sends without end.
StopReturns == ~gRunning ~> stopPc = "done"
=============================================================================
