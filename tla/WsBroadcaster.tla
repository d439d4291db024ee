--------------------------- MODULE WsBroadcaster ---------------------------
(***************************************************************************)
(* The dashboard's WebSocket server inside the relay                       *)
(* (srt_server/src/ws_broadcaster.hpp): an accept thread starts one        *)
(* detached handshake thread per connection; that thread lists the         *)
(* descriptor in clients_, waits until the client leaves, and closes it.   *)
(* The monitor's broadcast sends to every listed descriptor and closes     *)
(* those that fail, and stop() closes whatever is listed.                  *)
(*                                                                         *)
(* A descriptor is a number that the kernel gives to a new connection as   *)
(* soon as the old one was closed; the threads keep the number.  A critical*)
(* section of clients_mu_ is one step, except broadcast, which holds it    *)
(* from its first send to its last close.                                  *)
(***************************************************************************)
EXTENDS Integers, FiniteSets

CONSTANTS
    Conn,   \* the connections dashboards may make
    Fd,     \* descriptor numbers
    NoConn  \* nothing: a free descriptor

VARIABLES
    running,  \* running_
    stopPc,   \* stop(): "run", "join", "clear", "done"
    accPc,    \* accept_loop
    open,     \* the kernel's table: the connection behind a descriptor
    peer,     \* per connection: "away", "waiting" to be accepted, "here",
              \* "hushed" (here, and sends empty frames), "left"
    clients,  \* clients_
    hsPc, hsFd,        \* per connection, the handshake thread made for it
    shaken,   \* history: the connections that were answered 101
    casting, toSend, dead  \* broadcast: under way, descriptors to do, failed

serverVars == <<running, stopPc>>
netVars == <<open, peer>>
hsVars == <<hsPc, hsFd, shaken>>
castVars == <<casting, toSend, dead>>
vars == <<serverVars, accPc, netVars, clients, hsVars, castVars>>

Free == {f \in Fd : open[f] = NoConn}
Unlocked == ~casting

Init ==
    /\ running = TRUE /\ stopPc = "run"
    /\ accPc = "top"
    /\ open = [f \in Fd |-> NoConn] /\ peer = [c \in Conn |-> "away"]
    /\ clients = {}
    /\ hsPc = [c \in Conn |-> "none"] /\ hsFd = [c \in Conn |-> CHOOSE f \in Fd : TRUE]
    /\ shaken = {}
    /\ casting = FALSE /\ toSend = {} /\ dead = {}
-----------------------------------------------------------------------------
(* accept_loop.                                                            *)

AccTop ==
    /\ accPc = "top"
    /\ accPc' = IF running THEN "accept" ELSE "done"
    /\ UNCHANGED <<serverVars, netVars, clients, hsVars, castVars>>

\* select timed out or failed.
AccNothing ==
    /\ accPc = "accept" /\ accPc' = "top"
    /\ UNCHANGED <<serverVars, netVars, clients, hsVars, castVars>>

\* The kernel takes any free number.
Accept(c, f) ==
    /\ accPc = "accept" /\ stopPc = "run" /\ peer[c] = "waiting" /\ f \in Free
    /\ open' = [open EXCEPT ![f] = c] /\ peer' = [peer EXCEPT ![c] = "here"]
    /\ hsPc' = [hsPc EXCEPT ![c] = "shake"] /\ hsFd' = [hsFd EXCEPT ![c] = f]
    /\ accPc' = "top"
    /\ UNCHANGED <<serverVars, clients, shaken, castVars>>
-----------------------------------------------------------------------------
(* handshake, in the thread made for connection t.                         *)

Behind(t) == open[hsFd[t]]

\* Reading from or sending to f fails: it is closed, or its client left.
Broken(f) == IF open[f] = NoConn THEN TRUE ELSE peer[open[f]] = "left"
Go(t, pc) == hsPc' = [hsPc EXCEPT ![t] = pc]

\* The request is a WebSocket upgrade and the answer was sent.
ShakeOk(t) ==
    /\ hsPc[t] = "shake" /\ Behind(t) # NoConn
    /\ Go(t, "insert") /\ shaken' = shaken \cup {Behind(t)}
    /\ UNCHANGED <<serverVars, accPc, netVars, clients, hsFd, castVars>>

\* No request within five seconds, another request, or no answer possible.
ShakeFailed(t) ==
    /\ hsPc[t] = "shake" /\ Go(t, "close")
    /\ UNCHANGED <<serverVars, accPc, netVars, clients, hsFd, shaken, castVars>>

Insert(t) ==
    /\ hsPc[t] = "insert" /\ Unlocked
    /\ clients' = clients \cup {hsFd[t]}
    /\ Go(t, "watch")
    /\ UNCHANGED <<serverVars, accPc, netVars, hsFd, shaken, castVars>>

\* ws_recv_frame returns "" for a frame without payload, a ping for one, as it
\* does for an error.
EmptyFrame(f) == open[f] # NoConn /\ peer[open[f]] = "hushed"

\* select and ws_recv_frame: the client left or sent an empty frame, or the
\* descriptor is closed.
Watch(t) ==
    /\ hsPc[t] = "watch"
    /\ ~running \/ Broken(hsFd[t]) \/ EmptyFrame(hsFd[t])
    /\ Go(t, "erase")
    /\ UNCHANGED <<serverVars, accPc, netVars, clients, hsFd, shaken, castVars>>

Erase(t) ==
    /\ hsPc[t] = "erase" /\ Unlocked
    /\ clients' = clients \ {hsFd[t]}
    /\ Go(t, "close")
    /\ UNCHANGED <<serverVars, accPc, netVars, hsFd, shaken, castVars>>

\* close(cfd), whatever the number stands for by now.
Close(t) ==
    /\ hsPc[t] = "close"
    /\ open' = [open EXCEPT ![hsFd[t]] = NoConn]
    /\ Go(t, "none")
    /\ UNCHANGED <<serverVars, accPc, peer, clients, hsFd, shaken, castVars>>
-----------------------------------------------------------------------------
(* broadcast, in the monitor thread, which is joined after stop().         *)

CastBegin ==
    /\ ~casting
    /\ casting' = TRUE /\ toSend' = clients /\ dead' = {}
    /\ UNCHANGED <<serverVars, accPc, netVars, clients, hsVars>>

CastSend(f) ==
    /\ casting /\ f \in toSend
    /\ toSend' = toSend \ {f}
    /\ \/ Broken(f) /\ dead' = dead \cup {f}
       \/ open[f] # NoConn /\ UNCHANGED dead \* into the socket's buffer
    /\ UNCHANGED <<serverVars, accPc, netVars, clients, hsVars, casting>>

CastEnd ==
    /\ casting /\ toSend = {}
    /\ open' = [f \in Fd |-> IF f \in dead THEN NoConn ELSE open[f]]
    /\ clients' = clients \ dead
    /\ casting' = FALSE /\ dead' = {}
    /\ UNCHANGED <<serverVars, accPc, peer, hsVars, toSend>>
-----------------------------------------------------------------------------
(* stop(), and the dashboards.                                             *)

StopBegin ==
    /\ stopPc = "run"
    /\ running' = FALSE /\ stopPc' = "join"
    /\ UNCHANGED <<accPc, netVars, clients, hsVars, castVars>>

StopJoin ==
    /\ stopPc = "join" /\ accPc = "done"
    /\ stopPc' = "clear"
    /\ UNCHANGED <<running, accPc, netVars, clients, hsVars, castVars>>

StopClear ==
    /\ stopPc = "clear" /\ Unlocked
    /\ open' = [f \in Fd |-> IF f \in clients THEN NoConn ELSE open[f]]
    /\ clients' = {} /\ stopPc' = "done"
    /\ UNCHANGED <<running, accPc, peer, hsVars, castVars>>

Connect(c) ==
    /\ peer[c] = "away" /\ stopPc = "run"
    /\ peer' = [peer EXCEPT ![c] = "waiting"]
    /\ UNCHANGED <<serverVars, accPc, open, clients, hsVars, castVars>>

Hush(c) ==
    /\ peer[c] = "here"
    /\ peer' = [peer EXCEPT ![c] = "hushed"]
    /\ UNCHANGED <<serverVars, accPc, open, clients, hsVars, castVars>>

Left(c) ==
    /\ peer[c] \in {"here", "hushed"}
    /\ peer' = [peer EXCEPT ![c] = "left"]
    /\ UNCHANGED <<serverVars, accPc, open, clients, hsVars, castVars>>
-----------------------------------------------------------------------------
Next ==
    \/ AccTop \/ AccNothing \/ \E c \in Conn, f \in Fd : Accept(c, f)
    \/ \E t \in Conn : \/ ShakeOk(t) \/ ShakeFailed(t) \/ Insert(t)
                       \/ Watch(t) \/ Erase(t) \/ Close(t)
    \/ CastBegin \/ CastEnd \/ \E f \in Fd : CastSend(f)
    \/ StopBegin \/ StopJoin \/ StopClear
    \/ \E c \in Conn : Connect(c) \/ Hush(c) \/ Left(c)

Spec == Init /\ [][Next]_vars
-----------------------------------------------------------------------------
\* ReadMe.md, section 9: the monitor loop pushes JSON to the dashboard in every
\* period.  A dashboard that was answered 101, has not left and has sent no
\* empty frame is connected while the relay runs, and listed unless its own
\* thread is about to do it.
DashboardServed ==
    \A c \in shaken :
        running /\ peer[c] = "here" =>
            \E f \in Fd : /\ open[f] = c
                          /\ f \in clients \/ hsPc[c] = "insert"
=============================================================================
