------------------------ MODULE WsBroadcasterProofs ------------------------
(***************************************************************************)
(* Theorems about WsBroadcaster, for any dashboards and descriptors: no    *)
(* descriptor is leaked and every listed one is watched, by a thread that  *)
(* holds its number.  And the reason why a dashboard can be cut off: unless*)
(* it sends an empty frame, the one thing that goes wrong is that the      *)
(* kernel hands a number out again while a thread of an earlier connection *)
(* still holds it.                                                         *)
(***************************************************************************)
EXTENDS WsBroadcaster, TLAPS

TypeOK ==
    /\ running \in BOOLEAN /\ stopPc \in {"run", "join", "clear", "done"}
    /\ accPc \in {"top", "accept", "done"}
    /\ open \in [Fd -> Conn \cup {NoConn}]
    /\ peer \in [Conn -> {"away", "waiting", "here", "hushed", "left"}]
    /\ clients \subseteq Fd
    /\ hsPc \in [Conn -> {"none", "shake", "insert", "watch", "erase", "close"}]
    /\ hsFd \in [Conn -> Fd \cup {CHOOSE f \in Fd : TRUE}]
    /\ shaken \subseteq Conn
    /\ casting \in BOOLEAN /\ toSend \subseteq Fd /\ dead \subseteq Fd

\* A thread that has not ended holds the number of its connection.
Holds(t) == hsPc[t] # "none"
Arrived ==
    \A t \in Conn : /\ peer[t] \in {"away", "waiting"} => ~Holds(t)
                    /\ Holds(t) => hsFd[t] \in Fd
                    /\ t \in shaken => peer[t] \in {"here", "hushed", "left"}

\* Every open connection has its own thread, which will close it.
NoLeak == \A f \in Fd : open[f] # NoConn => hsFd[open[f]] = f /\ Holds(open[f])

\* Every listed descriptor has a thread that will take it off the list.
Watched ==
    \A f \in clients : \E t \in Conn : hsFd[t] = f /\ hsPc[t] \in {"watch", "erase"}

\* broadcast works on what is listed, and leaves nothing behind.
Casting ==
    /\ toSend \subseteq clients /\ dead \subseteq clients
    /\ casting \/ (toSend = {} /\ dead = {})

Own == TypeOK /\ Arrived /\ NoLeak /\ Watched /\ Casting
-----------------------------------------------------------------------------
LEMMA OwnInit == Init => Own
<1> SUFFICES ASSUME Init PROVE Own
  OBVIOUS
<1> USE DEF Init
<1>1. running \in BOOLEAN /\ casting \in BOOLEAN
  BY Zenon
<1>2. TypeOK
  BY <1>1 DEF TypeOK
<1>3. Arrived /\ NoLeak /\ Watched
  BY DEF Arrived, NoLeak, Watched, Holds
<1>4. Casting
  BY DEF Casting
<1> QED  BY <1>2, <1>3, <1>4 DEF Own

\* What an action of thread t does to the program counters.
LEMMA GoFacts ==
  ASSUME TypeOK, NEW t \in Conn, NEW pc, Go(t, pc)
  PROVE  hsPc'[t] = pc /\ \A u \in Conn \ {t} : hsPc'[u] = hsPc[u]
BY DEF TypeOK, Go

LEMMA FlagsStep ==
  ASSUME TypeOK, [Next]_vars
  PROVE  running' \in BOOLEAN /\ casting' \in BOOLEAN
<1> USE DEF TypeOK, serverVars, castVars
<1>1. CASE UNCHANGED vars
  BY <1>1, Zenon DEF vars
<1>2. CASE AccTop \/ AccNothing \/ \E c \in Conn, f \in Fd : Accept(c, f)
  BY <1>2, Zenon DEF AccTop, AccNothing, Accept
<1>3. ASSUME NEW t \in Conn,
             ShakeOk(t) \/ ShakeFailed(t) \/ Insert(t) \/ Watch(t) \/ Erase(t) \/ Close(t)
      PROVE  running' \in BOOLEAN /\ casting' \in BOOLEAN
  BY <1>3, Zenon DEF ShakeOk, ShakeFailed, Insert, Watch, Erase, Close
<1>4. CASE CastBegin \/ CastEnd \/ \E f \in Fd : CastSend(f)
  BY <1>4, Zenon DEF CastBegin, CastEnd, CastSend
<1>5. CASE StopBegin \/ StopJoin \/ StopClear
  BY <1>5, Zenon DEF StopBegin, StopJoin, StopClear
<1>6. CASE \E c \in Conn : Connect(c) \/ Hush(c) \/ Left(c)
  BY <1>6, Zenon DEF Connect, Hush, Left
<1> QED
  BY <1>1, <1>2, <1>3, <1>4, <1>5, <1>6, Zenon DEF Next

LEMMA TypeStep ==
  ASSUME TypeOK, Arrived, [Next]_vars
  PROVE  TypeOK'
<1>1. running' \in BOOLEAN /\ casting' \in BOOLEAN
  BY FlagsStep
<1> USE <1>1 DEF TypeOK, Go, serverVars, netVars, hsVars, castVars
<1>2. CASE UNCHANGED vars
  BY <1>2 DEF vars
<1>3. CASE AccTop
  BY <1>3 DEF AccTop
<1>4. CASE AccNothing
  BY <1>4 DEF AccNothing
<1>5. ASSUME NEW c \in Conn, NEW f \in Fd, Accept(c, f) PROVE TypeOK'
  BY <1>5 DEF Accept
<1>6. ASSUME NEW t \in Conn PROVE /\ ShakeOk(t) => TypeOK'
                                  /\ ShakeFailed(t) => TypeOK'
                                  /\ Insert(t) => TypeOK'
                                  /\ Watch(t) => TypeOK'
                                  /\ Erase(t) => TypeOK'
                                  /\ Close(t) => TypeOK'
  <2>1. ShakeFailed(t) \/ Watch(t) => TypeOK'
    BY <1>6 DEF ShakeFailed, Watch
  <2>2. ASSUME ShakeOk(t) PROVE TypeOK'
    <3>1. hsFd[t] \in Fd
      BY <1>6, <2>2 DEF ShakeOk, Arrived, Holds
    <3> QED
      BY <1>6, <2>2, <3>1 DEF ShakeOk, Behind
  <2>3. ASSUME Insert(t) PROVE TypeOK'
    <3>1. hsFd[t] \in Fd
      BY <1>6, <2>3 DEF Insert, Arrived, Holds
    <3> QED
      BY <1>6, <2>3, <3>1 DEF Insert
  <2>4. ASSUME Erase(t) PROVE TypeOK'
    BY <1>6, <2>4 DEF Erase
  <2>5. ASSUME Close(t) PROVE TypeOK'
    BY <1>6, <2>5 DEF Close
  <2> QED  BY <2>1, <2>2, <2>3, <2>4, <2>5
<1>7. CASE CastBegin
  BY <1>7 DEF CastBegin
<1>8. CASE CastEnd
  BY <1>8 DEF CastEnd
<1>9. ASSUME NEW f \in Fd, CastSend(f) PROVE TypeOK'
  BY <1>9 DEF CastSend
<1>10. CASE StopBegin
  BY <1>10 DEF StopBegin
<1>11. CASE StopJoin
  BY <1>11 DEF StopJoin
<1>12. CASE StopClear
  BY <1>12 DEF StopClear
<1>13. ASSUME NEW c \in Conn PROVE Connect(c) \/ Hush(c) \/ Left(c) => TypeOK'
  BY <1>13 DEF Connect, Hush, Left
<1> QED
  BY <1>2, <1>3, <1>4, <1>5, <1>6, <1>7, <1>8, <1>9, <1>10, <1>11, <1>12, <1>13
     DEF Next

\* What the threads own, action by action.
LEMMA OwnStep ==
  ASSUME Own, [Next]_vars
  PROVE  Own'
<1> USE DEF Own
<1>1. TypeOK'
  BY TypeStep
<1> SUFFICES Arrived' /\ NoLeak' /\ Watched' /\ Casting'
  BY <1>1
<1> USE DEF TypeOK, Arrived, NoLeak, Watched, Casting, Holds, serverVars, netVars,
            hsVars, castVars
<1>2. CASE UNCHANGED vars
  BY <1>2 DEF vars
<1>3. CASE AccTop
  BY <1>3 DEF AccTop
<1>4. CASE AccNothing
  BY <1>4 DEF AccNothing
<1>5. ASSUME NEW c \in Conn, NEW f \in Fd, Accept(c, f)
      PROVE  Arrived' /\ NoLeak' /\ Watched' /\ Casting'
  <2>1. ~Holds(c)
    BY <1>5 DEF Accept
  <2>2. \A u \in Conn \ {c} : hsPc'[u] = hsPc[u] /\ hsFd'[u] = hsFd[u] /\ peer'[u] = peer[u]
    BY <1>5 DEF Accept
  <2>3. hsPc'[c] = "shake" /\ hsFd'[c] = f /\ peer'[c] = "here"
    BY <1>5 DEF Accept
  <2>4. Arrived'
    BY <1>5, <2>2, <2>3 DEF Accept
  <2>5. NoLeak'
    BY <1>5, <2>1, <2>2, <2>3 DEF Accept
  <2>6. Watched'
    BY <1>5, <2>1, <2>2 DEF Accept
  <2>7. Casting'
    BY <1>5 DEF Accept
  <2> QED  BY <2>4, <2>5, <2>6, <2>7
<1>6. ASSUME NEW t \in Conn,
             ShakeOk(t) \/ ShakeFailed(t) \/ Insert(t) \/ Watch(t) \/ Erase(t) \/ Close(t)
      PROVE  Arrived' /\ NoLeak' /\ Watched' /\ Casting'
  <2>1. CASE ShakeOk(t)
    <3>1. Behind(t) \in Conn /\ peer[Behind(t)] \in {"here", "hushed", "left"}
      BY <1>6, <2>1 DEF ShakeOk, Behind
    <3> QED
      BY <1>6, <2>1, <3>1 DEF ShakeOk, Go
  <2>2. CASE ShakeFailed(t)
    BY <1>6, <2>2 DEF ShakeFailed, Go
  <2>3. CASE Insert(t)
    BY <1>6, <2>3 DEF Insert, Go
  <2>4. CASE Watch(t)
    BY <1>6, <2>4 DEF Watch, Go
  <2>5. CASE Erase(t)
    BY <1>6, <2>5 DEF Erase, Go, Unlocked
  <2>6. CASE Close(t)
    BY <1>6, <2>6 DEF Close, Go
  <2> QED  BY <1>6, <2>1, <2>2, <2>3, <2>4, <2>5, <2>6
<1>7. CASE CastBegin
  BY <1>7 DEF CastBegin
<1>8. CASE CastEnd
  BY <1>8 DEF CastEnd
<1>9. ASSUME NEW f \in Fd, CastSend(f)
      PROVE  Arrived' /\ NoLeak' /\ Watched' /\ Casting'
  BY <1>9 DEF CastSend
<1>10. CASE StopBegin
  BY <1>10 DEF StopBegin
<1>11. CASE StopJoin
  BY <1>11 DEF StopJoin
<1>12. CASE StopClear
  BY <1>12 DEF StopClear, Unlocked
<1>13. ASSUME NEW c \in Conn, Connect(c) \/ Hush(c) \/ Left(c)
       PROVE  Arrived' /\ NoLeak' /\ Watched' /\ Casting'
  BY <1>13 DEF Connect, Hush, Left
<1> QED
  BY <1>2, <1>3, <1>4, <1>5, <1>6, <1>7, <1>8, <1>9, <1>10, <1>11, <1>12, <1>13
     DEF Next

LEMMA OwnAlways == Spec => []Own
<1> QED  BY OwnInit, OwnStep, PTL DEF Spec
-----------------------------------------------------------------------------
(* If no number were handed out again while a thread holds it.             *)

Held(f) == \E t \in Conn : Holds(t) /\ hsFd[t] = f
NoReuse == \A f \in Fd : open'[f] # open[f] /\ open'[f] # NoConn => ~Held(f)

\* Then the threads hold different numbers, broadcast closes only what a
\* dashboard left, and a served dashboard is where its thread believes it to be.
Apart ==
    \A t, u \in Conn : Holds(t) /\ Holds(u) /\ t # u => hsFd[t] # hsFd[u]
Served ==
    /\ \A f \in dead : Broken(f)
    /\ stopPc # "run" => ~running
    /\ \A t \in shaken :
          /\ hsPc[t] # "shake"
          /\ running /\ peer[t] = "here" =>
                /\ open[hsFd[t]] = t
                /\ hsPc[t] \in {"insert", "watch"}
                /\ hsPc[t] = "watch" => hsFd[t] \in clients

LEMMA ApartInit == Init => Apart /\ Served
BY DEF Init, Apart, Served, Holds

LEMMA ApartStep ==
  ASSUME NoConn \notin Conn, Own, Apart, [Next]_vars, NoReuse
  PROVE  Apart'
<1> USE DEF Own, Apart, TypeOK, Arrived, Holds, serverVars, netVars, hsVars, castVars
<1>1. CASE UNCHANGED <<hsPc, hsFd>>
  BY <1>1
<1>2. ASSUME NEW c \in Conn, NEW f \in Fd, Accept(c, f) PROVE Apart'
  <2>1. ~Held(f)
    <3>1. open[f] = NoConn /\ open'[f] = c
      BY <1>2 DEF Accept, Free
    <3> QED  BY <3>1 DEF NoReuse
  <2> QED
    BY <1>2, <2>1 DEF Accept, Held
<1>3. ASSUME NEW t \in Conn,
             ShakeOk(t) \/ ShakeFailed(t) \/ Insert(t) \/ Watch(t) \/ Erase(t) \/ Close(t)
      PROVE  Apart'
  <2>1. Holds(t) /\ hsFd' = hsFd /\ \A u \in Conn \ {t} : hsPc'[u] = hsPc[u]
    BY <1>3 DEF ShakeOk, ShakeFailed, Insert, Watch, Erase, Close, Go
  <2> QED
    BY <2>1
<1> QED
  <2>1. CASE AccTop \/ AccNothing \/ CastBegin \/ CastEnd \/ StopBegin \/ StopJoin \/ StopClear
    BY <2>1, <1>1 DEF AccTop, AccNothing, CastBegin, CastEnd, StopBegin, StopJoin, StopClear
  <2>2. ASSUME NEW f \in Fd, CastSend(f) PROVE Apart'
    BY <2>2, <1>1 DEF CastSend
  <2>3. ASSUME NEW c \in Conn, Connect(c) \/ Hush(c) \/ Left(c) PROVE Apart'
    BY <2>3, <1>1 DEF Connect, Hush, Left
  <2>4. CASE UNCHANGED vars
    BY <2>4, <1>1 DEF vars
  <2> QED
    BY <1>2, <1>3, <2>1, <2>2, <2>3, <2>4 DEF Next

\* In the words of Served: a served dashboard's own descriptor is its own, so
\* whatever is done to another thread's descriptor leaves it alone.
LEMMA ServedStep ==
  ASSUME NoConn \notin Conn, Own, Apart, Served, [Next]_vars, NoReuse
  PROVE  Served'
<1> USE DEF Own, Apart, Served, TypeOK, Arrived, Holds, Casting, Broken, serverVars,
            netVars, hsVars, castVars
<1>1. CASE UNCHANGED vars
  BY <1>1 DEF vars
<1>2. CASE AccTop \/ AccNothing
  BY <1>2 DEF AccTop, AccNothing
<1>3. ASSUME NEW c \in Conn, NEW f \in Fd, Accept(c, f) PROVE Served'
  <2>1. /\ open[f] = NoConn /\ open' = [open EXCEPT ![f] = c]
        /\ peer' = [peer EXCEPT ![c] = "here"]
        /\ hsPc' = [hsPc EXCEPT ![c] = "shake"] /\ hsFd' = [hsFd EXCEPT ![c] = f]
        /\ UNCHANGED <<running, clients, shaken, dead>>
        /\ stopPc' = stopPc /\ c \notin shaken /\ peer[c] = "waiting"
    BY <1>3 DEF Accept, Free
  <2>2. ~Held(f)
    BY <2>1 DEF NoReuse
  <2>3. f \notin dead
    BY <2>2 DEF Held, Watched
  <2>4. ASSUME NEW g \in dead PROVE Broken(g)'
    <3>1. g \in Fd /\ open'[g] = open[g] /\ (open[g] = NoConn \/ open[g] \in Conn)
      BY <2>1, <2>3
    <3>2. open[g] # c
      BY <2>1, <3>1 DEF NoLeak
    <3> QED
      BY <2>1, <3>1, <3>2
  <2>5. ASSUME NEW t \in shaken
        PROVE  /\ hsPc'[t] = hsPc[t] /\ hsFd'[t] = hsFd[t] /\ peer'[t] = peer[t]
               /\ Holds(t) => open'[hsFd[t]] = open[hsFd[t]]
    <3>1. t # c /\ t \in Conn
      BY <2>1
    <3> QED
      BY <2>1, <2>2, <3>1 DEF Held
  <2> QED
    BY <2>1, <2>4, <2>5
<1>4. ASSUME NEW t \in Conn, ShakeOk(t) PROVE Served'
  <2>1. Behind(t) \in Conn /\ hsFd[t] \in Fd /\ Behind(t) = open[hsFd[t]]
    BY <1>4 DEF ShakeOk, Behind
  <2>2. Behind(t) = t
    BY <1>4, <2>1 DEF ShakeOk, NoLeak
  <2> QED
    BY <1>4, <2>1, <2>2 DEF ShakeOk, Go
<1>5. ASSUME NEW t \in Conn, ShakeFailed(t) PROVE Served'
  BY <1>5 DEF ShakeFailed, Go
<1>6. ASSUME NEW t \in Conn, Insert(t) PROVE Served'
  BY <1>6 DEF Insert, Go
<1>7. ASSUME NEW t \in Conn, Watch(t) PROVE Served'
  BY <1>7 DEF Watch, EmptyFrame, Go
<1>8. ASSUME NEW t \in Conn, Erase(t) PROVE Served'
  BY <1>8 DEF Erase, Go, Unlocked
<1>9. ASSUME NEW t \in Conn, Close(t) PROVE Served'
  BY <1>9 DEF Close, Go
<1>10. CASE CastBegin
  BY <1>10 DEF CastBegin
<1>11. CASE CastEnd
  BY <1>11 DEF CastEnd
<1>12. ASSUME NEW f \in Fd, CastSend(f) PROVE Served'
  BY <1>12 DEF CastSend
<1>13. CASE StopBegin
  BY <1>13 DEF StopBegin
<1>14. CASE StopJoin
  BY <1>14 DEF StopJoin
<1>15. CASE StopClear
  BY <1>15 DEF StopClear
<1>16. ASSUME NEW c \in Conn, Connect(c) \/ Hush(c) \/ Left(c) PROVE Served'
  BY <1>16 DEF Connect, Hush, Left
<1> QED
  BY <1>1, <1>2, <1>3, <1>4, <1>5, <1>6, <1>7, <1>8, <1>9, <1>10, <1>11, <1>12,
     <1>13, <1>14, <1>15, <1>16 DEF Next
-----------------------------------------------------------------------------
(* Theorems.                                                               *)

\* No descriptor leaks: whatever the handshake threads, broadcast and stop()
\* close under each other's feet, an open connection always has the thread
\* that was started for it, under that number.
THEOREM NoLeakCorrect == Spec => []NoLeak
<1>1. Own => NoLeak
  BY DEF Own
<1> QED  BY <1>1, OwnAlways, PTL

\* clients_ holds no descriptor that nobody would take off it: each has a thread
\* that waits for its end and is yet to erase it.
THEOREM WatchedCorrect == Spec => []Watched
<1>1. Own => Watched
  BY DEF Own
<1> QED  BY <1>1, OwnAlways, PTL

\* DashboardServed, which WsBroadcaster.cfg refutes, holds in every run in
\* which no descriptor is handed out again while a thread still holds its
\* number - as if broadcast() left the closing to the handshake threads.  It
\* speaks of dashboards that sent no empty frame: those are dropped in any case.
THEOREM ServedWithoutReuse ==
  ASSUME NoConn \notin Conn
  PROVE  Spec /\ [][NoReuse]_vars => []DashboardServed
<1>1. Own /\ Served => DashboardServed
  BY DEF Own, TypeOK, Arrived, Served, DashboardServed, Casting, Holds
<1>2. Own /\ Apart /\ Served /\ [Next]_vars /\ [NoReuse]_vars => (Apart /\ Served)'
  <2>1. UNCHANGED vars => NoReuse
    BY DEF vars, netVars, NoReuse
  <2> QED  BY <2>1, ApartStep, ServedStep
<1>3. Init => Apart /\ Served
  BY ApartInit
<1> QED  BY <1>1, <1>2, <1>3, OwnAlways, PTL DEF Spec
=============================================================================
