------------------------- MODULE RelayFanoutProofs -------------------------
(***************************************************************************)
(* Proofs about RelayFanout, for any number of connections, any queue      *)
(* bound, any burst and any placement of the access points, in four parts  *)
(* of which each uses the invariants of those before it:                   *)
(*   1. queues: type correctness, the queue bound, the order of what a     *)
(*      subscriber receives, no chunk lost without being counted;          *)
(*   2. sessions: no thread touches a session that was stopped, the count  *)
(*      of subscribers is exact, nothing is left after stop(), and the     *)
(*      sender is never left asleep with data to send;                     *)
(*   3. the implementation of LossyStream: whatever the five threads do,   *)
(*      every subscriber sees a bounded stream that begins at an access    *)
(*      point, keeps its order and counts what it skips;                   *)
(*   4. coming down: after the signal every thread has finitely many steps *)
(*      left, whatever it was doing.                                       *)
(***************************************************************************)
EXTENDS RelayFanout, TLAPS, FiniteSetTheorems

(***************************************************************************)
(* Part 1: queues.                                                         *)
(***************************************************************************)

(* Facts about the operators on queues.                                    *)

LEMMA NumbersType ==
  ASSUME NEW q \in Seq(Element) PROVE Numbers(q) \in SUBSET Nat
<1>1. ASSUME NEW m \in Numbers(q) PROVE m \in Nat
  <2>1. PICK i \in DOMAIN q : m = q[i].n
    BY <1>1 DEF Numbers
  <2>2. q[i] \in Element
    BY <2>1
  <2> QED  BY <2>1, <2>2 DEF Element
<1> QED  BY <1>1

LEMMA HeadType ==
  ASSUME NEW q \in Seq(Element), q # <<>>
  PROVE  Head(q) \in Element /\ Head(q) = q[1] /\ 1 \in DOMAIN q
OBVIOUS

LEMMA KeptType ==
  ASSUME NEW q \in Seq(Element), NEW a
  PROVE  Kept(q, a) \in Seq(Element)
BY BoundsAssumption DEF Kept

LEMMA PoppedType ==
  ASSUME NEW q \in Seq(Element), NEW c PROVE Popped(q, c) \in Seq(Element)
BY DEF Popped
-----------------------------------------------------------------------------
(* Type correctness.  A send in progress was begun within the burst.       *)

BurstInv == sndPc \in {"send", "pop"} => burst < Burst

LEMMA TypeInit == Init => TypeOK /\ BurstInv
<1> SUFFICES ASSUME Init PROVE TypeOK /\ BurstInv
  OBVIOUS
<1>1. wake \in BOOLEAN /\ queued \in BOOLEAN /\ wants \in BOOLEAN
  BY Zenon DEF Init
<1>2. chunk \in Element
  BY DEF Init, Element, NoElement
<1> QED  BY <1>1, <1>2, BoundsAssumption DEF Init, TypeOK, BurstInv

LEMMA TypeStep == TypeOK /\ BurstInv /\ [Next]_vars => TypeOK' /\ BurstInv'
<1> SUFFICES ASSUME TypeOK, BurstInv, [Next]_vars PROVE TypeOK' /\ BurstInv'
  OBVIOUS
<1> USE BoundsAssumption
    DEF TypeOK, BurstInv, mainVars, accVars, linkVars, flowVars, sessVars, pubVars,
        sndLocals, sndVars, monVars, sharedVars, notAcc, notPub, notSnd, notMon,
        notNet, Element, NoElement
<1>1. CASE UNCHANGED vars
  BY <1>1 DEF vars
<1>2. CASE Acceptor
  <2>1. ASSUME NEW s \in Sub, AcceptRefuse(s) PROVE TypeOK' /\ BurstInv'
    BY <2>1 DEF AcceptRefuse
  <2>2. ASSUME NEW s \in Sub, Accept(s) PROVE TypeOK' /\ BurstInv'
    BY <2>2 DEF Accept
  <2>3. CASE AccTop
    BY <2>3 DEF AccTop
  <2>4. CASE AccInsert
    BY <2>4 DEF AccInsert
  <2>5. CASE AccWake
    BY <2>5 DEF AccWake
  <2>6. CASE AccExit
    BY <2>6 DEF AccExit
  <2> QED  BY <1>2, <2>1, <2>2, <2>3, <2>4, <2>5, <2>6 DEF Acceptor
<1>3. CASE Publisher
  <2>1. ASSUME NEW s \in Sub, PushSkip(s) PROVE TypeOK' /\ BurstInv'
    BY <2>1 DEF PushSkip
  <2>2. ASSUME NEW s \in Sub, PushUnsynced(s) PROVE TypeOK' /\ BurstInv'
    BY <2>2 DEF PushUnsynced
  <2>3. ASSUME NEW s \in Sub, Push(s) PROVE TypeOK' /\ BurstInv'
    <3>1. Kept(queue[s], action[s]) \in Seq(Element)
      BY KeptType
    <3>2. Numbers(queue[s]) \in SUBSET Nat
      BY NumbersType
    <3>3. queue' \in [Sub -> Seq(Element)]
      BY <2>3, <3>1 DEF Push
    <3>4. dropped' \in [Sub -> SUBSET Nat]
      BY <2>3, <3>2 DEF Push
    <3>5. synced' \in [Sub -> BOOLEAN] /\ accepted' \in [Sub -> SUBSET Nat]
      BY <2>3 DEF Push
    <3>6. pubTodo' \subseteq Sub /\ queued' \in BOOLEAN
      BY <2>3 DEF Push
    <3> QED  BY <2>3, <3>3, <3>4, <3>5, <3>6 DEF Push
  <2>4. CASE BroadcastBegin
    <3>1. queued' \in BOOLEAN
      BY <2>4, Zenon DEF BroadcastBegin
    <3> QED  BY <2>4, <3>1 DEF BroadcastBegin
  <2>5. CASE BroadcastEnd
    BY <2>5 DEF BroadcastEnd
  <2>6. CASE PubWake
    <3>1. queued' \in BOOLEAN
      BY <2>6, Zenon DEF PubWake
    <3> QED  BY <2>6, <3>1 DEF PubWake
  <2>7. CASE PubExit
    BY <2>7 DEF PubExit
  <2> QED  BY <1>3, <2>1, <2>2, <2>3, <2>4, <2>5, <2>6, <2>7 DEF Publisher
<1>4. CASE Sender
  <2>1. ASSUME NEW s \in Sub, SyncDead(s) PROVE TypeOK' /\ BurstInv'
    BY <2>1 DEF SyncDead
  <2>2. ASSUME NEW s \in Sub, SyncDepth(s) PROVE TypeOK' /\ BurstInv'
    BY <2>2 DEF SyncDepth, WantsWrite
  <2>3. ASSUME NEW s \in Sub, WriteSkip(s) PROVE TypeOK' /\ BurstInv'
    BY <2>3 DEF WriteSkip
  <2>4. ASSUME NEW s \in Sub, WriteBroken(s) PROVE TypeOK' /\ BurstInv'
    BY <2>4 DEF WriteBroken
  <2>5. ASSUME NEW s \in Sub, WriteBegin(s) PROVE TypeOK' /\ BurstInv'
    BY <2>5 DEF WriteBegin
  <2>6. CASE SndExit
    BY <2>6 DEF SndExit
  <2>7. CASE SndTop
    <3>1. needsSync' \in BOOLEAN
      BY <2>7, Zenon DEF SndTop
    <3> QED  BY <2>7, <3>1 DEF SndTop
  <2>8. CASE SyncErase
    BY <2>8 DEF SyncErase
  <2>9. CASE SyncStop
    BY <2>9 DEF SyncStop, StopAll, Live
  <2>10. CASE SyncApply
    <3>1. wants' \in BOOLEAN
      BY <2>10, Zenon DEF SyncApply
    <3>2. reg' \in [Sub -> {"no", "idle", "out"}]
      BY <2>10 DEF SyncApply
    <3>3. closing' \in [Sub -> BOOLEAN]
      BY <2>10 DEF SyncApply
    <3> QED  BY <2>10, <3>1, <3>2, <3>3 DEF SyncApply
  <2>11. CASE SyncDone
    BY <2>11 DEF SyncDone
  <2>12. CASE SndEvents
    <3>1. wake' \in BOOLEAN
      BY <2>12, Zenon DEF SndEvents
    <3>2. needsSync' \in BOOLEAN
      BY <2>12, Zenon DEF SndEvents, SyncNeeded
    <3>3. closing' \in [Sub -> BOOLEAN]
      BY <2>12, Zenon DEF SndEvents
    <3> QED  BY <2>12, <3>1, <3>2, <3>3 DEF SndEvents, OutReady
  <2>13. CASE SndTimeout
    BY <2>13 DEF SndTimeout
  <2>14. CASE SendTake
    <3>1. Head(queue[cur]) \in Element
      BY <2>14, HeadType DEF SendTake
    <3> QED  BY <2>14, <3>1 DEF SendTake, MoreInBurst
  <2>15. CASE SendNone
    BY <2>15 DEF SendNone
  <2>16. CASE SendOk
    BY <2>16 DEF SendOk
  <2>17. CASE SendBlocked
    BY <2>17 DEF SendBlocked
  <2>18. CASE SendFailed
    BY <2>18 DEF SendFailed
  <2>19. CASE SendPop
    <3>1. Popped(queue[cur], chunk) \in Seq(Element)
      BY PoppedType
    <3> QED  BY <2>19, <3>1 DEF SendPop
  <2>20. CASE WriteAfter
    BY <2>20 DEF WriteAfter
  <2>21. CASE WriteQuiet
    <3>1. needsSync' \in BOOLEAN
      BY <2>21, Zenon DEF WriteQuiet
    <3>2. closing' \in [Sub -> BOOLEAN]
      BY <2>21 DEF WriteQuiet
    <3>3. reg' \in [Sub -> {"no", "idle", "out"}]
      BY <2>21 DEF WriteQuiet
    <3> QED  BY <2>21, <3>1, <3>2, <3>3 DEF WriteQuiet
  <2>22. CASE WriteDone
    BY <2>22 DEF WriteDone
  <2> QED  BY <1>4, <2>1, <2>2, <2>3, <2>4, <2>5, <2>6, <2>7, <2>8, <2>9, <2>10, <2>11,
        <2>12, <2>13, <2>14, <2>15, <2>16, <2>17, <2>18, <2>19, <2>20, <2>21, <2>22 DEF Sender
<1>5. CASE Monitor
  <2>1. ASSUME NEW s \in Sub, MonGiveUp(s) PROVE TypeOK' /\ BurstInv'
    BY <2>1 DEF MonGiveUp
  <2>2. ASSUME NEW s \in Sub, NEW a \in Actions, MonEvaluate(s, a) PROVE TypeOK' /\ BurstInv'
    <3>1. Numbers(queue[s]) \in SUBSET Nat
      BY NumbersType
    <3>4. /\ action' = [action EXCEPT ![s] = a] /\ monTodo' = monTodo \ {s}
          /\ UNCHANGED <<notMon, sharedVars, linkVars, synced, closing, accepted,
                         wire, monPc, disc>>
      BY <2>2, Zenon DEF MonEvaluate
    <3>5. action' \in [Sub -> {"Normal", "Warn", "Drop", "Placeholder"}]
      BY <3>4
    <3> DEFINE clears == a /= action[s] /\ a \in {"Drop", "Placeholder"}
    <3>2. CASE clears
      <4>1. /\ dropped' = [dropped EXCEPT ![s] = @ \cup Numbers(queue[s])]
            /\ queue' = [queue EXCEPT ![s] = <<>>]
        BY <2>2, <3>2, Zenon DEF MonEvaluate
      <4>2. dropped' \in [Sub -> SUBSET Nat] /\ queue' \in [Sub -> Seq(Element)]
        BY <4>1, <3>1
      <4> QED  BY <3>4, <3>5, <4>2
    <3>3. CASE ~clears
      <4>1. UNCHANGED <<dropped, queue>>
        BY <2>2, <3>3, Zenon DEF MonEvaluate
      <4> QED  BY <3>4, <3>5, <4>1
    <3> QED  BY <3>2, <3>3
  <2>3. CASE MonBegin
    BY <2>3 DEF MonBegin
  <2>4. CASE MonClose
    BY <2>4 DEF MonClose
  <2>5. CASE MonWake
    BY <2>5 DEF MonWake
  <2>6. CASE MonExit
    BY <2>6 DEF MonExit
  <2> QED  BY <1>5, <2>1, <2>2, <2>3, <2>4, <2>5, <2>6 DEF Monitor
<1>6. CASE Network
  <2>1. ASSUME NEW s \in Sub, Break(s) PROVE TypeOK' /\ BurstInv'
    BY <2>1 DEF Break
  <2>2. ASSUME NEW s \in Sub, Drain(s) PROVE TypeOK' /\ BurstInv'
    BY <2>2 DEF Drain
  <2> QED  BY <1>6, <2>1, <2>2 DEF Network
<1>7. CASE Main
  <2>1. CASE Signal
    <3>1. gRunning' \in BOOLEAN
      BY <2>1, Zenon DEF Signal
    <3> QED  BY <2>1, <3>1 DEF Signal
  <2>2. CASE StopBegin
    <3>1. listening' \in BOOLEAN
      BY <2>2, Zenon DEF StopBegin
    <3> QED  BY <2>2, <3>1 DEF StopBegin
  <2>3. CASE StopEnd
    BY <2>3 DEF StopEnd, StopAll, Live
  <2>4. CASE Stopped
    BY <2>4 DEF Stopped, vars
  <2> QED  BY <1>7, <2>1, <2>2, <2>3, <2>4 DEF Main
<1> QED  BY <1>1, <1>2, <1>3, <1>4, <1>5, <1>6, <1>7 DEF Next

-----------------------------------------------------------------------------
(* The order of what is sent: the inductive strengthening of WireInOrder.  *)

Below(q, m) == \A i \in 1..Len(q) : q[i].n < m

\* A session broadcast still has to visit has seen only earlier chunks.
Limit(s) == IF s \in pubTodo THEN chunks ELSE chunks + 1

\* Everything on the wire precedes everything queued, except the chunk between
\* its srt_send and its pop, which may be both.
InFlight(s) == sndPc = "pop" /\ cur = s
WireBeforeQueue(s) ==
    \A i \in 1..Len(wire[s]), j \in 1..Len(queue[s]) :
        \/ wire[s][i].n < queue[s][j].n
        \/ InFlight(s) /\ j = 1 /\ queue[s][j] = chunk

\* The chunk about to be sent comes after the wire; it is the front of the
\* queue, or it has been removed from the queue and precedes what is there.
SendInOrder ==
    sndPc = "send" =>
        /\ Below(wire[cur], chunk.n)
        /\ \A j \in 1..Len(queue[cur]) :
               (j = 1 /\ queue[cur][j] = chunk) \/ chunk.n < queue[cur][j].n

OrderInv ==
    /\ pubPc # "push" => pubTodo = {}
    /\ \A s \in Sub :
           /\ Increasing(queue[s]) /\ Increasing(wire[s])
           /\ Below(queue[s], Limit(s)) /\ Below(wire[s], Limit(s))
           /\ sndPc = "send" /\ cur = s => chunk.n < Limit(s)
           /\ WireBeforeQueue(s)
    /\ SendInOrder

(* Facts about increasing queues.                                          *)

LEMMA AppendFacts ==
  ASSUME NEW q \in Seq(Element), NEW e \in Element
  PROVE  /\ Append(q, e) \in Seq(Element) /\ Len(Append(q, e)) = Len(q) + 1
         /\ \A i \in 1..Len(q) : Append(q, e)[i] = q[i]
         /\ Append(q, e)[Len(q) + 1] = e
OBVIOUS

LEMMA TailFacts ==
  ASSUME NEW q \in Seq(Element), q # <<>>
  PROVE  /\ Tail(q) \in Seq(Element) /\ Len(Tail(q)) = Len(q) - 1
         /\ \A i \in 1..Len(Tail(q)) : Tail(q)[i] = q[i + 1] /\ i + 1 \in 1..Len(q)
OBVIOUS

LEMMA IncreasingAppend ==
  ASSUME NEW q \in Seq(Element), NEW e \in Element, Increasing(q), Below(q, e.n)
  PROVE  Increasing(Append(q, e))
<1> DEFINE r == Append(q, e)
<1>1. SUFFICES ASSUME NEW i \in 1..Len(r), NEW j \in 1..Len(r), i < j
               PROVE  r[i].n < r[j].n
  BY DEF Increasing
<1>2. Len(q) \in Nat /\ Len(r) = Len(q) + 1 /\ i \in 1..Len(q) /\ r[i] = q[i]
  BY <1>1, AppendFacts
<1>3. CASE j = Len(q) + 1
  BY <1>2, <1>3, AppendFacts DEF Below
<1>4. CASE j # Len(q) + 1
  <2>1. j \in 1..Len(q) /\ r[j] = q[j]
    BY <1>1, <1>2, <1>4, AppendFacts
  <2> QED  BY <1>1, <1>2, <2>1 DEF Increasing
<1> QED  BY <1>3, <1>4

LEMMA IncreasingTail ==
  ASSUME NEW q \in Seq(Element), q # <<>>, Increasing(q)
  PROVE  Increasing(Tail(q))
BY TailFacts DEF Increasing

LEMMA BelowAppend ==
  ASSUME NEW q \in Seq(Element), NEW e \in Element, NEW m \in Nat, Below(q, m), e.n < m
  PROVE  Below(Append(q, e), m)
BY AppendFacts DEF Below

LEMMA BelowTail ==
  ASSUME NEW q \in Seq(Element), q # <<>>, NEW m, Below(q, m)
  PROVE  Below(Tail(q), m)
BY TailFacts DEF Below

LEMMA BelowMore ==
  ASSUME NEW q \in Seq(Element), NEW m \in Nat, NEW k \in Nat, m <= k, Below(q, m)
  PROVE  Below(q, k)
<1>1. ASSUME NEW i \in 1..Len(q) PROVE q[i].n < k
  <2>1. q[i] \in Element
    OBVIOUS
  <2> QED  BY <2>1 DEF Element, Below
<1> QED  BY <1>1 DEF Below

\* A step that only empties queues, and does not disturb a send in progress
\* other than by leaving it, keeps the order.
LEMMA OrderClear ==
  ASSUME TypeOK, OrderInv, UNCHANGED <<pubPc, pubTodo, chunks, wire>>,
         \A s \in Sub : queue'[s] = queue[s] \/ queue'[s] = <<>>,
         \/ UNCHANGED <<sndPc, cur, chunk>>
         \/ sndPc # "pop" /\ sndPc' \notin {"send", "pop"}
  PROVE  OrderInv'
<1>1. ASSUME NEW s \in Sub
      PROVE  /\ Increasing(queue[s])' /\ Increasing(wire[s])'
             /\ Below(queue[s], Limit(s))' /\ Below(wire[s], Limit(s))'
             /\ (sndPc = "send" /\ cur = s => chunk.n < Limit(s))'
  BY DEF OrderInv, Increasing, Below, Limit
<1>2. ASSUME NEW s \in Sub PROVE WireBeforeQueue(s)'
  BY DEF OrderInv, WireBeforeQueue, InFlight
<1>3. SendInOrder'
  <2>1. cur \in Sub
    BY DEF TypeOK
  <2> QED  BY <2>1 DEF OrderInv, SendInOrder, Below
<1> QED  BY <1>1, <1>2, <1>3 DEF OrderInv

LEMMA LimitType ==
  ASSUME NEW c \in Nat, NEW T, NEW s
  PROVE  (IF s \in T THEN c ELSE c + 1) \in Nat
OBVIOUS

\* Making the limits larger keeps the order: broadcast begins, or skips.
LEMMA OrderLimit ==
  ASSUME TypeOK, OrderInv, UNCHANGED <<wire, queue, sndPc, cur, chunk>>,
         pubPc' # "push" => pubTodo' = {},
         \A s \in Sub : Limit(s)' >= Limit(s), chunks' \in Nat
  PROVE  OrderInv'
<1>1. ASSUME NEW s \in Sub
      PROVE  /\ Increasing(queue[s])' /\ Increasing(wire[s])'
             /\ Below(queue[s], Limit(s))' /\ Below(wire[s], Limit(s))'
             /\ (sndPc = "send" /\ cur = s => chunk.n < Limit(s))'
             /\ WireBeforeQueue(s)'
  <2>1. Limit(s) \in Nat /\ Limit(s)' \in Nat
    <3>1. chunks \in Nat /\ chunks' \in Nat
      BY DEF TypeOK
    <3> QED  BY <3>1, LimitType DEF Limit
  <2>3. Limit(s) <= Limit(s)'
    BY <2>1
  <2>4. queue[s] \in Seq(Element) /\ wire[s] \in Seq(Element)
    BY DEF TypeOK
  <2>2. Increasing(queue[s])' /\ Increasing(wire[s])' /\ WireBeforeQueue(s)'
    BY DEF OrderInv, Increasing, WireBeforeQueue, InFlight
  <2>7. Below(queue[s], Limit(s)) /\ Below(wire[s], Limit(s))
    BY DEF OrderInv
  <2>8. Below(queue[s], Limit(s)') /\ Below(wire[s], Limit(s)')
    BY <2>1, <2>3, <2>4, <2>7, BelowMore
  <2>5. Below(queue[s], Limit(s))' /\ Below(wire[s], Limit(s))'
    BY <2>8 DEF Below
  <2>6. (sndPc = "send" /\ cur = s => chunk.n < Limit(s))'
    BY <2>1, <2>3 DEF OrderInv, TypeOK, Element
  <2> QED  BY <2>2, <2>5, <2>6
<1>2. SendInOrder'
  BY DEF OrderInv, SendInOrder, Below
<1> QED  BY <1>1, <1>2 DEF OrderInv

LEMMA KeptFacts ==
  ASSUME NEW q \in Seq(Element), NEW a
  PROVE  Kept(q, a) = <<>> \/ Kept(q, a) = q \/ (q # <<>> /\ Kept(q, a) = Tail(q))
BY BoundsAssumption DEF Kept

LEMMA OrderPush ==
  ASSUME TypeOK, OrderInv, NEW s \in Sub, Push(s)
  PROVE  OrderInv'
<1> DEFINE e == [n |-> chunks, null |-> action[s] = "Placeholder"]
           kept == Kept(queue[s], action[s])
<1>1. /\ queue' = [queue EXCEPT ![s] = Append(kept, e)]
      /\ UNCHANGED <<pubPc, chunks, wire, sndPc, cur, chunk>>
      /\ pubTodo' = pubTodo \ {s} /\ s \in pubTodo /\ pubPc = "push"
  BY DEF Push, notPub, sndVars, sndLocals
<1>2. /\ e \in Element /\ kept \in Seq(Element) /\ chunks \in Nat
      /\ queue[s] \in Seq(Element) /\ wire[s] \in Seq(Element)
  BY KeptType DEF TypeOK, Element
<1>3. Increasing(kept) /\ Below(kept, chunks)
  <2>1. Increasing(queue[s]) /\ Below(queue[s], chunks)
    BY <1>1 DEF OrderInv, Limit
  <2>2. Increasing(<<>>) /\ Below(<<>>, chunks)
    BY DEF Increasing, Below
  <2> QED  BY <1>2, <2>1, <2>2, KeptFacts, IncreasingTail, BelowTail
<1>4. Increasing(Append(kept, e)) /\ Below(Append(kept, e), chunks + 1)
  <2>1. Below(kept, chunks + 1)
    BY <1>2, <1>3, BelowMore
  <2>2. Increasing(Append(kept, e))
    BY <1>2, <1>3, IncreasingAppend
  <2> QED  BY <1>2, <2>1, <2>2, BelowAppend
<1>5. ASSUME NEW t \in Sub
      PROVE  /\ Increasing(queue[t])' /\ Increasing(wire[t])'
             /\ Below(queue[t], Limit(t))' /\ Below(wire[t], Limit(t))'
             /\ (sndPc = "send" /\ cur = t => chunk.n < Limit(t))'
  <2>1. CASE t = s
    <3>1. queue'[t] = Append(kept, e) /\ Limit(t)' = chunks + 1 /\ Limit(t) = chunks
      BY <1>1, <2>1 DEF Limit, TypeOK
    <3>2. Below(wire[s], chunks + 1)
      <4>1. Below(wire[s], chunks)
        BY <2>1, <3>1 DEF OrderInv
      <4> QED  BY <1>2, <4>1, BelowMore
    <3>3. sndPc = "send" /\ cur = s => chunk.n < chunks + 1
      BY <1>2, <2>1, <3>1 DEF OrderInv, TypeOK, Element
    <3> QED  BY <1>1, <1>4, <2>1, <3>1, <3>2, <3>3 DEF OrderInv
  <2>2. CASE t # s
    BY <1>1, <2>2 DEF OrderInv, Limit, TypeOK, Increasing, Below
  <2> QED  BY <2>1, <2>2
<1>6. ASSUME NEW t \in Sub PROVE WireBeforeQueue(t)'
  <2>1. CASE t # s
    BY <1>1, <2>1 DEF OrderInv, WireBeforeQueue, InFlight, TypeOK
  <2>2. CASE t = s
    <3>1. queue'[s] = Append(kept, e) /\ wire'[s] = wire[s]
      BY <1>1 DEF TypeOK
    <3>2. SUFFICES ASSUME NEW i \in 1..Len(wire[s]), NEW j \in 1..Len(Append(kept, e))
                   PROVE  \/ wire[s][i].n < Append(kept, e)[j].n
                          \/ InFlight(s) /\ j = 1 /\ Append(kept, e)[j] = chunk
      BY <1>1, <2>2, <3>1 DEF WireBeforeQueue, InFlight
    <3>3. Len(kept) \in Nat /\ (j = Len(kept) + 1 \/ j \in 1..Len(kept))
      BY <1>2, AppendFacts
    <3>4. CASE j = Len(kept) + 1
      <4>1. Append(kept, e)[j].n = chunks
        BY <1>2, <3>4, AppendFacts
      <4> QED  BY <1>1, <4>1 DEF OrderInv, Limit, Below
    <3>5. CASE j \in 1..Len(kept)
      <4>1. Append(kept, e)[j] = kept[j]
        BY <1>2, <3>5, AppendFacts
      <4>2. WireBeforeQueue(s)
        BY DEF OrderInv
      <4>3. CASE kept = queue[s]
        BY <3>5, <4>1, <4>2, <4>3 DEF WireBeforeQueue
      <4>4. CASE queue[s] # <<>> /\ kept = Tail(queue[s])
        <5>1. kept[j] = queue[s][j + 1] /\ j + 1 \in 1..Len(queue[s]) /\ j + 1 # 1
          BY <1>2, <3>5, <4>4, TailFacts
        <5> QED  BY <4>1, <4>2, <5>1 DEF WireBeforeQueue
      <4>5. CASE kept = <<>>
        BY <3>5, <4>5
      <4> QED  BY <1>2, <4>3, <4>4, <4>5, KeptFacts
    <3> QED  BY <3>3, <3>4, <3>5
  <2> QED  BY <2>1, <2>2
<1>7. SendInOrder'
  <2>1. CASE cur # s
    BY <1>1, <2>1 DEF OrderInv, SendInOrder, TypeOK, Below
  <2>2. CASE cur = s
    <3>1. SUFFICES ASSUME sndPc = "send", NEW j \in 1..Len(Append(kept, e))
                   PROVE  \/ j = 1 /\ Append(kept, e)[j] = chunk
                          \/ chunk.n < Append(kept, e)[j].n
      BY <1>1, <2>2 DEF SendInOrder, OrderInv, TypeOK, Below
    <3>2. Len(kept) \in Nat /\ (j = Len(kept) + 1 \/ j \in 1..Len(kept))
      BY <1>2, AppendFacts
    <3>3. CASE j = Len(kept) + 1
      <4>1. Append(kept, e)[j].n = chunks
        BY <1>2, <3>3, AppendFacts
      <4> QED  BY <1>1, <2>2, <3>1, <4>1 DEF OrderInv, Limit
    <3>4. CASE j \in 1..Len(kept)
      <4>1. Append(kept, e)[j] = kept[j]
        BY <1>2, <3>4, AppendFacts
      <4>2. \A k \in 1..Len(queue[s]) :
                (k = 1 /\ queue[s][k] = chunk) \/ chunk.n < queue[s][k].n
        BY <2>2, <3>1 DEF OrderInv, SendInOrder
      <4>3. CASE kept = queue[s]
        BY <3>4, <4>1, <4>2, <4>3
      <4>4. CASE queue[s] # <<>> /\ kept = Tail(queue[s])
        <5>1. kept[j] = queue[s][j + 1] /\ j + 1 \in 1..Len(queue[s]) /\ j + 1 # 1
          BY <1>2, <3>4, <4>4, TailFacts
        <5> QED  BY <4>1, <4>2, <5>1
      <4>5. CASE kept = <<>>
        BY <3>4, <4>5
      <4> QED  BY <1>2, <4>3, <4>4, <4>5, KeptFacts
    <3> QED  BY <3>2, <3>3, <3>4
  <2> QED  BY <2>1, <2>2
<1> QED  BY <1>1, <1>5, <1>6, <1>7 DEF OrderInv

LEMMA OrderTake ==
  ASSUME TypeOK, OrderInv, SendTake
  PROVE  OrderInv'
<1> DEFINE q == queue[cur]
<1>1. /\ sndPc = "take" /\ sndPc' = "send" /\ q # <<>> /\ chunk' = Head(q)
      /\ UNCHANGED <<pubPc, pubTodo, chunks, queue, wire, cur>>
  BY DEF SendTake, notSnd, pubVars, sessVars, flowVars
<1>2. cur \in Sub /\ q \in Seq(Element) /\ wire[cur] \in Seq(Element)
  BY DEF TypeOK
<1>3. 1 \in 1..Len(q) /\ chunk' = q[1]
  BY <1>1, <1>2
<1>4. \A i \in 1..Len(wire[cur]), j \in 1..Len(q) : wire[cur][i].n < q[j].n
  BY <1>1, <1>2 DEF OrderInv, WireBeforeQueue, InFlight
<1>5. \A j \in 1..Len(q) : j = 1 \/ q[1].n < q[j].n
  BY <1>2, <1>3 DEF OrderInv, Increasing
<1>6. SendInOrder'
  BY <1>1, <1>3, <1>4, <1>5 DEF SendInOrder, Below
<1>7. ASSUME NEW s \in Sub
      PROVE  /\ Increasing(queue[s])' /\ Increasing(wire[s])'
             /\ Below(queue[s], Limit(s))' /\ Below(wire[s], Limit(s))'
             /\ WireBeforeQueue(s)'
  BY <1>1 DEF OrderInv, Increasing, Below, Limit, WireBeforeQueue, InFlight
<1>8. chunk'.n < Limit(cur)
  BY <1>2, <1>3 DEF OrderInv, Below
<1>9. \A s \in Sub : (sndPc = "send" /\ cur = s => chunk.n < Limit(s))'
  BY <1>1, <1>8 DEF Limit
<1> QED  BY <1>1, <1>6, <1>7, <1>9 DEF OrderInv

LEMMA OrderSend ==
  ASSUME TypeOK, OrderInv, SendOk
  PROVE  OrderInv'
<1> DEFINE w == wire[cur]
<1>1. /\ sndPc = "send" /\ sndPc' = "pop" /\ wire' = [wire EXCEPT ![cur] = Append(w, chunk)]
      /\ UNCHANGED <<pubPc, pubTodo, chunks, queue, chunk, cur>>
  BY DEF SendOk, notSnd, pubVars, flowVars, sndLocals
<1>2. cur \in Sub /\ w \in Seq(Element) /\ chunk \in Element /\ wire'[cur] = Append(w, chunk)
  BY <1>1 DEF TypeOK
<1>3. SendInOrder /\ Increasing(w) /\ Below(w, chunk.n) /\ chunk.n < Limit(cur)
      /\ Below(w, Limit(cur)) /\ Limit(cur) \in Nat
  BY <1>1, <1>2, LimitType DEF OrderInv, SendInOrder, Limit, TypeOK
<1>4. Increasing(Append(w, chunk)) /\ Below(Append(w, chunk), Limit(cur))
  BY <1>2, <1>3, IncreasingAppend, BelowAppend
<1>5. ASSUME NEW i \in 1..Len(Append(w, chunk)), NEW j \in 1..Len(queue[cur])
      PROVE  \/ Append(w, chunk)[i].n < queue[cur][j].n
             \/ j = 1 /\ queue[cur][j] = chunk
  <2>1. \/ i \in 1..Len(w) /\ Append(w, chunk)[i] = w[i]
        \/ Append(w, chunk)[i] = chunk
    BY <1>2, AppendFacts
  <2>2. CASE i \in 1..Len(w) /\ Append(w, chunk)[i] = w[i]
    BY <1>1, <1>2, <2>2 DEF OrderInv, WireBeforeQueue, InFlight
  <2>3. CASE Append(w, chunk)[i] = chunk
    BY <1>1, <1>3, <2>3 DEF SendInOrder
  <2> QED  BY <2>1, <2>2, <2>3
<1>6. ASSUME NEW s \in Sub
      PROVE  /\ Increasing(queue[s])' /\ Increasing(wire[s])'
             /\ Below(queue[s], Limit(s))' /\ Below(wire[s], Limit(s))'
             /\ WireBeforeQueue(s)'
  <2>1. CASE s # cur
    <3>1. wire'[s] = wire[s] /\ Limit(s)' = Limit(s) /\ queue'[s] = queue[s]
      BY <1>1, <2>1 DEF TypeOK, Limit
    <3> QED  BY <1>1, <2>1, <3>1 DEF OrderInv, Increasing, Below, WireBeforeQueue,
          InFlight
  <2>2. CASE s = cur
    <3>1. Limit(s)' = Limit(s) /\ queue'[s] = queue[s]
      BY <1>1 DEF Limit
    <3>2. WireBeforeQueue(s)'
      BY <1>1, <1>2, <1>5, <2>2, <3>1 DEF WireBeforeQueue, InFlight
    <3> QED  BY <1>1, <1>2, <1>4, <2>2, <3>1, <3>2 DEF OrderInv, Increasing, Below
  <2> QED  BY <2>1, <2>2
<1>7. SendInOrder' /\ \A s \in Sub : (sndPc = "send" /\ cur = s => chunk.n < Limit(s))'
  BY <1>1 DEF SendInOrder
<1> QED  BY <1>1, <1>6, <1>7 DEF OrderInv

LEMMA PoppedFacts ==
  ASSUME NEW q \in Seq(Element), NEW c
  PROVE  \/ Popped(q, c) = q /\ (q = <<>> \/ q[1] # c)
         \/ Popped(q, c) = Tail(q) /\ q # <<>>
BY DEF Popped

LEMMA OrderPop ==
  ASSUME TypeOK, OrderInv, SendPop
  PROVE  OrderInv'
<1> DEFINE q == queue[cur]
<1>1. /\ sndPc = "pop" /\ sndPc' = "take" /\ queue' = [queue EXCEPT ![cur] = Popped(q, chunk)]
      /\ UNCHANGED <<pubPc, pubTodo, chunks, wire, cur>>
  BY DEF SendPop, notSnd, pubVars
<1>2. cur \in Sub /\ q \in Seq(Element) /\ queue'[cur] = Popped(q, chunk)
  BY <1>1 DEF TypeOK
<1>3. Increasing(q) /\ Below(q, Limit(cur)) /\ WireBeforeQueue(cur)
  BY <1>2 DEF OrderInv
<1>4. Increasing(Popped(q, chunk)) /\ Below(Popped(q, chunk), Limit(cur))
  BY <1>2, <1>3, PoppedFacts, IncreasingTail, BelowTail
<1>5. ASSUME NEW i \in 1..Len(wire[cur]), NEW j \in 1..Len(Popped(q, chunk))
      PROVE  wire[cur][i].n < Popped(q, chunk)[j].n
  <2>1. CASE Popped(q, chunk) = q /\ (q = <<>> \/ q[1] # chunk)
    BY <1>2, <1>3, <2>1 DEF WireBeforeQueue
  <2>2. CASE Popped(q, chunk) = Tail(q) /\ q # <<>>
    <3>1. Popped(q, chunk)[j] = q[j + 1] /\ j + 1 \in 1..Len(q) /\ j + 1 # 1
      BY <1>2, <2>2, TailFacts
    <3> QED  BY <1>3, <3>1 DEF WireBeforeQueue
  <2> QED  BY <1>2, <2>1, <2>2, PoppedFacts
<1>6. ASSUME NEW s \in Sub
      PROVE  /\ Increasing(queue[s])' /\ Increasing(wire[s])'
             /\ Below(queue[s], Limit(s))' /\ Below(wire[s], Limit(s))'
             /\ WireBeforeQueue(s)'
  <2>1. wire'[s] = wire[s] /\ Limit(s)' = Limit(s)
    BY <1>1 DEF Limit
  <2>2. CASE s # cur
    <3>1. queue'[s] = queue[s]
      BY <1>1, <2>2 DEF TypeOK
    <3> QED  BY <1>1, <2>1, <2>2, <3>1 DEF OrderInv, Increasing, Below,
          WireBeforeQueue, InFlight
  <2>3. CASE s = cur
    <3>1. WireBeforeQueue(s)'
      BY <1>1, <1>2, <1>5, <2>1, <2>3 DEF WireBeforeQueue
    <3> QED  BY <1>2, <1>4, <2>1, <2>3, <3>1 DEF OrderInv, Increasing, Below
  <2> QED  BY <2>2, <2>3
<1>7. SendInOrder' /\ \A s \in Sub : (sndPc = "send" /\ cur = s => chunk.n < Limit(s))'
  BY <1>1 DEF SendInOrder
<1> QED  BY <1>1, <1>6, <1>7 DEF OrderInv

LEMMA OrderInit == Init => OrderInv
BY DEF Init, OrderInv, Increasing, Below, WireBeforeQueue, SendInOrder

LEMMA OrderStep == TypeOK /\ OrderInv /\ [Next]_vars => OrderInv'
<1> SUFFICES ASSUME TypeOK, OrderInv, [Next]_vars PROVE OrderInv'
  OBVIOUS
<1> USE DEF mainVars, accVars, linkVars, flowVars, sessVars, pubVars, sndLocals,
            sndVars, monVars, sharedVars, notAcc, notPub, notSnd, notMon, notNet
<1>1. CASE UNCHANGED vars
  BY <1>1, OrderClear DEF vars
<1>2. CASE Acceptor
  <2>1. ASSUME NEW s \in Sub, AcceptRefuse(s) PROVE OrderInv'
    BY <2>1, OrderClear DEF AcceptRefuse
  <2>2. ASSUME NEW s \in Sub, Accept(s) PROVE OrderInv'
    BY <2>2, OrderClear DEF Accept
  <2>3. CASE AccTop
    BY <2>3, OrderClear DEF AccTop
  <2>4. CASE AccInsert
    BY <2>4, OrderClear DEF AccInsert
  <2>5. CASE AccWake
    BY <2>5, OrderClear DEF AccWake
  <2>6. CASE AccExit
    BY <2>6, OrderClear DEF AccExit
  <2> QED  BY <1>2, <2>1, <2>2, <2>3, <2>4, <2>5, <2>6 DEF Acceptor
<1>3. CASE Publisher
  <2>1. ASSUME NEW s \in Sub, PushSkip(s) PROVE OrderInv'
    <3>1. /\ UNCHANGED <<wire, queue, sndPc, cur, chunk, chunks, pubPc>>
          /\ pubTodo' = pubTodo \ {s} /\ pubPc = "push" /\ chunks \in Nat
      BY <2>1 DEF PushSkip, TypeOK
    <3>2. \A t \in Sub : Limit(t)' >= Limit(t)
      BY <3>1 DEF Limit
    <3> QED  BY <3>1, <3>2, OrderLimit
  <2>2. ASSUME NEW s \in Sub, PushUnsynced(s) PROVE OrderInv'
    <3>1. /\ UNCHANGED <<wire, queue, sndPc, cur, chunk, chunks, pubPc>>
          /\ pubTodo' = pubTodo \ {s} /\ pubPc = "push" /\ chunks \in Nat
      BY <2>2 DEF PushUnsynced, TypeOK
    <3>2. \A t \in Sub : Limit(t)' >= Limit(t)
      BY <3>1 DEF Limit
    <3> QED  BY <3>1, <3>2, OrderLimit
  <2>3. ASSUME NEW s \in Sub, Push(s) PROVE OrderInv'
    BY <2>3, OrderPush
  <2>4. CASE BroadcastBegin
    <3>1. /\ UNCHANGED <<wire, queue, sndPc, cur, chunk>> /\ chunks' = chunks + 1
          /\ pubPc = "recv" /\ pubPc' = "push" /\ chunks \in Nat
      BY <2>4 DEF BroadcastBegin, TypeOK
    <3>2. \A t \in Sub : Limit(t)' >= Limit(t)
      BY <3>1 DEF Limit, OrderInv
    <3> QED  BY <3>1, <3>2, OrderLimit
  <2>5. CASE BroadcastEnd
    <3>1. /\ UNCHANGED <<wire, queue, sndPc, cur, chunk, chunks, pubTodo>>
          /\ pubTodo = {} /\ chunks \in Nat
      BY <2>5 DEF BroadcastEnd, TypeOK, OrderInv
    <3>2. \A t \in Sub : Limit(t)' >= Limit(t)
      BY <3>1 DEF Limit
    <3> QED  BY <3>1, <3>2, OrderLimit
  <2>6. CASE PubWake
    <3>1. /\ UNCHANGED <<wire, queue, sndPc, cur, chunk, chunks, pubTodo>>
          /\ pubTodo = {} /\ chunks \in Nat
      BY <2>6 DEF PubWake, TypeOK, OrderInv
    <3>2. \A t \in Sub : Limit(t)' >= Limit(t)
      BY <3>1 DEF Limit
    <3> QED  BY <3>1, <3>2, OrderLimit
  <2>7. CASE PubExit
    <3>1. /\ UNCHANGED <<wire, queue, sndPc, cur, chunk, chunks, pubTodo>>
          /\ pubTodo = {} /\ chunks \in Nat
      BY <2>7 DEF PubExit, TypeOK, OrderInv
    <3>2. \A t \in Sub : Limit(t)' >= Limit(t)
      BY <3>1 DEF Limit
    <3> QED  BY <3>1, <3>2, OrderLimit
  <2> QED  BY <1>3, <2>1, <2>2, <2>3, <2>4, <2>5, <2>6, <2>7 DEF Publisher
<1>4. CASE Sender
  <2>1. ASSUME NEW s \in Sub, SyncDead(s) PROVE OrderInv'
    BY <2>1, OrderClear DEF SyncDead
  <2>2. ASSUME NEW s \in Sub, SyncDepth(s) PROVE OrderInv'
    BY <2>2, OrderClear DEF SyncDepth
  <2>3. ASSUME NEW s \in Sub, WriteSkip(s) PROVE OrderInv'
    BY <2>3, OrderClear DEF WriteSkip
  <2>4. ASSUME NEW s \in Sub, WriteBroken(s) PROVE OrderInv'
    BY <2>4, OrderClear DEF WriteBroken
  <2>5. ASSUME NEW s \in Sub, WriteBegin(s) PROVE OrderInv'
    BY <2>5, OrderClear DEF WriteBegin
  <2>6. CASE SndExit
    BY <2>6, OrderClear DEF SndExit
  <2>7. CASE SndTop
    BY <2>7, OrderClear DEF SndTop
  <2>8. CASE SyncErase
    BY <2>8, OrderClear DEF SyncErase
  <2>9. CASE SyncStop
    BY <2>9, OrderClear DEF SyncStop, StopAll, Live, TypeOK
  <2>10. CASE SyncApply
    BY <2>10, OrderClear DEF SyncApply
  <2>11. CASE SyncDone
    BY <2>11, OrderClear DEF SyncDone
  <2>12. CASE SndEvents
    BY <2>12, OrderClear DEF SndEvents
  <2>13. CASE SndTimeout
    BY <2>13, OrderClear DEF SndTimeout
  <2>14. CASE SendTake
    BY <2>14, OrderTake
  <2>15. CASE SendNone
    BY <2>15, OrderClear DEF SendNone
  <2>16. CASE SendOk
    BY <2>16, OrderSend
  <2>17. CASE SendBlocked
    BY <2>17, OrderClear DEF SendBlocked
  <2>18. CASE SendFailed
    BY <2>18, OrderClear DEF SendFailed
  <2>19. CASE SendPop
    BY <2>19, OrderPop
  <2>20. CASE WriteAfter
    BY <2>20, OrderClear DEF WriteAfter
  <2>21. CASE WriteQuiet
    BY <2>21, OrderClear DEF WriteQuiet
  <2>22. CASE WriteDone
    BY <2>22, OrderClear DEF WriteDone
  <2> QED  BY <1>4, <2>1, <2>2, <2>3, <2>4, <2>5, <2>6, <2>7, <2>8, <2>9, <2>10, <2>11,
        <2>12, <2>13, <2>14, <2>15, <2>16, <2>17, <2>18, <2>19, <2>20, <2>21, <2>22 DEF Sender
<1>5. CASE Monitor
  <2>1. ASSUME NEW s \in Sub, MonGiveUp(s) PROVE OrderInv'
    BY <2>1, OrderClear DEF MonGiveUp
  <2>2. ASSUME NEW s \in Sub, NEW a \in Actions, MonEvaluate(s, a) PROVE OrderInv'
    <3>1. /\ UNCHANGED <<pubPc, pubTodo, chunks, wire, sndPc, cur, chunk>>
          /\ queue' = queue \/ queue' = [queue EXCEPT ![s] = <<>>]
      BY <2>2, Zenon DEF MonEvaluate
    <3>2. \A t \in Sub : queue'[t] = queue[t] \/ queue'[t] = <<>>
      BY <3>1 DEF TypeOK
    <3> QED  BY <3>1, <3>2, OrderClear
  <2>3. CASE MonBegin
    BY <2>3, OrderClear DEF MonBegin
  <2>4. CASE MonClose
    BY <2>4, OrderClear DEF MonClose
  <2>5. CASE MonWake
    BY <2>5, OrderClear DEF MonWake
  <2>6. CASE MonExit
    BY <2>6, OrderClear DEF MonExit
  <2> QED  BY <1>5, <2>1, <2>2, <2>3, <2>4, <2>5, <2>6 DEF Monitor
<1>6. CASE Network
  <2>1. ASSUME NEW s \in Sub, Break(s) PROVE OrderInv'
    BY <2>1, OrderClear DEF Break
  <2>2. ASSUME NEW s \in Sub, Drain(s) PROVE OrderInv'
    BY <2>2, OrderClear DEF Drain
  <2> QED  BY <1>6, <2>1, <2>2 DEF Network
<1>7. CASE Main
  <2>1. CASE Signal
    BY <2>1, OrderClear DEF Signal
  <2>2. CASE StopBegin
    BY <2>2, OrderClear DEF StopBegin
  <2>3. CASE StopEnd
    BY <2>3, OrderClear DEF StopEnd, StopAll, Live, TypeOK
  <2>4. CASE Stopped
    BY <2>4, OrderClear DEF Stopped, vars
  <2> QED  BY <1>7, <2>1, <2>2, <2>3, <2>4 DEF Main
<1> QED  BY <1>1, <1>2, <1>3, <1>4, <1>5, <1>6, <1>7 DEF Next
-----------------------------------------------------------------------------
(* Accounting: chunks that left a queue were sent or are counted.          *)

\* The chunk being popped has reached the wire, and a session that was not
\* stopped has every accepted chunk on the wire, queued, or counted as dropped.
SentIsOnWire == sndPc = "pop" => chunk.n \in Numbers(wire[cur])
LossInv ==
    /\ SentIsOnWire
    /\ \A s \in Sub :
           /\ sock[s] = "none" => sess[s] = "none"
           /\ sess[s] # "stopped" =>
                accepted[s] \subseteq Numbers(wire[s]) \cup Numbers(queue[s]) \cup dropped[s]

LEMMA NumbersAppend ==
  ASSUME NEW q \in Seq(Element), NEW e \in Element
  PROVE  Numbers(Append(q, e)) = Numbers(q) \cup {e.n}
<1>1. ASSUME NEW m \in Numbers(q) PROVE m \in Numbers(Append(q, e))
  <2>1. PICK i \in 1..Len(q) : m = q[i].n
    BY <1>1 DEF Numbers
  <2>2. i \in DOMAIN Append(q, e) /\ Append(q, e)[i] = q[i]
    BY AppendFacts
  <2> QED  BY <2>1, <2>2 DEF Numbers
<1>2. e.n \in Numbers(Append(q, e))
  <2>1. Len(q) + 1 \in DOMAIN Append(q, e) /\ Append(q, e)[Len(q) + 1] = e
    BY AppendFacts
  <2> QED  BY <2>1 DEF Numbers
<1>3. ASSUME NEW m \in Numbers(Append(q, e)) PROVE m \in Numbers(q) \cup {e.n}
  <2>1. PICK i \in 1..Len(Append(q, e)) : m = Append(q, e)[i].n
    BY <1>3, AppendFacts DEF Numbers
  <2>2. CASE i = Len(q) + 1
    BY <2>1, <2>2, AppendFacts
  <2>3. CASE i # Len(q) + 1
    <3>1. i \in DOMAIN q /\ Append(q, e)[i] = q[i]
      BY <2>1, <2>3, AppendFacts
    <3> QED  BY <2>1, <3>1 DEF Numbers
  <2> QED  BY <2>2, <2>3
<1> QED  BY <1>1, <1>2, <1>3

LEMMA NumbersTail ==
  ASSUME NEW q \in Seq(Element), q # <<>>
  PROVE  Numbers(q) \subseteq Numbers(Tail(q)) \cup {q[1].n}
<1>1. SUFFICES ASSUME NEW m \in Numbers(q), m # q[1].n PROVE m \in Numbers(Tail(q))
  OBVIOUS
<1>2. PICK i \in 1..Len(q) : m = q[i].n
  BY <1>1 DEF Numbers
<1>3. i - 1 \in DOMAIN Tail(q) /\ Tail(q)[i - 1] = q[i]
  BY <1>1, <1>2
<1> QED  BY <1>2, <1>3 DEF Numbers

LEMMA NumbersPopped ==
  ASSUME NEW q \in Seq(Element), NEW c
  PROVE  Numbers(q) \subseteq Numbers(Popped(q, c)) \cup {c.n}
<1>1. CASE Popped(q, c) = q
  BY <1>1
<1>2. CASE Popped(q, c) # q
  <2>1. q # <<>> /\ q[1] = c /\ Popped(q, c) = Tail(q)
    BY <1>2 DEF Popped
  <2> QED  BY <2>1, NumbersTail
<1> QED  BY <1>1, <1>2

\* A step that accepts no chunk keeps the accounts if it forgets none.
LEMMA LossFrame ==
  ASSUME TypeOK, LossInv, UNCHANGED <<accepted, wire>>,
         sndPc' = "pop" => UNCHANGED <<sndPc, cur, chunk>>,
         \A s \in Sub :
             /\ sock'[s] = "none" => sock[s] = "none"
             /\ sess'[s] = sess[s] \/ sess'[s] = "stopped" \/ (sess[s] = "none" /\ sock'[s] # "none")
             /\ sess[s] = "none" /\ sock'[s] = "none" => sess'[s] = "none"
             /\ \/ sess'[s] = "stopped"
                \/ UNCHANGED <<queue[s], dropped[s]>>
                \/ Numbers(wire[s]) \cup Numbers(queue[s]) \cup dropped[s] \subseteq
                     Numbers(wire[s]) \cup Numbers(queue'[s]) \cup dropped'[s]
  PROVE  LossInv'
<1>1. SentIsOnWire'
  BY DEF LossInv, SentIsOnWire
<1>2. ASSUME NEW s \in Sub
      PROVE  (/\ sock[s] = "none" => sess[s] = "none"
              /\ sess[s] # "stopped" =>
                   accepted[s] \subseteq Numbers(wire[s]) \cup Numbers(queue[s]) \cup dropped[s])'
  <2>1. (sock[s] = "none" => sess[s] = "none")'
    BY DEF LossInv
  <2>2. ASSUME sess'[s] # "stopped"
        PROVE  accepted[s] \subseteq Numbers(wire[s]) \cup Numbers(queue'[s]) \cup dropped'[s]
    <3>1. accepted[s] \subseteq Numbers(wire[s]) \cup Numbers(queue[s]) \cup dropped[s]
      BY <2>2 DEF LossInv
    <3> QED  BY <2>2, <3>1
  <2> QED  BY <2>1, <2>2
<1> QED  BY <1>1, <1>2 DEF LossInv

LEMMA LossPush ==
  ASSUME TypeOK, LossInv, NEW s \in Sub, Push(s)
  PROVE  LossInv'
<1> DEFINE e == [n |-> chunks, null |-> action[s] = "Placeholder"]
           kept == Kept(queue[s], action[s])
<1>1. /\ queue' = [queue EXCEPT ![s] = Append(kept, e)]
      /\ accepted' = [accepted EXCEPT ![s] = @ \cup {chunks}]
      /\ UNCHANGED <<wire, sndPc, cur, chunk, sess, sock>>
  BY DEF Push, notPub, sndVars, sndLocals, linkVars
<1>2. dropped' = [dropped EXCEPT ![s] = @ \cup (Numbers(queue[s]) \ Numbers(kept))
                       \cup (IF action[s] = "Placeholder" THEN {chunks} ELSE {})]
  BY DEF Push
<1>3. Numbers(Append(kept, e)) = Numbers(kept) \cup {chunks}
  <2>1. e \in Element /\ kept \in Seq(Element)
    BY KeptType DEF TypeOK, Element
  <2> QED  BY <2>1, NumbersAppend
<1>4. ASSUME NEW t \in Sub
      PROVE  (/\ sock[t] = "none" => sess[t] = "none"
              /\ sess[t] # "stopped" =>
                   accepted[t] \subseteq Numbers(wire[t]) \cup Numbers(queue[t]) \cup dropped[t])'
  <2>1. (sock[t] = "none" => sess[t] = "none")'
    BY <1>1 DEF LossInv
  <2>2. CASE t # s
    <3>1. accepted'[t] = accepted[t] /\ queue'[t] = queue[t] /\ dropped'[t] = dropped[t]
      BY <1>1, <1>2, <2>2 DEF TypeOK
    <3> QED  BY <1>1, <2>1, <3>1 DEF LossInv
  <2>3. CASE t = s
    <3>1. /\ accepted'[s] = accepted[s] \cup {chunks} /\ queue'[s] = Append(kept, e)
          /\ dropped[s] \cup (Numbers(queue[s]) \ Numbers(kept)) \subseteq dropped'[s]
      BY <1>1, <1>2 DEF TypeOK
    <3>2. sess[s] # "stopped" =>
            accepted[s] \subseteq Numbers(wire[s]) \cup Numbers(queue[s]) \cup dropped[s]
      BY DEF LossInv
    <3>3. sess'[s] # "stopped" =>
            accepted'[s] \subseteq Numbers(wire[s]) \cup Numbers(Append(kept, e)) \cup dropped'[s]
      BY <1>1, <1>3, <3>1, <3>2
    <3> QED  BY <1>1, <2>1, <2>3, <3>1, <3>3
  <2> QED  BY <2>2, <2>3
<1>5. SentIsOnWire'
  BY <1>1 DEF LossInv, SentIsOnWire
<1> QED  BY <1>4, <1>5 DEF LossInv

LEMMA LossSend ==
  ASSUME TypeOK, LossInv, SendOk
  PROVE  LossInv'
<1>1. /\ wire' = [wire EXCEPT ![cur] = Append(@, chunk)]
      /\ UNCHANGED <<accepted, queue, dropped, chunk, cur, sess, sock>>
  BY DEF SendOk, notSnd, pubVars, flowVars, sndLocals
<1>2. cur \in Sub /\ wire[cur] \in Seq(Element) /\ chunk \in Element
  BY DEF TypeOK
<1>3. wire'[cur] = Append(wire[cur], chunk)
  BY <1>1 DEF TypeOK
<1>4. Numbers(wire'[cur]) = Numbers(wire[cur]) \cup {chunk.n}
  BY <1>2, <1>3, NumbersAppend
<1>5. ASSUME NEW s \in Sub PROVE Numbers(wire[s]) \subseteq Numbers(wire'[s])
  BY <1>1, <1>4 DEF TypeOK
<1>6. SentIsOnWire'
  <2>1. chunk.n \in Numbers(wire'[cur])
    BY <1>4
  <2> QED  BY <1>1, <2>1 DEF SentIsOnWire
<1>7. ASSUME NEW s \in Sub
      PROVE  (/\ sock[s] = "none" => sess[s] = "none"
              /\ sess[s] # "stopped" =>
                   accepted[s] \subseteq Numbers(wire[s]) \cup Numbers(queue[s]) \cup dropped[s])'
  <2>1. Numbers(wire[s])' = Numbers(wire'[s]) /\ Numbers(queue[s])' = Numbers(queue[s])
    BY <1>1 DEF Numbers
  <2> QED  BY <1>1, <1>5, <2>1 DEF LossInv
<1> QED  BY <1>6, <1>7 DEF LossInv

LEMMA LossPop ==
  ASSUME TypeOK, LossInv, SendPop
  PROVE  LossInv'
<1>1. /\ queue' = [queue EXCEPT ![cur] = Popped(@, chunk)] /\ sndPc = "pop" /\ sndPc' = "take"
      /\ UNCHANGED <<accepted, wire, dropped, sess, sock>>
  BY DEF SendPop, notSnd, linkVars
<1>2. cur \in Sub /\ queue[cur] \in Seq(Element)
  BY DEF TypeOK
<1>3. chunk.n \in Numbers(wire[cur])
  BY <1>1 DEF LossInv, SentIsOnWire
<1>4. ASSUME NEW s \in Sub
      PROVE  Numbers(wire[s]) \cup Numbers(queue[s]) \cup dropped[s] \subseteq
                Numbers(wire[s]) \cup Numbers(queue'[s]) \cup dropped'[s]
  <2>1. CASE s # cur
    BY <1>1, <2>1 DEF TypeOK
  <2>2. CASE s = cur
    <3>1. queue'[cur] = Popped(queue[cur], chunk)
      BY <1>1 DEF TypeOK
    <3>2. Numbers(queue[cur]) \subseteq Numbers(queue'[cur]) \cup {chunk.n}
      BY <1>2, <3>1, NumbersPopped
    <3> QED  BY <1>1, <1>3, <2>2, <3>2
  <2> QED  BY <2>1, <2>2
<1> QED  BY <1>1, <1>4, LossFrame

LEMMA LossInit == Init => LossInv
BY DEF Init, LossInv, SentIsOnWire

LEMMA LossStep == TypeOK /\ LossInv /\ [Next]_vars => LossInv'
<1> SUFFICES ASSUME TypeOK, LossInv, [Next]_vars PROVE LossInv'
  OBVIOUS
<1> USE DEF mainVars, accVars, linkVars, flowVars, sessVars, pubVars, sndLocals,
            sndVars, monVars, sharedVars, notAcc, notPub, notSnd, notMon, notNet
<1>1. CASE UNCHANGED vars
  BY <1>1, LossFrame DEF vars
<1>2. CASE Acceptor
  <2>1. ASSUME NEW s \in Sub, AcceptRefuse(s) PROVE LossInv'
    BY <2>1, LossFrame DEF AcceptRefuse, TypeOK, LossInv
  <2>2. ASSUME NEW s \in Sub, Accept(s) PROVE LossInv'
    BY <2>2, LossFrame DEF Accept, TypeOK, LossInv
  <2>3. CASE AccTop
    BY <2>3, LossFrame DEF AccTop
  <2>4. CASE AccInsert
    BY <2>4, LossFrame DEF AccInsert
  <2>5. CASE AccWake
    BY <2>5, LossFrame DEF AccWake
  <2>6. CASE AccExit
    BY <2>6, LossFrame DEF AccExit
  <2> QED  BY <1>2, <2>1, <2>2, <2>3, <2>4, <2>5, <2>6 DEF Acceptor
<1>3. CASE Publisher
  <2>1. ASSUME NEW s \in Sub, PushSkip(s) PROVE LossInv'
    BY <2>1, LossFrame DEF PushSkip
  <2>2. ASSUME NEW s \in Sub, PushUnsynced(s) PROVE LossInv'
    BY <2>2, LossFrame DEF PushUnsynced
  <2>3. ASSUME NEW s \in Sub, Push(s) PROVE LossInv'
    BY <2>3, LossPush
  <2>4. CASE BroadcastBegin
    BY <2>4, LossFrame DEF BroadcastBegin
  <2>5. CASE BroadcastEnd
    BY <2>5, LossFrame DEF BroadcastEnd
  <2>6. CASE PubWake
    BY <2>6, LossFrame DEF PubWake
  <2>7. CASE PubExit
    BY <2>7, LossFrame DEF PubExit
  <2> QED  BY <1>3, <2>1, <2>2, <2>3, <2>4, <2>5, <2>6, <2>7 DEF Publisher
<1>4. CASE Sender
  <2>1. ASSUME NEW s \in Sub, SyncDead(s) PROVE LossInv'
    BY <2>1, LossFrame DEF SyncDead
  <2>2. ASSUME NEW s \in Sub, SyncDepth(s) PROVE LossInv'
    BY <2>2, LossFrame DEF SyncDepth, WantsWrite
  <2>3. ASSUME NEW s \in Sub, WriteSkip(s) PROVE LossInv'
    BY <2>3, LossFrame DEF WriteSkip
  <2>4. ASSUME NEW s \in Sub, WriteBroken(s) PROVE LossInv'
    BY <2>4, LossFrame DEF WriteBroken
  <2>5. ASSUME NEW s \in Sub, WriteBegin(s) PROVE LossInv'
    BY <2>5, LossFrame DEF WriteBegin
  <2>6. CASE SndExit
    BY <2>6, LossFrame DEF SndExit
  <2>7. CASE SndTop
    BY <2>7, LossFrame DEF SndTop
  <2>8. CASE SyncErase
    BY <2>8, LossFrame DEF SyncErase
  <2>9. CASE SyncStop
    <3>1. UNCHANGED <<accepted, wire, dropped, cur, chunk>> /\ sndPc' /= "pop"
      BY <2>9 DEF SyncStop
    <3>2. ASSUME NEW t \in Sub
          PROVE  /\ sock'[t] = "none" => sock[t] = "none"
                 /\ \/ sess'[t] = sess[t] /\ sock'[t] = sock[t] /\ queue'[t] = queue[t]
                    \/ sess'[t] = "stopped" /\ sock'[t] = "closed"
      BY <2>9 DEF SyncStop, StopAll
    <3> QED  BY <3>1, <3>2, LossFrame DEF LossInv
  <2>10. CASE SyncApply
    BY <2>10, LossFrame DEF SyncApply
  <2>11. CASE SyncDone
    BY <2>11, LossFrame DEF SyncDone
  <2>12. CASE SndEvents
    BY <2>12, LossFrame DEF SndEvents, SyncNeeded, OutReady
  <2>13. CASE SndTimeout
    BY <2>13, LossFrame DEF SndTimeout
  <2>14. CASE SendTake
    BY <2>14, LossFrame DEF SendTake, MoreInBurst
  <2>15. CASE SendNone
    BY <2>15, LossFrame DEF SendNone
  <2>16. CASE SendOk
    BY <2>16, LossSend
  <2>17. CASE SendBlocked
    BY <2>17, LossFrame DEF SendBlocked
  <2>18. CASE SendFailed
    BY <2>18, LossFrame DEF SendFailed
  <2>19. CASE SendPop
    BY <2>19, LossPop
  <2>20. CASE WriteAfter
    BY <2>20, LossFrame DEF WriteAfter
  <2>21. CASE WriteQuiet
    BY <2>21, LossFrame DEF WriteQuiet
  <2>22. CASE WriteDone
    BY <2>22, LossFrame DEF WriteDone
  <2> QED  BY <1>4, <2>1, <2>2, <2>3, <2>4, <2>5, <2>6, <2>7, <2>8, <2>9, <2>10, <2>11,
        <2>12, <2>13, <2>14, <2>15, <2>16, <2>17, <2>18, <2>19, <2>20, <2>21, <2>22 DEF Sender
<1>5. CASE Monitor
  <2>1. ASSUME NEW s \in Sub, MonGiveUp(s) PROVE LossInv'
    BY <2>1, LossFrame DEF MonGiveUp
  <2>2. ASSUME NEW s \in Sub, NEW a \in Actions, MonEvaluate(s, a) PROVE LossInv'
    <3>1. UNCHANGED <<accepted, wire, sndPc, cur, chunk, sess, sock>>
      BY <2>2, Zenon DEF MonEvaluate
    <3>2. \/ UNCHANGED <<queue, dropped>>
          \/ /\ queue' = [queue EXCEPT ![s] = <<>>]
             /\ dropped' = [dropped EXCEPT ![s] = @ \cup Numbers(queue[s])]
      BY <2>2, Zenon DEF MonEvaluate
    <3>3. ASSUME NEW t \in Sub
          PROVE  \/ UNCHANGED <<queue[t], dropped[t]>>
                 \/ Numbers(wire[t]) \cup Numbers(queue[t]) \cup dropped[t] \subseteq
                      Numbers(wire[t]) \cup Numbers(queue'[t]) \cup dropped'[t]
      BY <3>2 DEF TypeOK
    <3> QED  BY <3>1, <3>3, LossFrame
  <2>3. CASE MonBegin
    BY <2>3, LossFrame DEF MonBegin
  <2>4. CASE MonClose
    BY <2>4, LossFrame DEF MonClose
  <2>5. CASE MonWake
    BY <2>5, LossFrame DEF MonWake
  <2>6. CASE MonExit
    BY <2>6, LossFrame DEF MonExit
  <2> QED  BY <1>5, <2>1, <2>2, <2>3, <2>4, <2>5, <2>6 DEF Monitor
<1>6. CASE Network
  <2>1. ASSUME NEW s \in Sub, Break(s) PROVE LossInv'
    BY <2>1, LossFrame DEF Break, TypeOK
  <2>2. ASSUME NEW s \in Sub, Drain(s) PROVE LossInv'
    BY <2>2, LossFrame DEF Drain
  <2> QED  BY <1>6, <2>1, <2>2 DEF Network
<1>7. CASE Main
  <2>1. CASE Signal
    BY <2>1, LossFrame DEF Signal
  <2>2. CASE StopBegin
    BY <2>2, LossFrame DEF StopBegin
  <2>3. CASE StopEnd
    <3>1. UNCHANGED <<accepted, wire, dropped, cur, chunk>> /\ sndPc' /= "pop"
      BY <2>3 DEF StopEnd, Joined
    <3>2. ASSUME NEW t \in Sub
          PROVE  /\ sock'[t] = "none" => sock[t] = "none"
                 /\ \/ sess'[t] = sess[t] /\ sock'[t] = sock[t] /\ queue'[t] = queue[t]
                    \/ sess'[t] = "stopped" /\ sock'[t] = "closed"
      BY <2>3 DEF StopEnd, StopAll
    <3> QED  BY <3>1, <3>2, LossFrame DEF LossInv
  <2>4. CASE Stopped
    BY <2>4, LossFrame DEF Stopped, vars
  <2> QED  BY <1>7, <2>1, <2>2, <2>3, <2>4 DEF Main
<1> QED  BY <1>1, <1>2, <1>3, <1>4, <1>5, <1>6, <1>7 DEF Next
-----------------------------------------------------------------------------
(* The queue bound.                                                        *)

LEMMA BoundFrame ==
  ASSUME QueueBounded, \A s \in Sub : queue'[s] = queue[s] \/ queue'[s] = <<>>
  PROVE  QueueBounded'
BY BoundsAssumption DEF QueueBounded

LEMMA BoundPush ==
  ASSUME TypeOK, QueueBounded, NEW s \in Sub, Push(s)
  PROVE  QueueBounded'
<1> DEFINE e == [n |-> chunks, null |-> action[s] = "Placeholder"]
           kept == Kept(queue[s], action[s])
<1>1. queue' = [queue EXCEPT ![s] = Append(kept, e)]
  BY DEF Push
<1>2. e \in Element /\ kept \in Seq(Element) /\ queue[s] \in Seq(Element)
  BY KeptType DEF TypeOK, Element
<1>3. Len(kept) < QueueMax
  <2>1. Len(queue[s]) <= QueueMax
    BY DEF QueueBounded
  <2>2. CASE action[s] \in {"Placeholder", "Drop"}
    BY <2>2, BoundsAssumption DEF Kept
  <2>3. CASE action[s] \notin {"Placeholder", "Drop"} /\ Len(queue[s]) >= QueueMax
    <3>1. kept = Tail(queue[s]) /\ queue[s] # <<>>
      BY <1>2, <2>3, BoundsAssumption DEF Kept
    <3> QED  BY <1>2, <2>1, <3>1, TailFacts, BoundsAssumption
  <2>4. CASE action[s] \notin {"Placeholder", "Drop"} /\ ~(Len(queue[s]) >= QueueMax)
    BY <1>2, <2>4, BoundsAssumption DEF Kept
  <2> QED  BY <2>2, <2>3, <2>4
<1>4. Len(Append(kept, e)) <= QueueMax
  BY <1>2, <1>3, AppendFacts, BoundsAssumption
<1> QED  BY <1>1, <1>4 DEF QueueBounded, TypeOK

LEMMA BoundPop ==
  ASSUME TypeOK, QueueBounded, SendPop
  PROVE  QueueBounded'
<1>1. queue' = [queue EXCEPT ![cur] = Popped(@, chunk)] /\ queue[cur] \in Seq(Element)
  BY DEF SendPop, TypeOK
<1>2. Len(Popped(queue[cur], chunk)) <= QueueMax
  BY <1>1, PoppedFacts, TailFacts, BoundsAssumption DEF QueueBounded, TypeOK
<1> QED  BY <1>1, <1>2 DEF QueueBounded, TypeOK

LEMMA BoundStep == TypeOK /\ QueueBounded /\ [Next]_vars => QueueBounded'
<1> SUFFICES ASSUME TypeOK, QueueBounded, [Next]_vars PROVE QueueBounded'
  OBVIOUS
<1> USE DEF mainVars, accVars, linkVars, flowVars, sessVars, pubVars, sndLocals,
            sndVars, monVars, sharedVars, notAcc, notPub, notSnd, notMon, notNet
<1>1. CASE UNCHANGED vars
  BY <1>1, BoundFrame DEF vars
<1>2. CASE Acceptor
  <2>1. ASSUME NEW s \in Sub, AcceptRefuse(s) PROVE QueueBounded'
    BY <2>1, BoundFrame DEF AcceptRefuse
  <2>2. ASSUME NEW s \in Sub, Accept(s) PROVE QueueBounded'
    BY <2>2, BoundFrame DEF Accept
  <2>3. CASE AccTop
    BY <2>3, BoundFrame DEF AccTop
  <2>4. CASE AccInsert
    BY <2>4, BoundFrame DEF AccInsert
  <2>5. CASE AccWake
    BY <2>5, BoundFrame DEF AccWake
  <2>6. CASE AccExit
    BY <2>6, BoundFrame DEF AccExit
  <2> QED  BY <1>2, <2>1, <2>2, <2>3, <2>4, <2>5, <2>6 DEF Acceptor
<1>3. CASE Publisher
  <2>1. ASSUME NEW s \in Sub, PushSkip(s) PROVE QueueBounded'
    BY <2>1, BoundFrame DEF PushSkip
  <2>2. ASSUME NEW s \in Sub, PushUnsynced(s) PROVE QueueBounded'
    BY <2>2, BoundFrame DEF PushUnsynced
  <2>3. ASSUME NEW s \in Sub, Push(s) PROVE QueueBounded'
    BY <2>3, BoundPush
  <2>4. CASE BroadcastBegin
    BY <2>4, BoundFrame DEF BroadcastBegin
  <2>5. CASE BroadcastEnd
    BY <2>5, BoundFrame DEF BroadcastEnd
  <2>6. CASE PubWake
    BY <2>6, BoundFrame DEF PubWake
  <2>7. CASE PubExit
    BY <2>7, BoundFrame DEF PubExit
  <2> QED  BY <1>3, <2>1, <2>2, <2>3, <2>4, <2>5, <2>6, <2>7 DEF Publisher
<1>4. CASE Sender
  <2>1. ASSUME NEW s \in Sub, SyncDead(s) PROVE QueueBounded'
    BY <2>1, BoundFrame DEF SyncDead
  <2>2. ASSUME NEW s \in Sub, SyncDepth(s) PROVE QueueBounded'
    BY <2>2, BoundFrame DEF SyncDepth, WantsWrite
  <2>3. ASSUME NEW s \in Sub, WriteSkip(s) PROVE QueueBounded'
    BY <2>3, BoundFrame DEF WriteSkip
  <2>4. ASSUME NEW s \in Sub, WriteBroken(s) PROVE QueueBounded'
    BY <2>4, BoundFrame DEF WriteBroken
  <2>5. ASSUME NEW s \in Sub, WriteBegin(s) PROVE QueueBounded'
    BY <2>5, BoundFrame DEF WriteBegin
  <2>6. CASE SndExit
    BY <2>6, BoundFrame DEF SndExit
  <2>7. CASE SndTop
    BY <2>7, BoundFrame DEF SndTop
  <2>8. CASE SyncErase
    BY <2>8, BoundFrame DEF SyncErase
  <2>9. CASE SyncStop
    BY <2>9, BoundFrame DEF SyncStop, StopAll
  <2>10. CASE SyncApply
    BY <2>10, BoundFrame DEF SyncApply
  <2>11. CASE SyncDone
    BY <2>11, BoundFrame DEF SyncDone
  <2>12. CASE SndEvents
    BY <2>12, BoundFrame DEF SndEvents, SyncNeeded, OutReady
  <2>13. CASE SndTimeout
    BY <2>13, BoundFrame DEF SndTimeout
  <2>14. CASE SendTake
    BY <2>14, BoundFrame DEF SendTake, MoreInBurst
  <2>15. CASE SendNone
    BY <2>15, BoundFrame DEF SendNone
  <2>16. CASE SendOk
    BY <2>16, BoundFrame DEF SendOk
  <2>17. CASE SendBlocked
    BY <2>17, BoundFrame DEF SendBlocked
  <2>18. CASE SendFailed
    BY <2>18, BoundFrame DEF SendFailed
  <2>19. CASE SendPop
    BY <2>19, BoundPop
  <2>20. CASE WriteAfter
    BY <2>20, BoundFrame DEF WriteAfter
  <2>21. CASE WriteQuiet
    BY <2>21, BoundFrame DEF WriteQuiet
  <2>22. CASE WriteDone
    BY <2>22, BoundFrame DEF WriteDone
  <2> QED  BY <1>4, <2>1, <2>2, <2>3, <2>4, <2>5, <2>6, <2>7, <2>8, <2>9, <2>10, <2>11,
        <2>12, <2>13, <2>14, <2>15, <2>16, <2>17, <2>18, <2>19, <2>20, <2>21, <2>22 DEF Sender
<1>5. CASE Monitor
  <2>1. ASSUME NEW s \in Sub, MonGiveUp(s) PROVE QueueBounded'
    BY <2>1, BoundFrame DEF MonGiveUp
  <2>2. ASSUME NEW s \in Sub, NEW a \in Actions, MonEvaluate(s, a) PROVE QueueBounded'
    <3>1. queue' = queue \/ queue' = [queue EXCEPT ![s] = <<>>]
      BY <2>2, Zenon DEF MonEvaluate
    <3>2. \A t \in Sub : queue'[t] = queue[t] \/ queue'[t] = <<>>
      BY <3>1 DEF TypeOK
    <3> QED  BY <3>2, BoundFrame
  <2>3. CASE MonBegin
    BY <2>3, BoundFrame DEF MonBegin
  <2>4. CASE MonClose
    BY <2>4, BoundFrame DEF MonClose
  <2>5. CASE MonWake
    BY <2>5, BoundFrame DEF MonWake
  <2>6. CASE MonExit
    BY <2>6, BoundFrame DEF MonExit
  <2> QED  BY <1>5, <2>1, <2>2, <2>3, <2>4, <2>5, <2>6 DEF Monitor
<1>6. CASE Network
  <2>1. ASSUME NEW s \in Sub, Break(s) PROVE QueueBounded'
    BY <2>1, BoundFrame DEF Break
  <2>2. ASSUME NEW s \in Sub, Drain(s) PROVE QueueBounded'
    BY <2>2, BoundFrame DEF Drain
  <2> QED  BY <1>6, <2>1, <2>2 DEF Network
<1>7. CASE Main
  <2>1. CASE Signal
    BY <2>1, BoundFrame DEF Signal
  <2>2. CASE StopBegin
    BY <2>2, BoundFrame DEF StopBegin
  <2>3. CASE StopEnd
    BY <2>3, BoundFrame DEF StopEnd, StopAll
  <2>4. CASE Stopped
    BY <2>4, BoundFrame DEF Stopped, vars
  <2> QED  BY <1>7, <2>1, <2>2, <2>3, <2>4 DEF Main
<1> QED  BY <1>1, <1>2, <1>3, <1>4, <1>5, <1>6, <1>7 DEF Next
-----------------------------------------------------------------------------
(* A session that is closing takes and begins nothing more.                *)

LEMMA ClosingStep ==
  ASSUME TypeOK, [Next]_vars, NEW c \in Sub, closing[c]
  PROVE  /\ closing'[c] /\ accepted'[c] = accepted[c]
         /\ sndPc' = "send" /\ cur' = c => sndPc = "send"
<1> DEFINE Goal == /\ closing'[c] /\ accepted'[c] = accepted[c]
                   /\ sndPc' = "send" /\ cur' = c => sndPc = "send"
<1> USE DEF mainVars, accVars, linkVars, flowVars, sessVars, pubVars, sndLocals,
            sndVars, monVars, sharedVars, notAcc, notPub, notSnd, notMon, notNet
<1>1. CASE UNCHANGED vars
  BY <1>1 DEF vars
<1>2. CASE Acceptor
  <2>1. ASSUME NEW s \in Sub, AcceptRefuse(s) PROVE Goal
    BY <2>1 DEF AcceptRefuse, TypeOK
  <2>2. ASSUME NEW s \in Sub, Accept(s) PROVE Goal
    BY <2>2 DEF Accept, TypeOK
  <2>3. CASE AccTop
    BY <2>3 DEF AccTop, TypeOK
  <2>4. CASE AccInsert
    BY <2>4 DEF AccInsert, TypeOK
  <2>5. CASE AccWake
    BY <2>5 DEF AccWake, TypeOK
  <2>6. CASE AccExit
    BY <2>6 DEF AccExit, TypeOK
  <2> QED  BY <1>2, <2>1, <2>2, <2>3, <2>4, <2>5, <2>6 DEF Acceptor
<1>3. CASE Publisher
  <2>1. ASSUME NEW s \in Sub, PushSkip(s) PROVE Goal
    BY <2>1 DEF PushSkip, TypeOK
  <2>2. ASSUME NEW s \in Sub, PushUnsynced(s) PROVE Goal
    BY <2>2 DEF PushUnsynced, TypeOK
  <2>3. ASSUME NEW s \in Sub, Push(s) PROVE Goal
    BY <2>3 DEF Push, Running, TypeOK
  <2>4. CASE BroadcastBegin
    BY <2>4 DEF BroadcastBegin, TypeOK
  <2>5. CASE BroadcastEnd
    BY <2>5 DEF BroadcastEnd, TypeOK
  <2>6. CASE PubWake
    BY <2>6 DEF PubWake, TypeOK
  <2>7. CASE PubExit
    BY <2>7 DEF PubExit, TypeOK
  <2> QED  BY <1>3, <2>1, <2>2, <2>3, <2>4, <2>5, <2>6, <2>7 DEF Publisher
<1>4. CASE Sender
  <2>1. ASSUME NEW s \in Sub, SyncDead(s) PROVE Goal
    BY <2>1 DEF SyncDead, TypeOK
  <2>2. ASSUME NEW s \in Sub, SyncDepth(s) PROVE Goal
    BY <2>2 DEF SyncDepth, TypeOK
  <2>3. ASSUME NEW s \in Sub, WriteSkip(s) PROVE Goal
    BY <2>3 DEF WriteSkip, TypeOK
  <2>4. ASSUME NEW s \in Sub, WriteBroken(s) PROVE Goal
    BY <2>4 DEF WriteBroken, TypeOK
  <2>5. ASSUME NEW s \in Sub, WriteBegin(s) PROVE Goal
    BY <2>5 DEF WriteBegin, TypeOK
  <2>6. CASE SndExit
    BY <2>6 DEF SndExit, TypeOK
  <2>7. CASE SndTop
    BY <2>7 DEF SndTop, TypeOK
  <2>8. CASE SyncErase
    BY <2>8 DEF SyncErase, TypeOK
  <2>9. CASE SyncStop
    BY <2>9 DEF SyncStop, TypeOK
  <2>10. CASE SyncApply
    BY <2>10 DEF SyncApply, TypeOK
  <2>11. CASE SyncDone
    BY <2>11 DEF SyncDone, TypeOK
  <2>12. CASE SndEvents
    BY <2>12 DEF SndEvents, TypeOK
  <2>13. CASE SndTimeout
    BY <2>13 DEF SndTimeout, TypeOK
  <2>14. CASE SendTake
    BY <2>14 DEF SendTake, TypeOK
  <2>15. CASE SendNone
    BY <2>15 DEF SendNone, TypeOK
  <2>16. CASE SendOk
    BY <2>16 DEF SendOk, TypeOK
  <2>17. CASE SendBlocked
    BY <2>17 DEF SendBlocked, TypeOK
  <2>18. CASE SendFailed
    BY <2>18 DEF SendFailed, TypeOK
  <2>19. CASE SendPop
    BY <2>19 DEF SendPop, TypeOK
  <2>20. CASE WriteAfter
    BY <2>20 DEF WriteAfter, TypeOK
  <2>21. CASE WriteQuiet
    BY <2>21 DEF WriteQuiet, TypeOK
  <2>22. CASE WriteDone
    BY <2>22 DEF WriteDone, TypeOK
  <2> QED  BY <1>4, <2>1, <2>2, <2>3, <2>4, <2>5, <2>6, <2>7, <2>8, <2>9, <2>10, <2>11,
        <2>12, <2>13, <2>14, <2>15, <2>16, <2>17, <2>18, <2>19, <2>20, <2>21, <2>22 DEF Sender
<1>5. CASE Monitor
  <2>1. ASSUME NEW s \in Sub, MonGiveUp(s) PROVE Goal
    BY <2>1 DEF MonGiveUp, TypeOK
  <2>2. ASSUME NEW s \in Sub, NEW a \in Actions, MonEvaluate(s, a) PROVE Goal
    BY <2>2, Zenon DEF MonEvaluate
  <2>3. CASE MonBegin
    BY <2>3 DEF MonBegin, TypeOK
  <2>4. CASE MonClose
    BY <2>4 DEF MonClose, TypeOK
  <2>5. CASE MonWake
    BY <2>5 DEF MonWake, TypeOK
  <2>6. CASE MonExit
    BY <2>6 DEF MonExit, TypeOK
  <2> QED  BY <1>5, <2>1, <2>2, <2>3, <2>4, <2>5, <2>6 DEF Monitor
<1>6. CASE Network
  <2>1. ASSUME NEW s \in Sub, Break(s) PROVE Goal
    BY <2>1 DEF Break, TypeOK
  <2>2. ASSUME NEW s \in Sub, Drain(s) PROVE Goal
    BY <2>2 DEF Drain, TypeOK
  <2> QED  BY <1>6, <2>1, <2>2 DEF Network
<1>7. CASE Main
  <2>1. CASE Signal
    BY <2>1 DEF Signal, TypeOK
  <2>2. CASE StopBegin
    BY <2>2 DEF StopBegin, TypeOK
  <2>3. CASE StopEnd
    BY <2>3 DEF StopEnd, TypeOK
  <2>4. CASE Stopped
    BY <2>4 DEF Stopped, vars
  <2> QED  BY <1>7, <2>1, <2>2, <2>3, <2>4 DEF Main
<1> QED  BY <1>1, <1>2, <1>3, <1>4, <1>5, <1>6, <1>7 DEF Next
-----------------------------------------------------------------------------
(* The theorems.                                                           *)

IInv == TypeOK /\ BurstInv /\ OrderInv /\ LossInv /\ QueueBounded

LEMMA Invariant == Spec => []IInv
<1>1. Init => IInv
  <2>1. Init => QueueBounded
    BY BoundsAssumption DEF Init, QueueBounded
  <2> QED  BY <2>1, TypeInit, OrderInit, LossInit DEF IInv
<1>2. IInv /\ [Next]_vars => IInv'
  BY TypeStep, OrderStep, LossStep, BoundStep DEF IInv
<1> QED  BY <1>1, <1>2, PTL DEF Spec

\* Every reachable state is well typed, and a burst never exceeds its bound.
THEOREM TypeCorrect == Spec => []TypeOK
<1>1. IInv => TypeOK
  BY DEF IInv
<1> QED  BY <1>1, Invariant, PTL

\* The queue of a session never exceeds subscriber_queue_max_chunks, whatever
\* broadcast, the sender and the controller do with it.
THEOREM QueueBoundCorrect == Spec => []QueueBounded
<1>1. IInv => QueueBounded
  BY DEF IInv
<1> QED  BY <1>1, Invariant, PTL

\* Every subscriber receives chunks in broadcast order, none of them twice.
THEOREM OrderCorrect == Spec => []WireInOrder
<1>1. IInv => WireInOrder
  BY DEF IInv, OrderInv, WireInOrder
<1> QED  BY <1>1, Invariant, PTL

\* Every chunk a live session accepted was sent, is queued, or was counted.
THEOREM NoLossCorrect == Spec => []NoSilentLoss
<1>1. IInv => NoSilentLoss
  BY DEF IInv, LossInv, NoSilentLoss, Live
<1> QED  BY <1>1, Invariant, PTL

\* Once closing_ is set it stays set, nothing is accepted, no send begins.
THEOREM ClosingCorrect == Spec => ClosingIsFinal
<1>1. TypeOK /\ [Next]_vars =>
        [\A s \in Sub : closing[s] =>
           /\ closing'[s] /\ accepted'[s] = accepted[s]
           /\ sndPc' = "send" /\ cur' = s => sndPc = "send"]_vars
  BY ClosingStep
<1> QED  BY <1>1, TypeCorrect, PTL DEF Spec, ClosingIsFinal

(***************************************************************************)
(* Part 2: sessions.                                                       *)
(***************************************************************************)

(* Who holds sub_mu_, and what it has still to visit.                      *)
Visits ==
    /\ lock = "pub" <=> pubPc = "push"
    /\ lock = "mon" <=> monPc = "eval"
    /\ pubPc = "push" \/ pubTodo = {}
    /\ monPc = "eval" \/ monTodo = {}
    /\ pubTodo \subseteq subscribers /\ monTodo \subseteq subscribers

(* A live session is listed, or about to be inserted, or about to be       *)
(* stopped; it alone has an open socket.                                   *)
Entering(s) == accPc = "insert" /\ s = accSub
Leaving(s) == sndPc = "stop" /\ s = cur
Listed ==
    /\ \A s \in Sub : sess[s] = "live" <=> s \in subscribers \/ Entering(s) \/ Leaving(s)
    /\ accPc = "insert" => accSub \notin subscribers
    /\ sndPc = "stop" => cur \notin subscribers
    /\ accPc = "insert" /\ sndPc = "stop" => accSub # cur
    /\ \A s \in Sub : sess[s] # "live" => sock[s] \in {"none", "closed"}
    /\ \A s \in Sub : sock[s] = "none" => sess[s] = "none"

(* The sender's epoll set and its work lists name listed sessions only.    *)
Reaches ==
    /\ \A s \in Sub : reg[s] # "no" => s \in subscribers
    /\ sndPc = "done" => \A s \in Sub : reg[s] = "no"
    /\ sndPc \in {"erase", "stop"} => reg[cur] = "no"
    /\ sndPc \in {"erase", "apply", "take", "send", "pop", "after", "quiet"} =>
          cur \in subscribers
    /\ sndPc \in {"sync", "erase", "apply", "write", "take", "send", "pop", "after", "quiet"}
          => todo \subseteq subscribers
    /\ sndPc = "stop" => todo \subseteq subscribers \cup {cur}

Ended == stopPc = "done" => subscribers = {} /\ Joined

Counted == IsFiniteSet(subscribers) /\ CountExact

SafeInv == Visits /\ Listed /\ Reaches /\ Ended

(* The sender goes by each session it will not be woken for: it is on its  *)
(* list, or the list will be made anew.  The depth it read of the current  *)
(* one may be stale, and then a wake-up is under way.                      *)
Waiting(s) == s \in subscribers /\ ~closing[s] /\ queue[s] # <<>>
WakeInv ==
    /\ sndPc \in {"sync", "erase", "stop", "apply", "wait"} => ~needsSync
    /\ \A s \in Sub : Waiting(s) /\ reg[s] # "out" /\ sndPc # "done" =>
          \/ WakeComing \/ needsSync
          \/ (sndPc \in {"sync", "erase", "stop", "apply"} /\ s \in todo)
    /\ sndPc = "apply" /\ ~wants /\ Waiting(cur) => WakeComing
    /\ sndPc = "quiet" /\ Waiting(cur) => WakeComing

-----------------------------------------------------------------------------
LEMMA VisitsInit == Init => Visits
BY DEF Init, Visits

LEMMA VisitsStep == TypeOK /\ Visits /\ [Next]_vars => Visits'
<1> SUFFICES ASSUME TypeOK, Visits, [Next]_vars PROVE Visits'
  OBVIOUS
<1> USE DEF TypeOK, LockFree, Visits, mainVars, accVars, linkVars, flowVars, sessVars, pubVars,
        sndLocals, sndVars, monVars, sharedVars, notAcc, notPub, notSnd, notMon, notNet
<1>1. CASE UNCHANGED vars
  BY <1>1 DEF vars
<1>2. CASE Acceptor
  <2>1. ASSUME NEW s \in Sub, AcceptRefuse(s) PROVE Visits'
    BY <2>1 DEF AcceptRefuse
  <2>2. ASSUME NEW s \in Sub, Accept(s) PROVE Visits'
    BY <2>2 DEF Accept
  <2>3. CASE AccTop
    BY <2>3 DEF AccTop
  <2>4. CASE AccInsert
    BY <2>4 DEF AccInsert
  <2>5. CASE AccWake
    BY <2>5 DEF AccWake
  <2>6. CASE AccExit
    BY <2>6 DEF AccExit
  <2> QED  BY <1>2, <2>1, <2>2, <2>3, <2>4, <2>5, <2>6 DEF Acceptor
<1>3. CASE Publisher
  <2>1. ASSUME NEW s \in Sub, PushSkip(s) PROVE Visits'
    BY <2>1 DEF PushSkip
  <2>2. ASSUME NEW s \in Sub, PushUnsynced(s) PROVE Visits'
    BY <2>2 DEF PushUnsynced
  <2>3. ASSUME NEW s \in Sub, Push(s) PROVE Visits'
    BY <2>3 DEF Push
  <2>4. CASE BroadcastBegin
    BY <2>4 DEF BroadcastBegin
  <2>5. CASE BroadcastEnd
    BY <2>5 DEF BroadcastEnd
  <2>6. CASE PubWake
    BY <2>6 DEF PubWake
  <2>7. CASE PubExit
    BY <2>7 DEF PubExit
  <2> QED  BY <1>3, <2>1, <2>2, <2>3, <2>4, <2>5, <2>6, <2>7 DEF Publisher
<1>4. CASE Sender
  <2>1. ASSUME NEW s \in Sub, SyncDead(s) PROVE Visits'
    BY <2>1 DEF SyncDead
  <2>2. ASSUME NEW s \in Sub, SyncDepth(s) PROVE Visits'
    BY <2>2 DEF SyncDepth
  <2>3. ASSUME NEW s \in Sub, WriteSkip(s) PROVE Visits'
    BY <2>3 DEF WriteSkip
  <2>4. ASSUME NEW s \in Sub, WriteBroken(s) PROVE Visits'
    BY <2>4 DEF WriteBroken
  <2>5. ASSUME NEW s \in Sub, WriteBegin(s) PROVE Visits'
    BY <2>5 DEF WriteBegin
  <2>6. CASE SndExit
    BY <2>6 DEF SndExit
  <2>7. CASE SndTop
    BY <2>7 DEF SndTop
  <2>8. CASE SyncErase
    BY <2>8 DEF SyncErase
  <2>9. CASE SyncStop
    BY <2>9 DEF SyncStop
  <2>10. CASE SyncApply
    BY <2>10 DEF SyncApply
  <2>11. CASE SyncDone
    BY <2>11 DEF SyncDone
  <2>12. CASE SndEvents
    BY <2>12 DEF SndEvents
  <2>13. CASE SndTimeout
    BY <2>13 DEF SndTimeout
  <2>14. CASE SendTake
    BY <2>14 DEF SendTake
  <2>15. CASE SendNone
    BY <2>15 DEF SendNone
  <2>16. CASE SendOk
    BY <2>16 DEF SendOk
  <2>17. CASE SendBlocked
    BY <2>17 DEF SendBlocked
  <2>18. CASE SendFailed
    BY <2>18 DEF SendFailed
  <2>19. CASE SendPop
    BY <2>19 DEF SendPop
  <2>20. CASE WriteAfter
    BY <2>20 DEF WriteAfter
  <2>21. CASE WriteQuiet
    BY <2>21 DEF WriteQuiet
  <2>22. CASE WriteDone
    BY <2>22 DEF WriteDone
  <2> QED  BY <1>4, <2>1, <2>2, <2>3, <2>4, <2>5, <2>6, <2>7, <2>8, <2>9, <2>10, <2>11,
        <2>12, <2>13, <2>14, <2>15, <2>16, <2>17, <2>18, <2>19, <2>20, <2>21, <2>22 DEF Sender
<1>5. CASE Monitor
  <2>1. ASSUME NEW s \in Sub, MonGiveUp(s) PROVE Visits'
    BY <2>1 DEF MonGiveUp
  <2>2. ASSUME NEW s \in Sub, NEW a \in Actions, MonEvaluate(s, a) PROVE Visits'
    BY <2>2 DEF MonEvaluate
  <2>3. CASE MonBegin
    BY <2>3 DEF MonBegin
  <2>4. CASE MonClose
    BY <2>4 DEF MonClose
  <2>5. CASE MonWake
    BY <2>5 DEF MonWake
  <2>6. CASE MonExit
    BY <2>6 DEF MonExit
  <2> QED  BY <1>5, <2>1, <2>2, <2>3, <2>4, <2>5, <2>6 DEF Monitor
<1>6. CASE Network
  <2>1. ASSUME NEW s \in Sub, Break(s) PROVE Visits'
    BY <2>1 DEF Break
  <2>2. ASSUME NEW s \in Sub, Drain(s) PROVE Visits'
    BY <2>2 DEF Drain
  <2> QED  BY <1>6, <2>1, <2>2 DEF Network
<1>7. CASE Main
  <2>1. CASE Signal
    BY <2>1 DEF Signal
  <2>2. CASE StopBegin
    BY <2>2 DEF StopBegin
  <2>3. CASE StopEnd
    BY <2>3 DEF StopEnd
  <2>4. CASE Stopped
    BY <2>4 DEF Stopped, vars
  <2> QED  BY <1>7, <2>1, <2>2, <2>3, <2>4 DEF Main
<1> QED  BY <1>1, <1>2, <1>3, <1>4, <1>5, <1>6, <1>7 DEF Next

LEMMA ListedInit == Init => Listed
BY DEF Init, Listed, Entering, Leaving, TypeOK

LEMMA ListedStep == TypeOK /\ SafeInv /\ [Next]_vars => Listed'
<1> SUFFICES ASSUME TypeOK, SafeInv, [Next]_vars PROVE Listed'
  OBVIOUS
<1> USE DEF TypeOK, SafeInv, LockFree, Listed, Entering, Leaving, Reaches, Ended, Joined,
        mainVars, accVars, linkVars, flowVars, sessVars, pubVars,
        sndLocals, sndVars, monVars, sharedVars, notAcc, notPub, notSnd, notMon, notNet
<1>1. CASE UNCHANGED vars
  BY <1>1 DEF vars
<1>2. CASE Acceptor
  <2>1. ASSUME NEW s \in Sub, AcceptRefuse(s) PROVE Listed'
    BY <2>1 DEF AcceptRefuse
  <2>2. ASSUME NEW s \in Sub, Accept(s) PROVE Listed'
    BY <2>2 DEF Accept
  <2>3. CASE AccTop
    BY <2>3 DEF AccTop
  <2>4. CASE AccInsert
    BY <2>4 DEF AccInsert
  <2>5. CASE AccWake
    BY <2>5 DEF AccWake
  <2>6. CASE AccExit
    BY <2>6 DEF AccExit
  <2> QED  BY <1>2, <2>1, <2>2, <2>3, <2>4, <2>5, <2>6 DEF Acceptor
<1>3. CASE Publisher
  <2>1. ASSUME NEW s \in Sub, PushSkip(s) PROVE Listed'
    BY <2>1 DEF PushSkip
  <2>2. ASSUME NEW s \in Sub, PushUnsynced(s) PROVE Listed'
    BY <2>2 DEF PushUnsynced
  <2>3. ASSUME NEW s \in Sub, Push(s) PROVE Listed'
    BY <2>3 DEF Push
  <2>4. CASE BroadcastBegin
    BY <2>4 DEF BroadcastBegin
  <2>5. CASE BroadcastEnd
    BY <2>5 DEF BroadcastEnd
  <2>6. CASE PubWake
    BY <2>6 DEF PubWake
  <2>7. CASE PubExit
    BY <2>7 DEF PubExit
  <2> QED  BY <1>3, <2>1, <2>2, <2>3, <2>4, <2>5, <2>6, <2>7 DEF Publisher
<1>4. CASE Sender
  <2>1. ASSUME NEW s \in Sub, SyncDead(s) PROVE Listed'
    BY <2>1 DEF SyncDead
  <2>2. ASSUME NEW s \in Sub, SyncDepth(s) PROVE Listed'
    BY <2>2 DEF SyncDepth
  <2>3. ASSUME NEW s \in Sub, WriteSkip(s) PROVE Listed'
    BY <2>3 DEF WriteSkip
  <2>4. ASSUME NEW s \in Sub, WriteBroken(s) PROVE Listed'
    BY <2>4 DEF WriteBroken
  <2>5. ASSUME NEW s \in Sub, WriteBegin(s) PROVE Listed'
    BY <2>5 DEF WriteBegin
  <2>6. CASE SndExit
    BY <2>6 DEF SndExit
  <2>7. CASE SndTop
    BY <2>7 DEF SndTop
  <2>8. CASE SyncErase
    BY <2>8 DEF SyncErase
  <2>9. CASE SyncStop
    BY <2>9 DEF SyncStop, StopAll, Live
  <2>10. CASE SyncApply
    BY <2>10 DEF SyncApply
  <2>11. CASE SyncDone
    BY <2>11 DEF SyncDone
  <2>12. CASE SndEvents
    BY <2>12 DEF SndEvents
  <2>13. CASE SndTimeout
    BY <2>13 DEF SndTimeout
  <2>14. CASE SendTake
    BY <2>14 DEF SendTake
  <2>15. CASE SendNone
    BY <2>15 DEF SendNone
  <2>16. CASE SendOk
    BY <2>16 DEF SendOk
  <2>17. CASE SendBlocked
    BY <2>17 DEF SendBlocked
  <2>18. CASE SendFailed
    BY <2>18 DEF SendFailed
  <2>19. CASE SendPop
    BY <2>19 DEF SendPop
  <2>20. CASE WriteAfter
    BY <2>20 DEF WriteAfter
  <2>21. CASE WriteQuiet
    BY <2>21 DEF WriteQuiet
  <2>22. CASE WriteDone
    BY <2>22 DEF WriteDone
  <2> QED  BY <1>4, <2>1, <2>2, <2>3, <2>4, <2>5, <2>6, <2>7, <2>8, <2>9, <2>10, <2>11,
        <2>12, <2>13, <2>14, <2>15, <2>16, <2>17, <2>18, <2>19, <2>20, <2>21, <2>22 DEF Sender
<1>5. CASE Monitor
  <2>1. ASSUME NEW s \in Sub, MonGiveUp(s) PROVE Listed'
    BY <2>1 DEF MonGiveUp
  <2>2. ASSUME NEW s \in Sub, NEW a \in Actions, MonEvaluate(s, a) PROVE Listed'
    BY <2>2 DEF MonEvaluate
  <2>3. CASE MonBegin
    BY <2>3 DEF MonBegin
  <2>4. CASE MonClose
    BY <2>4 DEF MonClose
  <2>5. CASE MonWake
    BY <2>5 DEF MonWake
  <2>6. CASE MonExit
    BY <2>6 DEF MonExit
  <2> QED  BY <1>5, <2>1, <2>2, <2>3, <2>4, <2>5, <2>6 DEF Monitor
<1>6. CASE Network
  <2>1. ASSUME NEW s \in Sub, Break(s) PROVE Listed'
    BY <2>1 DEF Break
  <2>2. ASSUME NEW s \in Sub, Drain(s) PROVE Listed'
    BY <2>2 DEF Drain
  <2> QED  BY <1>6, <2>1, <2>2 DEF Network
<1>7. CASE Main
  <2>1. CASE Signal
    BY <2>1 DEF Signal
  <2>2. CASE StopBegin
    BY <2>2 DEF StopBegin
  <2>3. CASE StopEnd
    BY <2>3 DEF StopEnd, StopAll, Live
  <2>4. CASE Stopped
    BY <2>4 DEF Stopped, vars
  <2> QED  BY <1>7, <2>1, <2>2, <2>3, <2>4 DEF Main
<1> QED  BY <1>1, <1>2, <1>3, <1>4, <1>5, <1>6, <1>7 DEF Next

LEMMA ReachesInit == Init => Reaches
BY DEF Init, Reaches

LEMMA ReachesStep == TypeOK /\ SafeInv /\ [Next]_vars => Reaches'
<1> SUFFICES ASSUME TypeOK, SafeInv, [Next]_vars PROVE Reaches'
  OBVIOUS
<1> USE DEF TypeOK, SafeInv, LockFree, Reaches, Ended, Joined, OutReady, ErrReady,
        mainVars, accVars, linkVars, flowVars, sessVars, pubVars,
        sndLocals, sndVars, monVars, sharedVars, notAcc, notPub, notSnd, notMon, notNet
<1>1. CASE UNCHANGED vars
  BY <1>1 DEF vars
<1>2. CASE Acceptor
  <2>1. ASSUME NEW s \in Sub, AcceptRefuse(s) PROVE Reaches'
    BY <2>1 DEF AcceptRefuse
  <2>2. ASSUME NEW s \in Sub, Accept(s) PROVE Reaches'
    BY <2>2 DEF Accept
  <2>3. CASE AccTop
    BY <2>3 DEF AccTop
  <2>4. CASE AccInsert
    BY <2>4 DEF AccInsert
  <2>5. CASE AccWake
    BY <2>5 DEF AccWake
  <2>6. CASE AccExit
    BY <2>6 DEF AccExit
  <2> QED  BY <1>2, <2>1, <2>2, <2>3, <2>4, <2>5, <2>6 DEF Acceptor
<1>3. CASE Publisher
  <2>1. ASSUME NEW s \in Sub, PushSkip(s) PROVE Reaches'
    BY <2>1 DEF PushSkip
  <2>2. ASSUME NEW s \in Sub, PushUnsynced(s) PROVE Reaches'
    BY <2>2 DEF PushUnsynced
  <2>3. ASSUME NEW s \in Sub, Push(s) PROVE Reaches'
    BY <2>3 DEF Push
  <2>4. CASE BroadcastBegin
    BY <2>4 DEF BroadcastBegin
  <2>5. CASE BroadcastEnd
    BY <2>5 DEF BroadcastEnd
  <2>6. CASE PubWake
    BY <2>6 DEF PubWake
  <2>7. CASE PubExit
    BY <2>7 DEF PubExit
  <2> QED  BY <1>3, <2>1, <2>2, <2>3, <2>4, <2>5, <2>6, <2>7 DEF Publisher
<1>4. CASE Sender
  <2>1. ASSUME NEW s \in Sub, SyncDead(s) PROVE Reaches'
    BY <2>1 DEF SyncDead
  <2>2. ASSUME NEW s \in Sub, SyncDepth(s) PROVE Reaches'
    BY <2>2 DEF SyncDepth
  <2>3. ASSUME NEW s \in Sub, WriteSkip(s) PROVE Reaches'
    BY <2>3 DEF WriteSkip
  <2>4. ASSUME NEW s \in Sub, WriteBroken(s) PROVE Reaches'
    BY <2>4 DEF WriteBroken
  <2>5. ASSUME NEW s \in Sub, WriteBegin(s) PROVE Reaches'
    BY <2>5 DEF WriteBegin
  <2>6. CASE SndExit
    BY <2>6 DEF SndExit
  <2>7. CASE SndTop
    BY <2>7 DEF SndTop
  <2>8. CASE SyncErase
    BY <2>8 DEF SyncErase
  <2>9. CASE SyncStop
    BY <2>9 DEF SyncStop
  <2>10. CASE SyncApply
    BY <2>10 DEF SyncApply
  <2>11. CASE SyncDone
    BY <2>11 DEF SyncDone
  <2>12. CASE SndEvents
    BY <2>12 DEF SndEvents
  <2>13. CASE SndTimeout
    BY <2>13 DEF SndTimeout
  <2>14. CASE SendTake
    BY <2>14 DEF SendTake
  <2>15. CASE SendNone
    BY <2>15 DEF SendNone
  <2>16. CASE SendOk
    BY <2>16 DEF SendOk
  <2>17. CASE SendBlocked
    BY <2>17 DEF SendBlocked
  <2>18. CASE SendFailed
    BY <2>18 DEF SendFailed
  <2>19. CASE SendPop
    BY <2>19 DEF SendPop
  <2>20. CASE WriteAfter
    BY <2>20 DEF WriteAfter
  <2>21. CASE WriteQuiet
    BY <2>21 DEF WriteQuiet
  <2>22. CASE WriteDone
    BY <2>22 DEF WriteDone
  <2> QED  BY <1>4, <2>1, <2>2, <2>3, <2>4, <2>5, <2>6, <2>7, <2>8, <2>9, <2>10, <2>11,
        <2>12, <2>13, <2>14, <2>15, <2>16, <2>17, <2>18, <2>19, <2>20, <2>21, <2>22 DEF Sender
<1>5. CASE Monitor
  <2>1. ASSUME NEW s \in Sub, MonGiveUp(s) PROVE Reaches'
    BY <2>1 DEF MonGiveUp
  <2>2. ASSUME NEW s \in Sub, NEW a \in Actions, MonEvaluate(s, a) PROVE Reaches'
    BY <2>2 DEF MonEvaluate
  <2>3. CASE MonBegin
    BY <2>3 DEF MonBegin
  <2>4. CASE MonClose
    BY <2>4 DEF MonClose
  <2>5. CASE MonWake
    BY <2>5 DEF MonWake
  <2>6. CASE MonExit
    BY <2>6 DEF MonExit
  <2> QED  BY <1>5, <2>1, <2>2, <2>3, <2>4, <2>5, <2>6 DEF Monitor
<1>6. CASE Network
  <2>1. ASSUME NEW s \in Sub, Break(s) PROVE Reaches'
    BY <2>1 DEF Break
  <2>2. ASSUME NEW s \in Sub, Drain(s) PROVE Reaches'
    BY <2>2 DEF Drain
  <2> QED  BY <1>6, <2>1, <2>2 DEF Network
<1>7. CASE Main
  <2>1. CASE Signal
    BY <2>1 DEF Signal
  <2>2. CASE StopBegin
    BY <2>2 DEF StopBegin
  <2>3. CASE StopEnd
    BY <2>3 DEF StopEnd
  <2>4. CASE Stopped
    BY <2>4 DEF Stopped, vars
  <2> QED  BY <1>7, <2>1, <2>2, <2>3, <2>4 DEF Main
<1> QED  BY <1>1, <1>2, <1>3, <1>4, <1>5, <1>6, <1>7 DEF Next

LEMMA EndedInit == Init => Ended
BY DEF Init, Ended

LEMMA EndedStep == TypeOK /\ SafeInv /\ [Next]_vars => Ended'
<1> SUFFICES ASSUME TypeOK, SafeInv, [Next]_vars PROVE Ended'
  OBVIOUS
<1> USE DEF TypeOK, SafeInv, LockFree, Ended, Joined, Reaches,
        mainVars, accVars, linkVars, flowVars, sessVars, pubVars,
        sndLocals, sndVars, monVars, sharedVars, notAcc, notPub, notSnd, notMon, notNet
<1>1. CASE UNCHANGED vars
  BY <1>1 DEF vars
<1>2. CASE Acceptor
  <2>1. ASSUME NEW s \in Sub, AcceptRefuse(s) PROVE Ended'
    BY <2>1 DEF AcceptRefuse
  <2>2. ASSUME NEW s \in Sub, Accept(s) PROVE Ended'
    BY <2>2 DEF Accept
  <2>3. CASE AccTop
    BY <2>3 DEF AccTop
  <2>4. CASE AccInsert
    BY <2>4 DEF AccInsert
  <2>5. CASE AccWake
    BY <2>5 DEF AccWake
  <2>6. CASE AccExit
    BY <2>6 DEF AccExit
  <2> QED  BY <1>2, <2>1, <2>2, <2>3, <2>4, <2>5, <2>6 DEF Acceptor
<1>3. CASE Publisher
  <2>1. ASSUME NEW s \in Sub, PushSkip(s) PROVE Ended'
    BY <2>1 DEF PushSkip
  <2>2. ASSUME NEW s \in Sub, PushUnsynced(s) PROVE Ended'
    BY <2>2 DEF PushUnsynced
  <2>3. ASSUME NEW s \in Sub, Push(s) PROVE Ended'
    BY <2>3 DEF Push
  <2>4. CASE BroadcastBegin
    BY <2>4 DEF BroadcastBegin
  <2>5. CASE BroadcastEnd
    BY <2>5 DEF BroadcastEnd
  <2>6. CASE PubWake
    BY <2>6 DEF PubWake
  <2>7. CASE PubExit
    BY <2>7 DEF PubExit
  <2> QED  BY <1>3, <2>1, <2>2, <2>3, <2>4, <2>5, <2>6, <2>7 DEF Publisher
<1>4. CASE Sender
  <2>1. ASSUME NEW s \in Sub, SyncDead(s) PROVE Ended'
    BY <2>1 DEF SyncDead
  <2>2. ASSUME NEW s \in Sub, SyncDepth(s) PROVE Ended'
    BY <2>2 DEF SyncDepth
  <2>3. ASSUME NEW s \in Sub, WriteSkip(s) PROVE Ended'
    BY <2>3 DEF WriteSkip
  <2>4. ASSUME NEW s \in Sub, WriteBroken(s) PROVE Ended'
    BY <2>4 DEF WriteBroken
  <2>5. ASSUME NEW s \in Sub, WriteBegin(s) PROVE Ended'
    BY <2>5 DEF WriteBegin
  <2>6. CASE SndExit
    BY <2>6 DEF SndExit
  <2>7. CASE SndTop
    BY <2>7 DEF SndTop
  <2>8. CASE SyncErase
    BY <2>8 DEF SyncErase
  <2>9. CASE SyncStop
    BY <2>9 DEF SyncStop, StopAll
  <2>10. CASE SyncApply
    BY <2>10 DEF SyncApply
  <2>11. CASE SyncDone
    BY <2>11 DEF SyncDone
  <2>12. CASE SndEvents
    BY <2>12 DEF SndEvents
  <2>13. CASE SndTimeout
    BY <2>13 DEF SndTimeout
  <2>14. CASE SendTake
    BY <2>14 DEF SendTake
  <2>15. CASE SendNone
    BY <2>15 DEF SendNone
  <2>16. CASE SendOk
    BY <2>16 DEF SendOk
  <2>17. CASE SendBlocked
    BY <2>17 DEF SendBlocked
  <2>18. CASE SendFailed
    BY <2>18 DEF SendFailed
  <2>19. CASE SendPop
    BY <2>19 DEF SendPop
  <2>20. CASE WriteAfter
    BY <2>20 DEF WriteAfter
  <2>21. CASE WriteQuiet
    BY <2>21 DEF WriteQuiet
  <2>22. CASE WriteDone
    BY <2>22 DEF WriteDone
  <2> QED  BY <1>4, <2>1, <2>2, <2>3, <2>4, <2>5, <2>6, <2>7, <2>8, <2>9, <2>10, <2>11,
        <2>12, <2>13, <2>14, <2>15, <2>16, <2>17, <2>18, <2>19, <2>20, <2>21, <2>22 DEF Sender
<1>5. CASE Monitor
  <2>1. ASSUME NEW s \in Sub, MonGiveUp(s) PROVE Ended'
    BY <2>1 DEF MonGiveUp
  <2>2. ASSUME NEW s \in Sub, NEW a \in Actions, MonEvaluate(s, a) PROVE Ended'
    BY <2>2 DEF MonEvaluate
  <2>3. CASE MonBegin
    BY <2>3 DEF MonBegin
  <2>4. CASE MonClose
    BY <2>4 DEF MonClose
  <2>5. CASE MonWake
    BY <2>5 DEF MonWake
  <2>6. CASE MonExit
    BY <2>6 DEF MonExit
  <2> QED  BY <1>5, <2>1, <2>2, <2>3, <2>4, <2>5, <2>6 DEF Monitor
<1>6. CASE Network
  <2>1. ASSUME NEW s \in Sub, Break(s) PROVE Ended'
    BY <2>1 DEF Break
  <2>2. ASSUME NEW s \in Sub, Drain(s) PROVE Ended'
    BY <2>2 DEF Drain
  <2> QED  BY <1>6, <2>1, <2>2 DEF Network
<1>7. CASE Main
  <2>1. CASE Signal
    BY <2>1 DEF Signal
  <2>2. CASE StopBegin
    BY <2>2 DEF StopBegin
  <2>3. CASE StopEnd
    BY <2>3 DEF StopEnd
  <2>4. CASE Stopped
    BY <2>4 DEF Stopped, vars
  <2> QED  BY <1>7, <2>1, <2>2, <2>3, <2>4 DEF Main
<1> QED  BY <1>1, <1>2, <1>3, <1>4, <1>5, <1>6, <1>7 DEF Next

LEMMA CountedInit == Init => Counted
<1>1. Init => subscribers = {} /\ count = 0 /\ accPc = "top" /\ sndPc = "top"
  BY DEF Init
<1> QED  BY <1>1, FS_EmptySet DEF Counted, CountExact

LEMMA CountedStep == TypeOK /\ SafeInv /\ Counted /\ [Next]_vars => Counted'
<1> SUFFICES ASSUME TypeOK, SafeInv, Counted, [Next]_vars PROVE Counted'
  OBVIOUS
<1>0. Cardinality(subscribers) \in Nat /\ count \in Int
  BY FS_CardinalityType DEF Counted, TypeOK
<1> USE DEF TypeOK, SafeInv, LockFree, Counted, CountExact, StopAll,
        mainVars, accVars, linkVars, flowVars, sessVars, pubVars,
        sndLocals, sndVars, monVars, sharedVars, notAcc, notPub, notSnd, notMon, notNet
<1>1. CASE UNCHANGED vars
  BY <1>1 DEF vars
<1>2. CASE Acceptor
  <2>1. ASSUME NEW s \in Sub, AcceptRefuse(s) PROVE Counted'
    BY <2>1 DEF AcceptRefuse
  <2>2. ASSUME NEW s \in Sub, Accept(s) PROVE Counted'
    <3>1. /\ subscribers' = subscribers /\ count' = count + 1 /\ sndPc' = sndPc
          /\ accPc = "accept" /\ accPc' = "insert"
      BY <2>2 DEF Accept
    <3> QED  BY <3>1, <1>0
  <2>3. CASE AccTop
    BY <2>3 DEF AccTop
  <2>4. CASE AccInsert
    <3>1. accSub \notin subscribers
      BY <2>4 DEF AccInsert, Listed
    <3>2. IsFiniteSet(subscribers \cup {accSub}) /\ Cardinality(subscribers \cup {accSub}) = Cardinality(subscribers) + 1
      BY <3>1, FS_AddElement
    <3> QED  BY <2>4, <3>2, <1>0 DEF AccInsert
  <2>5. CASE AccWake
    BY <2>5 DEF AccWake
  <2>6. CASE AccExit
    BY <2>6 DEF AccExit
  <2> QED  BY <1>2, <2>1, <2>2, <2>3, <2>4, <2>5, <2>6 DEF Acceptor
<1>3. CASE Publisher
  <2>1. ASSUME NEW s \in Sub, PushSkip(s) PROVE Counted'
    BY <2>1 DEF PushSkip
  <2>2. ASSUME NEW s \in Sub, PushUnsynced(s) PROVE Counted'
    BY <2>2 DEF PushUnsynced
  <2>3. ASSUME NEW s \in Sub, Push(s) PROVE Counted'
    BY <2>3 DEF Push
  <2>4. CASE BroadcastBegin
    BY <2>4 DEF BroadcastBegin
  <2>5. CASE BroadcastEnd
    BY <2>5 DEF BroadcastEnd
  <2>6. CASE PubWake
    BY <2>6 DEF PubWake
  <2>7. CASE PubExit
    BY <2>7 DEF PubExit
  <2> QED  BY <1>3, <2>1, <2>2, <2>3, <2>4, <2>5, <2>6, <2>7 DEF Publisher
<1>4. CASE Sender
  <2>1. ASSUME NEW s \in Sub, SyncDead(s) PROVE Counted'
    BY <2>1 DEF SyncDead
  <2>2. ASSUME NEW s \in Sub, SyncDepth(s) PROVE Counted'
    BY <2>2 DEF SyncDepth
  <2>3. ASSUME NEW s \in Sub, WriteSkip(s) PROVE Counted'
    BY <2>3 DEF WriteSkip
  <2>4. ASSUME NEW s \in Sub, WriteBroken(s) PROVE Counted'
    BY <2>4 DEF WriteBroken
  <2>5. ASSUME NEW s \in Sub, WriteBegin(s) PROVE Counted'
    BY <2>5 DEF WriteBegin
  <2>6. CASE SndExit
    BY <2>6 DEF SndExit
  <2>7. CASE SndTop
    BY <2>7 DEF SndTop
  <2>8. CASE SyncErase
    <3>1. cur \in subscribers
      BY <2>8 DEF SyncErase, Reaches
    <3>2. IsFiniteSet(subscribers \ {cur}) /\ Cardinality(subscribers \ {cur}) = Cardinality(subscribers) - 1
      BY <3>1, FS_RemoveElement
    <3> QED  BY <2>8, <3>2, <1>0 DEF SyncErase
  <2>9. CASE SyncStop
    <3>1. {cur} \cap Live = {cur}
      BY <2>9 DEF SyncStop, Listed, Leaving, Live
    <3>2. Cardinality({cur} \cap Live) = 1
      BY <3>1, FS_Singleton
    <3> QED  BY <2>9, <3>2, <1>0 DEF SyncStop, StopAll
  <2>10. CASE SyncApply
    BY <2>10 DEF SyncApply
  <2>11. CASE SyncDone
    BY <2>11 DEF SyncDone
  <2>12. CASE SndEvents
    BY <2>12 DEF SndEvents
  <2>13. CASE SndTimeout
    BY <2>13 DEF SndTimeout
  <2>14. CASE SendTake
    BY <2>14 DEF SendTake
  <2>15. CASE SendNone
    BY <2>15 DEF SendNone
  <2>16. CASE SendOk
    BY <2>16 DEF SendOk
  <2>17. CASE SendBlocked
    BY <2>17 DEF SendBlocked
  <2>18. CASE SendFailed
    BY <2>18 DEF SendFailed
  <2>19. CASE SendPop
    BY <2>19 DEF SendPop
  <2>20. CASE WriteAfter
    BY <2>20 DEF WriteAfter
  <2>21. CASE WriteQuiet
    BY <2>21 DEF WriteQuiet
  <2>22. CASE WriteDone
    BY <2>22 DEF WriteDone
  <2> QED  BY <1>4, <2>1, <2>2, <2>3, <2>4, <2>5, <2>6, <2>7, <2>8, <2>9, <2>10, <2>11,
        <2>12, <2>13, <2>14, <2>15, <2>16, <2>17, <2>18, <2>19, <2>20, <2>21, <2>22 DEF Sender
<1>5. CASE Monitor
  <2>1. ASSUME NEW s \in Sub, MonGiveUp(s) PROVE Counted'
    BY <2>1 DEF MonGiveUp
  <2>2. ASSUME NEW s \in Sub, NEW a \in Actions, MonEvaluate(s, a) PROVE Counted'
    BY <2>2 DEF MonEvaluate
  <2>3. CASE MonBegin
    BY <2>3 DEF MonBegin
  <2>4. CASE MonClose
    BY <2>4 DEF MonClose
  <2>5. CASE MonWake
    BY <2>5 DEF MonWake
  <2>6. CASE MonExit
    BY <2>6 DEF MonExit
  <2> QED  BY <1>5, <2>1, <2>2, <2>3, <2>4, <2>5, <2>6 DEF Monitor
<1>6. CASE Network
  <2>1. ASSUME NEW s \in Sub, Break(s) PROVE Counted'
    BY <2>1 DEF Break
  <2>2. ASSUME NEW s \in Sub, Drain(s) PROVE Counted'
    BY <2>2 DEF Drain
  <2> QED  BY <1>6, <2>1, <2>2 DEF Network
<1>7. CASE Main
  <2>1. CASE Signal
    BY <2>1 DEF Signal
  <2>2. CASE StopBegin
    BY <2>2 DEF StopBegin
  <2>3. CASE StopEnd
    <3>1. subscribers \cap Live = subscribers
      BY <2>3 DEF StopEnd, Listed, Live
    <3>2. count' = count - Cardinality(subscribers) /\ subscribers' = {}
      BY <2>3, <3>1 DEF StopEnd, StopAll
    <3>3. IsFiniteSet({}) /\ Cardinality({}) = 0
      BY FS_EmptySet
    <3>4. /\ accPc = "done" /\ sndPc = "done" /\ accPc' = accPc /\ sndPc' = sndPc
      BY <2>3 DEF StopEnd, Joined
    <3> QED  BY <2>3, <3>2, <3>3, <3>4, <1>0
  <2>4. CASE Stopped
    BY <2>4 DEF Stopped, vars
  <2> QED  BY <1>7, <2>1, <2>2, <2>3, <2>4 DEF Main
<1> QED  BY <1>1, <1>2, <1>3, <1>4, <1>5, <1>6, <1>7 DEF Next

LEMMA WakeInit == Init => WakeInv
BY DEF Init, WakeInv, Waiting

LEMMA WakeStep == TypeOK /\ SafeInv /\ WakeInv /\ [Next]_vars => WakeInv'
<1> SUFFICES ASSUME TypeOK, SafeInv, WakeInv, [Next]_vars PROVE WakeInv'
  OBVIOUS
<1> USE DEF TypeOK, SafeInv, LockFree, WakeInv, Waiting, WakeComing,
        mainVars, accVars, linkVars, flowVars, sessVars, pubVars,
        sndLocals, sndVars, monVars, sharedVars, notAcc, notPub, notSnd, notMon, notNet
<1>1. CASE UNCHANGED vars
  BY <1>1 DEF vars
<1>2. CASE Acceptor
  <2>1. ASSUME NEW s \in Sub, AcceptRefuse(s) PROVE WakeInv'
    BY <2>1 DEF AcceptRefuse
  <2>2. ASSUME NEW s \in Sub, Accept(s) PROVE WakeInv'
    BY <2>2 DEF Accept
  <2>3. CASE AccTop
    BY <2>3 DEF AccTop
  <2>4. CASE AccInsert
    BY <2>4 DEF AccInsert, Listed
  <2>5. CASE AccWake
    BY <2>5 DEF AccWake
  <2>6. CASE AccExit
    BY <2>6 DEF AccExit
  <2> QED  BY <1>2, <2>1, <2>2, <2>3, <2>4, <2>5, <2>6 DEF Acceptor
<1>3. CASE Publisher
  <2>1. ASSUME NEW s \in Sub, PushSkip(s) PROVE WakeInv'
    BY <2>1 DEF PushSkip
  <2>2. ASSUME NEW s \in Sub, PushUnsynced(s) PROVE WakeInv'
    BY <2>2 DEF PushUnsynced
  <2>3. ASSUME NEW s \in Sub, Push(s) PROVE WakeInv'
    BY <2>3 DEF Push, Visits
  <2>4. CASE BroadcastBegin
    BY <2>4 DEF BroadcastBegin
  <2>5. CASE BroadcastEnd
    BY <2>5 DEF BroadcastEnd
  <2>6. CASE PubWake
    BY <2>6 DEF PubWake
  <2>7. CASE PubExit
    BY <2>7 DEF PubExit
  <2> QED  BY <1>3, <2>1, <2>2, <2>3, <2>4, <2>5, <2>6, <2>7 DEF Publisher
<1>4. CASE Sender
  <2>1. ASSUME NEW s \in Sub, SyncDead(s) PROVE WakeInv'
    BY <2>1 DEF SyncDead
  <2>2. ASSUME NEW s \in Sub, SyncDepth(s) PROVE WakeInv'
    BY <2>2 DEF SyncDepth, WantsWrite
  <2>3. ASSUME NEW s \in Sub, WriteSkip(s) PROVE WakeInv'
    BY <2>3 DEF WriteSkip
  <2>4. ASSUME NEW s \in Sub, WriteBroken(s) PROVE WakeInv'
    BY <2>4 DEF WriteBroken
  <2>5. ASSUME NEW s \in Sub, WriteBegin(s) PROVE WakeInv'
    BY <2>5 DEF WriteBegin
  <2>6. CASE SndExit
    BY <2>6 DEF SndExit
  <2>7. CASE SndTop
    BY <2>7 DEF SndTop
  <2>8. CASE SyncErase
    BY <2>8 DEF SyncErase
  <2>9. CASE SyncStop
    BY <2>9 DEF SyncStop, StopAll, Live, Listed, Leaving
  <2>10. CASE SyncApply
    BY <2>10 DEF SyncApply
  <2>11. CASE SyncDone
    BY <2>11 DEF SyncDone
  <2>12. CASE SndEvents
    BY <2>12 DEF SndEvents, SyncNeeded, OutReady, ErrReady
  <2>13. CASE SndTimeout
    BY <2>13 DEF SndTimeout
  <2>14. CASE SendTake
    BY <2>14 DEF SendTake
  <2>15. CASE SendNone
    BY <2>15 DEF SendNone
  <2>16. CASE SendOk
    BY <2>16 DEF SendOk
  <2>17. CASE SendBlocked
    BY <2>17 DEF SendBlocked
  <2>18. CASE SendFailed
    BY <2>18 DEF SendFailed
  <2>19. CASE SendPop
    BY <2>19 DEF SendPop, Popped, Reaches
  <2>20. CASE WriteAfter
    BY <2>20 DEF WriteAfter
  <2>21. CASE WriteQuiet
    BY <2>21 DEF WriteQuiet
  <2>22. CASE WriteDone
    BY <2>22 DEF WriteDone
  <2> QED  BY <1>4, <2>1, <2>2, <2>3, <2>4, <2>5, <2>6, <2>7, <2>8, <2>9, <2>10, <2>11,
        <2>12, <2>13, <2>14, <2>15, <2>16, <2>17, <2>18, <2>19, <2>20, <2>21, <2>22 DEF Sender
<1>5. CASE Monitor
  <2>1. ASSUME NEW s \in Sub, MonGiveUp(s) PROVE WakeInv'
    BY <2>1 DEF MonGiveUp
  <2>2. ASSUME NEW s \in Sub, NEW a \in Actions, MonEvaluate(s, a) PROVE WakeInv'
    BY <2>2 DEF MonEvaluate
  <2>3. CASE MonBegin
    BY <2>3 DEF MonBegin
  <2>4. CASE MonClose
    BY <2>4 DEF MonClose
  <2>5. CASE MonWake
    BY <2>5 DEF MonWake
  <2>6. CASE MonExit
    BY <2>6 DEF MonExit
  <2> QED  BY <1>5, <2>1, <2>2, <2>3, <2>4, <2>5, <2>6 DEF Monitor
<1>6. CASE Network
  <2>1. ASSUME NEW s \in Sub, Break(s) PROVE WakeInv'
    BY <2>1 DEF Break
  <2>2. ASSUME NEW s \in Sub, Drain(s) PROVE WakeInv'
    BY <2>2 DEF Drain
  <2> QED  BY <1>6, <2>1, <2>2 DEF Network
<1>7. CASE Main
  <2>1. CASE Signal
    BY <2>1 DEF Signal
  <2>2. CASE StopBegin
    BY <2>2 DEF StopBegin
  <2>3. CASE StopEnd
    BY <2>3 DEF StopEnd, StopAll, Live, Ended, Joined
  <2>4. CASE Stopped
    BY <2>4 DEF Stopped, vars
  <2> QED  BY <1>7, <2>1, <2>2, <2>3, <2>4 DEF Main
<1> QED  BY <1>1, <1>2, <1>3, <1>4, <1>5, <1>6, <1>7 DEF Next

-----------------------------------------------------------------------------
(* The theorems.                                                           *)

SessionInv == TypeOK /\ SafeInv /\ Counted /\ WakeInv

LEMMA Sessions == Spec => []SessionInv
<1>1. Init => SafeInv /\ Counted /\ WakeInv
  BY VisitsInit, ListedInit, ReachesInit, EndedInit, CountedInit, WakeInit DEF SafeInv
<1>2. TypeOK /\ SafeInv /\ Counted /\ WakeInv /\ [Next]_vars
        => SafeInv' /\ Counted' /\ WakeInv'
  BY VisitsStep, ListedStep, ReachesStep, EndedStep, CountedStep, WakeStep DEF SafeInv
<1> QED  BY <1>1, <1>2, TypeCorrect, PTL DEF Spec, SessionInv

\* No thread touches a session that was stopped: broadcast and the monitor go
\* on with the map they hold, the sender with what it registered.
THEOREM NoUseCorrect == Spec => []NoUseAfterStop
<1>1. SessionInv => NoUseAfterStop
  <2> SUFFICES ASSUME SessionInv PROVE NoUseAfterStop
    OBVIOUS
  <2>1. subscribers \subseteq Live
    BY DEF SessionInv, SafeInv, TypeOK, Listed, Live
  <2> QED  BY <2>1 DEF SessionInv, SafeInv, Visits, Reaches, NoUseAfterStop
<1> QED  BY <1>1, Sessions, PTL

\* subscriber_count counts every session once, from accept to stop.
THEOREM CountCorrect == Spec => []CountExact
<1>1. SessionInv => CountExact
  BY DEF SessionInv, Counted
<1> QED  BY <1>1, Sessions, PTL

\* stop() leaves no session, socket or registration behind, wherever the
\* threads were when the signal came.
THEOREM CleanCorrect == Spec => []ShutdownClean
<1>1. SessionInv => ShutdownClean
  <2> SUFFICES ASSUME SessionInv, stopPc = "done"
               PROVE  /\ count = 0 /\ Live = {}
                      /\ \A s \in Sub : sock[s] \in {"none", "closed"} /\ reg[s] = "no"
    BY DEF ShutdownClean
  <2>1. subscribers = {} /\ accPc = "done" /\ sndPc = "done"
    BY DEF SessionInv, SafeInv, Ended, Joined
  <2>2. count = 0
    BY <2>1, FS_EmptySet DEF SessionInv, Counted, CountExact
  <2>3. \A s \in Sub : sess[s] # "live"
    BY <2>1 DEF SessionInv, SafeInv, Listed, Entering, Leaving
  <2>4. \A s \in Sub : sock[s] \in {"none", "closed"} /\ reg[s] = "no"
    BY <2>1, <2>3 DEF SessionInv, SafeInv, Listed, Reaches
  <2> QED  BY <2>2, <2>3, <2>4 DEF Live
<1> QED  BY <1>1, Sessions, PTL

\* The sender does not sleep, deaf to a session with data, unless somebody is
\* about to wake it, although it sets the epoll events from a stale depth.
THEOREM WakeCorrect == Spec => []NoLostWakeup
<1>1. SessionInv => NoLostWakeup
  BY DEF SessionInv, TypeOK, WakeInv, Waiting, NoLostWakeup
<1> QED  BY <1>1, Sessions, PTL

(***************************************************************************)
(* Part 3: the implementation of LossyStream.                              *)
(***************************************************************************)

(* What push_chunk took is not newer than what broadcast has shown the     *)
(* session, and a session in sync has taken something.                     *)
Taken ==
    \A s \in Sub : /\ \A n \in accepted[s] : n < Limit(s)
                   /\ synced[s] => accepted[s] # {}
                   /\ sess[s] = "none" => accepted[s] = {}

(* The chunk being sent is still the front, or was dropped and counted;    *)
(* the chunk being popped is the last on the wire.                         *)
Sending ==
    sndPc = "send" => \/ queue[cur] # <<>> /\ queue[cur][1] = chunk
                      \/ chunk.n \in dropped[cur]
Sent == sndPc = "pop" => wire[cur] # <<>> /\ wire[cur][Len(wire[cur])] = chunk

StreamInv == Taken /\ Sending /\ Sent

-----------------------------------------------------------------------------
LEMMA SubSeqFacts ==
  ASSUME NEW q \in Seq(Element)
  PROVE  /\ SubSeq(q, 1, 0) = <<>> /\ SubSeq(q, Len(q) + 1, Len(q)) = <<>>
         /\ SubSeq(q, 1, Len(q)) = q
         /\ q # <<>> => SubSeq(q, 2, Len(q)) = Tail(q) /\ SubSeq(q, 1, 1) = <<q[1]>>
<1>1. SubSeq(q, 1, 0) = <<>> /\ SubSeq(q, Len(q) + 1, Len(q)) = <<>>
  OBVIOUS
<1>2. SubSeq(q, 1, Len(q)) = q
  OBVIOUS
<1>3. ASSUME q # <<>> PROVE SubSeq(q, 2, Len(q)) = Tail(q)
  BY <1>3
<1>4. ASSUME q # <<>> PROVE SubSeq(q, 1, 1) = <<q[1]>>
  <2>1. Len(q) >= 1 /\ q[1] \in Element /\ SubSeq(q, 1, 1) \in Seq(Element)
    BY <1>4
  <2>2. Len(SubSeq(q, 1, 1)) = 1
    BY <2>1
  <2>3. SubSeq(q, 1, 1)[1] = q[1]
    BY <2>1
  <2>4. <<q[1]>> \in Seq(Element) /\ Len(<<q[1]>>) = 1 /\ <<q[1]>>[1] = q[1]
    BY <2>1
  <2>5. ASSUME NEW s \in Seq(Element), Len(s) = 1, NEW t \in Seq(Element), Len(t) = 1,
               s[1] = t[1]
        PROVE  s = t
    BY <2>5
  <2> QED  BY <2>1, <2>2, <2>3, <2>4, <2>5
<1> QED  BY <1>1, <1>2, <1>3, <1>4

LEMMA AppendSome ==
  ASSUME NEW q \in Seq(Element), NEW e \in Element
  PROVE  Append(q, e) # <<>> /\ (q = <<>> => Append(q, e)[1] = e)
<1>1. Len(Append(q, e)) = Len(q) + 1 /\ Len(q) \in Nat /\ Len(<<>>) = 0
  OBVIOUS
<1>2. Append(<<>>, e) = <<e>> /\ <<e>>[1] = e
  OBVIOUS
<1> QED  BY <1>1, <1>2

LEMMA NumbersHead ==
  ASSUME NEW q \in Seq(Element), q # <<>>, Increasing(q)
  PROVE  /\ Numbers(q) \ Numbers(Tail(q)) = {q[1].n}
         /\ Numbers(q) = Numbers(Tail(q)) \cup {q[1].n}
<1>1. q[1].n \in Numbers(q) /\ Numbers(q) \subseteq Numbers(Tail(q)) \cup {q[1].n}
  BY NumbersTail, HeadType DEF Numbers
<1>2. ASSUME NEW m \in Numbers(Tail(q)) PROVE m \in Numbers(q) /\ m # q[1].n
  <2>1. PICK i \in 1..Len(Tail(q)) : m = Tail(q)[i].n
    BY <1>2, TailFacts DEF Numbers
  <2>2. i + 1 \in 1..Len(q) /\ m = q[i + 1].n /\ 1 < i + 1 /\ 1 \in 1..Len(q)
    BY <2>1, TailFacts
  <2>3. q[1] \in Element /\ q[i + 1] \in Element
    BY <2>2
  <2>4. q[1].n < q[i + 1].n
    BY <2>2 DEF Increasing
  <2> QED  BY <2>2, <2>3, <2>4 DEF Numbers, Element
<1> QED  BY <1>1, <1>2

LEMMA NumbersEmpty == Numbers(<<>>) = {}
BY DEF Numbers

LEMMA NumbersOne == ASSUME NEW e \in Element PROVE Numbers(<<e>>) = {e.n}
BY DEF Numbers

\* What is still to be delivered of q, when c was sent and not popped (fl).
Rest(fl, q, c) == IF fl THEN Popped(q, c) ELSE q
Twice(fl, c) == IF fl THEN {c.n} ELSE {}
\* c comes before number m and before what else is in q.
Precedes(c, q, m) ==
    c.n < m /\ \A j \in 1..Len(q) : c.n < q[j].n \/ (j = 1 /\ q[j] = c)

\* The queue q became kept and e: the k oldest of the rest are gone, and it is
\* they that are counted, besides the chunk in flight.
Skipped(q, kept, e, fl, c) ==
    \E k \in 0..Len(Rest(fl, q, c)) :
        /\ Len(Rest(fl, q, c)) - k < QueueMax
        /\ Rest(fl, Append(kept, e), c)
              = Append(SubSeq(Rest(fl, q, c), k + 1, Len(Rest(fl, q, c))), e)
        /\ \E twice \in SUBSET Twice(fl, c) :
              Numbers(q) \ Numbers(kept) = Numbers(SubSeq(Rest(fl, q, c), 1, k)) \cup twice

(* What a push does to what is still to be delivered, when c was sent and  *)
(* is not popped yet (fl) or not.                                          *)
LEMMA PushQueue ==
  ASSUME NEW q \in Seq(Element), NEW e \in Element, NEW a, NEW fl \in BOOLEAN,
         NEW c \in Element, Increasing(q), Len(q) <= QueueMax,
         fl => Precedes(c, q, e.n)
  PROVE  Skipped(q, Kept(q, a), e, fl, c)
<1> DEFINE P == Rest(fl, q, c)
           R == Rest(fl, Append(Kept(q, a), e), c)
<1>0. /\ P = IF fl THEN Popped(q, c) ELSE q
      /\ R = IF fl THEN Popped(Append(Kept(q, a), e), c) ELSE Append(Kept(q, a), e)
      /\ Twice(fl, c) = IF fl THEN {c.n} ELSE {}
  BY DEF Rest, Twice
<1>9. fl => /\ c.n < e.n
            /\ \A j \in 1..Len(q) : c.n < q[j].n \/ (j = 1 /\ q[j] = c)
  BY DEF Precedes
<1> SUFFICES \E k \in 0..Len(P) :
            /\ Len(P) - k < QueueMax
            /\ R = Append(SubSeq(P, k + 1, Len(P)), e)
            /\ \E twice \in SUBSET (IF fl THEN {c.n} ELSE {}) :
                  Numbers(q) \ Numbers(Kept(q, a)) = Numbers(SubSeq(P, 1, k)) \cup twice
  BY <1>0 DEF Skipped
<1> USE <1>0, <1>9
<1> HIDE DEF P, R
<1>1. P \in Seq(Element) /\ Len(P) \in Nat /\ Len(P) <= Len(q) /\ Len(q) \in Nat
  BY PoppedType, PoppedFacts, TailFacts
<1>2. QueueMax \in Nat /\ QueueMax > 0
  BY BoundsAssumption
<1>3. fl => e # c
  BY DEF Element
<1>4. CASE Kept(q, a) = <<>> /\ a \in {"Placeholder", "Drop"}
  <2>1. R = <<e>>
    BY <1>3, <1>4 DEF Popped
  <2>2. SubSeq(P, Len(P) + 1, Len(P)) = <<>> /\ SubSeq(P, 1, Len(P)) = P
    BY <1>1, SubSeqFacts
  <2>3. R = Append(SubSeq(P, Len(P) + 1, Len(P)), e)
    BY <2>1, <2>2
  <2>4. Numbers(q) \ Numbers(Kept(q, a)) = Numbers(q)
    BY <1>4, NumbersEmpty
  <2>5. CASE fl /\ q # <<>> /\ q[1] = c
    <3>1. P = Tail(q)
      BY <2>5 DEF Popped
    <3>2. Numbers(q) = Numbers(P) \cup {c.n}
      BY <2>5, <3>1, NumbersHead
    <3>3. Len(P) \in 0..Len(P) /\ Len(P) - Len(P) < QueueMax
      BY <1>1, <1>2
    <3>4. {c.n} \in SUBSET (IF fl THEN {c.n} ELSE {})
      BY <2>5
    <3> QED  BY <2>2, <2>3, <2>4, <3>2, <3>3, <3>4
  <2>6. CASE ~(fl /\ q # <<>> /\ q[1] = c)
    <3>1. P = q
      BY <2>6 DEF Popped
    <3>3. Len(P) \in 0..Len(P) /\ Len(P) - Len(P) < QueueMax
      BY <1>1, <1>2
    <3>4. {} \in SUBSET (IF fl THEN {c.n} ELSE {}) /\ Numbers(q) = Numbers(P) \cup {}
      BY <3>1
    <3> QED  BY <2>2, <2>3, <2>4, <3>3, <3>4
  <2> QED  BY <2>5, <2>6
<1>5. CASE a \notin {"Placeholder", "Drop"} /\ Len(q) >= QueueMax
  <2>1. Kept(q, a) = Tail(q) /\ q # <<>>
    BY <1>2, <1>5 DEF Kept
  <2>2. Numbers(q) \ Numbers(Kept(q, a)) = {q[1].n}
    BY <2>1, NumbersHead
  <2>3. ASSUME fl PROVE R = Append(Tail(q), e)
    <3>0. Tail(q) \in Seq(Element)
      BY <2>1, TailFacts
    <3>1. ASSUME Tail(q) = <<>> PROVE Append(Tail(q), e)[1] = e
      BY <3>0, <3>1, AppendSome
    <3>2. ASSUME Tail(q) # <<>> PROVE Append(Tail(q), e)[1] = q[2] /\ 2 \in 1..Len(q)
      BY <3>0, <3>2, <2>1
    <3>3. ASSUME Tail(q) # <<>> PROVE q[2] # c
      <4>1. q[2] \in Element /\ q[1] \in Element
        BY <3>2, <3>3
      <4>2. c.n < q[2].n
        BY <2>3, <3>2, <3>3
      <4> QED  BY <4>1, <4>2 DEF Element
    <3>4. Append(Tail(q), e)[1] # c
      BY <1>3, <2>3, <3>1, <3>2, <3>3
    <3>5. Append(Tail(q), e) \in Seq(Element) /\ Append(Tail(q), e) # <<>>
      BY <3>0, AppendFacts, AppendSome
    <3>6. Head(Append(Tail(q), e)) = Append(Tail(q), e)[1]
      BY <3>5, HeadType
    <3> QED  BY <2>1, <2>3, <3>4, <3>6 DEF Popped
  <2>4. R = Append(Tail(q), e)
    BY <2>1, <2>3
  <2>5. CASE fl /\ q[1] = c
    <3>1. P = Tail(q)
      BY <2>1, <2>5 DEF Popped
    <3>2. Len(P) - 0 < QueueMax /\ 0 \in 0..Len(P)
      BY <1>1, <1>2, <2>1, <3>1
    <3>3. SubSeq(P, 0 + 1, Len(P)) = P /\ Numbers(SubSeq(P, 1, 0)) = {}
      <4>1. SubSeq(P, 1, Len(P)) = P /\ SubSeq(P, 1, 0) = <<>>
        BY <1>1, SubSeqFacts
      <4>2. 0 + 1 = 1
        OBVIOUS
      <4> QED  BY <4>1, <4>2, NumbersEmpty
    <3>4. {c.n} \in SUBSET (IF fl THEN {c.n} ELSE {})
      BY <2>5
    <3>5. Numbers(q) \ Numbers(Kept(q, a)) = Numbers(SubSeq(P, 1, 0)) \cup {c.n}
      BY <2>2, <2>5, <3>3
    <3> QED  BY <2>4, <3>1, <3>2, <3>3, <3>4, <3>5
  <2>6. CASE ~(fl /\ q[1] = c)
    <3>1. P = q
      BY <2>1, <2>6 DEF Popped
    <3>2. Len(P) - 1 < QueueMax /\ 1 \in 0..Len(P)
      BY <1>1, <1>2, <2>1, <3>1
    <3>3. SubSeq(P, 1 + 1, Len(P)) = Tail(q) /\ SubSeq(P, 1, 1) = <<q[1]>>
      BY <2>1, <3>1, SubSeqFacts
    <3>4. Numbers(SubSeq(P, 1, 1)) = {q[1].n}
      <4>1. q[1] \in Element
        BY <2>1
      <4> QED  BY <3>3, <4>1, NumbersOne
    <3>5. {} \in SUBSET (IF fl THEN {c.n} ELSE {})
      OBVIOUS
    <3>6. Numbers(q) \ Numbers(Kept(q, a)) = Numbers(SubSeq(P, 1, 1)) \cup {}
      BY <2>2, <3>4
    <3> QED  BY <2>4, <3>2, <3>3, <3>5, <3>6
  <2> QED  BY <2>5, <2>6
<1>6. CASE a \notin {"Placeholder", "Drop"} /\ Len(q) < QueueMax
  <2>1. Kept(q, a) = q
    BY <1>1, <1>2, <1>6 DEF Kept
  <2>2. R = Append(P, e)
    <3>1. CASE ~fl
      BY <2>1, <3>1
    <3>2. CASE fl /\ q = <<>>
      BY <1>3, <2>1, <3>2 DEF Popped
    <3>3. CASE fl /\ q # <<>> /\ q[1] = c
      <4>1. Head(Append(q, e)) = c /\ Tail(Append(q, e)) = Append(Tail(q), e) /\ Append(q, e) # <<>>
        BY <3>3
      <4>2. P = Tail(q)
        BY <3>3 DEF Popped
      <4> QED  BY <2>1, <3>3, <4>1, <4>2 DEF Popped
    <3>4. CASE fl /\ q # <<>> /\ q[1] # c
      <4>1. Head(Append(q, e)) # c
        BY <3>4
      <4>2. P = q
        BY <3>4 DEF Popped
      <4> QED  BY <2>1, <3>4, <4>1, <4>2 DEF Popped
    <3> QED  BY <3>1, <3>2, <3>3, <3>4
  <2>3. Len(P) - 0 < QueueMax /\ 0 \in 0..Len(P)
    BY <1>1, <1>2, <1>6
  <2>4. SubSeq(P, 0 + 1, Len(P)) = P /\ Numbers(SubSeq(P, 1, 0)) = {}
    <3>1. SubSeq(P, 1, Len(P)) = P /\ SubSeq(P, 1, 0) = <<>>
      BY <1>1, SubSeqFacts
    <3>2. 0 + 1 = 1
      OBVIOUS
    <3> QED  BY <3>1, <3>2, NumbersEmpty
  <2>5. {} \in SUBSET (IF fl THEN {c.n} ELSE {})
    OBVIOUS
  <2>6. Numbers(q) \ Numbers(Kept(q, a)) = Numbers(SubSeq(P, 1, 0)) \cup {}
    BY <2>1, <2>4
  <2> QED  BY <2>2, <2>3, <2>4, <2>5, <2>6
<1>7. a \in {"Placeholder", "Drop"} => Kept(q, a) = <<>>
  BY DEF Kept
<1>8. a \notin {"Placeholder", "Drop"} => Len(q) >= QueueMax \/ Len(q) < QueueMax
  BY <1>1, <1>2
<1> QED  BY <1>4, <1>5, <1>6, <1>7, <1>8

LEMMA KeptFront ==
  ASSUME NEW q \in Seq(Element), NEW a, q # <<>>, Increasing(q), NEW e \in Element
  PROVE  \/ Append(Kept(q, a), e)[1] = q[1]
         \/ q[1].n \in Numbers(q) \ Numbers(Kept(q, a))
<1>1. CASE Kept(q, a) = <<>>
  BY <1>1, NumbersHead, NumbersEmpty
<1>2. CASE Kept(q, a) = Tail(q)
  BY <1>2, NumbersHead
<1>3. CASE Kept(q, a) = q
  BY <1>3
<1> QED  BY <1>1, <1>2, <1>3 DEF Kept
-----------------------------------------------------------------------------

LEMMA TakenInit == Init => Taken
BY DEF Init, Taken

LEMMA TakenStep == TypeOK /\ SafeInv /\ LossInv /\ Taken /\ [Next]_vars => Taken'
<1> SUFFICES ASSUME TypeOK, SafeInv, LossInv, Taken, [Next]_vars PROVE Taken'
  OBVIOUS
<1> USE DEF TypeOK, SafeInv, Visits, LockFree, Taken, Limit,
        mainVars, accVars, linkVars, flowVars, sessVars, pubVars,
        sndLocals, sndVars, monVars, sharedVars, notAcc, notPub, notSnd, notMon, notNet
<1>1. CASE UNCHANGED vars
  BY <1>1 DEF vars
<1>2. CASE Acceptor
  <2>1. ASSUME NEW s \in Sub, AcceptRefuse(s) PROVE Taken'
    BY <2>1 DEF AcceptRefuse
  <2>2. ASSUME NEW s \in Sub, Accept(s) PROVE Taken'
    BY <2>2 DEF Accept, LossInv
  <2>3. CASE AccTop
    BY <2>3 DEF AccTop
  <2>4. CASE AccInsert
    BY <2>4 DEF AccInsert
  <2>5. CASE AccWake
    BY <2>5 DEF AccWake
  <2>6. CASE AccExit
    BY <2>6 DEF AccExit
  <2> QED  BY <1>2, <2>1, <2>2, <2>3, <2>4, <2>5, <2>6 DEF Acceptor
<1>3. CASE Publisher
  <2>1. ASSUME NEW s \in Sub, PushSkip(s) PROVE Taken'
    BY <2>1 DEF PushSkip
  <2>2. ASSUME NEW s \in Sub, PushUnsynced(s) PROVE Taken'
    BY <2>2 DEF PushUnsynced
  <2>3. ASSUME NEW s \in Sub, Push(s) PROVE Taken'
    BY <2>3 DEF Push, Running
  <2>4. CASE BroadcastBegin
    BY <2>4 DEF BroadcastBegin
  <2>5. CASE BroadcastEnd
    BY <2>5 DEF BroadcastEnd
  <2>6. CASE PubWake
    BY <2>6 DEF PubWake
  <2>7. CASE PubExit
    BY <2>7 DEF PubExit
  <2> QED  BY <1>3, <2>1, <2>2, <2>3, <2>4, <2>5, <2>6, <2>7 DEF Publisher
<1>4. CASE Sender
  <2>1. ASSUME NEW s \in Sub, SyncDead(s) PROVE Taken'
    BY <2>1 DEF SyncDead
  <2>2. ASSUME NEW s \in Sub, SyncDepth(s) PROVE Taken'
    BY <2>2 DEF SyncDepth
  <2>3. ASSUME NEW s \in Sub, WriteSkip(s) PROVE Taken'
    BY <2>3 DEF WriteSkip
  <2>4. ASSUME NEW s \in Sub, WriteBroken(s) PROVE Taken'
    BY <2>4 DEF WriteBroken
  <2>5. ASSUME NEW s \in Sub, WriteBegin(s) PROVE Taken'
    BY <2>5 DEF WriteBegin
  <2>6. CASE SndExit
    BY <2>6 DEF SndExit
  <2>7. CASE SndTop
    BY <2>7 DEF SndTop
  <2>8. CASE SyncErase
    BY <2>8 DEF SyncErase
  <2>9. CASE SyncStop
    BY <2>9 DEF SyncStop, StopAll, Live
  <2>10. CASE SyncApply
    BY <2>10 DEF SyncApply
  <2>11. CASE SyncDone
    BY <2>11 DEF SyncDone
  <2>12. CASE SndEvents
    BY <2>12 DEF SndEvents
  <2>13. CASE SndTimeout
    BY <2>13 DEF SndTimeout
  <2>14. CASE SendTake
    BY <2>14 DEF SendTake
  <2>15. CASE SendNone
    BY <2>15 DEF SendNone
  <2>16. CASE SendOk
    BY <2>16 DEF SendOk
  <2>17. CASE SendBlocked
    BY <2>17 DEF SendBlocked
  <2>18. CASE SendFailed
    BY <2>18 DEF SendFailed
  <2>19. CASE SendPop
    BY <2>19 DEF SendPop
  <2>20. CASE WriteAfter
    BY <2>20 DEF WriteAfter
  <2>21. CASE WriteQuiet
    BY <2>21 DEF WriteQuiet
  <2>22. CASE WriteDone
    BY <2>22 DEF WriteDone
  <2> QED  BY <1>4, <2>1, <2>2, <2>3, <2>4, <2>5, <2>6, <2>7, <2>8, <2>9, <2>10, <2>11,
        <2>12, <2>13, <2>14, <2>15, <2>16, <2>17, <2>18, <2>19, <2>20, <2>21, <2>22 DEF Sender
<1>5. CASE Monitor
  <2>1. ASSUME NEW s \in Sub, MonGiveUp(s) PROVE Taken'
    BY <2>1 DEF MonGiveUp
  <2>2. ASSUME NEW s \in Sub, NEW a \in Actions, MonEvaluate(s, a) PROVE Taken'
    BY <2>2 DEF MonEvaluate
  <2>3. CASE MonBegin
    BY <2>3 DEF MonBegin
  <2>4. CASE MonClose
    BY <2>4 DEF MonClose
  <2>5. CASE MonWake
    BY <2>5 DEF MonWake
  <2>6. CASE MonExit
    BY <2>6 DEF MonExit
  <2> QED  BY <1>5, <2>1, <2>2, <2>3, <2>4, <2>5, <2>6 DEF Monitor
<1>6. CASE Network
  <2>1. ASSUME NEW s \in Sub, Break(s) PROVE Taken'
    BY <2>1 DEF Break
  <2>2. ASSUME NEW s \in Sub, Drain(s) PROVE Taken'
    BY <2>2 DEF Drain
  <2> QED  BY <1>6, <2>1, <2>2 DEF Network
<1>7. CASE Main
  <2>1. CASE Signal
    BY <2>1 DEF Signal
  <2>2. CASE StopBegin
    BY <2>2 DEF StopBegin
  <2>3. CASE StopEnd
    BY <2>3 DEF StopEnd, StopAll, Live
  <2>4. CASE Stopped
    BY <2>4 DEF Stopped, vars
  <2> QED  BY <1>7, <2>1, <2>2, <2>3, <2>4 DEF Main
<1> QED  BY <1>1, <1>2, <1>3, <1>4, <1>5, <1>6, <1>7 DEF Next

LEMMA SendingInit == Init => Sending /\ Sent
BY DEF Init, Sending, Sent

LEMMA SendingStep == TypeOK /\ OrderInv /\ Sending /\ [Next]_vars => Sending'
<1> SUFFICES ASSUME TypeOK, OrderInv, Sending, [Next]_vars PROVE Sending'
  OBVIOUS
<1> USE DEF TypeOK, Sending,
        mainVars, accVars, linkVars, flowVars, sessVars, pubVars,
        sndLocals, sndVars, monVars, sharedVars, notAcc, notPub, notSnd, notMon, notNet
<1>1. CASE UNCHANGED vars
  BY <1>1 DEF vars
<1>2. CASE Acceptor
  <2>1. ASSUME NEW s \in Sub, AcceptRefuse(s) PROVE Sending'
    BY <2>1 DEF AcceptRefuse
  <2>2. ASSUME NEW s \in Sub, Accept(s) PROVE Sending'
    BY <2>2 DEF Accept
  <2>3. CASE AccTop
    BY <2>3 DEF AccTop
  <2>4. CASE AccInsert
    BY <2>4 DEF AccInsert
  <2>5. CASE AccWake
    BY <2>5 DEF AccWake
  <2>6. CASE AccExit
    BY <2>6 DEF AccExit
  <2> QED  BY <1>2, <2>1, <2>2, <2>3, <2>4, <2>5, <2>6 DEF Acceptor
<1>3. CASE Publisher
  <2>1. ASSUME NEW s \in Sub, PushSkip(s) PROVE Sending'
    BY <2>1 DEF PushSkip
  <2>2. ASSUME NEW s \in Sub, PushUnsynced(s) PROVE Sending'
    BY <2>2 DEF PushUnsynced
  <2>3. ASSUME NEW s \in Sub, Push(s) PROVE Sending'
    <3> DEFINE q == queue[s]
               e == [n |-> chunks, null |-> action[s] = "Placeholder"]
               kept == Kept(q, action[s])
    <3>1. /\ queue' = [queue EXCEPT ![s] = Append(kept, e)] /\ UNCHANGED <<sndPc, cur, chunk>>
          /\ dropped' = [dropped EXCEPT ![s] = @ \cup (Numbers(q) \ Numbers(kept))
                           \cup (IF action[s] = "Placeholder" THEN {chunks} ELSE {})]
      BY <2>3 DEF Push
    <3>2. CASE s # cur
      <4>1. queue'[cur] = queue[cur] /\ dropped'[cur] = dropped[cur]
        BY <3>1, <3>2
      <4> QED  BY <3>1, <4>1
    <3>3. CASE s = cur
      <4>1. queue'[cur] = Append(kept, e)
        BY <3>1, <3>3
      <4>2. dropped[cur] \cup (Numbers(q) \ Numbers(kept)) \subseteq dropped'[cur]
        BY <3>1, <3>3
      <4>3. q \in Seq(Element) /\ e \in Element /\ Increasing(q)
        BY DEF OrderInv, Element
      <4>4. kept \in Seq(Element)
        BY <4>3, KeptType
      <4>5. Append(kept, e) # <<>>
        BY <4>3, <4>4, AppendSome
      <4>6. q # <<>> => Append(kept, e)[1] = q[1] \/ q[1].n \in Numbers(q) \ Numbers(kept)
        BY <4>3, KeptFront
      <4> HIDE DEF kept, e
      <4> QED  BY <3>1, <3>3, <4>1, <4>2, <4>5, <4>6
    <3> QED  BY <3>2, <3>3
  <2>4. CASE BroadcastBegin
    BY <2>4 DEF BroadcastBegin
  <2>5. CASE BroadcastEnd
    BY <2>5 DEF BroadcastEnd
  <2>6. CASE PubWake
    BY <2>6 DEF PubWake
  <2>7. CASE PubExit
    BY <2>7 DEF PubExit
  <2> QED  BY <1>3, <2>1, <2>2, <2>3, <2>4, <2>5, <2>6, <2>7 DEF Publisher
<1>4. CASE Sender
  <2>1. ASSUME NEW s \in Sub, SyncDead(s) PROVE Sending'
    BY <2>1 DEF SyncDead
  <2>2. ASSUME NEW s \in Sub, SyncDepth(s) PROVE Sending'
    BY <2>2 DEF SyncDepth
  <2>3. ASSUME NEW s \in Sub, WriteSkip(s) PROVE Sending'
    BY <2>3 DEF WriteSkip
  <2>4. ASSUME NEW s \in Sub, WriteBroken(s) PROVE Sending'
    BY <2>4 DEF WriteBroken
  <2>5. ASSUME NEW s \in Sub, WriteBegin(s) PROVE Sending'
    BY <2>5 DEF WriteBegin
  <2>6. CASE SndExit
    BY <2>6 DEF SndExit
  <2>7. CASE SndTop
    BY <2>7 DEF SndTop
  <2>8. CASE SyncErase
    BY <2>8 DEF SyncErase
  <2>9. CASE SyncStop
    BY <2>9 DEF SyncStop
  <2>10. CASE SyncApply
    BY <2>10 DEF SyncApply
  <2>11. CASE SyncDone
    BY <2>11 DEF SyncDone
  <2>12. CASE SndEvents
    BY <2>12 DEF SndEvents
  <2>13. CASE SndTimeout
    BY <2>13 DEF SndTimeout
  <2>14. CASE SendTake
    BY <2>14, HeadType DEF SendTake
  <2>15. CASE SendNone
    BY <2>15 DEF SendNone
  <2>16. CASE SendOk
    BY <2>16 DEF SendOk
  <2>17. CASE SendBlocked
    BY <2>17 DEF SendBlocked
  <2>18. CASE SendFailed
    BY <2>18 DEF SendFailed
  <2>19. CASE SendPop
    BY <2>19 DEF SendPop
  <2>20. CASE WriteAfter
    BY <2>20 DEF WriteAfter
  <2>21. CASE WriteQuiet
    BY <2>21 DEF WriteQuiet
  <2>22. CASE WriteDone
    BY <2>22 DEF WriteDone
  <2> QED  BY <1>4, <2>1, <2>2, <2>3, <2>4, <2>5, <2>6, <2>7, <2>8, <2>9, <2>10, <2>11,
        <2>12, <2>13, <2>14, <2>15, <2>16, <2>17, <2>18, <2>19, <2>20, <2>21, <2>22 DEF Sender
<1>5. CASE Monitor
  <2>1. ASSUME NEW s \in Sub, MonGiveUp(s) PROVE Sending'
    BY <2>1 DEF MonGiveUp
  <2>2. ASSUME NEW s \in Sub, NEW a \in Actions, MonEvaluate(s, a) PROVE Sending'
    <3>1. UNCHANGED <<sndPc, cur, chunk>>
      BY <2>2 DEF MonEvaluate
    <3>2. \/ queue'[cur] = queue[cur] /\ dropped'[cur] = dropped[cur]
          \/ dropped'[cur] = dropped[cur] \cup Numbers(queue[cur])
      BY <2>2 DEF MonEvaluate
    <3>3. queue[cur] # <<>> => queue[cur][1].n \in Numbers(queue[cur])
      BY HeadType DEF Numbers
    <3> QED  BY <3>1, <3>2, <3>3
  <2>3. CASE MonBegin
    BY <2>3 DEF MonBegin
  <2>4. CASE MonClose
    BY <2>4 DEF MonClose
  <2>5. CASE MonWake
    BY <2>5 DEF MonWake
  <2>6. CASE MonExit
    BY <2>6 DEF MonExit
  <2> QED  BY <1>5, <2>1, <2>2, <2>3, <2>4, <2>5, <2>6 DEF Monitor
<1>6. CASE Network
  <2>1. ASSUME NEW s \in Sub, Break(s) PROVE Sending'
    BY <2>1 DEF Break
  <2>2. ASSUME NEW s \in Sub, Drain(s) PROVE Sending'
    BY <2>2 DEF Drain
  <2> QED  BY <1>6, <2>1, <2>2 DEF Network
<1>7. CASE Main
  <2>1. CASE Signal
    BY <2>1 DEF Signal
  <2>2. CASE StopBegin
    BY <2>2 DEF StopBegin
  <2>3. CASE StopEnd
    BY <2>3 DEF StopEnd, Joined
  <2>4. CASE Stopped
    BY <2>4 DEF Stopped, vars
  <2> QED  BY <1>7, <2>1, <2>2, <2>3, <2>4 DEF Main
<1> QED  BY <1>1, <1>2, <1>3, <1>4, <1>5, <1>6, <1>7 DEF Next

LEMMA SentStep == TypeOK /\ Sent /\ [Next]_vars => Sent'
<1> SUFFICES ASSUME TypeOK, Sent, [Next]_vars PROVE Sent'
  OBVIOUS
<1> USE DEF TypeOK, Sent,
        mainVars, accVars, linkVars, flowVars, sessVars, pubVars,
        sndLocals, sndVars, monVars, sharedVars, notAcc, notPub, notSnd, notMon, notNet
<1>1. CASE UNCHANGED vars
  BY <1>1 DEF vars
<1>2. CASE Acceptor
  <2>1. ASSUME NEW s \in Sub, AcceptRefuse(s) PROVE Sent'
    BY <2>1 DEF AcceptRefuse
  <2>2. ASSUME NEW s \in Sub, Accept(s) PROVE Sent'
    BY <2>2 DEF Accept
  <2>3. CASE AccTop
    BY <2>3 DEF AccTop
  <2>4. CASE AccInsert
    BY <2>4 DEF AccInsert
  <2>5. CASE AccWake
    BY <2>5 DEF AccWake
  <2>6. CASE AccExit
    BY <2>6 DEF AccExit
  <2> QED  BY <1>2, <2>1, <2>2, <2>3, <2>4, <2>5, <2>6 DEF Acceptor
<1>3. CASE Publisher
  <2>1. ASSUME NEW s \in Sub, PushSkip(s) PROVE Sent'
    BY <2>1 DEF PushSkip
  <2>2. ASSUME NEW s \in Sub, PushUnsynced(s) PROVE Sent'
    BY <2>2 DEF PushUnsynced
  <2>3. ASSUME NEW s \in Sub, Push(s) PROVE Sent'
    BY <2>3 DEF Push
  <2>4. CASE BroadcastBegin
    BY <2>4 DEF BroadcastBegin
  <2>5. CASE BroadcastEnd
    BY <2>5 DEF BroadcastEnd
  <2>6. CASE PubWake
    BY <2>6 DEF PubWake
  <2>7. CASE PubExit
    BY <2>7 DEF PubExit
  <2> QED  BY <1>3, <2>1, <2>2, <2>3, <2>4, <2>5, <2>6, <2>7 DEF Publisher
<1>4. CASE Sender
  <2>1. ASSUME NEW s \in Sub, SyncDead(s) PROVE Sent'
    BY <2>1 DEF SyncDead
  <2>2. ASSUME NEW s \in Sub, SyncDepth(s) PROVE Sent'
    BY <2>2 DEF SyncDepth
  <2>3. ASSUME NEW s \in Sub, WriteSkip(s) PROVE Sent'
    BY <2>3 DEF WriteSkip
  <2>4. ASSUME NEW s \in Sub, WriteBroken(s) PROVE Sent'
    BY <2>4 DEF WriteBroken
  <2>5. ASSUME NEW s \in Sub, WriteBegin(s) PROVE Sent'
    BY <2>5 DEF WriteBegin
  <2>6. CASE SndExit
    BY <2>6 DEF SndExit
  <2>7. CASE SndTop
    BY <2>7 DEF SndTop
  <2>8. CASE SyncErase
    BY <2>8 DEF SyncErase
  <2>9. CASE SyncStop
    BY <2>9 DEF SyncStop
  <2>10. CASE SyncApply
    BY <2>10 DEF SyncApply
  <2>11. CASE SyncDone
    BY <2>11 DEF SyncDone
  <2>12. CASE SndEvents
    BY <2>12 DEF SndEvents
  <2>13. CASE SndTimeout
    BY <2>13 DEF SndTimeout
  <2>14. CASE SendTake
    BY <2>14 DEF SendTake
  <2>15. CASE SendNone
    BY <2>15 DEF SendNone
  <2>16. CASE SendOk
    <3>1. wire'[cur] = Append(wire[cur], chunk) /\ UNCHANGED <<cur, chunk>>
      BY <2>16 DEF SendOk
    <3>2. wire[cur] \in Seq(Element) /\ chunk \in Element
      OBVIOUS
    <3>3. PICK n \in Nat : n = Len(wire[cur])
      BY <3>2
    <3>4. /\ Append(wire[cur], chunk) \in Seq(Element)
          /\ Len(Append(wire[cur], chunk)) = n + 1 /\ Append(wire[cur], chunk)[n + 1] = chunk
      BY <3>2, <3>3, AppendFacts
    <3>5. Append(wire[cur], chunk) # <<>>
      BY <3>2, AppendSome
    <3> QED  BY <3>1, <3>4, <3>5
  <2>17. CASE SendBlocked
    BY <2>17 DEF SendBlocked
  <2>18. CASE SendFailed
    BY <2>18 DEF SendFailed
  <2>19. CASE SendPop
    BY <2>19 DEF SendPop
  <2>20. CASE WriteAfter
    BY <2>20 DEF WriteAfter
  <2>21. CASE WriteQuiet
    BY <2>21 DEF WriteQuiet
  <2>22. CASE WriteDone
    BY <2>22 DEF WriteDone
  <2> QED  BY <1>4, <2>1, <2>2, <2>3, <2>4, <2>5, <2>6, <2>7, <2>8, <2>9, <2>10, <2>11,
        <2>12, <2>13, <2>14, <2>15, <2>16, <2>17, <2>18, <2>19, <2>20, <2>21, <2>22 DEF Sender
<1>5. CASE Monitor
  <2>1. ASSUME NEW s \in Sub, MonGiveUp(s) PROVE Sent'
    BY <2>1 DEF MonGiveUp
  <2>2. ASSUME NEW s \in Sub, NEW a \in Actions, MonEvaluate(s, a) PROVE Sent'
    BY <2>2 DEF MonEvaluate
  <2>3. CASE MonBegin
    BY <2>3 DEF MonBegin
  <2>4. CASE MonClose
    BY <2>4 DEF MonClose
  <2>5. CASE MonWake
    BY <2>5 DEF MonWake
  <2>6. CASE MonExit
    BY <2>6 DEF MonExit
  <2> QED  BY <1>5, <2>1, <2>2, <2>3, <2>4, <2>5, <2>6 DEF Monitor
<1>6. CASE Network
  <2>1. ASSUME NEW s \in Sub, Break(s) PROVE Sent'
    BY <2>1 DEF Break
  <2>2. ASSUME NEW s \in Sub, Drain(s) PROVE Sent'
    BY <2>2 DEF Drain
  <2> QED  BY <1>6, <2>1, <2>2 DEF Network
<1>7. CASE Main
  <2>1. CASE Signal
    BY <2>1 DEF Signal
  <2>2. CASE StopBegin
    BY <2>2 DEF StopBegin
  <2>3. CASE StopEnd
    BY <2>3 DEF StopEnd
  <2>4. CASE Stopped
    BY <2>4 DEF Stopped, vars
  <2> QED  BY <1>7, <2>1, <2>2, <2>3, <2>4 DEF Main
<1> QED  BY <1>1, <1>2, <1>3, <1>4, <1>5, <1>6, <1>7 DEF Next

-----------------------------------------------------------------------------
(* The steps of the relay as steps of the stream.                          *)

\* What LossyStream sees of the relay.
Pending == [s \in Sub |-> Unsent(s)]

LEMMA CarriedIs == ASSUME NEW q PROVE Stream!Carried(q) = Numbers(q)
BY DEF Stream!Carried, Numbers

\* A step that changes none of it is a stutter.
Same ==
    /\ chunks' = chunks /\ sess' = sess /\ accepted' = accepted
    /\ queue' = queue /\ dropped' = dropped /\ wire' = wire
    /\ \/ sndPc' = sndPc /\ cur' = cur /\ chunk' = chunk
       \/ sndPc # "pop" /\ sndPc' # "pop"

LEMMA Unseen == Same => UNCHANGED Stream!vars
<1> SUFFICES ASSUME Same PROVE UNCHANGED Stream!vars
  OBVIOUS
<1> USE DEF Same
<1>1. Live' = Live
  BY DEF Live
<1>2. \A s \in Sub : Unsent(s)' = Unsent(s)
  BY DEF Unsent
<1>3. Pending' = Pending
  BY <1>2 DEF Pending
<1> QED  BY <1>1, <1>3 DEF Stream!vars, Pending

LEMMA BroadcastPublishes == ASSUME BroadcastBegin PROVE Stream!Publish
<1>1. /\ chunks' = chunks + 1 /\ UNCHANGED <<sess, accepted, queue, dropped, wire>>
      /\ UNCHANGED <<sndPc, cur, chunk>>
  BY DEF BroadcastBegin, notPub, sessVars, flowVars, linkVars, sndVars, sndLocals
<1>2. Live' = Live /\ \A s \in Sub : Unsent(s)' = Unsent(s)
  BY <1>1 DEF Live, Unsent
<1>3. Pending' = Pending
  BY <1>2 DEF Pending
<1> QED  BY <1>1, <1>2, <1>3 DEF Stream!Publish, Pending

LEMMA AcceptJoins ==
  ASSUME TypeOK, SafeInv, Taken, NEW s \in Sub, Accept(s)
  PROVE  Stream!Join(s)
<1>1. /\ sock[s] = "none" /\ sess' = [sess EXCEPT ![s] = "live"]
      /\ UNCHANGED <<chunks, accepted, queue, dropped, wire, sndPc, cur, chunk>>
  BY DEF Accept, notAcc, flowVars, pubVars, sndVars, sndLocals
<1>2. sess[s] = "none"
  BY <1>1 DEF SafeInv, Listed
<1>3. s \notin Live /\ Live' = Live \cup {s}
  BY <1>1, <1>2 DEF TypeOK, Live
<1>4. accepted[s] = {}
  BY <1>2 DEF Taken
<1>5. Pending' = Pending
  BY <1>1 DEF Pending, Unsent
<1> QED  BY <1>1, <1>3, <1>4, <1>5 DEF Stream!Join, Pending

LEMMA PushAccepts ==
  ASSUME TypeOK, OrderInv, QueueBounded, Taken, Sent, NEW s \in Sub, Push(s)
  PROVE  Stream!Accept(s, action[s] = "Placeholder")
<1> DEFINE null == action[s] = "Placeholder"
           e == [n |-> chunks, null |-> null]
           q == queue[s]
           kept == Kept(q, action[s])
           fl == InFlight(s)
           P == Rest(fl, q, chunk)
           R == Rest(fl, Append(kept, e), chunk)
           more == IF null THEN {chunks} ELSE {}
<1>1. /\ queue' = [queue EXCEPT ![s] = Append(kept, e)]
      /\ dropped' = [dropped EXCEPT ![s] = @ \cup (Numbers(q) \ Numbers(kept)) \cup more]
      /\ accepted' = [accepted EXCEPT ![s] = @ \cup {chunks}]
      /\ UNCHANGED <<chunks, sess, wire, sndPc, cur, chunk>>
      /\ s \in pubTodo /\ Running(s) /\ InSync(s)
  BY DEF Push, notPub, sndVars, sndLocals, linkVars
<1>2. s \in Live /\ Live' = Live
  BY <1>1 DEF Running, Live
<1>3. chunks \notin accepted[s] /\ (accepted[s] = {} => chunks \in Rap)
  <2>1. Limit(s) = chunks
    BY <1>1 DEF Limit
  <2>2. chunks \notin accepted[s]
    BY <2>1 DEF Taken, TypeOK
  <2> QED  BY <1>1, <2>2 DEF Taken, InSync
<1>4. /\ q \in Seq(Element) /\ e \in Element /\ chunk \in Element
      /\ Increasing(q) /\ Len(q) <= QueueMax
  BY DEF TypeOK, Element, OrderInv, QueueBounded
<1>5. ASSUME fl
      PROVE  Precedes(chunk, q, e.n)
  <2>1. sndPc = "pop" /\ cur = s
    BY <1>5 DEF InFlight
  <2>2. PICK i \in Nat : i = Len(wire[s])
    BY DEF TypeOK
  <2>3. i \in 1..Len(wire[s]) /\ wire[s][i] = chunk
    BY <2>1, <2>2 DEF Sent, TypeOK
  <2>4. Below(wire[s], chunks) /\ WireBeforeQueue(s)
    BY <1>1 DEF OrderInv, Limit
  <2> QED  BY <2>3, <2>4 DEF Below, WireBeforeQueue, Precedes
<1>6. PICK k \in 0..Len(P) :
            /\ Len(P) - k < QueueMax
            /\ R = Append(SubSeq(P, k + 1, Len(P)), e)
            /\ \E twice \in SUBSET Twice(fl, chunk) :
                  Numbers(q) \ Numbers(kept) = Numbers(SubSeq(P, 1, k)) \cup twice
  <2>1. fl \in BOOLEAN
    BY DEF InFlight
  <2> HIDE DEF fl, e, null, q
  <2>2. fl => Precedes(chunk, q, e.n)
    BY <1>5
  <2>3. Skipped(q, kept, e, fl, chunk)
    BY <1>4, <2>1, <2>2, PushQueue, Zenon
  <2> HIDE DEF kept
  <2> QED  BY <2>3 DEF Skipped
<1>7. PICK twice \in SUBSET Twice(fl, chunk) :
            Numbers(q) \ Numbers(kept) = Numbers(SubSeq(P, 1, k)) \cup twice
  BY <1>6
<1>8. Unsent(s) = P /\ Unsent(s)' = R
  BY <1>1 DEF Unsent, InFlight, Rest, TypeOK
<1>9. Pending' = [Pending EXCEPT ![s] = R] /\ Pending[s] = P
  <2>1. \A r \in Sub \ {s} : Unsent(r)' = Unsent(r)
    BY <1>1 DEF Unsent
  <2> HIDE DEF R, P
  <2> QED  BY <1>8, <2>1 DEF Pending
<1>10. twice \in SUBSET Stream!InDoubt(s)
  BY DEF Stream!InDoubt, InFlight, Twice, Sent
<1>11. Stream!Skip(s, k, more)
  <2>1. dropped' = [dropped EXCEPT ![s] =
                       @ \cup Numbers(SubSeq(Pending[s], 1, k)) \cup twice \cup more]
    BY <1>1, <1>7, <1>9
  <2> HIDE DEF more
  <2> QED  BY <1>10, <2>1, CarriedIs DEF Stream!Skip, Pending
<1>12. /\ k \in 0..Len(Pending[s]) /\ Len(Pending[s]) - k < QueueMax
       /\ Pending' = [Pending EXCEPT ![s] = Append(SubSeq(@, k + 1, Len(@)), e)]
  BY <1>6, <1>9
<1> QED  BY <1>1, <1>2, <1>3, <1>11, <1>12 DEF Stream!Accept, Pending

LEMMA SendDelivers ==
  ASSUME TypeOK, OrderInv, SafeInv, Sending, SendOk
  PROVE  Stream!Deliver(cur) \/ Stream!DeliverLate(cur)
<1> DEFINE q == queue[cur]
<1>1. /\ sndPc = "send" /\ sndPc' = "pop"
      /\ wire' = [wire EXCEPT ![cur] = Append(@, chunk)]
      /\ UNCHANGED <<chunks, sess, accepted, queue, dropped, cur, chunk>>
  BY DEF SendOk, notSnd, pubVars, sndLocals
<1>2. cur \in Live /\ Live' = Live /\ cur \in Sub
  <2>1. cur \in subscribers /\ cur \in Sub
    BY <1>1 DEF SafeInv, Reaches, TypeOK
  <2> QED  BY <1>1, <2>1 DEF SafeInv, Listed, Live
<1>3. q \in Seq(Element) /\ wire[cur] \in Seq(Element) /\ chunk \in Element
  BY <1>2 DEF TypeOK
<1>4. /\ \A s \in Sub : Unsent(s) = queue[s]
      /\ \A s \in Sub : Unsent(s)' = IF s = cur THEN Popped(q, chunk) ELSE queue[s]
  BY <1>1 DEF Unsent
<1>5. Pending[cur] = q /\ Pending' = [Pending EXCEPT ![cur] = Popped(q, chunk)]
  BY <1>2, <1>4 DEF Pending
<1>6. CASE q # <<>> /\ Head(q) = chunk
  <2>1. Pending' = [Pending EXCEPT ![cur] = Tail(@)] /\ Head(Pending[cur]) = chunk
    BY <1>5, <1>6 DEF Popped
  <2>2. Pending[cur] # <<>>
    BY <1>5, <1>6
  <2>3. wire' = [wire EXCEPT ![cur] = Append(@, Head(Pending[cur]))]
    BY <1>1, <2>1
  <2> QED  BY <1>1, <1>2, <2>1, <2>2, <2>3 DEF Stream!Deliver, Pending
<1>7. CASE ~(q # <<>> /\ Head(q) = chunk)
  <2>1. Pending' = Pending
    <3>1. Popped(q, chunk) = q
      BY <1>7 DEF Popped
    <3> QED  BY <1>2, <1>5, <3>1 DEF Pending
  <2>2. chunk.n \in dropped[cur]
    BY <1>1, <1>3, <1>7, HeadType DEF Sending
  <2>3. Stream!After(wire[cur], chunk.n)
    <3>1. Below(wire[cur], chunk.n)
      BY <1>1 DEF OrderInv, SendInOrder
    <3>2. wire[cur] # <<>> => Len(wire[cur]) \in 1..Len(wire[cur])
      BY <1>3
    <3> QED  BY <3>1, <3>2 DEF Below, Stream!After
  <2>4. \A p \in Numbers(q) : chunk.n < p
    <3>1. \A j \in 1..Len(q) : chunk.n < q[j].n
      BY <1>1, <1>3, <1>7, HeadType DEF OrderInv, SendInOrder
    <3> QED  BY <1>3, <3>1 DEF Numbers
  <2>5. chunk = [n |-> chunk.n, null |-> chunk.null] /\ chunk.null \in BOOLEAN
    BY <1>3 DEF Element
  <2>6. \A p \in Stream!Carried(Pending[cur]) : chunk.n < p
    BY <1>5, <2>4, CarriedIs
  <2>7. \E m \in dropped[cur], null \in BOOLEAN :
          /\ Stream!After(wire[cur], m) /\ \A p \in Stream!Carried(Pending[cur]) : m < p
          /\ wire' = [wire EXCEPT ![cur] = Append(@, [n |-> m, null |-> null])]
    <3>1. wire' = [wire EXCEPT ![cur] = Append(@, [n |-> chunk.n, null |-> chunk.null])]
      BY <1>1, <2>5
    <3> QED  BY <2>2, <2>3, <2>5, <2>6, <3>1
  <2> QED  BY <1>1, <1>2, <2>1, <2>7 DEF Stream!DeliverLate, Pending
<1> QED  BY <1>6, <1>7

LEMMA PopStutters == ASSUME TypeOK, SendPop PROVE UNCHANGED Stream!vars
<1>1. /\ sndPc = "pop" /\ sndPc' = "take" /\ cur \in Sub
      /\ queue' = [queue EXCEPT ![cur] = Popped(@, chunk)]
      /\ UNCHANGED <<chunks, sess, accepted, dropped, wire, cur>>
  BY DEF SendPop, notSnd, pubVars, linkVars, TypeOK
<1>2. \A s \in Sub : Unsent(s)' = Unsent(s)
  BY <1>1 DEF Unsent, TypeOK
<1>3. Pending' = Pending /\ Live' = Live
  BY <1>1, <1>2 DEF Pending, Live
<1> QED  BY <1>1, <1>3 DEF Stream!vars, Pending

LEMMA EvaluateDiscards ==
  ASSUME TypeOK, OrderInv, Sent, NEW s \in Sub, NEW a \in Actions, MonEvaluate(s, a)
  PROVE  Stream!Discard(s) \/ UNCHANGED Stream!vars
<1> DEFINE q == queue[s]
<1>1. UNCHANGED <<chunks, sess, accepted, wire, sndPc, cur, chunk>>
  BY DEF MonEvaluate, notMon, pubVars, sndVars, sndLocals, linkVars
<1>2. CASE UNCHANGED <<dropped, queue>>
  <2>1. Same
    BY <1>1, <1>2 DEF Same
  <2> QED  BY <2>1, Unseen
<1>3. CASE /\ dropped' = [dropped EXCEPT ![s] = @ \cup Numbers(q)]
           /\ queue' = [queue EXCEPT ![s] = <<>>]
  <2>1. q \in Seq(Element) /\ Increasing(q)
    BY DEF TypeOK, OrderInv
  <2>2. Unsent(s) \in Seq(Element)
    BY <2>1, PoppedType DEF Unsent
  <2>3. \A r \in Sub : Unsent(r)' = IF r = s THEN <<>> ELSE Unsent(r)
    BY <1>1, <1>3 DEF Unsent, Popped, TypeOK
  <2>4. Pending' = [Pending EXCEPT ![s] = <<>>] /\ Pending[s] = Unsent(s)
    BY <2>3 DEF Pending
  <2>5. PICK twice \in SUBSET Stream!InDoubt(s) : Numbers(q) = Numbers(Unsent(s)) \cup twice
    <3>1. CASE sndPc = "pop" /\ s = cur /\ q # <<>> /\ Head(q) = chunk
      <4>1. Unsent(s) = Tail(q) /\ q[1] = chunk
        BY <2>1, <3>1, HeadType DEF Unsent, Popped
      <4>2. Numbers(q) = Numbers(Unsent(s)) \cup {chunk.n}
        BY <2>1, <3>1, <4>1, NumbersHead
      <4>3. {chunk.n} \in SUBSET Stream!InDoubt(s)
        BY <3>1 DEF Stream!InDoubt, Sent
      <4> QED  BY <4>2, <4>3
    <3>2. CASE ~(sndPc = "pop" /\ s = cur /\ q # <<>> /\ Head(q) = chunk)
      <4>1. Unsent(s) = q
        BY <3>2 DEF Unsent, Popped
      <4>2. {} \in SUBSET Stream!InDoubt(s) /\ Numbers(q) = Numbers(Unsent(s)) \cup {}
        BY <4>1
      <4> QED  BY <4>2
    <3> QED  BY <3>1, <3>2
  <2>6. SubSeq(Pending[s], 1, Len(Pending[s])) = Pending[s]
    BY <2>2, <2>4, SubSeqFacts
  <2>7. dropped' = [dropped EXCEPT ![s] = @ \cup Stream!Carried(
                       SubSeq(Pending[s], 1, Len(Pending[s]))) \cup twice \cup {}]
    BY <1>3, <2>4, <2>5, <2>6, CarriedIs
  <2>8. Stream!Skip(s, Len(Pending[s]), {})
    BY <2>5, <2>7 DEF Stream!Skip, Pending
  <2>9. Live' = Live
    BY <1>1 DEF Live
  <2> QED  BY <1>1, <2>4, <2>8, <2>9 DEF Stream!Discard, Pending
<1> QED  BY <1>2, <1>3 DEF MonEvaluate

LEMMA StopLeaves ==
  ASSUME TypeOK, NEW S, StopAll(S), sndPc # "pop", sndPc' # "pop",
         UNCHANGED <<chunks, accepted, dropped, wire>>
  PROVE  Stream!Leave(S \cap Live)
<1>1. Live' = Live \ (S \cap Live)
  BY DEF StopAll, Live
<1>2. \A s \in Sub : Unsent(s)' = IF s \in S \cap Live THEN <<>> ELSE Unsent(s)
  BY DEF StopAll, Unsent
<1>3. Pending' = [s \in Sub |-> IF s \in S \cap Live THEN <<>> ELSE Pending[s]]
  BY <1>2 DEF Pending
<1> QED  BY <1>1, <1>3 DEF Stream!Leave, Pending

Moves == Stream!Next \/ Same \/ UNCHANGED Stream!vars

LEMMA StreamStep ==
  TypeOK /\ OrderInv /\ QueueBounded /\ SafeInv /\ StreamInv /\ [Next]_vars => Moves
<1> SUFFICES ASSUME TypeOK, OrderInv, QueueBounded, SafeInv, StreamInv, [Next]_vars PROVE Moves
  OBVIOUS
<1> USE DEF mainVars, accVars, linkVars, flowVars, sessVars, pubVars,
        sndLocals, sndVars, monVars, sharedVars, notAcc, notPub, notSnd, notMon, notNet
<1>1. CASE UNCHANGED vars
  BY <1>1 DEF vars, Same, Moves
<1>2. CASE Acceptor
  <2>1. ASSUME NEW s \in Sub, AcceptRefuse(s) PROVE Moves
    BY <2>1 DEF AcceptRefuse, Same, Moves
  <2>2. ASSUME NEW s \in Sub, Accept(s) PROVE Moves
    <3>1. Stream!Join(s)
      BY <2>2, AcceptJoins DEF StreamInv
    <3> QED  BY <3>1 DEF Stream!Next, Moves
  <2>3. CASE AccTop
    BY <2>3 DEF AccTop, Same, Moves
  <2>4. CASE AccInsert
    BY <2>4 DEF AccInsert, Same, Moves
  <2>5. CASE AccWake
    BY <2>5 DEF AccWake, Same, Moves
  <2>6. CASE AccExit
    BY <2>6 DEF AccExit, Same, Moves
  <2> QED  BY <1>2, <2>1, <2>2, <2>3, <2>4, <2>5, <2>6 DEF Acceptor
<1>3. CASE Publisher
  <2>1. ASSUME NEW s \in Sub, PushSkip(s) PROVE Moves
    BY <2>1 DEF PushSkip, Same, Moves
  <2>2. ASSUME NEW s \in Sub, PushUnsynced(s) PROVE Moves
    BY <2>2 DEF PushUnsynced, Same, Moves
  <2>3. ASSUME NEW s \in Sub, Push(s) PROVE Moves
    <3>1. Stream!Accept(s, action[s] = "Placeholder")
      BY <2>3, PushAccepts DEF StreamInv
    <3>2. (action[s] = "Placeholder") \in BOOLEAN
      OBVIOUS
    <3> QED  BY <3>1, <3>2, Zenon DEF Stream!Next, Moves
  <2>4. CASE BroadcastBegin
    <3>1. Stream!Publish
      BY <2>4, BroadcastPublishes
    <3> QED  BY <3>1 DEF Stream!Next, Moves
  <2>5. CASE BroadcastEnd
    BY <2>5 DEF BroadcastEnd, Same, Moves
  <2>6. CASE PubWake
    BY <2>6 DEF PubWake, Same, Moves
  <2>7. CASE PubExit
    BY <2>7 DEF PubExit, Same, Moves
  <2> QED  BY <1>3, <2>1, <2>2, <2>3, <2>4, <2>5, <2>6, <2>7 DEF Publisher
<1>4. CASE Sender
  <2>1. ASSUME NEW s \in Sub, SyncDead(s) PROVE Moves
    BY <2>1 DEF SyncDead, Same, Moves
  <2>2. ASSUME NEW s \in Sub, SyncDepth(s) PROVE Moves
    BY <2>2 DEF SyncDepth, Same, Moves
  <2>3. ASSUME NEW s \in Sub, WriteSkip(s) PROVE Moves
    BY <2>3 DEF WriteSkip, Same, Moves
  <2>4. ASSUME NEW s \in Sub, WriteBroken(s) PROVE Moves
    BY <2>4 DEF WriteBroken, Same, Moves
  <2>5. ASSUME NEW s \in Sub, WriteBegin(s) PROVE Moves
    BY <2>5 DEF WriteBegin, Same, Moves
  <2>6. CASE SndExit
    BY <2>6 DEF SndExit, Same, Moves
  <2>7. CASE SndTop
    BY <2>7 DEF SndTop, Same, Moves
  <2>8. CASE SyncErase
    BY <2>8 DEF SyncErase, Same, Moves
  <2>9. CASE SyncStop
    <3>1. StopAll({cur}) /\ sndPc # "pop" /\ sndPc' # "pop"
      BY <2>9 DEF SyncStop
    <3>2. UNCHANGED <<chunks, accepted, dropped, wire>>
      BY <2>9 DEF SyncStop
    <3>3. Stream!Leave({cur} \cap Live)
      BY <3>1, <3>2, StopLeaves
    <3>4. {cur} \cap Live \in SUBSET Live
      OBVIOUS
    <3> QED  BY <3>3, <3>4 DEF Stream!Next, Moves
  <2>10. CASE SyncApply
    BY <2>10 DEF SyncApply, Same, Moves
  <2>11. CASE SyncDone
    BY <2>11 DEF SyncDone, Same, Moves
  <2>12. CASE SndEvents
    BY <2>12 DEF SndEvents, Same, Moves
  <2>13. CASE SndTimeout
    BY <2>13 DEF SndTimeout, Same, Moves
  <2>14. CASE SendTake
    BY <2>14 DEF SendTake, Same, Moves
  <2>15. CASE SendNone
    BY <2>15 DEF SendNone, Same, Moves
  <2>16. CASE SendOk
    <3>1. Stream!Deliver(cur) \/ Stream!DeliverLate(cur)
      BY <2>16, SendDelivers DEF StreamInv
    <3>2. cur \in Sub
      BY DEF TypeOK
    <3> QED  BY <3>1, <3>2 DEF Stream!Next, Moves
  <2>17. CASE SendBlocked
    BY <2>17 DEF SendBlocked, Same, Moves
  <2>18. CASE SendFailed
    BY <2>18 DEF SendFailed, Same, Moves
  <2>19. CASE SendPop
    <3>1. UNCHANGED Stream!vars
      BY <2>19, PopStutters
    <3> QED  BY <3>1 DEF Moves
  <2>20. CASE WriteAfter
    BY <2>20 DEF WriteAfter, Same, Moves
  <2>21. CASE WriteQuiet
    BY <2>21 DEF WriteQuiet, Same, Moves
  <2>22. CASE WriteDone
    BY <2>22 DEF WriteDone, Same, Moves
  <2> QED  BY <1>4, <2>1, <2>2, <2>3, <2>4, <2>5, <2>6, <2>7, <2>8, <2>9, <2>10, <2>11,
        <2>12, <2>13, <2>14, <2>15, <2>16, <2>17, <2>18, <2>19, <2>20, <2>21, <2>22 DEF Sender
<1>5. CASE Monitor
  <2>1. ASSUME NEW s \in Sub, MonGiveUp(s) PROVE Moves
    BY <2>1 DEF MonGiveUp, Same, Moves
  <2>2. ASSUME NEW s \in Sub, NEW a \in Actions, MonEvaluate(s, a) PROVE Moves
    <3>1. Stream!Discard(s) \/ UNCHANGED Stream!vars
      BY <2>2, EvaluateDiscards DEF StreamInv
    <3> QED  BY <3>1 DEF Stream!Next, Moves
  <2>3. CASE MonBegin
    BY <2>3 DEF MonBegin, Same, Moves
  <2>4. CASE MonClose
    BY <2>4 DEF MonClose, Same, Moves
  <2>5. CASE MonWake
    BY <2>5 DEF MonWake, Same, Moves
  <2>6. CASE MonExit
    BY <2>6 DEF MonExit, Same, Moves
  <2> QED  BY <1>5, <2>1, <2>2, <2>3, <2>4, <2>5, <2>6 DEF Monitor
<1>6. CASE Network
  <2>1. ASSUME NEW s \in Sub, Break(s) PROVE Moves
    BY <2>1 DEF Break, Same, Moves
  <2>2. ASSUME NEW s \in Sub, Drain(s) PROVE Moves
    BY <2>2 DEF Drain, Same, Moves
  <2> QED  BY <1>6, <2>1, <2>2 DEF Network
<1>7. CASE Main
  <2>1. CASE Signal
    BY <2>1 DEF Signal, Same, Moves
  <2>2. CASE StopBegin
    BY <2>2 DEF StopBegin, Same, Moves
  <2>3. CASE StopEnd
    <3>1. StopAll(subscribers) /\ sndPc # "pop" /\ sndPc' # "pop"
      BY <2>3 DEF StopEnd, Joined
    <3>2. UNCHANGED <<chunks, accepted, dropped, wire>>
      BY <2>3 DEF StopEnd
    <3>3. Stream!Leave(subscribers \cap Live)
      BY <3>1, <3>2, StopLeaves
    <3>4. subscribers \cap Live \in SUBSET Live
      OBVIOUS
    <3> QED  BY <3>3, <3>4 DEF Stream!Next, Moves
  <2>4. CASE Stopped
    BY <2>4 DEF Stopped, vars, Same, Moves
  <2> QED  BY <1>7, <2>1, <2>2, <2>3, <2>4 DEF Main
<1> QED  BY <1>1, <1>2, <1>3, <1>4, <1>5, <1>6, <1>7 DEF Next

LEMMA StreamInvariant == Spec => [](IInv /\ SafeInv /\ StreamInv)
<1>1. Init => StreamInv
  BY TakenInit, SendingInit DEF StreamInv
<1>2. IInv /\ SafeInv /\ StreamInv /\ [Next]_vars => StreamInv'
  BY TakenStep, SendingStep, SentStep DEF IInv, StreamInv
<1>3. SessionInv => SafeInv
  BY DEF SessionInv
<1> QED  BY <1>1, <1>2, <1>3, Invariant, Sessions, PTL DEF Spec

\* Whatever the threads do, every subscriber sees a LossyStream: it begins at
\* an access point, holds at most subscriber_queue_max_chunks, delivers in
\* order and once, and counts what it drops.
THEOREM StreamImplemented == Spec => ImplementsStream
<1>1. Init => Stream!Init
  <2> SUFFICES ASSUME Init PROVE Stream!Init
    OBVIOUS
  <2>1. Live = {} /\ \A s \in Sub : Unsent(s) = <<>>
    BY DEF Init, Live, Unsent
  <2>2. Pending = [s \in Sub |-> <<>>]
    BY <2>1 DEF Pending
  <2> QED  BY <2>1, <2>2 DEF Init, Stream!Init, Pending
<1>2. IInv /\ SafeInv /\ StreamInv /\ [Next]_vars => [Stream!Next]_(Stream!vars)
  BY StreamStep, Unseen DEF IInv, Moves
<1> QED  BY <1>1, <1>2, StreamInvariant, PTL DEF Spec, ImplementsStream, Stream!Spec
-----------------------------------------------------------------------------
(***************************************************************************)
(* Part 4: coming down.  ShutdownCompletes needs fairness and is left to   *)
(* TLC; what it needs of the threads is that, once the signal arrived,     *)
(* each has finitely many steps left and none gives another more to do.    *)
(***************************************************************************)

\* The lexicographic order of three numbers.
Shorter(u, v) ==
    \/ u[1] < v[1]
    \/ u[1] = v[1] /\ u[2] < v[2]
    \/ u[1] = v[1] /\ u[2] = v[2] /\ u[3] < v[3]

\* What the acceptor has left: an accepted connection is still inserted.
AccLeft ==
    CASE accPc = "accept" -> 4 [] accPc = "insert" -> 3 [] accPc = "wake" -> 2
      [] accPc = "top" -> 1 [] OTHER -> 0

\* The publisher may still have chunks to broadcast, each to every session.
PubPhase ==
    CASE pubPc = "push" -> 3 [] pubPc = "wake" -> 2 [] pubPc = "recv" -> 1
      [] OTHER -> 0
PubLeft == <<MaxChunks - chunks, PubPhase, Cardinality(pubTodo)>>

\* The monitor finishes its round.
MonPhase ==
    CASE monPc = "eval" -> 3 [] monPc = "wake" -> 2 [] monPc = "sleep" -> 1
      [] OTHER -> 0
MonLeft == <<MonPhase, Cardinality(monTodo), 0>>

\* The sender finishes synchronising, waits once more and serves what is
\* ready: each session of its list has a burst of sends before it.
Syncing == sndPc \in {"sync", "erase", "stop", "apply"}
Writing == sndPc \in {"write", "take", "send", "pop", "after", "quiet"}
SndPhase ==
    CASE Syncing -> 4 [] sndPc = "wait" -> 3 [] Writing -> 2
      [] sndPc = "top" -> 1 [] OTHER -> 0
SndInner ==
    CASE sndPc = "write" -> 3 * Burst + 6
      [] sndPc = "take" -> 3 * (Burst - burst) + 5
      [] sndPc = "send" -> 3 * (Burst - burst) + 4
      [] sndPc = "pop" -> 3 * (Burst - burst) + 3
      [] sndPc = "sync" -> 3
      [] sndPc \in {"after", "erase"} -> 2
      [] sndPc \in {"quiet", "stop", "apply"} -> 1
      [] OTHER -> 0
SndLeft == <<SndPhase, Cardinality(todo), SndInner>>

\* Every step of a thread is one of the finitely many it has left, and neither
\* the other threads nor the network add to them.
ComesDown ==
    [][~gRunning =>
          /\ ~gRunning'
          /\ Acceptor => AccLeft' < AccLeft /\ UNCHANGED <<PubLeft, MonLeft, SndLeft>>
          /\ Publisher => Shorter(PubLeft', PubLeft) /\ UNCHANGED <<AccLeft, MonLeft, SndLeft>>
          /\ Monitor => Shorter(MonLeft', MonLeft) /\ UNCHANGED <<AccLeft, PubLeft, SndLeft>>
          /\ Sender => Shorter(SndLeft', SndLeft) /\ UNCHANGED <<AccLeft, PubLeft, MonLeft>>
          /\ Network \/ Main => UNCHANGED <<AccLeft, PubLeft, MonLeft, SndLeft>>]_vars



\* The sender works on a session of its list, which it takes off the list at
\* the end.
Serves ==
    sndPc \in {"erase", "stop", "apply", "take", "send", "pop", "after", "quiet"}
        => cur \in todo

ChunksBounded == chunks <= MaxChunks

LEMMA ServesStep == TypeOK /\ Serves /\ [Next]_vars => Serves'
<1> SUFFICES ASSUME TypeOK, Serves, [Next]_vars PROVE Serves'
  OBVIOUS
<1> USE DEF TypeOK, Serves,
        mainVars, accVars, linkVars, flowVars, sessVars, pubVars,
        sndLocals, sndVars, monVars, sharedVars, notAcc, notPub, notSnd, notMon, notNet
<1>1. CASE UNCHANGED vars
  BY <1>1 DEF vars
<1>2. CASE Acceptor
  <2>1. ASSUME NEW s \in Sub, AcceptRefuse(s) PROVE Serves'
    BY <2>1 DEF AcceptRefuse
  <2>2. ASSUME NEW s \in Sub, Accept(s) PROVE Serves'
    BY <2>2 DEF Accept
  <2>3. CASE AccTop
    BY <2>3 DEF AccTop
  <2>4. CASE AccInsert
    BY <2>4 DEF AccInsert
  <2>5. CASE AccWake
    BY <2>5 DEF AccWake
  <2>6. CASE AccExit
    BY <2>6 DEF AccExit
  <2> QED  BY <1>2, <2>1, <2>2, <2>3, <2>4, <2>5, <2>6 DEF Acceptor
<1>3. CASE Publisher
  <2>1. ASSUME NEW s \in Sub, PushSkip(s) PROVE Serves'
    BY <2>1 DEF PushSkip
  <2>2. ASSUME NEW s \in Sub, PushUnsynced(s) PROVE Serves'
    BY <2>2 DEF PushUnsynced
  <2>3. ASSUME NEW s \in Sub, Push(s) PROVE Serves'
    BY <2>3 DEF Push
  <2>4. CASE BroadcastBegin
    BY <2>4 DEF BroadcastBegin
  <2>5. CASE BroadcastEnd
    BY <2>5 DEF BroadcastEnd
  <2>6. CASE PubWake
    BY <2>6 DEF PubWake
  <2>7. CASE PubExit
    BY <2>7 DEF PubExit
  <2> QED  BY <1>3, <2>1, <2>2, <2>3, <2>4, <2>5, <2>6, <2>7 DEF Publisher
<1>4. CASE Sender
  <2>1. ASSUME NEW s \in Sub, SyncDead(s) PROVE Serves'
    BY <2>1 DEF SyncDead
  <2>2. ASSUME NEW s \in Sub, SyncDepth(s) PROVE Serves'
    BY <2>2 DEF SyncDepth
  <2>3. ASSUME NEW s \in Sub, WriteSkip(s) PROVE Serves'
    BY <2>3 DEF WriteSkip
  <2>4. ASSUME NEW s \in Sub, WriteBroken(s) PROVE Serves'
    BY <2>4 DEF WriteBroken
  <2>5. ASSUME NEW s \in Sub, WriteBegin(s) PROVE Serves'
    BY <2>5 DEF WriteBegin
  <2>6. CASE SndExit
    BY <2>6 DEF SndExit
  <2>7. CASE SndTop
    BY <2>7 DEF SndTop
  <2>8. CASE SyncErase
    BY <2>8 DEF SyncErase
  <2>9. CASE SyncStop
    BY <2>9 DEF SyncStop
  <2>10. CASE SyncApply
    BY <2>10 DEF SyncApply
  <2>11. CASE SyncDone
    BY <2>11 DEF SyncDone
  <2>12. CASE SndEvents
    BY <2>12 DEF SndEvents
  <2>13. CASE SndTimeout
    BY <2>13 DEF SndTimeout
  <2>14. CASE SendTake
    BY <2>14 DEF SendTake
  <2>15. CASE SendNone
    BY <2>15 DEF SendNone
  <2>16. CASE SendOk
    BY <2>16 DEF SendOk
  <2>17. CASE SendBlocked
    BY <2>17 DEF SendBlocked
  <2>18. CASE SendFailed
    BY <2>18 DEF SendFailed
  <2>19. CASE SendPop
    BY <2>19 DEF SendPop
  <2>20. CASE WriteAfter
    BY <2>20 DEF WriteAfter
  <2>21. CASE WriteQuiet
    BY <2>21 DEF WriteQuiet
  <2>22. CASE WriteDone
    BY <2>22 DEF WriteDone
  <2> QED  BY <1>4, <2>1, <2>2, <2>3, <2>4, <2>5, <2>6, <2>7, <2>8, <2>9, <2>10, <2>11,
        <2>12, <2>13, <2>14, <2>15, <2>16, <2>17, <2>18, <2>19, <2>20, <2>21, <2>22 DEF Sender
<1>5. CASE Monitor
  <2>1. ASSUME NEW s \in Sub, MonGiveUp(s) PROVE Serves'
    BY <2>1 DEF MonGiveUp
  <2>2. ASSUME NEW s \in Sub, NEW a \in Actions, MonEvaluate(s, a) PROVE Serves'
    BY <2>2 DEF MonEvaluate
  <2>3. CASE MonBegin
    BY <2>3 DEF MonBegin
  <2>4. CASE MonClose
    BY <2>4 DEF MonClose
  <2>5. CASE MonWake
    BY <2>5 DEF MonWake
  <2>6. CASE MonExit
    BY <2>6 DEF MonExit
  <2> QED  BY <1>5, <2>1, <2>2, <2>3, <2>4, <2>5, <2>6 DEF Monitor
<1>6. CASE Network
  <2>1. ASSUME NEW s \in Sub, Break(s) PROVE Serves'
    BY <2>1 DEF Break
  <2>2. ASSUME NEW s \in Sub, Drain(s) PROVE Serves'
    BY <2>2 DEF Drain
  <2> QED  BY <1>6, <2>1, <2>2 DEF Network
<1>7. CASE Main
  <2>1. CASE Signal
    BY <2>1 DEF Signal
  <2>2. CASE StopBegin
    BY <2>2 DEF StopBegin
  <2>3. CASE StopEnd
    BY <2>3 DEF StopEnd
  <2>4. CASE Stopped
    BY <2>4 DEF Stopped, vars
  <2> QED  BY <1>7, <2>1, <2>2, <2>3, <2>4 DEF Main
<1> QED  BY <1>1, <1>2, <1>3, <1>4, <1>5, <1>6, <1>7 DEF Next


LEMMA ChunksStep == TypeOK /\ ChunksBounded /\ [Next]_vars => ChunksBounded'
<1> SUFFICES ASSUME TypeOK, ChunksBounded, [Next]_vars PROVE ChunksBounded'
  OBVIOUS
<1>1. BroadcastBegin => ChunksBounded'
  BY BoundsAssumption DEF BroadcastBegin, ChunksBounded, TypeOK, BoundsAssumption
<1> USE DEF mainVars, accVars, linkVars, flowVars, sessVars, pubVars,
        sndLocals, sndVars, monVars, sharedVars, notAcc, notPub, notSnd, notMon, notNet
<1>2. chunks' = chunks \/ BroadcastBegin
  <2>1. CASE Acceptor
    BY <2>1 DEF Acceptor, AcceptRefuse, Accept, AccTop, AccInsert, AccWake, AccExit
  <2>2. CASE Publisher
    BY <2>2 DEF Publisher, PushSkip, PushUnsynced, Push, BroadcastEnd, PubWake, PubExit
  <2>3. CASE Sender
    BY <2>3, Zenon DEF Sender, SyncDead, SyncDepth, SndExit, SndTop, SyncErase,
       SyncStop, SyncApply, SyncDone, SndEvents, SndTimeout, WriteSkip,
       WriteBroken, WriteBegin, SendTake, SendNone, SendOk, SendBlocked,
       SendFailed, SendPop, WriteAfter, WriteQuiet, WriteDone
  <2>4. CASE Monitor
    BY <2>4 DEF Monitor, MonGiveUp, MonEvaluate, MonBegin, MonClose, MonWake, MonExit
  <2>5. CASE Network \/ Main
    BY <2>5 DEF Network, Break, Drain, Main, Signal, StopBegin, StopEnd, Stopped, vars
  <2>6. CASE UNCHANGED vars
    BY <2>6 DEF vars
  <2> QED
    BY <2>1, <2>2, <2>3, <2>4, <2>5, <2>6 DEF Next
<1> QED
  BY <1>1, <1>2 DEF ChunksBounded

LEMMA OneFewer ==
    ASSUME NEW T, IsFiniteSet(T), NEW x \in T
    PROVE  /\ Cardinality(T \ {x}) \in Nat /\ Cardinality(T) \in Nat
           /\ Cardinality(T \ {x}) < Cardinality(T)
BY FS_RemoveElement, FS_CardinalityType, FS_Subset

\* The work lists are finite.
LEMMA ListsFinite ==
    ASSUME SafeInv, Counted
    PROVE  /\ IsFiniteSet(pubTodo) /\ IsFiniteSet(monTodo)
           /\ Syncing \/ Writing => IsFiniteSet(todo)
<1>1. IsFiniteSet(subscribers)
  BY DEF Counted
<1>2. IsFiniteSet(subscribers \cup {cur})
  BY <1>1, FS_AddElement
<1>3. pubTodo \subseteq subscribers /\ monTodo \subseteq subscribers
  BY DEF SafeInv, Visits
<1>4. Syncing \/ Writing => todo \subseteq subscribers \cup {cur}
  BY DEF SafeInv, Reaches, Syncing, Writing
<1> QED
  BY <1>1, <1>2, <1>3, <1>4, FS_Subset

LEMMA ByPhase == SndPhase' < SndPhase => Shorter(SndLeft', SndLeft)
BY DEF Shorter, SndLeft

LEMMA ByTodo ==
    ASSUME SndPhase' = SndPhase, IsFiniteSet(todo), NEW x \in todo, todo' = todo \ {x}
    PROVE  Shorter(SndLeft', SndLeft)
BY OneFewer DEF Shorter, SndLeft

LEMMA ByInner ==
    SndPhase' = SndPhase /\ todo' = todo /\ SndInner' < SndInner
        => Shorter(SndLeft', SndLeft)
BY DEF Shorter, SndLeft

\* After the signal every step of the sender is one of its last round.
LEMMA SenderFalls ==
    ASSUME TypeOK, SafeInv, Counted, Serves, ~gRunning, Sender
    PROVE  Shorter(SndLeft', SndLeft)
<1>1. Syncing \/ Writing => IsFiniteSet(todo)
  BY ListsFinite
<1>2. Burst \in Nat /\ burst \in 0 .. Burst
  BY BoundsAssumption DEF BoundsAssumption, TypeOK
<1> USE DEF SndPhase, Syncing, Writing
<1>3. CASE SndExit
  <2>1. SndPhase' < SndPhase
    BY <1>3 DEF SndExit
  <2> QED  BY <2>1, ByPhase
<1>4. CASE SyncDone
  <2>1. SndPhase' < SndPhase
    BY <1>4 DEF SyncDone
  <2> QED  BY <2>1, ByPhase
<1>5. CASE SndEvents
  <2>1. SndPhase' < SndPhase
    BY <1>5 DEF SndEvents
  <2> QED  BY <2>1, ByPhase
<1>6. CASE SndTimeout
  <2>1. SndPhase' < SndPhase
    BY <1>6 DEF SndTimeout
  <2> QED  BY <2>1, ByPhase
<1>7. CASE WriteDone
  <2>1. SndPhase' < SndPhase
    BY <1>7 DEF WriteDone
  <2> QED  BY <2>1, ByPhase
<1>8. CASE SndTop
  BY <1>8 DEF SndTop
<1>9. CASE SyncStop
  <2>1. SndPhase' = SndPhase /\ cur \in todo /\ todo' = todo \ {cur}
    BY <1>9 DEF SyncStop, Serves
  <2>2. IsFiniteSet(todo)
    BY <1>9, <1>1 DEF SyncStop
  <2> QED  BY <2>1, <2>2, ByTodo
<1>10. CASE SyncApply
  <2>1. SndPhase' = SndPhase /\ cur \in todo /\ todo' = todo \ {cur}
    BY <1>10 DEF SyncApply, Serves
  <2>2. IsFiniteSet(todo)
    BY <1>10, <1>1 DEF SyncApply
  <2> QED  BY <2>1, <2>2, ByTodo
<1>11. CASE WriteQuiet
  <2>1. SndPhase' = SndPhase /\ cur \in todo /\ todo' = todo \ {cur}
    BY <1>11 DEF WriteQuiet, Serves
  <2>2. IsFiniteSet(todo)
    BY <1>11, <1>1 DEF WriteQuiet
  <2> QED  BY <2>1, <2>2, ByTodo
<1>12. ASSUME NEW s \in Sub, WriteSkip(s) PROVE Shorter(SndLeft', SndLeft)
  <2>1. SndPhase' = SndPhase /\ s \in todo /\ todo' = todo \ {s}
    BY <1>12 DEF WriteSkip, Serves
  <2>2. IsFiniteSet(todo)
    BY <1>12, <1>1 DEF WriteSkip
  <2> QED  BY <2>1, <2>2, ByTodo
<1>13. ASSUME NEW s \in Sub, WriteBroken(s) PROVE Shorter(SndLeft', SndLeft)
  <2>1. SndPhase' = SndPhase /\ s \in todo /\ todo' = todo \ {s}
    BY <1>13 DEF WriteBroken, Serves
  <2>2. IsFiniteSet(todo)
    BY <1>13, <1>1 DEF WriteBroken
  <2> QED  BY <2>1, <2>2, ByTodo
<1>14. ASSUME NEW s \in Sub, SyncDead(s) PROVE Shorter(SndLeft', SndLeft)
  <2>1. SndPhase' = SndPhase /\ todo' = todo
    BY <1>14 DEF SyncDead
  <2>2. SndInner' < SndInner
    BY <1>14, <1>2 DEF SyncDead, SndInner, sndLocals, MoreInBurst
  <2> QED  BY <2>1, <2>2, ByInner
<1>15. CASE SyncErase
  <2>1. SndPhase' = SndPhase /\ todo' = todo
    BY <1>15 DEF SyncErase
  <2>2. SndInner' < SndInner
    BY <1>15, <1>2 DEF SyncErase, SndInner, sndLocals, MoreInBurst
  <2> QED  BY <2>1, <2>2, ByInner
<1>16. ASSUME NEW s \in Sub, SyncDepth(s) PROVE Shorter(SndLeft', SndLeft)
  <2>1. SndPhase' = SndPhase /\ todo' = todo
    BY <1>16 DEF SyncDepth
  <2>2. SndInner' < SndInner
    BY <1>16, <1>2 DEF SyncDepth, SndInner, sndLocals, MoreInBurst
  <2> QED  BY <2>1, <2>2, ByInner
<1>17. ASSUME NEW s \in Sub, WriteBegin(s) PROVE Shorter(SndLeft', SndLeft)
  <2>1. SndPhase' = SndPhase /\ todo' = todo
    BY <1>17 DEF WriteBegin
  <2>2. SndInner' < SndInner
    BY <1>17, <1>2 DEF WriteBegin, SndInner, sndLocals, MoreInBurst
  <2> QED  BY <2>1, <2>2, ByInner
<1>18. CASE SendTake
  <2>1. SndPhase' = SndPhase /\ todo' = todo
    BY <1>18 DEF SendTake
  <2>2. SndInner' < SndInner
    BY <1>18, <1>2 DEF SendTake, SndInner, sndLocals, MoreInBurst
  <2> QED  BY <2>1, <2>2, ByInner
<1>19. CASE SendNone
  <2>1. SndPhase' = SndPhase /\ todo' = todo
    BY <1>19 DEF SendNone
  <2>2. SndInner' < SndInner
    BY <1>19, <1>2 DEF SendNone, SndInner, sndLocals, MoreInBurst
  <2> QED  BY <2>1, <2>2, ByInner
<1>20. CASE SendOk
  <2>1. SndPhase' = SndPhase /\ todo' = todo
    BY <1>20 DEF SendOk
  <2>2. SndInner' < SndInner
    BY <1>20, <1>2 DEF SendOk, SndInner, sndLocals, MoreInBurst
  <2> QED  BY <2>1, <2>2, ByInner
<1>21. CASE SendBlocked
  <2>1. SndPhase' = SndPhase /\ todo' = todo
    BY <1>21 DEF SendBlocked
  <2>2. SndInner' < SndInner
    BY <1>21, <1>2 DEF SendBlocked, SndInner, sndLocals, MoreInBurst
  <2> QED  BY <2>1, <2>2, ByInner
<1>22. CASE SendFailed
  <2>1. SndPhase' = SndPhase /\ todo' = todo
    BY <1>22 DEF SendFailed
  <2>2. SndInner' < SndInner
    BY <1>22, <1>2 DEF SendFailed, SndInner, sndLocals, MoreInBurst
  <2> QED  BY <2>1, <2>2, ByInner
<1>23. CASE SendPop
  <2>1. SndPhase' = SndPhase /\ todo' = todo
    BY <1>23 DEF SendPop
  <2>2. SndInner' < SndInner
    BY <1>23, <1>2 DEF SendPop, SndInner, sndLocals, MoreInBurst
  <2> QED  BY <2>1, <2>2, ByInner
<1>24. CASE WriteAfter
  <2>1. CASE sndPc' = "quiet"
    <3>1. SndPhase' = SndPhase /\ todo' = todo
      BY <1>24, <2>1 DEF WriteAfter
    <3>2. SndInner' < SndInner
      BY <1>24, <2>1 DEF WriteAfter, SndInner
    <3> QED  BY <3>1, <3>2, ByInner
  <2>2. CASE sndPc' = "write"
    <3>1. SndPhase' = SndPhase /\ cur \in todo /\ todo' = todo \ {cur}
      BY <1>24, <2>2 DEF WriteAfter, Serves
    <3>2. IsFiniteSet(todo)
      BY <1>24, <1>1 DEF WriteAfter
    <3> QED  BY <3>1, <3>2, ByTodo
  <2> QED  BY <1>24, <2>1, <2>2 DEF WriteAfter
<1> QED
  BY <1>3, <1>4, <1>5, <1>6, <1>7, <1>8, <1>9, <1>10, <1>11, <1>12, <1>13,
     <1>14, <1>15, <1>16, <1>17, <1>18, <1>19, <1>20, <1>21, <1>22, <1>23,
     <1>24 DEF Sender

\* So is every step of the acceptor; the connection it had just accepted is
\* still inserted.
LEMMA AcceptorFalls ==
    ASSUME TypeOK, ~gRunning, Acceptor PROVE AccLeft' < AccLeft
BY DEF Acceptor, AcceptRefuse, Accept, AccTop, AccInsert, AccWake, AccExit, AccLeft

LEMMA PublisherFalls ==
    ASSUME TypeOK, SafeInv, Counted, ChunksBounded, Publisher
    PROVE  Shorter(PubLeft', PubLeft)
<1>1. IsFiniteSet(pubTodo)
  BY ListsFinite
<1>2. chunks \in Nat /\ MaxChunks \in Nat
  BY BoundsAssumption DEF BoundsAssumption, TypeOK
<1> USE DEF Shorter, PubLeft, PubPhase
<1>3. ASSUME NEW s \in Sub, PushSkip(s) \/ PushUnsynced(s) \/ Push(s)
      PROVE  Shorter(PubLeft', PubLeft)
  <2>1. /\ pubPc = "push" /\ pubPc' = "push" /\ chunks' = chunks
        /\ s \in pubTodo /\ pubTodo' = pubTodo \ {s}
    BY <1>3 DEF PushSkip, PushUnsynced, Push
  <2> QED  BY <1>1, <2>1, OneFewer
<1>4. CASE BroadcastBegin
  BY <1>2, <1>4 DEF BroadcastBegin
<1>5. CASE BroadcastEnd \/ PubWake \/ PubExit
  BY <1>2, <1>5 DEF BroadcastEnd, PubWake, PubExit
<1> QED
  BY <1>3, <1>4, <1>5 DEF Publisher

LEMMA MonitorFalls ==
    ASSUME TypeOK, SafeInv, Counted, ~gRunning, Monitor
    PROVE  Shorter(MonLeft', MonLeft)
<1>1. IsFiniteSet(monTodo)
  BY ListsFinite
<1> USE DEF Shorter, MonLeft, MonPhase
<1>2. ASSUME NEW s \in Sub, MonGiveUp(s) \/ \E a \in Actions : MonEvaluate(s, a)
      PROVE  Shorter(MonLeft', MonLeft)
  <2>1. /\ monPc = "eval" /\ monPc' = "eval"
        /\ s \in monTodo /\ monTodo' = monTodo \ {s}
    BY <1>2 DEF MonGiveUp, MonEvaluate
  <2> QED  BY <1>1, <2>1, OneFewer
<1>3. CASE MonBegin \/ MonClose \/ MonWake \/ MonExit
  BY <1>3 DEF MonBegin, MonClose, MonWake, MonExit
<1> QED
  BY <1>2, <1>3 DEF Monitor

\* No thread adds to what another has left to do.
LEMMA NoneAdds ==
    /\ Acceptor => UNCHANGED <<gRunning, PubLeft, MonLeft, SndLeft>>
    /\ Publisher => UNCHANGED <<gRunning, AccLeft, MonLeft, SndLeft>>
    /\ Monitor => UNCHANGED <<gRunning, AccLeft, PubLeft, SndLeft>>
    /\ Sender => UNCHANGED <<gRunning, AccLeft, PubLeft, MonLeft>>
    /\ Network \/ Main \/ UNCHANGED vars =>
          UNCHANGED <<AccLeft, PubLeft, MonLeft, SndLeft>>
<1> USE DEF mainVars, accVars, pubVars, sndLocals, sndVars, monVars, notAcc,
        notPub, notSnd, notMon, notNet
<1> DEFINE A == accPc' = accPc
           P == pubPc' = pubPc /\ pubTodo' = pubTodo /\ chunks' = chunks
           M == monPc' = monPc /\ monTodo' = monTodo
           S == sndPc' = sndPc /\ todo' = todo /\ burst' = burst
           G == gRunning' = gRunning
<1>1. /\ A => AccLeft' = AccLeft
      /\ M => MonLeft' = MonLeft
      /\ S => SndLeft' = SndLeft
      /\ P => PubLeft' = PubLeft
  <2>1. A => AccLeft' = AccLeft
    BY DEF AccLeft
  <2>2. P => PubLeft' = PubLeft
    BY DEF PubLeft, PubPhase
  <2>3. M => MonLeft' = MonLeft
    BY DEF MonLeft, MonPhase
  <2>4. S => SndLeft' = SndLeft
    BY DEF SndLeft, SndPhase, SndInner, Syncing, Writing
  <2> QED  BY <2>1, <2>2, <2>3, <2>4
<1>2. Acceptor => G /\ P /\ M /\ S
  BY DEF Acceptor, AcceptRefuse, Accept, AccTop, AccInsert, AccWake, AccExit
<1>3. Publisher => G /\ A /\ M /\ S
  BY DEF Publisher, PushSkip, PushUnsynced, Push, BroadcastBegin, BroadcastEnd,
     PubWake, PubExit
<1>4. Monitor => G /\ A /\ P /\ S
  BY DEF Monitor, MonGiveUp, MonEvaluate, MonBegin, MonClose, MonWake, MonExit
<1>5. Sender => G /\ A /\ P /\ M
  BY Zenon DEF Sender, SyncDead, SyncDepth, SndExit, SndTop, SyncErase,
     SyncStop, SyncApply, SyncDone, SndEvents, SndTimeout, WriteSkip,
     WriteBroken, WriteBegin, SendTake, SendNone, SendOk, SendBlocked,
     SendFailed, SendPop, WriteAfter, WriteQuiet, WriteDone
<1>6. Network \/ Main \/ UNCHANGED vars => A /\ P /\ M /\ S
  BY DEF Network, Break, Drain, Main, Signal, StopBegin, StopEnd, Stopped, vars
<1> HIDE DEF A, P, M, S
<1> QED
  BY <1>1, <1>2, <1>3, <1>4, <1>5, <1>6

\* The signal is not taken back.
LEMMA SignalStays == ~gRunning /\ (Network \/ Main) => ~gRunning'
BY DEF Network, Break, Drain, Main, Signal, StopBegin, StopEnd, Stopped, vars,
   notNet, mainVars

LastRound == SafeInv /\ Counted /\ Serves /\ ChunksBounded

LEMMA ServesInvariant == Spec => [](TypeOK /\ LastRound)
<1>1. Init => Serves /\ ChunksBounded
  BY BoundsAssumption DEF Init, Serves, ChunksBounded, BoundsAssumption
<1>2. SessionInv => TypeOK /\ SafeInv /\ Counted
  BY DEF SessionInv
<1> QED
  BY <1>1, <1>2, ServesStep, ChunksStep, Sessions, PTL DEF Spec, LastRound

\* The measures are natural numbers, so that they cannot fall for ever.
Measured ==
    /\ AccLeft \in Nat
    /\ \A i \in 1 .. 3 : PubLeft[i] \in Nat /\ MonLeft[i] \in Nat
    /\ Syncing \/ Writing => \A i \in 1 .. 3 : SndLeft[i] \in Nat

\* Whatever the threads were doing when the signal arrived, each step one of
\* them takes from then on is one of finitely many it has left, and no thread,
\* connection or peer adds to those of another.  With the fairness of the
\* threads this is why stop() returns (ShutdownCompletes).
THEOREM ComesDownCorrect == Spec => ComesDown /\ []Measured
<1>1. ASSUME TypeOK, LastRound, Next, ~gRunning
      PROVE  /\ ~gRunning'
             /\ Acceptor => AccLeft' < AccLeft /\ UNCHANGED <<PubLeft, MonLeft, SndLeft>>
             /\ Publisher => Shorter(PubLeft', PubLeft) /\ UNCHANGED <<AccLeft, MonLeft, SndLeft>>
             /\ Monitor => Shorter(MonLeft', MonLeft) /\ UNCHANGED <<AccLeft, PubLeft, SndLeft>>
             /\ Sender => Shorter(SndLeft', SndLeft) /\ UNCHANGED <<AccLeft, PubLeft, MonLeft>>
             /\ Network \/ Main => UNCHANGED <<AccLeft, PubLeft, MonLeft, SndLeft>>
  <2> USE <1>1 DEF LastRound
  <2>1. ~gRunning'
    BY NoneAdds, SignalStays DEF Next
  <2>2. Acceptor => AccLeft' < AccLeft
    BY AcceptorFalls
  <2>3. Publisher => Shorter(PubLeft', PubLeft)
    BY PublisherFalls
  <2>4. Monitor => Shorter(MonLeft', MonLeft)
    BY MonitorFalls
  <2>5. Sender => Shorter(SndLeft', SndLeft)
    BY SenderFalls
  <2> QED
    BY <2>1, <2>2, <2>3, <2>4, <2>5, NoneAdds
<1>2. TypeOK /\ LastRound => Measured
  <2> SUFFICES ASSUME TypeOK, LastRound PROVE Measured
    OBVIOUS
  <2>1. /\ Cardinality(pubTodo) \in Nat /\ Cardinality(monTodo) \in Nat
        /\ Syncing \/ Writing => Cardinality(todo) \in Nat
    BY ListsFinite, FS_CardinalityType DEF LastRound
  <2>2. MaxChunks - chunks \in Nat
    BY BoundsAssumption DEF BoundsAssumption, LastRound, ChunksBounded, TypeOK
  <2>3. AccLeft \in Nat /\ PubPhase \in Nat /\ MonPhase \in Nat /\ SndPhase \in Nat
    BY DEF AccLeft, PubPhase, MonPhase, SndPhase
  <2>4. SndInner \in Nat
    <3>1. Burst \in Nat /\ burst \in 0 .. Burst
      BY BoundsAssumption DEF BoundsAssumption, TypeOK
    <3> DEFINE k == Burst - burst
    <3>2. k \in Nat
      BY <3>1
    <3> HIDE DEF k
    <3>3. /\ 3 * k + 5 \in Nat /\ 3 * k + 4 \in Nat /\ 3 * k + 3 \in Nat
          /\ 3 * Burst + 6 \in Nat
      BY <3>1, <3>2
    <3> QED
      BY <3>3 DEF SndInner, k
  <2>5. \A i \in 1 .. 3 : i = 1 \/ i = 2 \/ i = 3
    OBVIOUS
  <2>6. \A i \in 1 .. 3 : PubLeft[i] \in Nat
    BY <2>1, <2>2, <2>3, <2>5 DEF PubLeft
  <2>7. \A i \in 1 .. 3 : MonLeft[i] \in Nat
    BY <2>1, <2>3, <2>5 DEF MonLeft
  <2>8. Syncing \/ Writing => \A i \in 1 .. 3 : SndLeft[i] \in Nat
    BY <2>1, <2>3, <2>4, <2>5 DEF SndLeft
  <2> QED
    BY <2>3, <2>6, <2>7, <2>8 DEF Measured
<1> QED
  BY <1>1, <1>2, ServesInvariant, PTL DEF Spec, ComesDown
=============================================================================
