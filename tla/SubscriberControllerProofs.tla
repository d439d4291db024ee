--------------------- MODULE SubscriberControllerProofs ---------------------
(***************************************************************************)
(* Theorems about SubscriberController, for every queue size, every depth, *)
(* every pace of the evaluations and every length of time: severe          *)
(* subscribers are held, silent ones are closed in time, no session is     *)
(* closed that was not held, and no action is taken without its samples.   *)
(***************************************************************************)
EXTENDS SubscriberController, SequenceTheorems, TLAPS

\* The hold, as the controller keeps it and as it is seen from outside.
HoldKnown ==
    /\ action = "Placeholder" =>
          heldSince = placeholderStart /\ 0 < heldSince /\ heldSince <= now
    /\ action # "Placeholder" => heldSince = -1

\* A session that is silent for more than five seconds is in Placeholder, for
\* as long as it is silent beyond them but for the round that noticed; and
\* after another round it is there for less than the hold.
SilentIsTimed ==
    /\ idle > 5000 => action = "Placeholder"
    /\ ~closing /\ idle > 5000 => now - placeholderStart >= idle - 5000 - Slack
    /\ ~closing /\ idle > 5000 + Slack =>
          now - placeholderStart < PlaceholderDisconnectAfter

\* What the counters say about the last samples.
CountersTell ==
    /\ congested >= 1 => Len(recent) >= 1 /\ Ago(0).congested
    /\ mild >= 1 => Len(recent) >= 1 /\ (Ago(0).stale \/ Ago(0).rises)
    /\ normal >= 1 => /\ Len(recent) >= 1
                      /\ ~Ago(0).stale /\ ~Ago(0).congested
    /\ normal >= 2 => /\ Len(recent) >= 2
                      /\ ~Ago(1).stale /\ ~Ago(1).congested
    /\ Len(recent) >= 1 /\ Ago(0).rises /\ action # "Normal" => rising >= 1

IInv == /\ TypeOK /\ HoldKnown /\ SilentIsTimed /\ CountersTell
        /\ SevereIsHeld /\ CloseIsEarned
-----------------------------------------------------------------------------
\* The ages of the samples the properties speak of.
LEMMA ZeroOrOne == 0 .. 1 = {0, 1} /\ 0 .. 2 = {0, 1, 2}
OBVIOUS

\* The longest time between two evaluations.
LEMMA SlackFacts == Slack \in Nat /\ \A g \in Gaps : g \in Nat /\ 0 < g /\ g <= Slack
<1>1. PICK m \in Gaps : \A h \in Gaps : h <= m
  BY ControllerAssumption DEF ControllerAssumption
<1>2. Slack \in Gaps /\ \A h \in Gaps : h <= Slack
  BY <1>1 DEF Slack
<1> QED
  BY <1>2, ControllerAssumption DEF ControllerAssumption

\* What SubSeq of a sequence that got one element more leaves of it.
LEMMA Shifted ==
    ASSUME NEW S, NEW r \in Seq(S), NEW x \in S,
           NEW n \in Nat, n = Len(r), NEW k \in 1 .. n + 1,
           NEW q, q = SubSeq(Append(r, x), k, n + 1)
    PROVE  /\ q \in Seq(S) /\ Len(q) = n + 2 - k
           /\ q[n + 2 - k] = x
           /\ \A j \in 1 .. n + 1 - k : q[j] = r[k + j - 1]
<1> DEFINE s == Append(r, x)
<1>1. /\ s \in Seq(S) /\ Len(s) = n + 1 /\ s[n + 1] = x
      /\ \A j \in 1 .. n : s[j] = r[j]
  BY AppendProperties
<1> HIDE DEF s
<1>2. q = SubSeq(s, k, n + 1)
  BY DEF s
<1>3. /\ q \in Seq(S) /\ Len(q) = n + 2 - k
      /\ \A j \in 1 .. n + 2 - k : q[j] = s[k + j - 1]
  <2> DEFINE h == n + 1
  <2>1. k \in Int /\ h \in Int /\ k <= h
    OBVIOUS
  <2>2. \A j \in k .. h : s[j] \in S
    BY <1>1, ElementOfSeq
  <2> HIDE DEF h
  <2>3. /\ SubSeq(s, k, h) \in Seq(S)
        /\ Len(SubSeq(s, k, h)) = h - k + 1
        /\ \A j \in 1 .. h - k + 1 : SubSeq(s, k, h)[j] = s[k + j - 1]
    BY <2>1, <2>2, SubSeqProperties
  <2>4. h - k + 1 = n + 2 - k
    BY DEF h
  <2>5. q = SubSeq(s, k, h)
    BY <1>2 DEF h
  <2> QED
    BY <2>3, <2>4, <2>5
<1>4. n + 2 - k \in 1 .. n + 2 - k
  OBVIOUS
<1>5. q[n + 2 - k] = x
  BY <1>1, <1>3, <1>4
<1>6. \A j \in 1 .. n + 1 - k : q[j] = r[k + j - 1]
  <2> TAKE j \in 1 .. n + 1 - k
  <2>1. j \in 1 .. n + 2 - k /\ k + j - 1 \in 1 .. n
    OBVIOUS
  <2> QED
    BY <1>1, <1>3, <2>1
<1> QED
  BY <1>3, <1>5, <1>6

\* Recall keeps the last three samples.
LEMMA RecentFacts ==
    ASSUME recent \in Seq(Looks), Len(recent) <= 3, NEW look \in Looks,
           Recall(look)
    PROVE  /\ recent' \in Seq(Looks) /\ Len(recent') <= 3 /\ recent' # <<>>
           /\ Len(recent') >= 1 /\ Ago(0)' = look
           /\ Len(recent) >= 1 => Len(recent') >= 2 /\ Ago(1)' = Ago(0)
           /\ Len(recent) >= 2 => Len(recent') = 3 /\ Ago(2)' = Ago(1)
<1>1. PICK n \in Nat : n = Len(recent) /\ n <= 3
  BY LenProperties
<1>2. PICK k \in 1 .. n + 1 : k = IF n = 3 THEN 2 ELSE 1
  BY <1>1
<1>3. recent' = SubSeq(Append(recent, look), k, n + 1)
  BY <1>1, <1>2 DEF Recall
<1>4. /\ recent' \in Seq(Looks) /\ Len(recent') = n + 2 - k
      /\ recent'[n + 2 - k] = look
      /\ \A j \in 1 .. n + 1 - k : recent'[j] = recent[k + j - 1]
  BY <1>1, <1>3, Shifted
<1>5. PICK m \in 1 .. 3 : m = n + 2 - k
  BY <1>1, <1>2
<1>6. Ago(0)' = look /\ recent' # <<>>
  BY <1>4, <1>5 DEF Ago
<1>0. n \in {0, 1, 2, 3}
  BY <1>1
<1>7. n >= 1 => m >= 2 /\ Ago(1)' = Ago(0)
  BY <1>1, <1>2, <1>4, <1>5 DEF Ago
<1>8. ASSUME n >= 2 PROVE m = 3 /\ Ago(2)' = Ago(1)
  <2>1. m = 3 /\ k = n - 1
    <3>1. n = 2 \/ n = 3
      BY <1>0, <1>8
    <3> QED
      BY <1>2, <1>5, <3>1
  <2>2. recent'[1] = recent[k]
    BY <1>4, <1>5, <2>1
  <2> QED
    BY <1>1, <1>4, <1>5, <2>1, <2>2 DEF Ago
<1> QED
  BY <1>1, <1>4, <1>5, <1>6, <1>7, <1>8

\* The decision comes from the counters, in the code's order of tests.
LEMMA VerdictFacts ==
    ASSUME NEW severe \in BOOLEAN, NEW m \in Nat, NEW c \in Nat, NEW n \in Nat,
           NEW t \in Nat, NEW v, v = Verdict(severe, m, c, n, t)
    PROVE  /\ v \in {"disconnect", "Normal", "Placeholder", "Drop", "Warn", "keep"}
           /\ HoldOver(severe, t) <=> v = "disconnect"
           /\ v = "Normal" => n >= 3 /\ action # "Normal"
           /\ v = "Placeholder" => severe
           /\ v \in {"Drop", "Warn", "keep"} => ~severe
           /\ v = "Drop" => c >= 2
           /\ v = "Warn" => m >= 2
BY DEF Verdict

\* A counter counts on or starts again.
LEMMA CountedFacts ==
    ASSUME NEW held \in BOOLEAN, NEW k \in Nat, NEW c, c = Counted(held, k)
    PROVE  /\ c \in Nat /\ (c >= 1 <=> held)
           /\ (c >= 2 => held /\ k >= 1) /\ (c >= 3 => held /\ k >= 2)
BY DEF Counted

\* One evaluation, as the rest needs it: v is the decision, t the time, and
\* rc, mc, cc and nc are the counters it was made from.
Step(g, d, i, t, v, rc, mc, cc, nc) ==
    /\ ~closing /\ t = now + g /\ t \in Nat
    /\ now' = t /\ idle' = i /\ prevDepth' = d
    /\ rc \in Nat /\ mc \in Nat /\ cc \in Nat /\ nc \in Nat
    /\ rc >= 1 <=> Rises(d)
    /\ mc >= 1 <=> rc >= 2 \/ i > 1500
    /\ mc >= 2 => mild >= 1
    /\ cc >= 1 <=> CongestedSample(d, i)
    /\ cc >= 2 => congested >= 1
    /\ nc >= 1 <=> mc = 0 /\ cc = 0
    /\ nc >= 2 => normal >= 1
    /\ nc >= 3 => normal >= 2
    /\ rc >= 2 => rising >= 1
    /\ Rises(d) /\ rising >= 1 => rc >= 2
    /\ v = Verdict(Severe(i), mc, cc, nc, t)
    /\ rising' = IF v = "Normal" THEN 0 ELSE rc
    /\ mild' = IF v = "Normal" THEN 0 ELSE mc
    /\ congested' = IF v = "Normal" THEN 0 ELSE cc
    /\ normal' = nc
    /\ SetAction(IF v \in Action THEN v ELSE action, t)
    /\ closing' = (v = "disconnect")
    /\ Recall(Look(d, i))

LEMMA EvaluateIsStep ==
    ASSUME TypeOK, NEW g \in Gaps, NEW d \in Depths, NEW i \in Nat,
           Evaluate(g, d, i)
    PROVE  \E t, v, rc, mc, cc, nc : Step(g, d, i, t, v, rc, mc, cc, nc)
<1> DEFINE t == now + g
           rc == Counted(Rises(d), rising)
           mildNow == rc >= 2 \/ i > 1500
           mc == Counted(mildNow, mild)
           cc == Counted(CongestedSample(d, i), congested)
           calm == ~mildNow /\ ~CongestedSample(d, i)
           nc == Counted(calm, normal)
           v == Verdict(Severe(i), mc, cc, nc, t)
<1>1. /\ ~closing /\ now' = t /\ idle' = i /\ prevDepth' = d
      /\ rising' = IF v = "Normal" THEN 0 ELSE rc
      /\ mild' = IF v = "Normal" THEN 0 ELSE mc
      /\ congested' = IF v = "Normal" THEN 0 ELSE cc
      /\ normal' = nc
      /\ SetAction(IF v \in Action THEN v ELSE action, t)
      /\ closing' = (v = "disconnect")
      /\ Recall(Look(d, i))
  BY Zenon DEF Evaluate
<1>2. Rises(d) \in BOOLEAN /\ CongestedSample(d, i) \in BOOLEAN
  BY DEF Rises, CongestedSample
<1>3. /\ rc \in Nat /\ (rc >= 1 <=> Rises(d)) /\ (rc >= 2 => rising >= 1)
      /\ Rises(d) /\ rising >= 1 => rc >= 2
  BY <1>2 DEF TypeOK, Counted
<1>4. mildNow \in BOOLEAN
  OBVIOUS
<1>5. mc \in Nat /\ (mc >= 1 <=> mildNow) /\ (mc >= 2 => mild >= 1)
  <2> HIDE DEF mildNow
  <2> QED
    BY <1>4, CountedFacts DEF TypeOK
<1>6. /\ cc \in Nat /\ (cc >= 1 <=> CongestedSample(d, i))
      /\ cc >= 2 => congested >= 1
  BY <1>2, CountedFacts DEF TypeOK
<1>7. /\ nc \in Nat /\ (nc >= 1 <=> calm)
      /\ (nc >= 2 => normal >= 1) /\ (nc >= 3 => normal >= 2)
  <2>1. calm \in BOOLEAN
    OBVIOUS
  <2> HIDE DEF calm
  <2> QED
    BY <2>1, CountedFacts DEF TypeOK
<1>8. nc >= 1 <=> mc = 0 /\ cc = 0
  BY <1>5, <1>6, <1>7
<1>9. t \in Nat
  BY SlackFacts DEF TypeOK
<1> HIDE DEF t, rc, mc, cc, nc, v
<1>10. v = Verdict(Severe(i), mc, cc, nc, t) /\ t = now + g
  BY Zenon DEF v, t
<1>11. Step(g, d, i, t, v, rc, mc, cc, nc)
  BY <1>1, <1>3, <1>5, <1>6, <1>7, <1>8, <1>9, <1>10 DEF Step
<1> QED
  BY <1>11, Zenon
-----------------------------------------------------------------------------
\* Every evaluation keeps the invariant, and changes the action only with the
\* samples that justify it.
LEMMA StepPreserves ==
    ASSUME IInv, NEW g \in Gaps, NEW d \in Depths, NEW i \in Nat,
           i <= g \/ i = idle + g,
           NEW t, NEW v, NEW rc, NEW mc, NEW cc, NEW nc,
           Step(g, d, i, t, v, rc, mc, cc, nc)
    PROVE  IInv' /\ JustifiedStep
<1> DEFINE look == Look(d, i)
<1>1. look \in Looks /\ Recall(look)
  BY DEF Look, Looks, Step, Rises, CongestedSample, Severe
<1>2. /\ look.rises <=> rc >= 1
      /\ look.stale <=> i > 1500
      /\ look.congested <=> cc >= 1
      /\ look.severe <=> i > 5000
  <2>1. /\ look.rises = Rises(d) /\ look.stale = (i > 1500)
        /\ look.congested = CongestedSample(d, i) /\ look.severe = Severe(i)
    BY DEF Look
  <2>2. (rc >= 1 <=> Rises(d)) /\ (cc >= 1 <=> CongestedSample(d, i))
    BY DEF Step
  <2>3. Severe(i) <=> i > 5000
    BY DEF Severe
  <2> HIDE DEF look
  <2>4. /\ look.rises <=> Rises(d)
        /\ look.congested <=> CongestedSample(d, i)
    BY <1>1, <2>1 DEF Looks, Rises, CongestedSample
  <2>5. look.stale <=> i > 1500
    BY <1>1, <2>1 DEF Looks
  <2>6. look.severe <=> i > 5000
    BY <1>1, <2>1 DEF Looks, Severe
  <2> QED
    BY <2>2, <2>4, <2>5, <2>6
<1> HIDE DEF look
<1>3. /\ recent' \in Seq(Looks) /\ Len(recent') <= 3 /\ recent' # <<>>
      /\ Len(recent') >= 1 /\ Ago(0)' = look
      /\ Len(recent) >= 1 => Len(recent') >= 2 /\ Ago(1)' = Ago(0)
      /\ Len(recent) >= 2 => Len(recent') = 3 /\ Ago(2)' = Ago(1)
  BY <1>1, RecentFacts DEF IInv, TypeOK
<1>4. Severe(i) \in BOOLEAN /\ mc \in Nat /\ cc \in Nat /\ nc \in Nat /\ t \in Nat
      /\ rc \in Nat /\ v = Verdict(Severe(i), mc, cc, nc, t)
  BY DEF Severe, Step
<1>5. /\ v \in {"disconnect", "Normal", "Placeholder", "Drop", "Warn", "keep"}
      /\ HoldOver(Severe(i), t) <=> v = "disconnect"
      /\ v = "Normal" => nc >= 3 /\ action # "Normal"
      /\ v = "Placeholder" => Severe(i)
      /\ v \in {"Drop", "Warn", "keep"} => ~Severe(i)
      /\ v = "Drop" => cc >= 2
      /\ v = "Warn" => mc >= 2
  BY <1>4, VerdictFacts
<1>6. Severe(i) <=> i > 5000
  BY DEF Severe
<1>7. i > 5000 => cc >= 1
  BY DEF Step, CongestedSample
<1>8. /\ now' = t /\ idle' = i /\ t = now + g /\ ~closing
      /\ closing' = (v = "disconnect")
      /\ g \in Nat /\ 0 < g /\ g <= Slack /\ Slack \in Nat
  BY SlackFacts DEF Step
<1>9. i > 5000 => v \in {"disconnect", "Placeholder"}
  BY <1>4, <1>5, <1>6, <1>7 DEF Step
<1>10. v = "disconnect" =>
          /\ action = "Placeholder" /\ i > 5000
          /\ t - placeholderStart >= PlaceholderDisconnectAfter
  BY <1>5, <1>6 DEF HoldOver
<1>11. action' = IF v \in Action THEN v ELSE action
  BY DEF Step, SetAction
<1>12. /\ i > 5000 => action' = "Placeholder"
       /\ v \in Action => action' = v
       /\ v \notin Action => action' = action
       /\ v \notin Action => v = "disconnect" \/ v = "keep"
  BY <1>5, <1>9, <1>10, <1>11 DEF Action
<1>13. /\ action' = action => placeholderStart' = placeholderStart
       /\ action' # action /\ action' = "Placeholder" => placeholderStart' = t
  BY <1>11 DEF Step, SetAction
<1>14. heldSince' = IF action' # "Placeholder" THEN -1
                    ELSE IF heldSince >= 0 THEN heldSince ELSE now'
  BY <1>1 DEF Recall
<1>15. TypeOK'
  <2>1. lastAction' \in Int /\ placeholderStart' \in Int
    BY <1>4 DEF Step, SetAction, IInv, TypeOK
  <2>2. heldSince' \in Int
    BY <1>4, <1>8, <1>14 DEF IInv, TypeOK
  <2>3. action' \in Action
    BY <1>11 DEF IInv, TypeOK
  <2>4. now' \in Nat /\ idle' \in Nat
    BY <1>4, <1>8
  <2>5. rising' \in Nat /\ mild' \in Nat /\ congested' \in Nat /\ normal' \in Nat
    BY <1>4 DEF Step
  <2>6. prevDepth' \in -1 .. QueueMax
    BY ControllerAssumption DEF ControllerAssumption, Step
  <2>7. closing' \in BOOLEAN
    BY <1>8, Zenon
  <2> QED
    BY <1>3, <2>1, <2>2, <2>3, <2>4, <2>5, <2>6, <2>7 DEF TypeOK
<1>16. HoldKnown'
  <2>1. CASE action = "Placeholder" /\ action' = "Placeholder"
    BY <1>4, <1>8, <1>13, <1>14, <2>1 DEF IInv, TypeOK, HoldKnown
  <2>2. CASE action # "Placeholder" /\ action' = "Placeholder"
    BY <1>4, <1>8, <1>13, <1>14, <2>2 DEF IInv, TypeOK, HoldKnown
  <2>3. CASE action' # "Placeholder"
    BY <1>14, <2>3 DEF HoldKnown
  <2> QED
    BY <2>1, <2>2, <2>3
<1>17. SilentIsTimed'
  <2>1. CASE i <= g \/ idle <= 5000
    <3>1. i <= 5000 + Slack
      BY <1>8, <2>1 DEF IInv, TypeOK
    <3>2. placeholderStart' \in Int
      BY <1>15 DEF TypeOK
    <3>3. i > 5000 => t - placeholderStart' >= 0
      <4>1. i > 5000 => placeholderStart' <= now'
        BY <1>12, <1>16 DEF HoldKnown
      <4> QED
        BY <1>4, <1>8, <3>2, <4>1
    <3> QED
      BY <1>8, <1>12, <3>1, <3>2, <3>3 DEF SilentIsTimed
  <2>2. CASE i = idle + g /\ idle > 5000
    <3>1. i > 5000 /\ action = "Placeholder" /\ action' = "Placeholder"
      BY <1>8, <1>12, <2>2 DEF IInv, TypeOK, SilentIsTimed
    <3>2. placeholderStart' = placeholderStart /\ 0 < placeholderStart
      BY <1>13, <3>1 DEF IInv, HoldKnown
    <3>3. v # "disconnect" => t - placeholderStart < PlaceholderDisconnectAfter
      BY <1>4, <1>5, <1>6, <3>1, <3>2 DEF HoldOver, IInv, TypeOK,
         PlaceholderDisconnectAfter
    <3>4. t - placeholderStart >= i - 5000 - Slack
      BY <1>8, <2>2 DEF IInv, TypeOK, SilentIsTimed
    <3>5. idle' > 5000 => action' = "Placeholder"
      BY <3>1
    <3>6. ~closing' => now' - placeholderStart' < PlaceholderDisconnectAfter
      BY <1>8, <3>2, <3>3
    <3>7. now' - placeholderStart' >= idle' - 5000 - Slack
      BY <1>8, <3>2, <3>4
    <3> QED
      BY <3>5, <3>6, <3>7, SlackFacts DEF SilentIsTimed
  <2> QED
    BY <2>1, <2>2 DEF IInv, TypeOK
<1>18. SevereIsHeld' /\ CloseIsEarned'
  <2>1. SevereIsHeld'
    BY <1>2, <1>3, <1>12 DEF SevereIsHeld
  <2>2. ASSUME closing' PROVE CloseIsEarned'
    <3>1. v = "disconnect"
      BY <1>8, <2>2, Zenon
    <3>2. /\ i > 5000 /\ action = "Placeholder"
          /\ t - placeholderStart >= PlaceholderDisconnectAfter
      BY <1>10, <3>1
    <3>3. heldSince' = placeholderStart /\ heldSince' >= 0
      BY <1>12, <1>14, <3>2 DEF IInv, TypeOK, HoldKnown
    <3> QED
      BY <1>2, <1>3, <1>8, <3>2, <3>3 DEF CloseIsEarned
  <2> QED
    BY <2>1, <2>2 DEF CloseIsEarned
<1>19. /\ congested' >= 1 => look.congested
       /\ mild' >= 1 => look.stale \/ look.rises
       /\ normal' >= 1 => ~look.stale /\ ~look.congested
       /\ normal' >= 2 => normal >= 1
       /\ look.rises /\ action' # "Normal" => rising' >= 1
  BY <1>2, <1>4, <1>12 DEF Step, Action
<1>20. CountersTell'
  <2>1. normal' >= 2 => /\ Len(recent') >= 2
                        /\ ~Ago(1)'.stale /\ ~Ago(1)'.congested
    BY <1>3, <1>19 DEF IInv, CountersTell
  <2> QED
    BY <1>3, <1>19, <2>1 DEF CountersTell
<1>21. JustifiedStep
  <2> SUFFICES ASSUME action' # action PROVE
        /\ action' = "Placeholder" => Ago(0)'.severe
        /\ action' = "Drop" =>
              Len(recent') >= 2 /\ \A k \in 0 .. 1 : Ago(k)'.congested
        /\ action' = "Warn" =>
              /\ Len(recent') >= 2
              /\ \A k \in 0 .. 1 : Ago(k)'.stale \/ Ago(k)'.rises
        /\ action' = "Normal" =>
              /\ Len(recent') = 3
              /\ \A k \in 0 .. 2 : ~Ago(k)'.stale /\ ~Ago(k)'.congested
              /\ \E k \in 0 .. 1 : ~Ago(k)'.rises
    BY DEF JustifiedStep
  <2>1. v = action' /\ v \in Action
    BY <1>12
  <2>2. action' = "Placeholder" => Ago(0)'.severe
    BY <1>2, <1>3, <1>5, <1>6, <2>1
  <2>3. ASSUME action' = "Drop"
        PROVE  Len(recent') >= 2 /\ \A k \in 0 .. 1 : Ago(k)'.congested
    <3>1. cc >= 2 /\ congested >= 1
      BY <1>5, <2>1, <2>3 DEF Step
    <3>2. Ago(0)'.congested /\ Len(recent') >= 2 /\ Ago(1)'.congested
      BY <1>2, <1>3, <1>4, <3>1 DEF IInv, CountersTell
    <3> QED
      BY <3>2, ZeroOrOne DEF Ago
  <2>4. ASSUME action' = "Warn"
        PROVE  /\ Len(recent') >= 2
               /\ \A k \in 0 .. 1 : Ago(k)'.stale \/ Ago(k)'.rises
    <3>1. mc >= 2 /\ mild >= 1
      BY <1>5, <2>1, <2>4 DEF Step
    <3>2. Ago(0)'.stale \/ Ago(0)'.rises
      BY <1>2, <1>3, <1>4, <3>1 DEF Step
    <3>3. Len(recent') >= 2 /\ (Ago(1)'.stale \/ Ago(1)'.rises)
      BY <1>3, <3>1 DEF IInv, CountersTell
    <3> QED
      BY <3>2, <3>3, ZeroOrOne DEF Ago
  <2>5. ASSUME action' = "Normal"
        PROVE  /\ Len(recent') = 3
               /\ \A k \in 0 .. 2 : ~Ago(k)'.stale /\ ~Ago(k)'.congested
               /\ \E k \in 0 .. 1 : ~Ago(k)'.rises
    <3>1. nc >= 3 /\ normal >= 2 /\ mc = 0 /\ cc = 0 /\ action # "Normal"
      BY <1>4, <1>5, <2>1, <2>5 DEF Step
    <3>2. ~look.stale /\ ~look.congested
      BY <1>2, <1>4, <3>1 DEF Step
    <3>3. /\ Len(recent) >= 2
          /\ ~Ago(0).stale /\ ~Ago(0).congested
          /\ ~Ago(1).stale /\ ~Ago(1).congested
      BY <3>1 DEF IInv, TypeOK, CountersTell
    <3>4. Len(recent') = 3 /\ Ago(1)' = Ago(0) /\ Ago(2)' = Ago(1) /\ Ago(0)' = look
      BY <1>3, <3>3 DEF IInv, TypeOK
    <3>5. ~look.rises \/ ~Ago(0).rises
      <4> SUFFICES ASSUME look.rises, Ago(0).rises PROVE FALSE
        OBVIOUS
      <4>1. rising >= 1
        BY <3>1, <3>3 DEF IInv, TypeOK, CountersTell
      <4>2. Rises(d)
        BY <1>2 DEF Step
      <4>3. rc >= 2
        BY <4>1, <4>2 DEF Step
      <4> QED
        BY <1>4, <3>1, <4>3 DEF Step
    <3> QED
      BY <3>2, <3>3, <3>4, <3>5, ZeroOrOne DEF Ago
  <2> QED
    BY <2>2, <2>3, <2>4, <2>5
<1> QED
  BY <1>15, <1>16, <1>17, <1>18, <1>20, <1>21 DEF IInv
-----------------------------------------------------------------------------
LEMMA InitIInv == Init => IInv
<1> SUFFICES ASSUME Init PROVE IInv
  OBVIOUS
<1>1. TypeOK
  <2>1. recent \in Seq(Looks) /\ Len(recent) <= 3
    BY DEF Init
  <2>2. prevDepth \in -1 .. QueueMax
    BY ControllerAssumption DEF ControllerAssumption, Init
  <2>3. closing \in BOOLEAN
    <3>1. closing = FALSE
      BY DEF Init
    <3> QED
      BY <3>1
  <2>6. action \in Action
    BY DEF Init, Action
  <2>4. now \in Nat /\ idle \in Nat /\ lastAction \in Int /\ placeholderStart \in Int
        /\ heldSince \in Int
    BY DEF Init
  <2>5. rising \in Nat /\ mild \in Nat /\ congested \in Nat /\ normal \in Nat
    BY DEF Init
  <2> QED
    BY <2>1, <2>2, <2>3, <2>4, <2>5, <2>6 DEF TypeOK
<1>2. HoldKnown /\ SilentIsTimed
  BY SlackFacts DEF Init, HoldKnown, SilentIsTimed
<1>3. CountersTell /\ SevereIsHeld /\ CloseIsEarned
  BY DEF Init, CountersTell, SevereIsHeld, CloseIsEarned
<1> QED
  BY <1>1, <1>2, <1>3 DEF IInv

\* A step of the specification is an evaluation after a silence or a send.
LEMMA NextPreserves == IInv /\ [Next]_vars => IInv' /\ [JustifiedStep]_vars
<1> SUFFICES ASSUME IInv, [Next]_vars PROVE IInv' /\ [JustifiedStep]_vars
  OBVIOUS
<1>1. CASE Next
  <2>1. PICK g \in Gaps, d \in Depths, i \in Nat :
           (i <= g \/ i = idle + g) /\ Evaluate(g, d, i)
    <3>1. CASE Sent
      BY <3>1, ControllerAssumption DEF ControllerAssumption, Sent
    <3>2. CASE Silent
      <4>1. PICK g \in Gaps, d \in Depths : Evaluate(g, d, idle + g)
        BY <3>2 DEF Silent
      <4>2. idle + g \in Nat
        BY SlackFacts DEF IInv, TypeOK
      <4> QED
        BY <4>1, <4>2
    <3> QED
      BY <1>1, <3>1, <3>2 DEF Next
  <2>2. PICK t, v, rc, mc, cc, nc : Step(g, d, i, t, v, rc, mc, cc, nc)
    BY <2>1, EvaluateIsStep DEF IInv
  <2> QED
    BY <2>1, <2>2, StepPreserves
<1>2. CASE UNCHANGED vars
  <2>1. IInv'
    BY <1>2 DEF vars, counters, history, IInv, TypeOK, HoldKnown, SilentIsTimed,
       CountersTell, SevereIsHeld, CloseIsEarned, Ago
  <2> QED
    BY <1>2, <2>1
<1> QED
  BY <1>1, <1>2

\* Every variable keeps its type, and only the last three samples are kept.
THEOREM TypeCorrect == Spec => []TypeOK
<1>1. IInv => TypeOK
  BY DEF IInv
<1> QED
  BY <1>1, InitIInv, NextPreserves, PTL DEF Spec

\* A subscriber that was sent nothing for more than five seconds is in
\* Placeholder, whatever cooldowns are running: at any pace of the rounds.
THEOREM SevereHeld == Spec => []SevereIsHeld
<1>1. IInv => SevereIsHeld
  BY DEF IInv
<1> QED
  BY <1>1, InitIInv, NextPreserves, PTL DEF Spec

\* A session that is still open was not found silent for the thirteen seconds
\* and a longest gap: the hold would have been over, as it is not begun again.
LEMMA OpenIsNotSilent ==
    IInv /\ ~closing => idle < 5000 + PlaceholderDisconnectAfter + Slack
<1> SUFFICES ASSUME IInv, ~closing,
                    idle >= 5000 + PlaceholderDisconnectAfter + Slack
             PROVE  FALSE
  BY SlackFacts DEF IInv, TypeOK, PlaceholderDisconnectAfter
<1>1. idle > 5000 + Slack /\ idle > 5000
  BY SlackFacts DEF IInv, TypeOK, PlaceholderDisconnectAfter
<1>2. now - placeholderStart >= idle - 5000 - Slack
  BY <1>1 DEF IInv, SilentIsTimed
<1>3. now - placeholderStart < PlaceholderDisconnectAfter
  BY <1>1 DEF IInv, SilentIsTimed
<1> QED
  BY <1>2, <1>3, SlackFacts DEF IInv, TypeOK, PlaceholderDisconnectAfter

\* A subscriber that is sent nothing is closed by the first evaluation that
\* finds it silent for thirteen seconds and one longest gap, which is before
\* thirteen seconds and two longest gaps are over.
THEOREM SilentClosed == Spec => []SilentIsClosed
<1> DEFINE Bounded == idle < 5000 + PlaceholderDisconnectAfter + 2 * Slack
<1>1. Init => Bounded
  BY SlackFacts DEF Init, PlaceholderDisconnectAfter
<1>2. IInv /\ Bounded /\ [Next]_vars => Bounded'
  <2> SUFFICES ASSUME IInv, Bounded, [Next]_vars PROVE Bounded'
    OBVIOUS
  <2>1. ASSUME NEW g \in Gaps, NEW d \in Depths, NEW i \in Idles, i <= g, Evaluate(g, d, i)
        PROVE  Bounded'
    <3>1. idle' = i /\ i \in Nat
      BY <2>1, ControllerAssumption DEF Evaluate
    <3> QED
      BY <2>1, <3>1, SlackFacts DEF PlaceholderDisconnectAfter
  <2>2. ASSUME NEW g \in Gaps, NEW d \in Depths, Evaluate(g, d, idle + g)
        PROVE  Bounded'
    <3>1. idle' = idle + g /\ ~closing
      BY <2>2 DEF Evaluate
    <3> QED
      BY <3>1, OpenIsNotSilent, SlackFacts DEF IInv, TypeOK, PlaceholderDisconnectAfter
  <2>3. CASE UNCHANGED vars
    BY <2>3 DEF vars
  <2> QED
    BY <2>1, <2>2, <2>3 DEF Next, Sent, Silent
<1>3. IInv /\ Bounded => SilentIsClosed
  <2> SUFFICES ASSUME IInv, Bounded PROVE SilentIsClosed
    OBVIOUS
  <2>1. ~closing => ~(idle >= 5000 + PlaceholderDisconnectAfter + Slack)
    BY OpenIsNotSilent, SlackFacts DEF IInv, TypeOK, PlaceholderDisconnectAfter
  <2> QED
    BY <2>1 DEF SilentIsClosed
<1> QED
  BY <1>1, <1>2, <1>3, InitIInv, NextPreserves, PTL DEF Spec

\* A session is closed only when it was held for the whole hold and is severe.
THEOREM CloseEarned == Spec => []CloseIsEarned
<1>1. IInv => CloseIsEarned
  BY DEF IInv
<1> QED
  BY <1>1, InitIInv, NextPreserves, PTL DEF Spec

\* No step changes the action without the samples that justify it.
THEOREM JustifiedCorrect == Spec => Justified
BY InitIInv, NextPreserves, PTL DEF Spec, Justified
=============================================================================
