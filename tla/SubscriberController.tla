------------------------ MODULE SubscriberController ------------------------
(***************************************************************************)
(* The per-subscriber controller of the relay                              *)
(* (srt_server/src/subscriber_controller.hpp), as the monitor drives it    *)
(* through SubscriberSession::evaluate_control: every evaluation samples   *)
(* the queue depth and the time since the last successful send, updates    *)
(* the cycle counters and may change the action the session is under or    *)
(* ask for its disconnection.                                              *)
(*                                                                         *)
(* Time is in milliseconds.  `now' is the time since the session was       *)
(* created, which is also when last_active_ms_ is first set.               *)
(***************************************************************************)
EXTENDS Integers, Sequences

CONSTANTS
    QueueMax,  \* cfg_.subscriber_queue_max_chunks
    Depths,    \* the queue depths an evaluation may find
    Idles,     \* the ages a send of the last period may have
    Gaps,      \* times between two evaluations: the interval and the time
               \* the previous round took
    MaxTime    \* bound: the clock

ASSUME ControllerAssumption ==
    /\ QueueMax \in Nat /\ Depths \subseteq 0 .. QueueMax
    /\ Idles \subseteq Nat /\ Gaps \subseteq Nat \ {0} /\ MaxTime \in Nat
    /\ \E g \in Gaps : \A h \in Gaps : h <= g \* a round takes a bounded time

WarnCooldown == 5000
DropCooldown == 10000
PlaceholderDisconnectAfter == 8000

Action == {"Normal", "Warn", "Drop", "Placeholder"}

VARIABLES
    now, idle,        \* the clock; the idle_ms of the last evaluation
    action,           \* action_
    prevDepth,        \* prev_queue_depth_
    rising, mild, congested, normal,  \* the *_cycles_ counters
    lastAction,       \* last_action_ms_
    placeholderStart, \* placeholder_started_ms_
    closing,          \* disconnect was returned, the session is closed for it
    recent,           \* history: what the last three samples looked like
    heldSince         \* history: first evaluation of this stay in Placeholder

counters == <<prevDepth, rising, mild, congested, normal>>
history == <<recent, heldSince>>
vars == <<now, idle, action, counters, lastAction, placeholderStart, closing,
          history>>

Init ==
    /\ now = 0 /\ idle = 0
    /\ action = "Normal"
    /\ prevDepth = -1
    /\ rising = 0 /\ mild = 0 /\ congested = 0 /\ normal = 0
    /\ lastAction = -100000
    /\ placeholderStart = -1
    /\ closing = FALSE
    /\ recent = <<>> /\ heldSince = -1
-----------------------------------------------------------------------------
\* The thresholds.  The floor of 8 holds for a smaller queue too, whose depth
\* then never counts as high.
TwoThirds == (QueueMax * 2) \div 3
HighDepth == IF TwoThirds > 8 THEN TwoThirds ELSE 8
Severe(i) == i > 5000
CongestedSample(d, i) == d >= HighDepth \/ i > 3000
Rises(d) == prevDepth >= 0 /\ d > prevDepth /\ d >= 2

NeverReset(held, cycles) == IF held THEN cycles + 1 ELSE cycles
Counted(held, cycles) == IF held THEN cycles + 1 ELSE 0

\* The session spent the whole hold in Placeholder and is severe again, or
\* still, now.
HoldSkipped(severe, t) == action = "Placeholder" /\ severe
HoldOver(severe, t) ==
    /\ action = "Placeholder" /\ placeholderStart > 0 /\ severe
    /\ t - placeholderStart >= PlaceholderDisconnectAfter

DropDue(t) == action # "Drop" /\ t - lastAction >= DropCooldown
WarnDue(t) == action = "Normal" \/ t - lastAction >= WarnCooldown

CongestedFirst(severe, m, c, n, t) ==
    IF HoldOver(severe, t) THEN "disconnect"
    ELSE IF n >= 3 /\ action # "Normal" THEN "Normal"
    ELSE IF c >= 2 THEN IF DropDue(t) THEN "Drop" ELSE "keep"
    ELSE IF severe THEN "Placeholder"
    ELSE IF m >= 2 /\ WarnDue(t) THEN "Warn"
    ELSE "keep"

\* update's decision from the counters of this evaluation at time t, in the
\* order the code tests them; "keep" leaves the action alone.
Verdict(severe, m, c, n, t) ==
    IF HoldOver(severe, t) THEN "disconnect"
    ELSE IF n >= 3 /\ action # "Normal" THEN "Normal"
    ELSE IF severe THEN "Placeholder"
    ELSE IF c >= 2 THEN IF DropDue(t) THEN "Drop" ELSE "keep"
    ELSE IF m >= 2 /\ WarnDue(t) THEN "Warn"
    ELSE "keep"

\* set_action is also called for the action already taken, and must then do
\* nothing: a hold that began is not begun again.
RestartHold(next, t) ==
    /\ action' = next
    /\ lastAction' = t
    /\ placeholderStart' = IF next = "Placeholder" THEN t
                           ELSE IF next = "Normal" THEN -1
                           ELSE placeholderStart
SetAction(next, t) ==
    /\ action' = next
    /\ lastAction' = IF next = action THEN lastAction ELSE t
    /\ placeholderStart' = IF next = action THEN placeholderStart
                           ELSE IF next = "Placeholder" THEN t
                           ELSE IF next = "Normal" THEN -1
                           ELSE placeholderStart

\* What a sample looks like from the outside.
Look(d, i) == [rises |-> Rises(d), stale |-> i > 1500,
               congested |-> CongestedSample(d, i), severe |-> Severe(i)]
Recall(look) ==
    /\ recent' = SubSeq(Append(recent, look),
                        IF Len(recent) = 3 THEN 2 ELSE 1, Len(recent) + 1)
    /\ heldSince' = IF action' # "Placeholder" THEN -1
                    ELSE IF heldSince >= 0 THEN heldSince ELSE now'

\* evaluate_control, g ms after the previous one, with queue depth d and with
\* the last send i ms ago.
Evaluate(g, d, i) ==
    LET t == now + g
        rc == Counted(Rises(d), rising)
        mildNow == rc >= 2 \/ i > 1500
        mc == Counted(mildNow, mild)
        cc == Counted(CongestedSample(d, i), congested)
        calm == ~mildNow /\ ~CongestedSample(d, i)
        nc == Counted(calm, normal)
        v == Verdict(Severe(i), mc, cc, nc, t)
        reset == v = "Normal"
    IN  /\ ~closing /\ t <= MaxTime
        /\ now' = t /\ idle' = i /\ prevDepth' = d
        /\ rising' = IF reset THEN 0 ELSE rc
        /\ mild' = IF reset THEN 0 ELSE mc
        /\ congested' = IF reset THEN 0 ELSE cc
        /\ normal' = nc
        /\ SetAction(IF v \in Action THEN v ELSE action, t)
        /\ closing' = (v = "disconnect")
        /\ Recall(Look(d, i))

\* Between two evaluations the sender sent something, or nothing.
Sent == \E g \in Gaps, d \in Depths, i \in Idles : i <= g /\ Evaluate(g, d, i)
Silent == \E g \in Gaps, d \in Depths : Evaluate(g, d, idle + g)

Next == Sent \/ Silent

Spec == Init /\ [][Next]_vars
-----------------------------------------------------------------------------
Looks == [rises: BOOLEAN, stale: BOOLEAN, congested: BOOLEAN, severe: BOOLEAN]

\* Every variable has its type, and the clocks and counters do not go back
\* below their start.
TypeOK ==
    /\ now \in Nat /\ idle \in Nat
    /\ action \in Action
    /\ prevDepth \in -1 .. QueueMax
    /\ rising \in Nat /\ mild \in Nat /\ congested \in Nat /\ normal \in Nat
    /\ lastAction \in Int /\ placeholderStart \in Int
    /\ closing \in BOOLEAN
    /\ recent \in Seq(Looks) /\ Len(recent) <= 3
    /\ heldSince \in Int

\* The sample k evaluations ago.
Ago(k) == recent[Len(recent) - k]

\* A subscriber nothing was sent to for more than five seconds is never left
\* with real content: the severe test comes before the congestion cooldowns.
SevereIsHeld == recent # <<>> /\ Ago(0).severe => action = "Placeholder"

\* A subscriber that drains nothing is closed, however evaluations are spaced
\* and whatever happened before: by the first evaluation that finds it silent
\* for the five seconds to severe, the eight of the hold and one longest gap,
\* since both limits are only tested once a round; and so before it was silent
\* for these thirteen seconds and two longest gaps.
Slack == CHOOSE g \in Gaps : \A h \in Gaps : h <= g
SilentIsClosed ==
    /\ idle >= 5000 + PlaceholderDisconnectAfter + Slack => closing
    /\ idle < 5000 + PlaceholderDisconnectAfter + 2 * Slack

\* A session is closed only after it spent the whole hold in Placeholder, as
\* the relay's own evaluations saw it, and is severe at that moment.
CloseIsEarned ==
    closing => /\ Ago(0).severe /\ heldSince >= 0
               /\ now - heldSince >= PlaceholderDisconnectAfter

\* The counters never outlive what they count: a Drop needs two congested
\* samples in a row, a first Warn two that were stale or rising, and going
\* back to Normal three without any of it.
JustifiedStep ==
    action' # action =>
        /\ action' = "Placeholder" => Ago(0)'.severe
        /\ action' = "Drop" =>
              Len(recent') >= 2 /\ \A k \in 0 .. 1 : Ago(k)'.congested
        /\ action' = "Warn" =>
              /\ Len(recent') >= 2
              /\ \A k \in 0 .. 1 : Ago(k)'.stale \/ Ago(k)'.rises
        /\ action' = "Normal" =>
              /\ Len(recent') = 3
              /\ \A k \in 0 .. 2 : ~Ago(k)'.stale /\ ~Ago(k)'.congested
              /\ \E k \in 0 .. 1 : ~Ago(k)'.rises
Justified == [][JustifiedStep]_vars
=============================================================================
