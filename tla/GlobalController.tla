-------------------------- MODULE GlobalController --------------------------
(***************************************************************************)
(* The global controller of the relay (srt_server/src/global_controller.hpp)*)
(* as monitor_loop calls it: every round it is given the share of bad      *)
(* subscribers, whether the queue-drop total grew and how long the         *)
(* publisher has been silent, and it decides whether the pusher is to send *)
(* a key frame, go one rung down or up the quality ladder, or show the     *)
(* placeholder.                                                            *)
(*                                                                         *)
(* The five last_*_ms_ times only ever appear in now_ms - last_*_ms_, so   *)
(* the state keeps the age of each, cut off at the longest cooldown.  The  *)
(* cycle counters are only compared with a threshold and are cut off there.*)
(***************************************************************************)
EXTENDS Integers

CONSTANTS
    Base, Floor,   \* base_* and min_*: [bitrate, fps, width, height]
    Ratios,        \* bad_subscriber_ratio, in percent
    PubIdles,      \* pub_idle_ms, -1 while no publisher was ever active
    Gaps           \* times between two rounds of the monitor

Quality == [bitrate: Nat, fps: Nat, width: Nat, height: Nat]

\* What parse_args accepts.
ASSUME LadderAssumption ==
    /\ Base \in Quality /\ Floor \in Quality
    /\ \A r \in {"bitrate", "fps", "width", "height"} :
          0 < Floor[r] /\ Floor[r] <= Base[r]

ASSUME InputAssumption ==
    /\ Ratios \subseteq 0 .. 100
    /\ PubIdles \subseteq Int
    /\ Gaps \subseteq Nat \ {0}

Clocks == {"action", "idr", "degrade", "recover", "placeholder"}
IdrCooldown == 2000
WarningIdrCooldown == 4000
DegradeCooldown == 9000
RecoverCooldown == 15000
PlaceholderCooldown == 10000
PlaceholderMinHold == 5000
AgeCap == RecoverCooldown

VARIABLES
    quality,      \* bitrate_kbps_, fps_, width_, height_
    placeholder,  \* placeholder_active_
    degrades,     \* degrade_actions_since_recovery_
    growth,       \* queue_drop_growth_cycles_
    warning,      \* global_warning_cycles_
    recovery,     \* recovery_cycles_
    counted,      \* prev_queue_drops_ holds a total (not invalid_drops_)
    since,        \* now_ms - last_*_ms_, per clock
    decision,     \* what update returned
    sample,       \* history: what kind of round the last one was
    round         \* flips with every round, so that a round that leaves all
                  \* the rest as it was is still a step

vars == <<quality, placeholder, degrades, growth, warning, recovery, counted,
          since, decision, sample, round>>

Lesser(a, b) == IF a < b THEN a ELSE b
Greater(a, b) == IF a > b THEN a ELSE b

\* A GlobalDecision; `rung' names the fields of it that are set, whose values
\* are those of the controller's quality, "none" when it sets none.
Decision(a, rung, exit) == [action |-> a, rung |-> rung, exit |-> exit]
Noop == Decision("Noop", "none", FALSE)

Init ==
    /\ quality = Base /\ placeholder = FALSE /\ degrades = 0
    /\ growth = 0 /\ warning = 0 /\ recovery = 0 /\ counted = FALSE
    /\ since = [c \in Clocks |-> AgeCap]   \* last_*_ms_ = -100000
    /\ decision = Noop
    /\ sample = "none" /\ round = FALSE
-----------------------------------------------------------------------------
\* The ladder.
Even(n) == n - (n % 2)
ThreeQuarters(n) == (n * 3) \div 4
FourThirds(n) == (n * 4) \div 3
SeventyPercent(n) == (n * 70) \div 100

BelowBase(q) == q.width < Base.width \/ q.height < Base.height
AboveFloor(q) == q.width > Floor.width \/ q.height > Floor.height
AtFloor(q) ==
    q.bitrate <= Floor.bitrate /\ q.fps <= Floor.fps /\ ~AboveFloor(q)
AtBase(q) == q.bitrate >= Base.bitrate /\ q.fps >= Base.fps /\ ~BelowBase(q)

SizeDown(q) ==
    [q EXCEPT !.width = Even(Greater(Floor.width, ThreeQuarters(@))),
              !.height = Even(Greater(Floor.height, ThreeQuarters(@)))]
SizeUp(q) ==
    [q EXCEPT !.width = Even(Lesser(Base.width, FourThirds(@))),
              !.height = Even(Lesser(Base.height, FourThirds(@)))]

\* The rungs are tried in this order, down and up alike.
RungDown(q) == IF q.bitrate > Floor.bitrate THEN "bitrate"
               ELSE IF q.fps > Floor.fps THEN "fps"
               ELSE IF AboveFloor(q) THEN "size" ELSE "none"
RungUp(q) == IF q.bitrate < Base.bitrate THEN "bitrate"
             ELSE IF q.fps < Base.fps THEN "fps"
             ELSE IF BelowBase(q) THEN "size" ELSE "none"

Unbounded(q) == [q EXCEPT !.bitrate = SeventyPercent(@)]
StepDown(q) ==
    CASE RungDown(q) = "bitrate" ->
           [q EXCEPT !.bitrate = Greater(Floor.bitrate, SeventyPercent(@))]
      [] RungDown(q) = "fps" ->
           [q EXCEPT !.fps = Greater(Floor.fps, SeventyPercent(@))]
      [] RungDown(q) = "size" -> SizeDown(q)
      [] OTHER -> q

WithoutPlusOne(q) == [q EXCEPT !.bitrate = Lesser(Base.bitrate, FourThirds(@))]
StepUp(q) ==
    CASE RungUp(q) = "bitrate" ->
           [q EXCEPT !.bitrate = Lesser(Base.bitrate, FourThirds(@) + 1)]
      [] RungUp(q) = "fps" ->
           [q EXCEPT !.fps = Lesser(Base.fps, @ + Greater(1, Base.fps \div 5))]
      [] RungUp(q) = "size" -> SizeUp(q)
      [] OTHER -> q

DegradeName(rung) ==
    CASE rung = "bitrate" -> "DegradeBitrate" [] rung = "fps" -> "DegradeFps"
      [] rung = "size" -> "DegradeResolution" [] OTHER -> "EnterPlaceholder"
-----------------------------------------------------------------------------
\* The kinds of input.
PubStalled(i) == i > 4000
MajorityBad(r) == r > 60
MidBad(r) == r >= 30 /\ r <= 60
NormalWindow(r, i, grown) == r < 10 /\ i >= 0 /\ i < 1500 /\ grown < 2

Counted(held, n, cap) == IF held THEN Lesser(n + 1, cap) ELSE 0
WarningCap == 3
GrowthCap == 2
OneTooFew == 4
RecoveryCap == 5
DegradesCap == 3

\* update_counters: the first total seen is no growth.
UpdateCounters(r, grew) ==
    /\ growth' = Counted(counted /\ grew, growth, GrowthCap)
    /\ counted' = TRUE
    /\ warning' = Counted(MidBad(r), warning, WarningCap)

\* The time from a clock's last event to this round, g ms after the last one.
Age(c, g) == since[c] + g
Stamp(S, g) ==
    since' = [c \in Clocks |-> IF c \in S THEN 0 ELSE Lesser(Age(c, g), AgeCap)]

CanRecover(g) == Age("recover", g) >= RecoverCooldown
CanDegradeByAction(g) == Age("action", g) >= DegradeCooldown
CanDegrade(g) == Age("degrade", g) >= DegradeCooldown
CanEnterPlaceholder(g) == Age("placeholder", g) >= PlaceholderCooldown
CanIdr(g) == /\ Age("idr", g) >= IdrCooldown
             /\ Age("action", g) >= WarningIdrCooldown

\* When update tries each branch; the branches before it have returned.
HoldOver(g) == Age("placeholder", g) >= PlaceholderMinHold
RecoverDue(g) == /\ recovery' >= RecoveryCap /\ CanRecover(g)
                 /\ IF placeholder THEN HoldOver(g) ELSE ~AtBase(quality)
SevereGlobal(r) == MajorityBad(r) \/ growth' >= GrowthCap
DegradeDue(g, r) ==
    /\ CanDegrade(g)
    /\ SevereGlobal(r) \/ (MidBad(r) /\ warning' >= WarningCap)
IdrDue(g, r) == MidBad(r) /\ CanIdr(g)
PlaceholderDue(g, r) ==
    SevereGlobal(r) /\ degrades >= DegradesCap /\ CanEnterPlaceholder(g)
-----------------------------------------------------------------------------
EnterPlaceholder ==
    /\ placeholder' = TRUE
    /\ decision' = Decision("EnterPlaceholder", "none", FALSE)

Unchanging == UNCHANGED <<quality, placeholder, degrades>>

\* The publisher is silent: nothing else is looked at, not even the recovery
\* counter, which keeps the rounds it counted before the stall.
Stalled(g, r, i, grew) ==
    /\ PubStalled(i)
    /\ UpdateCounters(r, grew)
    /\ IF ~placeholder \/ CanEnterPlaceholder(g)
       THEN EnterPlaceholder /\ Stamp({"action", "idr", "placeholder"}, g)
       ELSE decision' = Noop /\ placeholder' = placeholder /\ Stamp({}, g)
    /\ sample' = "stalled"
    /\ UNCHANGED <<quality, degrades, recovery>>

\* A round with the publisher active, up to the branches.
Heard(r, i, grew) ==
    /\ ~PubStalled(i)
    /\ UpdateCounters(r, grew)
    /\ sample' = IF NormalWindow(r, i, growth') THEN "calm"
                 ELSE IF SevereGlobal(r) THEN "severe" ELSE "other"
Recount(r, i) ==
    recovery' = Counted(NormalWindow(r, i, growth'), recovery, RecoveryCap)

\* recover_step leaves the placeholder first and the quality alone that time.
RecoveredAtOnce == StepUp(quality)
Recovered == IF placeholder THEN quality ELSE StepUp(quality)
RecoverStep(g, r, i, grew) ==
    /\ Heard(r, i, grew) /\ Recount(r, i)
    /\ RecoverDue(g)
    /\ Stamp({"action", "idr", "recover"}, g)
    /\ placeholder' = FALSE
    /\ quality' = Recovered
    /\ decision' = Decision("RecoverStep",
                      IF placeholder THEN "none" ELSE RungUp(quality), placeholder)
    /\ UNCHANGED degrades

\* Without a rung left, degrading is entering the placeholder, whose own
\* cooldown is not looked at.
DegradedUncounted == degrades
Degraded == Lesser(degrades + 1, DegradesCap)
Degrade(g, r, i, grew) ==
    /\ Heard(r, i, grew)
    /\ DegradeDue(g, r)
    /\ recovery' = 0
    /\ degrades' = Degraded
    /\ LET rung == RungDown(quality) IN
       /\ quality' = StepDown(quality)
       /\ decision' = Decision(DegradeName(rung), rung, FALSE)
       /\ placeholder' = (placeholder \/ rung = "none")
       /\ Stamp({"action", "idr", "degrade"}
                  \cup (IF rung = "none" THEN {"placeholder"} ELSE {}), g)

Idr(g, r, i, grew) ==
    /\ Heard(r, i, grew) /\ Recount(r, i)
    /\ ~DegradeDue(g, r) /\ IdrDue(g, r)
    /\ decision' = Decision("Idr", "none", FALSE)
    /\ Stamp({"action", "idr"}, g)
    /\ Unchanging

\* "degrade ineffective".
GiveUp(g, r, i, grew) ==
    /\ Heard(r, i, grew) /\ Recount(r, i)
    /\ ~DegradeDue(g, r) /\ ~IdrDue(g, r) /\ PlaceholderDue(g, r)
    /\ EnterPlaceholder
    /\ Stamp({"action", "idr", "placeholder"}, g)
    /\ UNCHANGED <<quality, degrades>>

\* No decision.  A recovery that finds everything at its base only ends the
\* count of the degradations.
Quiet(g, r, i, grew) ==
    /\ Heard(r, i, grew) /\ Recount(r, i)
    /\ ~RecoverDue(g) /\ ~DegradeDue(g, r) /\ ~IdrDue(g, r)
    /\ ~PlaceholderDue(g, r)
    /\ degrades' = IF recovery' >= RecoveryCap /\ CanRecover(g) /\ ~placeholder
                   THEN 0 ELSE degrades
    /\ decision' = Noop /\ Stamp({}, g)
    /\ UNCHANGED <<quality, placeholder>>

\* GlobalController::update.  The drop total never shrinks.
Update ==
    /\ round' = ~round
    /\ \E g \in Gaps, r \in Ratios, i \in PubIdles, grew \in BOOLEAN :
          \/ Stalled(g, r, i, grew)
          \/ RecoverStep(g, r, i, grew)
          \/ Degrade(g, r, i, grew)
          \/ Idr(g, r, i, grew)
          \/ GiveUp(g, r, i, grew)
          \/ Quiet(g, r, i, grew)

Spec == Init /\ [][Update]_vars

\* The monitor thread keeps calling update.
FairSpec == Spec /\ WF_vars(Update)
-----------------------------------------------------------------------------
\* state_name().
StateName == IF placeholder THEN "GlobalPlaceholder"
             ELSE IF degrades > 0 THEN "GlobalDegraded"
             ELSE IF warning > 0 THEN "GlobalWarning" ELSE "Normal"
-----------------------------------------------------------------------------
\* The quality stays between the configured bounds whatever order steps up
\* and down come in; only the rounding to even sizes may leave the floor, by
\* one pixel, when it is odd.
TypeOK ==
    /\ quality \in Quality
    /\ quality.bitrate \in Floor.bitrate .. Base.bitrate
    /\ quality.fps \in Floor.fps .. Base.fps
    /\ quality.width \in Even(Floor.width) .. Base.width
    /\ quality.height \in Even(Floor.height) .. Base.height
    /\ placeholder \in BOOLEAN /\ counted \in BOOLEAN /\ round \in BOOLEAN
    /\ degrades \in 0 .. DegradesCap /\ growth \in 0 .. GrowthCap
    /\ warning \in 0 .. WarningCap /\ recovery \in 0 .. RecoveryCap
    /\ since \in [Clocks -> 0 .. AgeCap]
    /\ sample \in {"none", "stalled", "calm", "severe", "other"}

\* What the dashboard is told is true: a state that is neither degraded nor
\* the placeholder means that the pusher was last asked for full quality.
HonestState == StateName \in {"Normal", "GlobalWarning"} => quality = Base

\* What the pusher is told by a decision.
Told(d) == IF d.exit THEN "normal"
           ELSE IF d.action = "EnterPlaceholder" THEN "black"
           ELSE IF d.action = "Idr" THEN "key"
           ELSE IF d.rung = "none" THEN "nothing" ELSE d.rung

Ladder == INSTANCE QualityLadder WITH told <- Told(decision)

\* The pusher only hears of decisions: whatever the counters, cooldowns and
\* stalls do, the controller is a QualityLadder, that moves one rung at a time
\* in the documented order and names every change of what it believes.
ImplementsLadder == Ladder!Spec

\* pusher/ReadMe.md: stepping up is slow.  No step up comes within five rounds,
\* be they as short as rounds can be, of a step down, whatever calm there was
\* before it.
SlowUp == decision.action = "RecoverStep" =>
              \E g \in Gaps : since["degrade"] >= Lesser(5 * g, AgeCap)

\* ReadMe.md, section 7: when the network recovers the quality is restored
\* step by step.  If the rounds stay calm, everything is back, the placeholder
\* is left and the degradations are forgotten.
Restored == quality = Base /\ ~placeholder /\ degrades = 0
Recovers == <>[](sample = "calm") => <>[]Restored

\* Congestion that lasts ends in the placeholder, which is then kept: the
\* cooldowns of key frames and of the ladder do not starve each other.
CongestionEscalates == <>[](sample = "severe") => <>[]placeholder
=============================================================================
