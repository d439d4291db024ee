----------------------- MODULE GlobalControllerProofs -----------------------
(***************************************************************************)
(* Theorems about GlobalController, for every ladder parse_args accepts    *)
(* and every input: the quality never leaves the ladder, the state shown   *)
(* on the dashboard is honest, stepping up is slow, and the controller     *)
(* implements QualityLadder.                                               *)
(***************************************************************************)
EXTENDS GlobalController, TLAPS

\* The part of the type invariant that is about the ladder.
Bounded(q) ==
    /\ q \in Quality
    /\ q.bitrate \in Floor.bitrate .. Base.bitrate
    /\ q.fps \in Floor.fps .. Base.fps
    /\ q.width \in Even(Floor.width) .. Base.width
    /\ q.height \in Even(Floor.height) .. Base.height

\* The bounds of the ladder are positive numbers in order.
LEMMA LadderFacts ==
    \A r \in {"bitrate", "fps", "width", "height"} :
        /\ Base[r] \in Nat /\ Floor[r] \in Nat
        /\ 0 < Floor[r] /\ Floor[r] <= Base[r]
BY LadderAssumption DEF LadderAssumption, Quality

\* Rounding to even takes at most one away and keeps the order.
LEMMA EvenFacts ==
    ASSUME NEW n \in Nat
    PROVE  /\ Even(n) \in Nat /\ Even(n) <= n
           /\ \A m \in Nat : m <= n => Even(m) <= Even(n)
BY DEF Even

\* The fractions of the steps down are no larger, those up no smaller.
LEMMA FractionFacts ==
    ASSUME NEW n \in Nat
    PROVE  /\ ThreeQuarters(n) \in Nat /\ ThreeQuarters(n) <= n
           /\ SeventyPercent(n) \in Nat /\ SeventyPercent(n) <= n
           /\ FourThirds(n) \in Nat /\ n <= FourThirds(n)
BY DEF ThreeQuarters, SeventyPercent, FourThirds

\* A step down one rung of one dimension: the greater of a floor and a
\* fraction, rounded to even, stays between the floor and the base.
LEMMA SizeDownBounds ==
    ASSUME NEW f \in Nat, NEW b \in Nat, f <= b,
           NEW n \in Nat, Even(f) <= n, n <= b
    PROVE  Even(Greater(f, ThreeQuarters(n))) \in Even(f) .. b
<1> DEFINE g == Greater(f, ThreeQuarters(n))
<1>1. ThreeQuarters(n) \in Nat /\ ThreeQuarters(n) <= n
  BY FractionFacts
<1>2. g \in Nat /\ f <= g /\ g <= b
  BY <1>1 DEF Greater
<1>3. Even(g) \in Nat /\ Even(g) <= g /\ Even(f) <= Even(g)
  BY <1>2, EvenFacts
<1>4. Even(f) \in Nat
  BY EvenFacts
<1> HIDE DEF g
<1>5. Even(g) \in Even(f) .. b
  BY <1>2, <1>3, <1>4
<1> QED
  BY <1>5 DEF g

\* The same for a step up.
LEMMA SizeUpBounds ==
    ASSUME NEW f \in Nat, NEW b \in Nat, f <= b,
           NEW n \in Nat, Even(f) <= n, n <= b
    PROVE  Even(Lesser(b, FourThirds(n))) \in Even(f) .. b
<1> DEFINE g == Lesser(b, FourThirds(n))
<1>1. FourThirds(n) \in Nat /\ n <= FourThirds(n)
  BY FractionFacts
<1>2. g \in Nat /\ n <= g /\ g <= b
  BY <1>1 DEF Lesser
<1>3. Even(g) \in Nat /\ Even(g) <= g
  BY <1>2, EvenFacts
<1>4. Even(f) \in Nat /\ Even(f) <= f
  BY EvenFacts
<1>5. Even(Even(f)) = Even(f)
  BY DEF Even
<1>6. Even(Even(f)) <= Even(g)
  BY <1>2, <1>4, EvenFacts
<1> HIDE DEF g
<1>7. Even(g) \in Even(f) .. b
  BY <1>2, <1>3, <1>4, <1>5, <1>6
<1> QED
  BY <1>7 DEF g

\* A step down keeps the quality on the ladder and changes its rung only.
LEMMA StepDownBounded ==
    ASSUME NEW q, Bounded(q)
    PROVE  Bounded(StepDown(q))
<1> USE LadderFacts DEF Quality
<1>1. CASE RungDown(q) = "bitrate"
  <2> DEFINE n == Greater(Floor.bitrate, SeventyPercent(q.bitrate))
  <2>1. StepDown(q) = [q EXCEPT !.bitrate = n]
    BY <1>1 DEF StepDown
  <2>2. n \in Floor.bitrate .. Base.bitrate /\ n \in Nat
    BY FractionFacts DEF Bounded, Greater
  <2> QED
    BY <2>1, <2>2 DEF Bounded
<1>2. CASE RungDown(q) = "fps"
  <2> DEFINE n == Greater(Floor.fps, SeventyPercent(q.fps))
  <2>1. StepDown(q) = [q EXCEPT !.fps = n]
    BY <1>2 DEF StepDown
  <2>2. n \in Floor.fps .. Base.fps /\ n \in Nat
    BY FractionFacts DEF Bounded, Greater
  <2> QED
    BY <2>1, <2>2 DEF Bounded
<1>3. CASE RungDown(q) = "size"
  <2> DEFINE w == Even(Greater(Floor.width, ThreeQuarters(q.width)))
             h == Even(Greater(Floor.height, ThreeQuarters(q.height)))
  <2>1. StepDown(q) = [[q EXCEPT !.width = w] EXCEPT !.height = h]
    BY <1>3 DEF StepDown, SizeDown, Bounded
  <2>2. w \in Even(Floor.width) .. Base.width
    BY SizeDownBounds DEF Bounded
  <2>3. h \in Even(Floor.height) .. Base.height
    BY SizeDownBounds DEF Bounded
  <2>4. Even(Floor.width) \in Nat /\ Even(Floor.height) \in Nat
    BY EvenFacts
  <2> HIDE DEF w, h
  <2>5. w \in Nat /\ h \in Nat
    BY <2>2, <2>3, <2>4
  <2> QED
    BY <2>1, <2>2, <2>3, <2>5 DEF Bounded
<1>4. CASE RungDown(q) = "none"
  BY <1>4 DEF StepDown
<1> QED
  BY <1>1, <1>2, <1>3, <1>4 DEF RungDown

\* So does a step up.
LEMMA StepUpBounded ==
    ASSUME NEW q, Bounded(q)
    PROVE  Bounded(StepUp(q))
<1> USE LadderFacts DEF Quality
<1>1. CASE RungUp(q) = "bitrate"
  <2> DEFINE n == Lesser(Base.bitrate, FourThirds(q.bitrate) + 1)
  <2>1. StepUp(q) = [q EXCEPT !.bitrate = n]
    BY <1>1 DEF StepUp
  <2>2. n \in Floor.bitrate .. Base.bitrate /\ n \in Nat
    BY FractionFacts DEF Bounded, Lesser
  <2> QED
    BY <2>1, <2>2 DEF Bounded
<1>2. CASE RungUp(q) = "fps"
  <2> DEFINE n == Lesser(Base.fps, q.fps + Greater(1, Base.fps \div 5))
  <2>1. StepUp(q) = [q EXCEPT !.fps = n]
    BY <1>2 DEF StepUp
  <2>2. n \in Floor.fps .. Base.fps /\ n \in Nat
    BY DEF Bounded, Lesser, Greater
  <2> QED
    BY <2>1, <2>2 DEF Bounded
<1>3. CASE RungUp(q) = "size"
  <2> DEFINE w == Even(Lesser(Base.width, FourThirds(q.width)))
             h == Even(Lesser(Base.height, FourThirds(q.height)))
  <2>1. StepUp(q) = [[q EXCEPT !.width = w] EXCEPT !.height = h]
    BY <1>3 DEF StepUp, SizeUp, Bounded
  <2>2. w \in Even(Floor.width) .. Base.width
    BY SizeUpBounds DEF Bounded
  <2>3. h \in Even(Floor.height) .. Base.height
    BY SizeUpBounds DEF Bounded
  <2>4. Even(Floor.width) \in Nat /\ Even(Floor.height) \in Nat
    BY EvenFacts
  <2> HIDE DEF w, h
  <2>5. w \in Nat /\ h \in Nat
    BY <2>2, <2>3, <2>4
  <2> QED
    BY <2>1, <2>2, <2>3, <2>5 DEF Bounded
<1>4. CASE RungUp(q) = "none"
  BY <1>4 DEF StepUp
<1> QED
  BY <1>1, <1>2, <1>3, <1>4 DEF RungUp

\* Being at the base of a bounded quality is being the base.
LEMMA AtBaseIsBase ==
    ASSUME NEW q, Bounded(q), AtBase(q)
    PROVE  q = Base
<1>1. /\ q.bitrate = Base.bitrate /\ q.fps = Base.fps
      /\ q.width = Base.width /\ q.height = Base.height
  BY LadderFacts DEF Bounded, AtBase, BelowBase, Quality
<1>2. q = [bitrate |-> q.bitrate, fps |-> q.fps,
           width |-> q.width, height |-> q.height]
  BY DEF Bounded, Quality
<1>3. Base = [bitrate |-> Base.bitrate, fps |-> Base.fps,
              width |-> Base.width, height |-> Base.height]
  BY LadderAssumption DEF LadderAssumption, Quality
<1> QED
  BY <1>1, <1>2, <1>3
-----------------------------------------------------------------------------
\* The strengthening of HonestState: leaving the placeholder does not touch
\* the quality, so it has to be right in the placeholder too.
HonestInv == degrades = 0 => quality = Base
IInv == TypeOK /\ HonestInv

\* The counters stay within their caps.
LEMMA CountedType ==
    ASSUME NEW cap \in Nat \ {0}, NEW n \in 0 .. cap, NEW held
    PROVE  Counted(held, n, cap) \in 0 .. cap
BY DEF Counted, Lesser

\* So do the clocks.
LEMMA StampType ==
    ASSUME TypeOK, NEW g \in Gaps, NEW S, Stamp(S, g)
    PROVE  since' \in [Clocks -> 0 .. AgeCap]
<1>1. ASSUME NEW c \in Clocks
      PROVE (IF c \in S THEN 0 ELSE Lesser(Age(c, g), AgeCap)) \in 0 .. AgeCap
  <2>1. since[c] \in Nat
    BY DEF TypeOK
  <2>2. g \in Nat
    BY InputAssumption DEF InputAssumption
  <2>3. Age(c, g) \in Nat /\ AgeCap \in Nat
    BY <2>1, <2>2, SMT DEF Age, AgeCap, RecoverCooldown
  <2>4. Lesser(Age(c, g), AgeCap) \in 0 .. AgeCap
    BY <2>3 DEF Lesser
  <2>5. 0 \in 0 .. AgeCap
    BY <2>3
  <2> QED
    BY <2>4, <2>5, Zenon
<1> QED
  BY <1>1 DEF Stamp

\* The counters of a round.
LEMMA CountersType ==
    ASSUME TypeOK, NEW r, NEW grew, UpdateCounters(r, grew)
    PROVE  /\ growth' \in 0 .. GrowthCap /\ warning' \in 0 .. WarningCap
           /\ counted' \in BOOLEAN
<1>1. counted' \in BOOLEAN
  BY Zenon DEF UpdateCounters
<1> QED
  BY <1>1, CountedType DEF UpdateCounters, TypeOK, GrowthCap, WarningCap

LEMMA RecountType ==
    ASSUME TypeOK, NEW r, NEW i, Recount(r, i)
    PROVE  recovery' \in 0 .. RecoveryCap
<1>1. recovery \in 0 .. RecoveryCap /\ RecoveryCap \in Nat \ {0}
  BY DEF TypeOK, RecoveryCap
<1> QED
  BY <1>1, CountedType DEF Recount

\* A round with the publisher active keeps the types of what it counts.
LEMMA HeardType ==
    ASSUME TypeOK, NEW r, NEW i, NEW grew, Heard(r, i, grew)
    PROVE  /\ growth' \in 0 .. GrowthCap /\ warning' \in 0 .. WarningCap
           /\ counted' \in BOOLEAN
           /\ sample' \in {"none", "stalled", "calm", "severe", "other"}
<1>1. UpdateCounters(r, grew)
  BY DEF Heard
<1>2. sample' \in {"none", "stalled", "calm", "severe", "other"}
  BY DEF Heard
<1> QED
  BY <1>1, <1>2, CountersType

LEMMA TypeIsBounded ==
    TypeOK => Bounded(quality)
BY DEF TypeOK, Bounded

\* The initial quality is the base.
LEMMA InitInv == Init => IInv
<1> SUFFICES ASSUME Init PROVE IInv
  OBVIOUS
<1>1. Even(Floor.width) \in Nat /\ Even(Floor.width) <= Floor.width
  BY EvenFacts, LadderFacts
<1>2. Even(Floor.height) \in Nat /\ Even(Floor.height) <= Floor.height
  BY EvenFacts, LadderFacts
<1>3. since \in [Clocks -> 0 .. AgeCap]
  BY DEF Init, AgeCap, RecoverCooldown
<1>4. Bounded(quality)
  BY <1>1, <1>2, LadderFacts, LadderAssumption DEF Init, Bounded, LadderAssumption
<1>5. placeholder \in BOOLEAN /\ counted \in BOOLEAN /\ round \in BOOLEAN
  BY Zenon DEF Init
<1> QED
  BY <1>3, <1>4, <1>5 DEF Init, IInv, TypeOK, HonestInv, Bounded,
     DegradesCap, GrowthCap, WarningCap, RecoveryCap

\* The two things about the next state that depend on the action taken.
NextType == /\ Bounded(quality)' /\ placeholder' \in BOOLEAN
            /\ degrades' \in 0 .. DegradesCap
            /\ growth' \in 0 .. GrowthCap /\ warning' \in 0 .. WarningCap
            /\ recovery' \in 0 .. RecoveryCap /\ counted' \in BOOLEAN
            /\ since' \in [Clocks -> 0 .. AgeCap]
            /\ sample' \in {"none", "stalled", "calm", "severe", "other"}

LEMMA StalledInv ==
    ASSUME IInv, NEW g \in Gaps, NEW r, NEW i, NEW grew,
           Stalled(g, r, i, grew)
    PROVE  NextType /\ HonestInv'
<1> USE DEF IInv
<1>1. UpdateCounters(r, grew)
  BY DEF Stalled
<1>2. since' \in [Clocks -> 0 .. AgeCap]
  BY StampType DEF Stalled
<1>3. placeholder' \in BOOLEAN
  BY Zenon DEF Stalled, EnterPlaceholder, TypeOK
<1>4. Bounded(quality)'
  BY TypeIsBounded DEF Stalled, Bounded
<1>5. sample' \in {"none", "stalled", "calm", "severe", "other"}
  BY DEF Stalled
<1>6. degrades' \in 0 .. DegradesCap /\ recovery' \in 0 .. RecoveryCap
  BY DEF Stalled, TypeOK
<1>7. HonestInv'
  BY DEF Stalled, HonestInv
<1> QED
  BY <1>1, <1>2, <1>3, <1>4, <1>5, <1>6, <1>7, CountersType DEF NextType

\* Outside the placeholder a recovery only starts below the base, so not when
\* nothing was degraded.
LEMMA RecoverInv ==
    ASSUME IInv, NEW g \in Gaps, NEW r, NEW i, NEW grew,
           RecoverStep(g, r, i, grew)
    PROVE  NextType /\ HonestInv'
<1> USE DEF IInv
<1>1. Heard(r, i, grew) /\ Recount(r, i)
  BY DEF RecoverStep
<1>2. since' \in [Clocks -> 0 .. AgeCap]
  BY StampType DEF RecoverStep
<1>3. placeholder' \in BOOLEAN
  BY Zenon DEF RecoverStep
<1>4. Bounded(Recovered)
  BY TypeIsBounded, StepUpBounded DEF Recovered
<1>5. Bounded(quality)'
  BY <1>4 DEF RecoverStep, Bounded
<1>6. degrades' \in 0 .. DegradesCap
  BY DEF RecoverStep, TypeOK
<1>7. HonestInv'
  <2> SUFFICES ASSUME degrades = 0 PROVE quality' = Base
    BY DEF HonestInv, RecoverStep
  <2>1. quality = Base
    BY DEF HonestInv
  <2>2. AtBase(quality)
    BY <2>1, LadderFacts DEF AtBase, BelowBase
  <2>3. placeholder
    BY <2>2, Zenon DEF RecoverStep, RecoverDue
  <2> QED
    BY <2>1, <2>3 DEF RecoverStep, Recovered
<1> QED
  BY <1>1, <1>2, <1>3, <1>5, <1>6, <1>7, HeardType, RecountType DEF NextType

LEMMA DegradeInv ==
    ASSUME IInv, NEW g \in Gaps, NEW r, NEW i, NEW grew,
           Degrade(g, r, i, grew)
    PROVE  NextType /\ HonestInv'
<1> USE DEF IInv
<1>1. Heard(r, i, grew)
  BY DEF Degrade
<1>2. since' \in [Clocks -> 0 .. AgeCap]
  BY StampType DEF Degrade
<1>3. placeholder' \in BOOLEAN
  BY Zenon DEF Degrade, TypeOK
<1>4. Bounded(StepDown(quality))
  BY TypeIsBounded, StepDownBounded
<1>5. Bounded(quality)'
  BY <1>4 DEF Degrade, Bounded
<1>6. degrades' \in 0 .. DegradesCap /\ degrades' # 0
  BY DEF Degrade, Degraded, Lesser, DegradesCap, TypeOK
<1>7. recovery' \in 0 .. RecoveryCap
  BY DEF Degrade, RecoveryCap
<1> QED
  BY <1>1, <1>2, <1>3, <1>5, <1>6, <1>7, HeardType DEF NextType, HonestInv

LEMMA IdrInv ==
    ASSUME IInv, NEW g \in Gaps, NEW r, NEW i, NEW grew, Idr(g, r, i, grew)
    PROVE  NextType /\ HonestInv'
<1> USE DEF IInv
<1>1. Heard(r, i, grew) /\ Recount(r, i)
  BY DEF Idr
<1>2. since' \in [Clocks -> 0 .. AgeCap]
  BY StampType DEF Idr
<1>3. UNCHANGED <<quality, placeholder, degrades>>
  BY DEF Idr, Unchanging
<1>4. Bounded(quality)' /\ placeholder' \in BOOLEAN /\ degrades' \in 0 .. DegradesCap
  BY <1>3, TypeIsBounded DEF Bounded, TypeOK
<1> QED
  BY <1>1, <1>2, <1>3, <1>4, HeardType, RecountType DEF NextType, HonestInv

LEMMA GiveUpInv ==
    ASSUME IInv, NEW g \in Gaps, NEW r, NEW i, NEW grew, GiveUp(g, r, i, grew)
    PROVE  NextType /\ HonestInv'
<1> USE DEF IInv
<1>1. Heard(r, i, grew) /\ Recount(r, i)
  BY DEF GiveUp
<1>2. since' \in [Clocks -> 0 .. AgeCap]
  BY StampType DEF GiveUp
<1>3. UNCHANGED <<quality, degrades>>
  BY DEF GiveUp
<1>4. Bounded(quality)' /\ degrades' \in 0 .. DegradesCap
  BY <1>3, TypeIsBounded DEF Bounded, TypeOK
<1>5. placeholder' \in BOOLEAN
  BY Zenon DEF GiveUp, EnterPlaceholder
<1> QED
  BY <1>1, <1>2, <1>3, <1>4, <1>5, HeardType, RecountType DEF NextType, HonestInv

\* The degradations are only forgotten with the quality at its base.
LEMMA QuietInv ==
    ASSUME IInv, NEW g \in Gaps, NEW r, NEW i, NEW grew, Quiet(g, r, i, grew)
    PROVE  NextType /\ HonestInv'
<1> USE DEF IInv
<1>1. Heard(r, i, grew) /\ Recount(r, i)
  BY DEF Quiet
<1>2. since' \in [Clocks -> 0 .. AgeCap]
  BY StampType DEF Quiet
<1>3. UNCHANGED <<quality, placeholder>>
  BY DEF Quiet
<1>4. Bounded(quality)' /\ placeholder' \in BOOLEAN
  BY <1>3, TypeIsBounded DEF Bounded, TypeOK
<1>5. degrades' \in 0 .. DegradesCap
  BY DEF Quiet, TypeOK, DegradesCap
<1>6. HonestInv'
  <2>1. CASE recovery' >= RecoveryCap /\ CanRecover(g) /\ ~placeholder
    <3>1. AtBase(quality)
      BY <2>1, Zenon DEF Quiet, RecoverDue
    <3> QED
      BY <1>3, <3>1, TypeIsBounded, AtBaseIsBase DEF HonestInv
  <2>2. CASE ~(recovery' >= RecoveryCap /\ CanRecover(g) /\ ~placeholder)
    <3>1. degrades' = degrades
      BY <2>2, Zenon DEF Quiet
    <3> QED
      BY <1>3, <3>1 DEF HonestInv
  <2> QED
    BY <2>1, <2>2
<1> QED
  BY <1>1, <1>2, <1>4, <1>5, <1>6, HeardType, RecountType DEF NextType

LEMMA StepInv == IInv /\ [Update]_vars => IInv'
<1> SUFFICES ASSUME IInv, [Update]_vars PROVE IInv'
  OBVIOUS
<1>1. CASE UNCHANGED vars
  BY <1>1 DEF vars, IInv, TypeOK, HonestInv
<1>2. CASE Update
  <2>1. PICK g \in Gaps, r \in Ratios, i \in PubIdles, grew \in BOOLEAN :
          \/ Stalled(g, r, i, grew) \/ RecoverStep(g, r, i, grew)
          \/ Degrade(g, r, i, grew) \/ Idr(g, r, i, grew)
          \/ GiveUp(g, r, i, grew) \/ Quiet(g, r, i, grew)
    BY <1>2, Zenon DEF Update
  <2>2. NextType /\ HonestInv'
    BY <2>1, StalledInv, RecoverInv, DegradeInv, IdrInv, GiveUpInv, QuietInv
  <2>3. round' \in BOOLEAN
    BY <1>2, Zenon DEF Update
  <2> QED
    BY <2>2, <2>3 DEF NextType, IInv, TypeOK, Bounded
<1> QED
  BY <1>1, <1>2

LEMMA Invariant == Spec => []IInv
<1>1. Init => IInv
  BY InitInv
<1>2. IInv /\ [Update]_vars => IInv'
  BY StepInv
<1> QED
  BY <1>1, <1>2, PTL DEF Spec

\* The quality the controller asks for is on the ladder, for every base and
\* floor parse_args accepts, odd ones included.
THEOREM TypeCorrect == Spec => []TypeOK
<1>1. IInv => TypeOK
  BY DEF IInv
<1> QED
  BY <1>1, Invariant, PTL

\* The state the dashboard shows is honest.
THEOREM HonestCorrect == Spec => []HonestState
<1>1. IInv => HonestState
  <2> SUFFICES ASSUME IInv, StateName \in {"Normal", "GlobalWarning"}
               PROVE  quality = Base
    BY DEF HonestState
  <2>1. ~(degrades > 0)
    BY DEF StateName
  <2>2. degrades = 0
    BY <2>1 DEF IInv, TypeOK, DegradesCap
  <2> QED
    BY <2>2 DEF IInv, HonestInv
<1> QED
  BY <1>1, Invariant, PTL

-----------------------------------------------------------------------------
(* The controller implements QualityLadder.                                *)

\* The rungs, one by one.
LEMMA RungFacts ==
    ASSUME NEW q, NEW p
    PROVE  /\ Ladder!NotAbove("bitrate", q, p) <=> q.bitrate <= p.bitrate
           /\ Ladder!NotAbove("fps", q, p) <=> q.fps <= p.fps
           /\ Ladder!NotAbove("size", q, p) <=>
                 (q.width <= p.width /\ q.height <= p.height)
BY DEF Ladder!NotAbove

LEMMA BeforeFacts ==
    /\ Ladder!Rung = {"bitrate", "fps", "size"}
    /\ Ladder!Before("bitrate") = {} /\ Ladder!Before("fps") = {"bitrate"}
    /\ Ladder!Before("size") = {"bitrate", "fps"}
BY DEF Ladder!Rung, Ladder!Before

\* Steps down are steps down of the ladder: strictly lower in their rung, the
\* rungs before it at their floor, the other ones as they were.
LEMMA BitrateDown ==
    ASSUME NEW q, Bounded(q), RungDown(q) = "bitrate"
    PROVE  /\ \A s \in Ladder!Before("bitrate") : Ladder!Same(s, q, Floor)
           /\ \A s \in Ladder!Rung \ {"bitrate"} : Ladder!Same(s, StepDown(q), q)
           /\ Ladder!NotAbove("bitrate", StepDown(q), q)
           /\ ~Ladder!Same("bitrate", StepDown(q), q)
<1> USE LadderFacts DEF Quality
<1> DEFINE n == Greater(Floor.bitrate, SeventyPercent(q.bitrate))
<1>1. q \in Quality /\ q.bitrate > Floor.bitrate
  BY DEF RungDown, Bounded
<1>2. n \in Nat /\ n < q.bitrate
  BY <1>1 DEF Greater, SeventyPercent
<1> HIDE DEF n
<1>3. StepDown(q) = [q EXCEPT !.bitrate = n]
  BY DEF StepDown, n
<1>4. /\ StepDown(q).bitrate = n /\ StepDown(q).fps = q.fps
      /\ StepDown(q).width = q.width /\ StepDown(q).height = q.height
  BY <1>1, <1>3
<1>5. \A s \in Ladder!Before("bitrate") : Ladder!Same(s, q, Floor)
  BY <1>1, RungFacts, BeforeFacts DEF Ladder!Same
<1>6. \A s \in {"fps", "size"} : Ladder!Same(s, StepDown(q), q)
  BY <1>1, <1>4, RungFacts DEF Ladder!Same
<1>7. Ladder!NotAbove("bitrate", StepDown(q), q) /\ ~Ladder!Same("bitrate", StepDown(q), q)
  BY <1>1, <1>2, <1>4, RungFacts DEF Ladder!Same
<1> QED
  BY <1>5, <1>6, <1>7, BeforeFacts

LEMMA FpsDown ==
    ASSUME NEW q, Bounded(q), RungDown(q) = "fps"
    PROVE  /\ \A s \in Ladder!Before("fps") : Ladder!Same(s, q, Floor)
           /\ \A s \in Ladder!Rung \ {"fps"} : Ladder!Same(s, StepDown(q), q)
           /\ Ladder!NotAbove("fps", StepDown(q), q)
           /\ ~Ladder!Same("fps", StepDown(q), q)
<1> USE LadderFacts DEF Quality
<1> DEFINE n == Greater(Floor.fps, SeventyPercent(q.fps))
<1>1. q \in Quality /\ q.fps > Floor.fps /\ q.bitrate = Floor.bitrate
  BY DEF RungDown, Bounded
<1>2. n \in Nat /\ n < q.fps
  BY <1>1 DEF Greater, SeventyPercent
<1> HIDE DEF n
<1>3. StepDown(q) = [q EXCEPT !.fps = n]
  BY DEF StepDown, n
<1>4. /\ StepDown(q).bitrate = q.bitrate /\ StepDown(q).fps = n
      /\ StepDown(q).width = q.width /\ StepDown(q).height = q.height
  BY <1>1, <1>3
<1>5. \A s \in Ladder!Before("fps") : Ladder!Same(s, q, Floor)
  BY <1>1, RungFacts, BeforeFacts DEF Ladder!Same
<1>6. \A s \in {"bitrate", "size"} : Ladder!Same(s, StepDown(q), q)
  BY <1>1, <1>4, RungFacts DEF Ladder!Same
<1>7. Ladder!NotAbove("fps", StepDown(q), q) /\ ~Ladder!Same("fps", StepDown(q), q)
  BY <1>1, <1>2, <1>4, RungFacts DEF Ladder!Same
<1> QED
  BY <1>5, <1>6, <1>7, BeforeFacts

\* One dimension of a step of the size down.
LEMMA DimensionDown ==
    ASSUME NEW f \in Nat, NEW n \in Nat, Even(f) <= n, 0 < f
    PROVE  /\ Even(Greater(f, ThreeQuarters(n))) \in Nat
           /\ Even(Greater(f, ThreeQuarters(n))) <= n
           /\ n > f => Even(Greater(f, ThreeQuarters(n))) < n
BY DEF Even, Greater, ThreeQuarters

LEMMA SizeIsDown ==
    ASSUME NEW q, Bounded(q), RungDown(q) = "size"
    PROVE  /\ \A s \in Ladder!Before("size") : Ladder!Same(s, q, Floor)
           /\ \A s \in Ladder!Rung \ {"size"} : Ladder!Same(s, StepDown(q), q)
           /\ Ladder!NotAbove("size", StepDown(q), q)
           /\ ~Ladder!Same("size", StepDown(q), q)
<1> USE LadderFacts DEF Quality
<1> DEFINE w == Even(Greater(Floor.width, ThreeQuarters(q.width)))
           h == Even(Greater(Floor.height, ThreeQuarters(q.height)))
<1>1. /\ q \in Quality
      /\ q.bitrate = Floor.bitrate /\ q.fps = Floor.fps
      /\ q.width > Floor.width \/ q.height > Floor.height
  BY DEF RungDown, AboveFloor, Bounded
<1>2. w \in Nat /\ w <= q.width /\ (q.width > Floor.width => w < q.width)
  BY <1>1, DimensionDown DEF Bounded
<1>3. h \in Nat /\ h <= q.height /\ (q.height > Floor.height => h < q.height)
  BY <1>1, DimensionDown DEF Bounded
<1>4. StepDown(q) = [[q EXCEPT !.width = w] EXCEPT !.height = h]
  BY <1>1 DEF StepDown, SizeDown
<1> HIDE DEF w, h
<1>5. /\ StepDown(q).bitrate = q.bitrate /\ StepDown(q).fps = q.fps
      /\ StepDown(q).width = w /\ StepDown(q).height = h
  BY <1>1, <1>4
<1>6. \A s \in Ladder!Before("size") : Ladder!Same(s, q, Floor)
  BY <1>1, RungFacts, BeforeFacts DEF Ladder!Same
<1>7. \A s \in {"bitrate", "fps"} : Ladder!Same(s, StepDown(q), q)
  BY <1>1, <1>5, RungFacts DEF Ladder!Same
<1>8. Ladder!NotAbove("size", StepDown(q), q) /\ ~Ladder!Same("size", StepDown(q), q)
  BY <1>1, <1>2, <1>3, <1>5, RungFacts DEF Ladder!Same
<1> QED
  BY <1>6, <1>7, <1>8, BeforeFacts

LEMMA StepDownLowers ==
    ASSUME NEW q, Bounded(q), RungDown(q) # "none"
    PROVE  /\ RungDown(q) \in Ladder!Rung
           /\ \A s \in Ladder!Before(RungDown(q)) : Ladder!Same(s, q, Floor)
           /\ \A s \in Ladder!Rung \ {RungDown(q)} : Ladder!Same(s, StepDown(q), q)
           /\ Ladder!NotAbove(RungDown(q), StepDown(q), q)
           /\ ~Ladder!Same(RungDown(q), StepDown(q), q)
<1>1. RungDown(q) \in {"bitrate", "fps", "size"}
  BY DEF RungDown
<1>2. RungDown(q) \in Ladder!Rung
  BY <1>1 DEF Ladder!Rung
<1>3. CASE RungDown(q) = "bitrate"
  BY <1>2, <1>3, BitrateDown, Zenon
<1>4. CASE RungDown(q) = "fps"
  BY <1>2, <1>4, FpsDown, Zenon
<1>5. CASE RungDown(q) = "size"
  BY <1>2, <1>5, SizeIsDown, Zenon
<1> QED
  BY <1>1, <1>3, <1>4, <1>5

\* Steps up are steps up of the ladder; that of the size need not be strict,
\* since the rounding may take away what the step added.
LEMMA BitrateUp ==
    ASSUME NEW q, Bounded(q), RungUp(q) = "bitrate"
    PROVE  /\ \A s \in Ladder!Before("bitrate") : Ladder!Same(s, q, Base)
           /\ \A s \in Ladder!Rung \ {"bitrate"} : Ladder!Same(s, StepUp(q), q)
           /\ Ladder!NotAbove("bitrate", Ladder!Rounded(q), StepUp(q))
           /\ ~Ladder!Same("bitrate", StepUp(q), q)
<1> USE LadderFacts DEF Quality
<1> DEFINE n == Lesser(Base.bitrate, FourThirds(q.bitrate) + 1)
<1>1. q \in Quality /\ q.bitrate < Base.bitrate
  BY DEF RungUp, Bounded
<1>2. n \in Nat /\ q.bitrate < n
  BY <1>1 DEF Lesser, Greater, FourThirds
<1> HIDE DEF n
<1>3. StepUp(q) = [q EXCEPT !.bitrate = n]
  BY DEF StepUp, n
<1>4. /\ StepUp(q).bitrate = n /\ StepUp(q).fps = q.fps
      /\ StepUp(q).width = q.width /\ StepUp(q).height = q.height
  BY <1>1, <1>3
<1>5. \A s \in Ladder!Before("bitrate") : Ladder!Same(s, q, Base)
  BY <1>1, RungFacts, BeforeFacts DEF Ladder!Same
<1>6. \A s \in {"fps", "size"} : Ladder!Same(s, StepUp(q), q)
  BY <1>1, <1>4, RungFacts DEF Ladder!Same
<1>7. Ladder!Rounded(q).bitrate = q.bitrate
  BY <1>1 DEF Ladder!Rounded
<1>8. /\ Ladder!NotAbove("bitrate", Ladder!Rounded(q), StepUp(q))
      /\ ~Ladder!Same("bitrate", StepUp(q), q)
  BY <1>1, <1>2, <1>4, <1>7, RungFacts DEF Ladder!Same
<1> QED
  BY <1>5, <1>6, <1>8, BeforeFacts

LEMMA FpsUp ==
    ASSUME NEW q, Bounded(q), RungUp(q) = "fps"
    PROVE  /\ \A s \in Ladder!Before("fps") : Ladder!Same(s, q, Base)
           /\ \A s \in Ladder!Rung \ {"fps"} : Ladder!Same(s, StepUp(q), q)
           /\ Ladder!NotAbove("fps", Ladder!Rounded(q), StepUp(q))
           /\ ~Ladder!Same("fps", StepUp(q), q)
<1> USE LadderFacts DEF Quality
<1> DEFINE n == Lesser(Base.fps, q.fps + Greater(1, Base.fps \div 5))
<1>1. q \in Quality /\ q.fps < Base.fps /\ q.bitrate = Base.bitrate
  BY DEF RungUp, Bounded
<1>2. n \in Nat /\ q.fps < n
  BY <1>1 DEF Lesser, Greater, FourThirds
<1> HIDE DEF n
<1>3. StepUp(q) = [q EXCEPT !.fps = n]
  BY DEF StepUp, n
<1>4. /\ StepUp(q).fps = n /\ StepUp(q).bitrate = q.bitrate
      /\ StepUp(q).width = q.width /\ StepUp(q).height = q.height
  BY <1>1, <1>3
<1>5. \A s \in Ladder!Before("fps") : Ladder!Same(s, q, Base)
  BY <1>1, RungFacts, BeforeFacts DEF Ladder!Same
<1>6. \A s \in {"bitrate", "size"} : Ladder!Same(s, StepUp(q), q)
  BY <1>1, <1>4, RungFacts DEF Ladder!Same
<1>7. Ladder!Rounded(q).fps = q.fps
  BY <1>1 DEF Ladder!Rounded
<1>8. /\ Ladder!NotAbove("fps", Ladder!Rounded(q), StepUp(q))
      /\ ~Ladder!Same("fps", StepUp(q), q)
  BY <1>1, <1>2, <1>4, <1>7, RungFacts DEF Ladder!Same
<1> QED
  BY <1>5, <1>6, <1>8, BeforeFacts

\* One dimension of a step of the size up.
LEMMA DimensionUp ==
    ASSUME NEW b \in Nat, NEW n \in Nat, n <= b
    PROVE  /\ Even(Lesser(b, FourThirds(n))) \in Nat
           /\ Even(n) <= Even(Lesser(b, FourThirds(n)))
<1>1. /\ Lesser(b, FourThirds(n)) \in Nat
      /\ n <= Lesser(b, FourThirds(n))
  BY FractionFacts DEF Lesser
<1> QED
  BY <1>1, EvenFacts

LEMMA SizeIsUp ==
    ASSUME NEW q, Bounded(q), RungUp(q) = "size"
    PROVE  /\ \A s \in Ladder!Before("size") : Ladder!Same(s, q, Base)
           /\ \A s \in Ladder!Rung \ {"size"} : Ladder!Same(s, StepUp(q), q)
           /\ Ladder!NotAbove("size", Ladder!Rounded(q), StepUp(q))
<1> USE LadderFacts DEF Quality
<1> DEFINE w == Even(Lesser(Base.width, FourThirds(q.width)))
           h == Even(Lesser(Base.height, FourThirds(q.height)))
<1>1. q \in Quality /\ q.bitrate = Base.bitrate /\ q.fps = Base.fps
  BY DEF RungUp, Bounded
<1>2. q.width <= Base.width /\ q.height <= Base.height
  BY <1>1 DEF Bounded
<1>3. w \in Nat /\ Even(q.width) <= w /\ h \in Nat /\ Even(q.height) <= h
  BY <1>1, <1>2, DimensionUp
<1>4. StepUp(q) = [[q EXCEPT !.width = w] EXCEPT !.height = h]
  BY <1>1 DEF StepUp, SizeUp
<1> HIDE DEF w, h
<1>5. /\ StepUp(q).bitrate = q.bitrate /\ StepUp(q).fps = q.fps
      /\ StepUp(q).width = w /\ StepUp(q).height = h
  BY <1>1, <1>4
<1>6. \A s \in Ladder!Before("size") : Ladder!Same(s, q, Base)
  BY <1>1, RungFacts, BeforeFacts DEF Ladder!Same
<1>7. \A s \in {"bitrate", "fps"} : Ladder!Same(s, StepUp(q), q)
  BY <1>1, <1>5, RungFacts DEF Ladder!Same
<1>8. /\ Ladder!Rounded(q).width = Even(q.width)
      /\ Ladder!Rounded(q).height = Even(q.height)
  BY <1>1 DEF Ladder!Rounded, Ladder!Even, Even
<1>9. Ladder!NotAbove("size", Ladder!Rounded(q), StepUp(q))
  BY <1>3, <1>5, <1>8, RungFacts
<1> QED
  BY <1>6, <1>7, <1>9, BeforeFacts

LEMMA StepUpRaises ==
    ASSUME NEW q, Bounded(q), RungUp(q) # "none"
    PROVE  /\ RungUp(q) \in Ladder!Rung
           /\ \A s \in Ladder!Before(RungUp(q)) : Ladder!Same(s, q, Base)
           /\ \A s \in Ladder!Rung \ {RungUp(q)} : Ladder!Same(s, StepUp(q), q)
           /\ Ladder!NotAbove(RungUp(q), Ladder!Rounded(q), StepUp(q))
           /\ RungUp(q) = "size" \/ ~Ladder!Same(RungUp(q), StepUp(q), q)
<1>1. RungUp(q) \in {"bitrate", "fps", "size"}
  BY DEF RungUp
<1>2. RungUp(q) \in Ladder!Rung
  BY <1>1 DEF Ladder!Rung
<1>3. CASE RungUp(q) = "bitrate"
  BY <1>2, <1>3, BitrateUp, Zenon
<1>4. CASE RungUp(q) = "fps"
  BY <1>2, <1>4, FpsUp, Zenon
<1>5. CASE RungUp(q) = "size"
  BY <1>2, <1>5, SizeIsUp, Zenon
<1> QED
  BY <1>1, <1>3, <1>4, <1>5

\* A bounded quality is one of the ladder's.
LEMMA BoundedIsRung ==
    ASSUME NEW q, Bounded(q)
    PROVE  q \in Ladder!Qualities
<1>1. q = [bitrate |-> q.bitrate, fps |-> q.fps,
           width |-> q.width, height |-> q.height]
  BY DEF Bounded, Quality
<1> QED
  BY <1>1 DEF Bounded, Ladder!Qualities, Ladder!Even, Even

\* What the two moving decisions tell.
LEMMA ToldMove ==
    ASSUME NEW a, NEW rung \in {"bitrate", "fps", "size"},
           a \in {"RecoverStep", "DegradeBitrate", "DegradeFps", "DegradeResolution"}
    PROVE  Told(Decision(a, rung, FALSE)) = rung
BY DEF Told, Decision

\* Recovering leaves the placeholder, or is a step up.
LEMMA RecoverRefines ==
    ASSUME TypeOK, NEW g \in Gaps, NEW r, NEW i, NEW grew,
           RecoverStep(g, r, i, grew)
    PROVE  Ladder!Decide
<1>1. Bounded(quality)
  BY TypeIsBounded
<1>2. placeholder' = FALSE /\ placeholder \in BOOLEAN
  BY Zenon DEF RecoverStep, TypeOK
<1>3. CASE placeholder
  <2>1. quality' = quality /\ decision' = Decision("RecoverStep", "none", TRUE)
    BY <1>2, <1>3 DEF RecoverStep, Recovered
  <2>2. Told(decision)' = "normal"
    BY <2>1 DEF Told, Decision
  <2> QED
    BY <1>2, <1>3, <2>1, <2>2 DEF Ladder!Decide, Ladder!ExitPlaceholder, Ladder!Kept
<1>4. CASE ~placeholder
  <2>1. /\ quality' = StepUp(quality)
        /\ decision' = Decision("RecoverStep", RungUp(quality), FALSE)
    BY <1>2, <1>4 DEF RecoverStep, Recovered
  <2>2. ~AtBase(quality)
    BY <1>4 DEF RecoverStep, RecoverDue
  <2>3. RungUp(quality) # "none"
    BY <1>1, <2>2, LadderFacts DEF RungUp, AtBase, Bounded, Quality
  <2>4. RungUp(quality) \in {"bitrate", "fps", "size"}
    BY <2>3 DEF RungUp
  <2>5. Told(decision)' = RungUp(quality)
    BY <2>1, <2>4, ToldMove
  <2>6. Ladder!Raise(RungUp(quality), quality')
    BY <1>1, <1>2, <1>4, <2>1, <2>3, <2>5, StepUpRaises, Zenon
       DEF Ladder!Raise, Ladder!Move
  <2>7. quality' \in Ladder!Qualities
    BY <1>1, <2>1, StepUpBounded, BoundedIsRung
  <2>8. RungUp(quality) \in Ladder!Rung
    BY <1>1, <2>3, StepUpRaises
  <2> QED
    BY <2>6, <2>7, <2>8 DEF Ladder!Decide
<1> QED
  BY <1>2, <1>3, <1>4

\* Degrading is a step down, or enters the placeholder.
LEMMA DegradeRefines ==
    ASSUME TypeOK, NEW g \in Gaps, NEW r, NEW i, NEW grew,
           Degrade(g, r, i, grew)
    PROVE  Ladder!Decide
<1>1. Bounded(quality)
  BY TypeIsBounded
<1> DEFINE rung == RungDown(quality)
<1>2. /\ quality' = StepDown(quality)
      /\ decision' = Decision(DegradeName(rung), rung, FALSE)
  BY DEF Degrade
<1>3. placeholder' = (placeholder \/ rung = "none") /\ placeholder \in BOOLEAN
  BY Zenon DEF Degrade, TypeOK
<1>4. CASE rung = "none"
  <2>1. quality' = quality
    BY <1>2, <1>4 DEF StepDown
  <2>2. Told(decision)' = "black"
    BY <1>2, <1>4 DEF Told, Decision, DegradeName
  <2> QED
    BY <1>3, <1>4, <2>1, <2>2, Zenon DEF Ladder!Decide, Ladder!EnterPlaceholder
<1>5. CASE rung # "none"
  <2>1. rung \in {"bitrate", "fps", "size"}
    BY <1>5 DEF RungDown
  <2>2. DegradeName(rung) \in {"DegradeBitrate", "DegradeFps", "DegradeResolution"}
    BY <2>1 DEF DegradeName
  <2>3. Told(decision)' = rung
    BY <1>2, <2>1, <2>2, ToldMove
  <2>4. UNCHANGED placeholder
    BY <1>3, <1>5, Zenon
  <2>5. Ladder!Lower(rung, quality')
    BY <1>1, <1>2, <1>5, <2>3, <2>4, StepDownLowers, Zenon
       DEF Ladder!Lower, Ladder!Move
  <2>6. quality' \in Ladder!Qualities
    BY <1>1, <1>2, StepDownBounded, BoundedIsRung
  <2>7. rung \in Ladder!Rung
    BY <1>1, <1>5, StepDownLowers
  <2> QED
    BY <2>5, <2>6, <2>7 DEF Ladder!Decide
<1> QED
  BY <1>4, <1>5

\* Whatever the counters, the cooldowns and the stalls do, the controller
\* moves one rung at a time in the documented order, and its decision names
\* all that changed.
THEOREM LadderImplemented == Spec => ImplementsLadder
<1>1. Init => Ladder!Init
  BY DEF Init, Ladder!Init, Told, Noop, Decision
<1>2. TypeOK /\ [Update]_vars => [Ladder!Decide \/ Ladder!Quiet]_(Ladder!ladderVars)
  <2> SUFFICES ASSUME TypeOK, [Update]_vars
                 PROVE  \/ Ladder!Decide \/ Ladder!Quiet
                        \/ UNCHANGED Ladder!ladderVars
    OBVIOUS
  <2>2. CASE UNCHANGED vars
    BY <2>2 DEF vars, Ladder!ladderVars, Told
  <2>3. CASE Update
    <3>1. PICK g \in Gaps, r \in Ratios, i \in PubIdles, grew \in BOOLEAN :
            \/ Stalled(g, r, i, grew) \/ RecoverStep(g, r, i, grew)
            \/ Degrade(g, r, i, grew) \/ Idr(g, r, i, grew)
            \/ GiveUp(g, r, i, grew) \/ Quiet(g, r, i, grew)
      BY <2>3, Zenon DEF Update
    <3>2. CASE Stalled(g, r, i, grew)
      <4>1. quality' = quality
        BY <3>2 DEF Stalled
      <4>2. CASE ~placeholder \/ CanEnterPlaceholder(g)
        <5>1. EnterPlaceholder
          BY <3>2, <4>2, Zenon DEF Stalled
        <5>2. placeholder' = TRUE
          BY <5>1, Zenon DEF EnterPlaceholder
        <5>3. Told(decision)' = "black"
          BY <5>1 DEF EnterPlaceholder, Told, Decision
        <5> QED
          BY <4>1, <5>2, <5>3 DEF Ladder!Decide, Ladder!EnterPlaceholder
      <4>3. CASE ~(~placeholder \/ CanEnterPlaceholder(g))
        <5>1. decision' = Noop /\ placeholder' = placeholder
          BY <3>2, <4>3, Zenon DEF Stalled
        <5>2. Told(decision)' = "nothing"
          BY <5>1 DEF Told, Noop, Decision
        <5> QED
          BY <4>1, <5>1, <5>2 DEF Ladder!Quiet
      <4> QED
        BY <4>2, <4>3
    <3>3. CASE RecoverStep(g, r, i, grew)
      BY <3>3, RecoverRefines
    <3>4. CASE Degrade(g, r, i, grew)
      BY <3>4, DegradeRefines
    <3>5. CASE Idr(g, r, i, grew)
      <4>1. Told(decision)' = "key"
        BY <3>5 DEF Idr, Told, Decision
      <4> QED
        BY <3>5, <4>1 DEF Idr, Unchanging, Ladder!Decide, Ladder!AskKey
    <3>6. CASE GiveUp(g, r, i, grew)
      <4>1. quality' = quality /\ EnterPlaceholder
        BY <3>6, Zenon DEF GiveUp
      <4>2. placeholder' = TRUE
        BY <4>1, Zenon DEF EnterPlaceholder
      <4>3. Told(decision)' = "black"
        BY <4>1 DEF EnterPlaceholder, Told, Decision
      <4> QED
        BY <4>1, <4>2, <4>3 DEF Ladder!Decide, Ladder!EnterPlaceholder
    <3>7. CASE Quiet(g, r, i, grew)
      <4>1. Told(decision)' = "nothing"
        BY <3>7 DEF Quiet, Noop, Told, Decision
      <4> QED
        BY <3>7, <4>1 DEF Quiet, Ladder!Quiet
    <3> QED
      BY <3>1, <3>2, <3>3, <3>4, <3>5, <3>6, <3>7
  <2> QED
    BY <2>2, <2>3
<1>3. IInv => TypeOK
  BY DEF IInv
<1> QED
  BY <1>1, <1>2, <1>3, Invariant, PTL DEF Spec, ImplementsLadder, Ladder!Spec
-----------------------------------------------------------------------------
(* Stepping up is slow.                                                    *)

\* Each calm round counted since a step down took one of the gaps, so some gap
\* (the shortest of them) fits that often in the time passed.
Paced(n, s) == n > 0 => \E g \in Gaps : s >= Lesser(n * g, AgeCap)
PaceInv ==
    /\ Paced(recovery, since["degrade"])
    /\ decision.action = "RecoverStep" => recovery = RecoveryCap

\* One more round keeps the pace.
LEMMA PaceKept ==
    ASSUME NEW n \in 0 .. RecoveryCap, NEW s \in 0 .. AgeCap, Paced(n, s),
           NEW h \in Gaps, NEW m \in {0, n, Lesser(n + 1, RecoveryCap)}
    PROVE  Paced(m, Lesser(s + h, AgeCap))
<1> USE DEF AgeCap, RecoverCooldown, RecoveryCap
<1> SUFFICES ASSUME m > 0
             PROVE  \E g \in Gaps : Lesser(s + h, AgeCap) >= Lesser(m * g, AgeCap)
  BY DEF Paced
<1>1. h \in Nat \ {0}
  BY InputAssumption DEF InputAssumption
<1>2. CASE n = 0
  <2>1. m = 1
    BY <1>2 DEF Lesser
  <2>2. Lesser(s + h, AgeCap) >= Lesser(m * h, AgeCap)
    BY <1>1, <2>1 DEF Lesser
  <2> QED
    BY <2>2
<1>3. CASE n > 0
  <2>1. PICK g \in Gaps : s >= Lesser(n * g, AgeCap)
    BY <1>3 DEF Paced
  <2>2. g \in Nat \ {0}
    BY InputAssumption DEF InputAssumption
  <2>3. PICK k \in {g, h} : k <= g /\ k <= h
    BY <1>1, <2>2
  <2>4. n \in {1, 2, 3, 4, 5} /\ k \in Nat
    BY <1>1, <1>3, <2>2, <2>3
  <2>5. Lesser(s + h, AgeCap) >= Lesser(m * k, AgeCap)
    <3>1. CASE n = 1
      BY <1>1, <2>1, <2>2, <2>3, <2>4, <3>1 DEF Lesser
    <3>2. CASE n = 2
      BY <1>1, <2>1, <2>2, <2>3, <2>4, <3>2 DEF Lesser
    <3>3. CASE n = 3
      BY <1>1, <2>1, <2>2, <2>3, <2>4, <3>3 DEF Lesser
    <3>4. CASE n = 4
      BY <1>1, <2>1, <2>2, <2>3, <2>4, <3>4 DEF Lesser
    <3>5. CASE n = 5
      BY <1>1, <2>1, <2>2, <2>3, <2>4, <3>5 DEF Lesser
    <3> QED
      BY <2>4, <3>1, <3>2, <3>3, <3>4, <3>5
  <2> QED
    BY <2>3, <2>5
<1> QED
  BY <1>2, <1>3

\* What a round without a step down does to counter and clock.
LEMMA RoundPace ==
    ASSUME TypeOK, Paced(recovery, since["degrade"]), NEW g \in Gaps,
           NEW S, Stamp(S, g), "degrade" \notin S,
           recovery' \in {0, recovery, Lesser(recovery + 1, RecoveryCap)}
    PROVE  Paced(recovery, since["degrade"])'
<1>1. since["degrade"] \in 0 .. AgeCap /\ recovery \in 0 .. RecoveryCap
  BY DEF TypeOK, Clocks
<1>2. since'["degrade"] = Lesser(since["degrade"] + g, AgeCap)
  BY DEF Stamp, Age, Clocks
<1> QED
  BY <1>1, <1>2, PaceKept

LEMMA RecountPace ==
    ASSUME NEW r, NEW i, Recount(r, i)
    PROVE  recovery' \in {0, recovery, Lesser(recovery + 1, RecoveryCap)}
BY DEF Recount, Counted

LEMMA PaceStep == TypeOK /\ PaceInv /\ [Update]_vars => PaceInv'
<1> SUFFICES ASSUME TypeOK, PaceInv, [Update]_vars PROVE PaceInv'
  OBVIOUS
<1>1. CASE UNCHANGED vars
  BY <1>1 DEF vars, PaceInv, Paced
<1>2. CASE Update
  <2>1. PICK g \in Gaps, r \in Ratios, i \in PubIdles, grew \in BOOLEAN :
          \/ Stalled(g, r, i, grew) \/ RecoverStep(g, r, i, grew)
          \/ Degrade(g, r, i, grew) \/ Idr(g, r, i, grew)
          \/ GiveUp(g, r, i, grew) \/ Quiet(g, r, i, grew)
    BY <1>2, Zenon DEF Update
  <2>2. Paced(recovery, since["degrade"])
    BY DEF PaceInv
  <2>3. CASE Stalled(g, r, i, grew)
    <3>1. recovery' = recovery
      BY <2>3 DEF Stalled
    <3>2. \/ decision' = Noop /\ Stamp({}, g)
          \/ EnterPlaceholder /\ Stamp({"action", "idr", "placeholder"}, g)
      BY <2>3, Zenon DEF Stalled
    <3>3. decision'.action # "RecoverStep"
      BY <3>2 DEF Noop, EnterPlaceholder, Decision
    <3> QED
      BY <2>2, <3>1, <3>2, <3>3, RoundPace DEF PaceInv
  <2>4. CASE RecoverStep(g, r, i, grew)
    <3>1. recovery' >= RecoveryCap /\ Stamp({"action", "idr", "recover"}, g)
      BY <2>4 DEF RecoverStep, RecoverDue
    <3>2. recovery' \in {0, recovery, Lesser(recovery + 1, RecoveryCap)}
      BY <2>4, RecountPace DEF RecoverStep
    <3>3. recovery' = RecoveryCap
      BY <3>1, <3>2 DEF TypeOK, RecoveryCap, Lesser
    <3> QED
      BY <2>2, <3>1, <3>2, <3>3, RoundPace DEF PaceInv
  <2>5. CASE Degrade(g, r, i, grew)
    <3>1. recovery' = 0
      BY <2>5 DEF Degrade
    <3>2. decision' = Decision(DegradeName(RungDown(quality)), RungDown(quality), FALSE)
      BY <2>5 DEF Degrade
    <3>3. decision'.action # "RecoverStep"
      BY <3>2 DEF Decision, DegradeName
    <3> QED
      BY <3>1, <3>3 DEF PaceInv, Paced
  <2>6. CASE Idr(g, r, i, grew)
    <3>1. Recount(r, i) /\ Stamp({"action", "idr"}, g)
      BY <2>6 DEF Idr
    <3>2. decision'.action # "RecoverStep"
      BY <2>6 DEF Idr, Decision
    <3> QED
      BY <2>2, <3>1, <3>2, RecountPace, RoundPace DEF PaceInv
  <2>7. CASE GiveUp(g, r, i, grew)
    <3>1. Recount(r, i) /\ Stamp({"action", "idr", "placeholder"}, g)
      BY <2>7 DEF GiveUp
    <3>2. decision'.action # "RecoverStep"
      BY <2>7 DEF GiveUp, EnterPlaceholder, Decision
    <3> QED
      BY <2>2, <3>1, <3>2, RecountPace, RoundPace DEF PaceInv
  <2>8. CASE Quiet(g, r, i, grew)
    <3>1. Recount(r, i) /\ Stamp({}, g)
      BY <2>8 DEF Quiet
    <3>2. decision'.action # "RecoverStep"
      BY <2>8 DEF Quiet, Noop, Decision
    <3> QED
      BY <2>2, <3>1, <3>2, RecountPace, RoundPace DEF PaceInv
  <2> QED
    BY <2>1, <2>3, <2>4, <2>5, <2>6, <2>7, <2>8
<1> QED
  BY <1>1, <1>2

\* No step up comes within five rounds of a step down.
THEOREM SlowUpCorrect == Spec => []SlowUp
<1>1. Init => PaceInv
  BY DEF Init, PaceInv, Paced, Noop, Decision
<1>2. TypeOK /\ PaceInv /\ [Update]_vars => PaceInv'
  BY PaceStep
<1>3. PaceInv => SlowUp
  BY DEF PaceInv, Paced, SlowUp, RecoveryCap
<1> QED
  BY <1>1, <1>2, <1>3, TypeCorrect, PTL DEF Spec
-----------------------------------------------------------------------------
(* Progress.  Recovers and CongestionEscalates need fairness and are left  *)
(* to TLC; what they need of the controller itself is that each calm round *)
(* brings full quality nearer, and each severe round the placeholder.      *)

Total(q) == q.bitrate + q.fps + q.width + q.height

\* The sizes from which the steps up lead back: of an odd base the last line
\* is rounded away for ever, and a third of four pixels is less than two.
Climbable == \A r \in {"width", "height"} : Base[r] % 2 = 0 /\ Floor[r] >= 6

LEMMA DimensionGrows ==
    ASSUME NEW b \in Nat, b % 2 = 0, NEW n \in Nat, 6 <= n, n <= b
    PROVE  /\ Even(Lesser(b, FourThirds(n))) \in Nat
           /\ n <= Even(Lesser(b, FourThirds(n)))
           /\ n < b => n < Even(Lesser(b, FourThirds(n)))
<1>1. CASE b <= FourThirds(n)
  BY <1>1 DEF Even, Lesser, FourThirds
<1>2. CASE FourThirds(n) < b
  <2>1. FourThirds(n) \in Nat /\ n + 2 <= FourThirds(n)
    BY DEF FourThirds
  <2> QED
    BY <1>2, <2>1 DEF Even, Lesser
<1>3. b <= FourThirds(n) \/ FourThirds(n) < b
  BY DEF FourThirds
<1> QED
  BY <1>1, <1>2, <1>3, Zenon

LEMMA StepUpAdds ==
    ASSUME NEW q, Bounded(q), Climbable, ~AtBase(q)
    PROVE  Total(q) < Total(StepUp(q))
<1> USE LadderFacts DEF Quality
<1>1. q \in Quality
  BY DEF Bounded
<1>2. CASE RungUp(q) = "bitrate"
  <2> DEFINE n == Lesser(Base.bitrate, FourThirds(q.bitrate) + 1)
  <2>1. n \in Nat /\ q.bitrate < n
    BY <1>1, <1>2, FractionFacts DEF RungUp, Lesser
  <2>2. StepUp(q) = [q EXCEPT !.bitrate = n]
    BY <1>2 DEF StepUp
  <2> HIDE DEF n
  <2> QED
    BY <1>1, <2>1, <2>2 DEF Total
<1>3. CASE RungUp(q) = "fps"
  <2> DEFINE n == Lesser(Base.fps, q.fps + Greater(1, Base.fps \div 5))
  <2>1. n \in Nat /\ q.fps < n
    BY <1>1, <1>3 DEF RungUp, Lesser, Greater
  <2>2. StepUp(q) = [q EXCEPT !.fps = n]
    BY <1>3 DEF StepUp
  <2> HIDE DEF n
  <2> QED
    BY <1>1, <2>1, <2>2 DEF Total
<1>4. CASE RungUp(q) = "size"
  <2> DEFINE w == Even(Lesser(Base.width, FourThirds(q.width)))
             h == Even(Lesser(Base.height, FourThirds(q.height)))
  <2>1. 6 <= q.width /\ q.width <= Base.width /\ 6 <= q.height /\ q.height <= Base.height
    BY <1>1 DEF Climbable, Bounded, Even
  <2>2. w \in Nat /\ q.width <= w /\ (q.width < Base.width => q.width < w)
    BY <1>1, <2>1, DimensionGrows DEF Climbable
  <2>3. h \in Nat /\ q.height <= h /\ (q.height < Base.height => q.height < h)
    BY <1>1, <2>1, DimensionGrows DEF Climbable
  <2>4. q.width < Base.width \/ q.height < Base.height
    BY <1>4 DEF RungUp, BelowBase
  <2>5. StepUp(q) = [[q EXCEPT !.width = w] EXCEPT !.height = h]
    BY <1>1, <1>4 DEF StepUp, SizeUp
  <2> HIDE DEF w, h
  <2> QED
    BY <1>1, <2>2, <2>3, <2>4, <2>5 DEF Total
<1>5. RungUp(q) \in {"bitrate", "fps", "size"}
  <2>1. /\ q.bitrate \in Nat /\ q.fps \in Nat
        /\ Base.bitrate \in Nat /\ Base.fps \in Nat
    BY <1>1
  <2>2. q.bitrate < Base.bitrate \/ q.fps < Base.fps \/ BelowBase(q)
    BY <2>1 DEF AtBase
  <2> QED
    BY <2>2 DEF RungUp
<1> QED
  BY <1>2, <1>3, <1>4, <1>5, Zenon

LEMMA StepDownTakes ==
    ASSUME NEW q, Bounded(q), RungDown(q) # "none"
    PROVE  Total(StepDown(q)) < Total(q)
<1> USE LadderFacts DEF Quality
<1>1. q \in Quality /\ StepDown(q) \in Quality
  BY StepDownBounded DEF Bounded
<1>2. CASE RungDown(q) = "bitrate"
  <2> DEFINE n == Greater(Floor.bitrate, SeventyPercent(q.bitrate))
  <2>1. n \in Nat /\ n < q.bitrate
    BY <1>1, <1>2 DEF RungDown, Greater, SeventyPercent
  <2>2. StepDown(q) = [q EXCEPT !.bitrate = n]
    BY <1>2 DEF StepDown
  <2> HIDE DEF n
  <2> QED
    BY <1>1, <2>1, <2>2 DEF Total
<1>3. CASE RungDown(q) = "fps"
  <2> DEFINE n == Greater(Floor.fps, SeventyPercent(q.fps))
  <2>1. n \in Nat /\ n < q.fps
    BY <1>1, <1>3 DEF RungDown, Greater, SeventyPercent
  <2>2. StepDown(q) = [q EXCEPT !.fps = n]
    BY <1>3 DEF StepDown
  <2> HIDE DEF n
  <2> QED
    BY <1>1, <2>1, <2>2 DEF Total
<1>4. CASE RungDown(q) = "size"
  <2> DEFINE w == Even(Greater(Floor.width, ThreeQuarters(q.width)))
             h == Even(Greater(Floor.height, ThreeQuarters(q.height)))
  <2>1. w \in Nat /\ w <= q.width /\ (q.width > Floor.width => w < q.width)
    BY <1>1, DimensionDown DEF Bounded
  <2>2. h \in Nat /\ h <= q.height /\ (q.height > Floor.height => h < q.height)
    BY <1>1, DimensionDown DEF Bounded
  <2>3. q.width > Floor.width \/ q.height > Floor.height
    BY <1>4 DEF RungDown, AboveFloor
  <2>4. StepDown(q) = [[q EXCEPT !.width = w] EXCEPT !.height = h]
    BY <1>1, <1>4 DEF StepDown, SizeDown
  <2> HIDE DEF w, h
  <2> QED
    BY <1>1, <2>1, <2>2, <2>3, <2>4 DEF Total
<1> QED
  BY <1>2, <1>3, <1>4 DEF RungDown

\* How far the controller is from having restored everything, and how long a
\* calm round may yet be without effect: five of them are counted, the cooldown
\* of steps up passes, and so does the hold of the placeholder.
One(b) == IF b THEN 1 ELSE 0
ToRestore == (Total(Base) - Total(quality)) + One(placeholder) + degrades
HoldLeft == IF placeholder THEN Greater(0, PlaceholderMinHold - since["placeholder"])
                           ELSE 0
UntilStepUp == (RecoveryCap - recovery) + (RecoverCooldown - since["recover"]) + HoldLeft

\* How long a severe round may yet be without effect.
UntilStepDown == Greater(0, DegradeCooldown - since["degrade"])

\* All of these are bounded below.
Measured == ToRestore \in Nat /\ UntilStepUp \in Nat /\ UntilStepDown \in Nat

LEMMA TypeIsMeasured == TypeOK => Measured
<1> SUFFICES ASSUME TypeOK PROVE Measured
  OBVIOUS
<1>1. AgeCap \in Nat /\ RecoverCooldown = AgeCap
  BY DEF AgeCap, RecoverCooldown
<1>2. /\ since["recover"] \in 0 .. AgeCap /\ since["placeholder"] \in 0 .. AgeCap
      /\ since["degrade"] \in 0 .. AgeCap
  BY DEF TypeOK, Clocks
<1>3. HoldLeft \in Nat
  <2>1. since["placeholder"] \in Nat
    BY <1>1, <1>2
  <2> QED
    BY <2>1 DEF HoldLeft, Greater, PlaceholderMinHold
<1>4. Total(Base) \in Nat /\ Total(quality) \in Nat /\ Total(quality) <= Total(Base)
  <2>1. quality \in Quality /\ Base \in Quality /\ Bounded(quality)
    BY LadderAssumption, TypeIsBounded DEF LadderAssumption, TypeOK
  <2>2. /\ quality.bitrate <= Base.bitrate /\ quality.fps <= Base.fps
        /\ quality.width <= Base.width /\ quality.height <= Base.height
    BY <2>1, LadderFacts, EvenFacts DEF Bounded, Quality
  <2> QED
    BY <2>1, <2>2 DEF Total, Quality
<1>5. ToRestore \in Nat
  <2>1. degrades \in Nat
    BY DEF TypeOK, DegradesCap
  <2>2. One(placeholder) \in Nat
    BY DEF One
  <2> QED
    BY <1>4, <2>1, <2>2 DEF ToRestore
<1>6. UntilStepUp \in Nat
  <2>1. RecoveryCap - recovery \in Nat
    BY DEF RecoveryCap, TypeOK
  <2>2. RecoverCooldown - since["recover"] \in Nat
    BY <1>1, <1>2
  <2> QED
    BY <1>3, <2>1, <2>2 DEF UntilStepUp
<1>7. UntilStepDown \in Nat
  <2>1. since["degrade"] \in Nat
    BY <1>1, <1>2
  <2> QED
    BY <2>1 DEF UntilStepDown, Greater, DegradeCooldown
<1> QED
  BY <1>5, <1>6, <1>7 DEF Measured

\* What a round does to a clock that it does not stamp.
LEMMA ClockRuns ==
    ASSUME TypeOK, NEW g \in Gaps, NEW S, Stamp(S, g), NEW c \in Clocks, c \notin S
    PROVE  /\ since[c] \in 0 .. AgeCap /\ Age(c, g) = since[c] + g
           /\ since'[c] = Lesser(since[c] + g, AgeCap)
           /\ since[c] <= since'[c] /\ since'[c] <= AgeCap
           /\ since[c] < AgeCap => since[c] < since'[c]
<1>1. g \in Nat \ {0}
  BY InputAssumption DEF InputAssumption
<1>2. since[c] \in 0 .. AgeCap /\ Age(c, g) = since[c] + g
  BY DEF TypeOK, Age
<1>3. since'[c] = Lesser(since[c] + g, AgeCap)
  BY DEF Stamp, Age
<1>4. AgeCap \in Nat
  BY DEF AgeCap, RecoverCooldown
<1> DEFINE s == since[c]
           t == since'[c]
<1>5. s \in 0 .. AgeCap /\ t = Lesser(s + g, AgeCap)
  BY <1>2, <1>3
<1> HIDE DEF s, t
<1>6. s <= t /\ t <= AgeCap /\ (s < AgeCap => s < t)
  BY <1>1, <1>4, <1>5 DEF Lesser
<1> QED
  BY <1>2, <1>3, <1>6 DEF s, t

\* A calm round takes neither a step down nor the placeholder.
LEMMA CalmRound ==
    ASSUME TypeOK, NEW g \in Gaps, NEW r \in Ratios, NEW i \in PubIdles, NEW grew,
           \/ Stalled(g, r, i, grew) \/ RecoverStep(g, r, i, grew)
           \/ Degrade(g, r, i, grew) \/ Idr(g, r, i, grew)
           \/ GiveUp(g, r, i, grew) \/ Quiet(g, r, i, grew),
           sample' = "calm"
    PROVE  /\ RecoverStep(g, r, i, grew) \/ Quiet(g, r, i, grew)
           /\ recovery' = Lesser(recovery + 1, RecoveryCap)
<1>1. ~Stalled(g, r, i, grew)
  BY DEF Stalled
<1>2. Heard(r, i, grew)
  BY <1>1 DEF RecoverStep, Degrade, Idr, GiveUp, Quiet
<1>3. NormalWindow(r, i, growth')
  BY <1>2 DEF Heard
<1>4. r \in Nat /\ i \in Int /\ growth' \in Nat
  BY <1>2, HeardType, InputAssumption DEF InputAssumption, GrowthCap
<1>5. ~SevereGlobal(r) /\ ~MidBad(r)
  BY <1>3, <1>4 DEF NormalWindow, SevereGlobal, MajorityBad, MidBad, GrowthCap
<1>6. ~Degrade(g, r, i, grew) /\ ~Idr(g, r, i, grew) /\ ~GiveUp(g, r, i, grew)
  BY <1>5 DEF Degrade, DegradeDue, Idr, IdrDue, GiveUp, PlaceholderDue
<1>7. Recount(r, i)
  BY <1>1, <1>6 DEF RecoverStep, Quiet
<1> QED
  BY <1>1, <1>3, <1>6, <1>7 DEF Recount, Counted

\* What a calm round does.
CalmStep ==
    sample' = "calm" =>
        /\ Restored => Restored'
        /\ ~Restored => \/ ToRestore' < ToRestore
                        \/ ToRestore' = ToRestore /\ UntilStepUp' < UntilStepUp

\* A step up, or the end of the placeholder.
LEMMA RecoverNears ==
    ASSUME TypeOK, Climbable, NEW g \in Gaps, NEW r, NEW i, NEW grew,
           RecoverStep(g, r, i, grew), TypeOK'
    PROVE  ~Restored /\ ToRestore' < ToRestore
<1>1. degrades' = degrades /\ degrades \in Nat
  BY DEF RecoverStep, TypeOK, DegradesCap
<1>2. Total(quality) \in Nat /\ Total(quality') \in Nat /\ Total(Base) \in Nat
  BY LadderAssumption DEF LadderAssumption, TypeOK, Total, Quality
<1>3. One(placeholder') = 0
  BY DEF RecoverStep, One
<1>4. CASE placeholder
  <2>1. quality' = quality
    BY <1>4 DEF RecoverStep, Recovered
  <2>2. One(placeholder) = 1
    BY <1>4 DEF One
  <2>3. ~Restored
    BY <1>4, Zenon DEF Restored
  <2>4. ToRestore' < ToRestore
    BY <1>1, <1>2, <1>3, <2>1, <2>2 DEF ToRestore
  <2> QED
    BY <2>3, <2>4
<1>5. CASE ~placeholder
  <2>1. ~AtBase(quality)
    BY <1>5, Zenon DEF RecoverStep, RecoverDue
  <2>2. Total(quality) < Total(quality')
    BY <1>5, <2>1, StepUpAdds, TypeIsBounded DEF RecoverStep, Recovered
  <2>3. One(placeholder) = 0
    BY <1>5 DEF One
  <2>4. quality # Base
    BY <2>1, LadderFacts DEF AtBase, BelowBase
  <2> QED
    BY <1>1, <1>2, <1>3, <2>2, <2>3, <2>4 DEF ToRestore, Restored
<1> QED
  BY <1>4, <1>5, Zenon

\* A calm round without a decision counts, or waits for a clock, or finds
\* everything restored but the count of the degradations.
LEMMA QuietNears ==
    ASSUME TypeOK, NEW g \in Gaps, NEW r, NEW i, NEW grew,
           Quiet(g, r, i, grew), TypeOK',
           recovery' = Lesser(recovery + 1, RecoveryCap)
    PROVE  /\ Restored => Restored'
           /\ ~Restored => \/ ToRestore' < ToRestore
                           \/ ToRestore' = ToRestore /\ UntilStepUp' < UntilStepUp
<1>1. quality' = quality /\ placeholder' = placeholder /\ Stamp({}, g)
  BY DEF Quiet
<1>2. Total(quality) \in Nat /\ Total(Base) \in Nat /\ One(placeholder) \in Nat
  BY LadderAssumption DEF LadderAssumption, TypeOK, Total, Quality, One
<1>3. degrades \in Nat
  BY DEF TypeOK, DegradesCap
<1>4. CASE recovery' >= RecoveryCap /\ CanRecover(g) /\ ~placeholder
  <2>1. quality = Base
    <3>1. AtBase(quality)
      BY <1>4, Zenon DEF Quiet, RecoverDue
    <3> QED
      BY <3>1, TypeIsBounded, AtBaseIsBase
  <2>2. degrades' = 0
    BY <1>4, Zenon DEF Quiet
  <2>3. Restored'
    BY <1>1, <1>4, <2>1, <2>2, Zenon DEF Restored
  <2>4. ~Restored => 0 < degrades
    BY <1>3, <1>4, <2>1 DEF Restored
  <2>5. 0 < degrades => ToRestore' < ToRestore
    BY <1>1, <1>2, <1>3, <2>2 DEF ToRestore
  <2> QED
    BY <2>3, <2>4, <2>5, Zenon
<1>5. CASE ~(recovery' >= RecoveryCap /\ CanRecover(g) /\ ~placeholder)
  <2>1. degrades' = degrades
    BY <1>5, Zenon DEF Quiet
  <2>2. Restored => Restored'
    BY <1>1, <2>1, Zenon DEF Restored
  <2>3. ToRestore' = ToRestore
    BY <1>1, <2>1 DEF ToRestore
  <2> DEFINE a == since["recover"]
             b == since'["recover"]
             c == since["placeholder"]
             d == since'["placeholder"]
  <2>4. "recover" \in Clocks /\ "placeholder" \in Clocks
    BY DEF Clocks
  <2>5. /\ a \in 0 .. AgeCap /\ Age("recover", g) = a + g
        /\ a <= b /\ b <= AgeCap /\ (a < AgeCap => a < b)
    BY <1>1, <2>4, ClockRuns
  <2>6. /\ c \in 0 .. AgeCap /\ Age("placeholder", g) = c + g
        /\ c <= d /\ d <= AgeCap /\ (c < AgeCap => c < d)
    BY <1>1, <2>4, ClockRuns
  <2>7. b \in 0 .. AgeCap /\ d \in 0 .. AgeCap
    BY <2>4 DEF TypeOK
  <2>8. AgeCap \in Nat /\ AgeCap = RecoverCooldown /\ PlaceholderMinHold \in Nat
        /\ PlaceholderMinHold < AgeCap /\ g \in Nat \ {0}
    BY InputAssumption
       DEF InputAssumption, AgeCap, RecoverCooldown, PlaceholderMinHold
  <2>9. recovery \in 0 .. RecoveryCap /\ RecoveryCap \in Nat
    BY DEF TypeOK, RecoveryCap
  <2>10. /\ UntilStepUp = (RecoveryCap - recovery) + (RecoverCooldown - a) + HoldLeft
         /\ UntilStepUp' = (RecoveryCap - recovery') + (RecoverCooldown - b) + HoldLeft'
    BY DEF UntilStepUp
  <2> HIDE DEF a, b, c, d
  <2>11. recovery' \in Nat /\ recovery <= recovery' /\ recovery' <= RecoveryCap
         /\ (recovery' < RecoveryCap => recovery < recovery')
    BY <2>9 DEF Lesser
  <2>12. /\ HoldLeft \in Nat /\ HoldLeft' \in Nat /\ HoldLeft' <= HoldLeft
         /\ placeholder /\ ~HoldOver(g) => HoldLeft' < HoldLeft
    <3>1. CASE placeholder
      <4>1. /\ HoldLeft = Greater(0, PlaceholderMinHold - c)
            /\ HoldLeft' = Greater(0, PlaceholderMinHold - d)
        BY <1>1, <3>1 DEF HoldLeft, c, d
      <4>2. HoldOver(g) <=> c + g >= PlaceholderMinHold
        BY <2>6 DEF HoldOver
      <4> QED
        BY <2>6, <2>7, <2>8, <4>1, <4>2 DEF Greater
    <3>2. CASE ~placeholder
      BY <1>1, <3>2 DEF HoldLeft
    <3> QED
      BY <3>1, <3>2, Zenon
  <2>13. recovery' < RecoveryCap \/ ~CanRecover(g) \/ (placeholder /\ ~HoldOver(g))
    <3>1. ~RecoverDue(g)
      BY DEF Quiet
    <3>2. ~(recovery' >= RecoveryCap) => recovery' < RecoveryCap
      BY <2>9, <2>11
    <3> QED
      BY <1>5, <3>1, <3>2, Zenon DEF RecoverDue
  <2>14. ~CanRecover(g) => a < b
    BY <2>5, <2>8 DEF CanRecover
  <2>15. UntilStepUp' < UntilStepUp
    <3>1. recovery' < RecoveryCap \/ a < b \/ HoldLeft' < HoldLeft
      BY <2>12, <2>13, <2>14, Zenon
    <3> QED
      BY <2>5, <2>7, <2>8, <2>9, <2>10, <2>11, <2>12, <3>1
  <2> QED
    BY <2>2, <2>3, <2>15, Zenon
<1> QED
  BY <1>4, <1>5, Zenon

LEMMA CalmNears ==
    Climbable /\ TypeOK /\ TypeOK' /\ Update => CalmStep
<1> SUFFICES ASSUME Climbable, TypeOK, TypeOK', Update, sample' = "calm"
             PROVE  /\ Restored => Restored'
                    /\ ~Restored => \/ ToRestore' < ToRestore
                                    \/ ToRestore' = ToRestore /\ UntilStepUp' < UntilStepUp
  BY DEF CalmStep
<1>1. PICK g \in Gaps, r \in Ratios, i \in PubIdles, grew \in BOOLEAN :
        \/ Stalled(g, r, i, grew) \/ RecoverStep(g, r, i, grew)
        \/ Degrade(g, r, i, grew) \/ Idr(g, r, i, grew)
        \/ GiveUp(g, r, i, grew) \/ Quiet(g, r, i, grew)
  BY Zenon DEF Update
<1>2. /\ RecoverStep(g, r, i, grew) \/ Quiet(g, r, i, grew)
      /\ recovery' = Lesser(recovery + 1, RecoveryCap)
  BY <1>1, CalmRound
<1>3. CASE RecoverStep(g, r, i, grew)
  BY <1>3, RecoverNears
<1>4. CASE Quiet(g, r, i, grew)
  BY <1>2, <1>4, QuietNears
<1> QED
  BY <1>2, <1>3, <1>4, Zenon

\* What a severe round does.
SevereStep ==
    sample' = "severe" =>
        /\ placeholder => placeholder'
        /\ ~placeholder => \/ placeholder'
                           \/ Total(quality') < Total(quality)
                           \/ /\ Total(quality') = Total(quality)
                              /\ UntilStepDown' < UntilStepDown

\* A severe round takes no step up.
LEMMA SevereRound ==
    ASSUME TypeOK, NEW g \in Gaps, NEW r \in Ratios, NEW i \in PubIdles, NEW grew,
           \/ Stalled(g, r, i, grew) \/ RecoverStep(g, r, i, grew)
           \/ Degrade(g, r, i, grew) \/ Idr(g, r, i, grew)
           \/ GiveUp(g, r, i, grew) \/ Quiet(g, r, i, grew),
           sample' = "severe"
    PROVE  /\ SevereGlobal(r)
           /\ \/ Degrade(g, r, i, grew) \/ Idr(g, r, i, grew)
              \/ GiveUp(g, r, i, grew) \/ Quiet(g, r, i, grew)
<1>1. ~Stalled(g, r, i, grew)
  BY DEF Stalled
<1>2. Heard(r, i, grew)
  BY <1>1 DEF RecoverStep, Degrade, Idr, GiveUp, Quiet
<1>3. ~NormalWindow(r, i, growth') /\ SevereGlobal(r)
  BY <1>2 DEF Heard
<1>4. ~RecoverStep(g, r, i, grew)
  <2> SUFFICES ASSUME RecoverStep(g, r, i, grew) PROVE FALSE
    OBVIOUS
  <2>1. recovery' = 0
    BY <1>3 DEF RecoverStep, Recount, Counted
  <2>2. recovery' >= RecoveryCap
    BY DEF RecoverStep, RecoverDue
  <2> QED
    BY <2>1, <2>2 DEF RecoveryCap
<1> QED
  BY <1>1, <1>3, <1>4

\* A round that may not degrade yet brings the time nearer.
LEMMA WaitNears ==
    ASSUME TypeOK, NEW g \in Gaps, NEW S, Stamp(S, g), "degrade" \notin S,
           ~CanDegrade(g)
    PROVE  UntilStepDown' < UntilStepDown
<1> DEFINE a == since["degrade"]
           b == since'["degrade"]
<1>1. "degrade" \in Clocks
  BY DEF Clocks
<1>2. /\ a \in 0 .. AgeCap /\ Age("degrade", g) = a + g
      /\ b = Lesser(a + g, AgeCap)
  BY <1>1, ClockRuns
<1>3. /\ UntilStepDown = Greater(0, DegradeCooldown - a)
      /\ UntilStepDown' = Greater(0, DegradeCooldown - b)
  BY DEF UntilStepDown
<1>4. g \in Nat \ {0} /\ AgeCap \in Nat /\ DegradeCooldown \in Nat
      /\ DegradeCooldown < AgeCap
  BY InputAssumption
     DEF InputAssumption, AgeCap, RecoverCooldown, DegradeCooldown
<1> HIDE DEF a, b
<1>5. a + g < DegradeCooldown
  BY <1>2, <1>4 DEF CanDegrade
<1> QED
  BY <1>2, <1>3, <1>4, <1>5 DEF Lesser, Greater

LEMMA SevereNears == TypeOK /\ Update => SevereStep
<1> SUFFICES ASSUME TypeOK, Update, sample' = "severe"
             PROVE  /\ placeholder => placeholder'
                    /\ ~placeholder => \/ placeholder'
                                       \/ Total(quality') < Total(quality)
                                       \/ /\ Total(quality') = Total(quality)
                                          /\ UntilStepDown' < UntilStepDown
  BY DEF SevereStep
<1>1. PICK g \in Gaps, r \in Ratios, i \in PubIdles, grew \in BOOLEAN :
        \/ Stalled(g, r, i, grew) \/ RecoverStep(g, r, i, grew)
        \/ Degrade(g, r, i, grew) \/ Idr(g, r, i, grew)
        \/ GiveUp(g, r, i, grew) \/ Quiet(g, r, i, grew)
  BY Zenon DEF Update
<1>2. /\ SevereGlobal(r)
      /\ \/ Degrade(g, r, i, grew) \/ Idr(g, r, i, grew)
         \/ GiveUp(g, r, i, grew) \/ Quiet(g, r, i, grew)
  BY <1>1, SevereRound
<1>3. CASE Degrade(g, r, i, grew)
  <2>1. /\ placeholder' = (placeholder \/ RungDown(quality) = "none")
        /\ quality' = StepDown(quality)
    BY <1>3, Zenon DEF Degrade
  <2>2. RungDown(quality) # "none" => Total(quality') < Total(quality)
    BY <2>1, TypeIsBounded, StepDownTakes
  <2> QED
    BY <2>1, <2>2, Zenon
<1>4. CASE Idr(g, r, i, grew)
  <2>1. ~CanDegrade(g)
    BY <1>2, <1>4, Zenon DEF Idr, DegradeDue
  <2>2. Stamp({"action", "idr"}, g) /\ quality' = quality /\ placeholder' = placeholder
    BY <1>4 DEF Idr, Unchanging
  <2>3. UntilStepDown' < UntilStepDown
    BY <2>1, <2>2, WaitNears
  <2> QED
    BY <2>2, <2>3, Zenon
<1>5. CASE GiveUp(g, r, i, grew)
  BY <1>5, Zenon DEF GiveUp, EnterPlaceholder
<1>6. CASE Quiet(g, r, i, grew)
  <2>1. ~CanDegrade(g)
    BY <1>2, <1>6, Zenon DEF Quiet, DegradeDue
  <2>2. Stamp({}, g) /\ quality' = quality /\ placeholder' = placeholder
    BY <1>6 DEF Quiet
  <2>3. UntilStepDown' < UntilStepDown
    BY <2>1, <2>2, WaitNears
  <2> QED
    BY <2>2, <2>3, Zenon
<1> QED
  BY <1>2, <1>3, <1>4, <1>5, <1>6, Zenon

\* The measures are natural numbers, so that they cannot fall for ever.
THEOREM MeasuredCorrect == Spec => []Measured
BY TypeCorrect, TypeIsMeasured, PTL

\* Every calm round keeps what is restored and brings the rest nearer: a rung,
\* the placeholder or the count of the degradations is given back, or the wait
\* for the next of them, which is bounded, gets shorter.  This is all Recovers
\* needs of the controller, for every ladder whose sizes can be climbed.
THEOREM CalmProgress == Climbable /\ Spec => [][CalmStep]_vars
<1>1. CASE Climbable
  <2>1. TypeOK /\ TypeOK' /\ [Update]_vars => [CalmStep]_vars
    BY <1>1, CalmNears
  <2>2. Spec => [][CalmStep]_vars
    BY <2>1, TypeCorrect, PTL DEF Spec
  <2> QED
    BY <2>2
<1> QED
  BY <1>1

\* Every severe round keeps the placeholder, or enters it, or takes a rung
\* down, or shortens the wait for the next step down: the key frames, which
\* have a cooldown of their own, never delay it.  This is all
\* CongestionEscalates needs of the controller, for every ladder.
THEOREM SevereProgress == Spec => [][SevereStep]_vars
<1>1. TypeOK /\ [Update]_vars => [SevereStep]_vars
  BY SevereNears
<1> QED
  BY <1>1, TypeCorrect, PTL DEF Spec
=============================================================================
