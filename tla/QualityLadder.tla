--------------------------- MODULE QualityLadder ---------------------------
(***************************************************************************)
(* What the relay's global controller promises, whatever it decides and    *)
(* when: it goes down and up one rung at a time, bitrate first, size last, *)
(* never steps up under the placeholder, and says in the decision exactly  *)
(* what changed, because the pusher hears of nothing else.                 *)
(*                                                                         *)
(* GlobalController implements it; ClosedLoop puts it to work.             *)
(***************************************************************************)
EXTENDS Integers

CONSTANTS Base, Floor    \* [bitrate, fps, width, height], as configured

VARIABLES
    quality,      \* what the controller believes the pusher streams
    placeholder,  \* it believes that the pusher shows the placeholder
    told          \* what its last decision names

Even(n) == n - (n % 2)

\* The rungs, and those before a rung, which are used up first.
Rung == {"bitrate", "fps", "size"}
Before(r) == CASE r = "bitrate" -> {} [] r = "fps" -> {"bitrate"}
               [] r = "size" -> {"bitrate", "fps"}

\* q is, in one rung, not above p.
NotAbove(r, q, p) ==
    CASE r = "bitrate" -> q.bitrate <= p.bitrate
      [] r = "fps"     -> q.fps <= p.fps
      [] r = "size"    -> q.width <= p.width /\ q.height <= p.height
Same(r, q, p) == NotAbove(r, q, p) /\ NotAbove(r, p, q)

\* Sizes are rounded to even numbers, and so may be the one an odd base gave.
Rounded(q) == [q EXCEPT !.width = Even(@), !.height = Even(@)]

Init == quality = Base /\ placeholder = FALSE /\ told = "nothing"
-----------------------------------------------------------------------------
\* Only rung r changes, to its value in q, when those before it are at end.
Move(r, q, end) ==
    /\ told' = r
    /\ \A s \in Before(r) : Same(s, quality, end)
    /\ \A s \in Rung \ {r} : Same(s, q, quality)
    /\ UNCHANGED placeholder

Lower(r, q) ==
    /\ Move(r, q, Floor)
    /\ NotAbove(r, q, quality) /\ ~Same(r, q, quality)

Raise(r, q) ==
    /\ ~placeholder
    /\ Move(r, q, Base)
    /\ NotAbove(r, Rounded(quality), q)
    /\ r = "size" \/ ~Same(r, q, quality)

\* Entered, or asked for again.
EnterPlaceholder ==
    /\ placeholder' = TRUE /\ told' = "black" /\ UNCHANGED quality

UpAtOnce == [quality EXCEPT !.bitrate = Base.bitrate]
Kept == quality
ExitPlaceholder ==
    /\ placeholder /\ placeholder' = FALSE
    /\ told' = "normal" /\ quality' = Kept

AskKey == told' = "key" /\ UNCHANGED <<quality, placeholder>>
Quiet == told' = "nothing" /\ UNCHANGED <<quality, placeholder>>
-----------------------------------------------------------------------------
Qualities ==
    [bitrate: Floor.bitrate..Base.bitrate, fps: Floor.fps..Base.fps,
     width: Even(Floor.width)..Base.width, height: Even(Floor.height)..Base.height]

Decide ==
    \/ \E q \in Qualities : /\ quality' = q
                            /\ \E r \in Rung : Lower(r, q) \/ Raise(r, q)
    \/ EnterPlaceholder \/ ExitPlaceholder \/ AskKey

ladderVars == <<quality, placeholder, told>>

Spec == Init /\ [][Decide \/ Quiet]_ladderVars
=============================================================================
