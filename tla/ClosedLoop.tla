----------------------------- MODULE ClosedLoop -----------------------------
(***************************************************************************)
(* The control loop across the programs: the relay's global controller (a  *)
(* QualityLadder, which GlobalController implements), the monitor thread   *)
(* that sends its decision to the pusher command by command and waits 1.2 s*)
(* for each answer, the pusher's control server, and the pause button of   *)
(* the player, a second client of that server.                             *)
(*                                                                         *)
(* The server is a queue of received commands applied one after the other, *)
(* as PusherControl shows it to be.  A command is the function from the    *)
(* settings it changes to their values; a key frame changes none.          *)
(***************************************************************************)
EXTENDS Integers, Sequences

CONSTANTS
    Base, Floor, \* of the ladder
    Startup,   \* the settings the pusher starts with
    Backlog,   \* bound: commands received and not yet applied
    Faults,    \* what may go wrong: "lost", "late", "error", "restart"
    Clicking,  \* somebody uses the pause button
    Watch      \* the settings whose answers are followed, one at a time

Setting == {"bitrate", "fps", "size", "video", "audio"}

ASSUME LoopAssumption ==
    /\ {Base, Floor} \subseteq [bitrate: Nat, fps: Nat, width: Nat, height: Nat]
    /\ DOMAIN Startup = Setting
    /\ Backlog \in Nat \ {0}
    /\ Faults \subseteq {"lost", "late", "error", "restart"}
    /\ Clicking \in BOOLEAN
    /\ Watch \subseteq Setting

VARIABLES
    quality, placeholder, told, \* the controller, see QualityLadder
    outbox,       \* commands of the decision not sent yet
    awaiting,     \* the monitor thread waits for an answer
    pending,      \* commands the pusher received and did not apply yet: what
                  \* they set, and for whom: "relay" while it waits for the
                  \* answer, "late" when it gave up, "user"
    actual,       \* the pusher's settings
    remotePaused, \* the player's PlayerStatus::remote_paused
    watched,      \* history: one setting, and the value of it that was last
    acked,        \* answered OK to the relay, if no other command on it was
                  \* sent, or lost, since: {} or {value}
    clicked       \* history: the video mode in force was set by a click, "yes"
                  \* or "no", or "lost": the last click sent was lost

Ladder == INSTANCE QualityLadder

ladderVars == <<quality, placeholder, told>>
relayVars == <<ladderVars, outbox, awaiting>>
history == <<watched, acked, clicked>>
vars == <<relayVars, pending, actual, remotePaused, history>>

Idr == <<>>
Pause == [video |-> "BLACK", audio |-> "SILENT"]
Resume == [video |-> "NORMAL", audio |-> "NORMAL"]

Init ==
    /\ Ladder!Init
    /\ outbox = <<>> /\ awaiting = FALSE /\ pending = <<>>
    /\ actual = Startup /\ remotePaused = FALSE
    /\ watched \in Watch /\ acked = {} /\ clicked = "no"
-----------------------------------------------------------------------------
(* The relay: execute_global_decision and send_pusher_command.             *)

Size(q) == <<q.width, q.height>>

\* The commands of a decision, in the order they are sent; q is the quality
\* after it.
Commands(t, q) ==
    CASE t = "key"     -> <<Idr>>
      [] t = "bitrate" -> <<[bitrate |-> q.bitrate], Idr>>
      [] t = "fps"     -> <<[fps |-> q.fps], Idr>>
      [] t = "size"    -> <<[size |-> Size(q)], Idr>>
      [] t = "black"   -> <<[video |-> "BLACK"], [audio |-> "SILENT"], Idr>>
      [] t = "normal"  -> <<[video |-> "NORMAL"], [audio |-> "NORMAL"], Idr>>

RelayIdle == outbox = <<>> /\ ~awaiting

Round ==
    /\ RelayIdle
    /\ Ladder!Decide
    /\ outbox' = Commands(told', quality')
    /\ UNCHANGED <<awaiting, pending, actual, remotePaused, history>>

\* What was known of the watched setting is void once command c is under way.
Forget(c) == acked' = IF watched \in DOMAIN c THEN {} ELSE acked

\* The next command leaves the outbox; the decision is gone with its last.
Taken ==
    /\ outbox' = Tail(outbox)
    /\ told' = IF outbox' = <<>> THEN "nothing" ELSE told

Prepended(q, e) == <<e>> \o q
Received(q, e) == Append(q, e)

Reach ==
    /\ outbox # <<>> /\ ~awaiting /\ Len(pending) < Backlog
    /\ pending' = Received(pending, [sets |-> Head(outbox), by |-> "relay"])
    /\ Taken /\ awaiting' = TRUE
    /\ Forget(Head(outbox))
    /\ UNCHANGED <<quality, placeholder, actual, remotePaused, watched, clicked>>

\* No pusher is known, or connecting or sending fails: the command is skipped,
\* and the next one is sent all the same.
Unreached ==
    /\ outbox # <<>> /\ ~awaiting
    /\ "lost" \in Faults \/ Len(pending) = Backlog
    /\ Taken
    /\ Forget(Head(outbox))
    /\ UNCHANGED <<quality, placeholder, awaiting, pending, actual, remotePaused, watched, clicked>>

\* No answer within 1.2 s; the command stays with the pusher.
GiveUp ==
    /\ awaiting /\ "late" \in Faults
    /\ awaiting' = FALSE
    /\ pending' = [i \in DOMAIN pending |->
                      [pending[i] EXCEPT !.by = IF @ = "relay" THEN "late" ELSE @]]
    /\ UNCHANGED <<ladderVars, outbox, actual, remotePaused, history>>
-----------------------------------------------------------------------------
(* The pusher.                                                             *)

\* A click came after the command the relay waits for; what the relay gave up
\* on came before it.
TouchedLater(f) ==
    \E i \in DOMAIN pending : pending[i].by = "user" /\ f \in DOMAIN pending[i].sets

\* The pusher's settings after those in F got the values of s.
After(s, F) == [f \in Setting |-> IF f \in F THEN s[f] ELSE actual[f]]

Applied(e) ==
    /\ actual' = After(e.sets, DOMAIN e.sets)
    /\ acked' = IF e.by = "relay" /\ watched \in DOMAIN e.sets /\ ~TouchedLater(watched)
                THEN {e.sets[watched]} ELSE acked
    /\ clicked' = IF "video" \notin DOMAIN e.sets \/ clicked = "lost" THEN clicked
                  ELSE IF e.by = "user" THEN "yes" ELSE "no"

\* Some of the settings failed; the answer is ERR.
Failed(e) ==
    /\ "error" \in Faults
    /\ \E F \in SUBSET DOMAIN e.sets : actual' = After(e.sets, F)
    /\ clicked' = IF "video" \in DOMAIN e.sets /\ clicked = "yes" THEN "no" ELSE clicked
    /\ acked' = acked

Apply ==
    /\ pending # <<>>
    /\ Applied(Head(pending)) \/ Failed(Head(pending))
    /\ awaiting' = (awaiting /\ Head(pending).by # "relay")
    /\ pending' = Tail(pending)
    /\ UNCHANGED <<ladderVars, outbox, remotePaused, watched>>

\* The pusher ends and is started again; open connections break.
Restart ==
    /\ "restart" \in Faults
    /\ actual' = Startup /\ pending' = <<>> /\ awaiting' = FALSE
    /\ acked' = {} /\ clicked' = "no"
    /\ UNCHANGED <<ladderVars, outbox, remotePaused, watched>>
-----------------------------------------------------------------------------
(* The player.  ControlClient reports success once the kernel took the     *)
(* bytes; nobody reads the answer, so a command that was sent may be lost. *)

FlippedAnyway(sent) == ~remotePaused
Flipped(sent) == IF sent THEN ~remotePaused ELSE remotePaused

Click ==
    /\ Clicking
    /\ LET c == IF remotePaused THEN Resume ELSE Pause IN
         \E sent, reached \in BOOLEAN :
            /\ reached => sent
            /\ IF reached
               THEN /\ Len(pending) < Backlog
                    /\ pending' = Received(pending, [sets |-> c, by |-> "user"])
                    /\ Forget(c)
                    /\ clicked' = IF clicked = "lost" THEN "no" ELSE clicked
               ELSE /\ "lost" \in Faults /\ UNCHANGED <<pending, acked>>
                    /\ clicked' = IF sent THEN "lost" ELSE clicked
            /\ remotePaused' = Flipped(sent)
    /\ UNCHANGED <<relayVars, actual, watched>>
-----------------------------------------------------------------------------
Next == Round \/ Reach \/ Unreached \/ GiveUp \/ Apply \/ Restart \/ Click

Spec == Init /\ [][Next]_vars

(* Fairness: the monitor thread decides and sends, the pusher works, and   *)
(* commands that are sent again and again get through.                     *)
FairSpec ==
    /\ Spec
    /\ WF_vars(Round) /\ WF_vars(Reach \/ Unreached) /\ SF_vars(Reach)
    /\ WF_vars(Apply)
-----------------------------------------------------------------------------
\* Every variable has its type.
TypeOK ==
    /\ placeholder \in BOOLEAN /\ awaiting \in BOOLEAN
    /\ told \in {"nothing", "key", "bitrate", "fps", "size", "black", "normal"}
    /\ outbox # <<>> => DOMAIN outbox \subseteq 1..3
    /\ \A i \in DOMAIN pending : pending[i].by \in {"relay", "late", "user"}
    /\ awaiting => \E i \in DOMAIN pending : pending[i].by = "relay"
    /\ Len(pending) <= Backlog
    /\ DOMAIN actual = Setting /\ watched \in Setting
    /\ remotePaused \in BOOLEAN
    /\ clicked \in {"no", "yes", "lost"}

Believed(f) ==
    CASE f = "bitrate" -> quality.bitrate
      [] f = "fps"     -> quality.fps
      [] f = "size"    -> Size(quality)
      [] f = "video"   -> IF placeholder THEN "BLACK" ELSE "NORMAL"
      [] f = "audio"   -> IF placeholder THEN "SILENT" ELSE "NORMAL"

\* An OK can be relied on: the value stays in force until another command on
\* that setting is under way, also while commands the relay gave up on are
\* applied late; and between two decisions the value confirmed last is the one
\* the controller believes in.
InForce ==
    /\ acked \subseteq {actual[watched]}
    /\ RelayIdle => acked \subseteq {Believed(watched)}

\* The button lies for two reasons only: the last click that was sent did not
\* reach the pusher, or the mode in force is not a click's doing, because the
\* relay set it, the click's command failed at the pusher, or the pusher started
\* anew.  When neither is the case and no command on the mode is under way, the
\* player says paused exactly when the pusher shows black; so a click that
\* arrives puts the button right again, whatever was lost before it.
ModePending == \E i \in DOMAIN pending : "video" \in DOMAIN pending[i].sets
ButtonHonest ==
    clicked = "yes" /\ ~ModePending => (remotePaused <=> actual["video"] = "BLACK")

\* ReadMe.md, sections 7 and 8: when the network recovers the placeholder is
\* left and the quality restored.  Black video ends, unless the controller
\* wants it, or wants it again.
BlackEnds ==
    (actual["video"] = "BLACK" /\ ~placeholder)
        ~> (actual["video"] = "NORMAL" \/ placeholder)
=============================================================================
