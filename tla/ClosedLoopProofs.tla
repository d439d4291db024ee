--------------------------- MODULE ClosedLoopProofs ---------------------------
(***************************************************************************)
(* InForce and ButtonHonest for every ladder, every start-up setting, every*)
(* backlog and every combination of the faults; and, without the faults,   *)
(* AgreedUnlessLost: nothing else parts the pusher from the controller.    *)
(***************************************************************************)
EXTENDS ClosedLoop, TLAPS

Quality == [bitrate: Nat, fps: Nat, width: Nat, height: Nat]
Val == Nat \cup (Nat \X Nat) \cup {"BLACK", "SILENT", "NORMAL"}
Cmd == UNION {[F -> Val] : F \in SUBSET Setting}
Entry == [sets: Cmd, by: {"relay", "late", "user"}]

Typed ==
    /\ quality \in Quality /\ placeholder \in BOOLEAN
    /\ outbox \in Seq(Cmd) /\ awaiting \in BOOLEAN
    /\ pending \in Seq(Entry)
    /\ DOMAIN actual = Setting
    /\ remotePaused \in BOOLEAN /\ clicked \in {"no", "yes", "lost"}
    /\ watched \in Setting

\* The relay waits for the one command that is its own, and only clicks came
\* after that.
OneOfRelay ==
    \A i \in 1..Len(pending) : pending[i].by = "relay" =>
        /\ awaiting
        /\ \A j \in 1..Len(pending) : i < j => pending[j].by = "user"

\* A command that is to be sent, or waited for, says what the controller
\* believes.
Says(c) == \A f \in DOMAIN c : c[f] = Believed(f)
Current ==
    /\ \A i \in 1..Len(pending) : pending[i].by = "relay" => Says(pending[i].sets)
    /\ \A i \in 1..Len(outbox) : Says(outbox[i])

\* No command under way touches a setting that was confirmed.
Quiescent ==
    acked # {} => \A i \in 1..Len(pending) : watched \notin DOMAIN pending[i].sets

\* A confirmed value is in force, and is what the controller believes unless
\* the command that changes it is still to be sent.
Confirmed == acked \subseteq {actual[watched]}
Believable ==
    acked \subseteq {Believed(watched)}
    \/ \E i \in 1..Len(outbox) : watched \in DOMAIN outbox[i]

\* The last click under way is the one the button shows, unless a later one was
\* lost; with none under way, and the mode in force a click's, that mode is.
ClickAt(i) == i \in 1..Len(pending) /\ pending[i].by = "user"
ClicksShown ==
    /\ \A i \in 1..Len(pending) : ClickAt(i) =>
         /\ "video" \in DOMAIN pending[i].sets
         /\ clicked # "lost" /\ (\A j \in 1..Len(pending) : i < j => ~ClickAt(j)) =>
               (remotePaused <=> pending[i].sets["video"] = "BLACK")
    /\ clicked = "yes" /\ (\A i \in 1..Len(pending) : ~ClickAt(i)) =>
          (remotePaused <=> actual["video"] = "BLACK")

IInv ==
    /\ Typed /\ OneOfRelay /\ Current /\ Quiescent /\ Confirmed /\ Believable
    /\ ClicksShown
-----------------------------------------------------------------------------
LEMMA Unmoved ==
    ASSUME UNCHANGED <<quality, placeholder>>
    PROVE  \A f : Believed(f)' = Believed(f)
  BY DEF Believed, Size

(* What a decision changes of the controller's belief is what it names.    *)
LEMMA MoveFacts ==
    ASSUME NEW q \in Quality, NEW r \in Ladder!Rung, NEW end,
           quality \in Quality, quality' = q, Ladder!Move(r, q, end)
    PROVE  /\ told' = r /\ placeholder' = placeholder
           /\ r # "bitrate" => quality'.bitrate = quality.bitrate
           /\ r # "fps" => quality'.fps = quality.fps
           /\ r # "size" => quality'.width = quality.width /\ quality'.height = quality.height
  <1>1. \A s \in Ladder!Rung \ {r} : Ladder!Same(s, q, quality)
    BY DEF Ladder!Move
  <1>2. r # "bitrate" => q.bitrate <= quality.bitrate /\ quality.bitrate <= q.bitrate
    BY <1>1 DEF Ladder!Same, Ladder!NotAbove, Ladder!Rung
  <1>3. r # "fps" => q.fps <= quality.fps /\ quality.fps <= q.fps
    BY <1>1 DEF Ladder!Same, Ladder!NotAbove, Ladder!Rung
  <1>4. r # "size" => /\ q.width <= quality.width /\ quality.width <= q.width
                      /\ q.height <= quality.height /\ quality.height <= q.height
    BY <1>1 DEF Ladder!Same, Ladder!NotAbove, Ladder!Rung
  <1> QED BY <1>2, <1>3, <1>4 DEF Ladder!Move, Quality

LEMMA QualitiesTyped == Ladder!Qualities \subseteq Quality
  <1>1. /\ Base.bitrate \in Nat /\ Base.fps \in Nat /\ Base.width \in Nat /\ Base.height \in Nat
        /\ Floor.bitrate \in Nat /\ Floor.fps \in Nat /\ Floor.width \in Nat /\ Floor.height \in Nat
    BY LoopAssumption
  <1>2. Ladder!Even(Floor.width) \in Nat /\ Ladder!Even(Floor.height) \in Nat
    BY <1>1 DEF Ladder!Even
  <1>3. /\ Floor.bitrate..Base.bitrate \subseteq Nat /\ Floor.fps..Base.fps \subseteq Nat
        /\ Ladder!Even(Floor.width)..Base.width \subseteq Nat
        /\ Ladder!Even(Floor.height)..Base.height \subseteq Nat
    BY <1>1, <1>2
  <1> QED BY <1>3 DEF Ladder!Qualities, Quality

LEMMA DecideFacts ==
    ASSUME quality \in Quality, placeholder \in BOOLEAN, Ladder!Decide
    PROVE  /\ quality' \in Quality /\ placeholder' \in BOOLEAN
           /\ told' \in {"key", "bitrate", "fps", "size", "black", "normal"}
           /\ told' \notin {"black", "normal"} => placeholder' = placeholder
           /\ told' = "black" => placeholder' = TRUE
           /\ told' = "normal" => placeholder' = FALSE
           /\ told' # "bitrate" => quality'.bitrate = quality.bitrate
           /\ told' # "fps" => quality'.fps = quality.fps
           /\ told' # "size" => quality'.width = quality.width /\ quality'.height = quality.height
  <1>1. ASSUME NEW q \in Ladder!Qualities, quality' = q, NEW r \in Ladder!Rung,
               Ladder!Lower(r, q) \/ Ladder!Raise(r, q)
        PROVE  quality' \in Quality /\ r = told' /\ placeholder' = placeholder
               /\ (r # "bitrate" => quality'.bitrate = quality.bitrate)
               /\ (r # "fps" => quality'.fps = quality.fps)
               /\ (r # "size" => quality'.width = quality.width /\ quality'.height = quality.height)
    <2>1. q \in Quality
      BY QualitiesTyped
    <2>2. PICK end : Ladder!Move(r, q, end)
      BY <1>1 DEF Ladder!Lower, Ladder!Raise
    <2> QED BY <1>1, <2>1, <2>2, MoveFacts
  <1>2. CASE \E q \in Ladder!Qualities : quality' = q /\ \E r \in Ladder!Rung : Ladder!Lower(r, q) \/ Ladder!Raise(r, q)
    <2>1. PICK q \in Ladder!Qualities : quality' = q /\ \E r \in Ladder!Rung : Ladder!Lower(r, q) \/ Ladder!Raise(r, q)
      BY <1>2
    <2>2. PICK r \in Ladder!Rung : Ladder!Lower(r, q) \/ Ladder!Raise(r, q)
      BY <2>1
    <2> QED BY <2>1, <2>2, <1>1 DEF Ladder!Rung
  <1>3. CASE Ladder!EnterPlaceholder
    BY <1>3 DEF Ladder!EnterPlaceholder
  <1>4. CASE Ladder!ExitPlaceholder
    BY <1>4 DEF Ladder!ExitPlaceholder, Ladder!Kept
  <1>5. CASE Ladder!AskKey
    BY <1>5 DEF Ladder!AskKey
  <1> QED BY <1>2, <1>3, <1>4, <1>5 DEF Ladder!Decide
-----------------------------------------------------------------------------
LEMMA Singles ==
    /\ Idr \in Cmd /\ DOMAIN Idr = {}
    /\ Pause \in Cmd /\ Resume \in Cmd
    /\ DOMAIN Pause = {"video", "audio"} /\ DOMAIN Resume = {"video", "audio"}
    /\ Pause.video = "BLACK" /\ Resume.video = "NORMAL"
    /\ \A v \in Nat : [bitrate |-> v] \in Cmd /\ [fps |-> v] \in Cmd
    /\ \A v \in Nat \X Nat : [size |-> v] \in Cmd
    /\ [video |-> "BLACK"] \in Cmd /\ [audio |-> "SILENT"] \in Cmd
    /\ [video |-> "NORMAL"] \in Cmd /\ [audio |-> "NORMAL"] \in Cmd
  <1>1. Idr \in [{} -> Val] /\ DOMAIN Idr = {}
    BY DEF Idr
  <1>2. Idr \in Cmd
    BY <1>1 DEF Cmd
  <1>3. Pause \in [{"video", "audio"} -> Val] /\ Resume \in [{"video", "audio"} -> Val]
    BY DEF Pause, Resume, Val
  <1>4. Pause \in Cmd /\ Resume \in Cmd
    BY <1>3 DEF Cmd, Setting
  <1>5. ASSUME NEW v \in Nat PROVE [bitrate |-> v] \in Cmd /\ [fps |-> v] \in Cmd
    <2>1. v \in Val
      BY DEF Val
    <2>2. [bitrate |-> v] \in [{"bitrate"} -> Val] /\ [fps |-> v] \in [{"fps"} -> Val]
      BY <2>1
    <2> QED BY <2>2 DEF Cmd, Setting
  <1>6. ASSUME NEW v \in Nat \X Nat PROVE [size |-> v] \in Cmd
    <2>1. v \in Val
      BY DEF Val
    <2>2. [size |-> v] \in [{"size"} -> Val]
      BY <2>1
    <2> QED BY <2>2 DEF Cmd, Setting
  <1>7. /\ [video |-> "BLACK"] \in [{"video"} -> Val] /\ [audio |-> "SILENT"] \in [{"audio"} -> Val]
        /\ [video |-> "NORMAL"] \in [{"video"} -> Val] /\ [audio |-> "NORMAL"] \in [{"audio"} -> Val]
    BY DEF Val
  <1>8. /\ [video |-> "BLACK"] \in Cmd /\ [audio |-> "SILENT"] \in Cmd
        /\ [video |-> "NORMAL"] \in Cmd /\ [audio |-> "NORMAL"] \in Cmd
    BY <1>7 DEF Cmd, Setting
  <1>9. Pause.video = "BLACK" /\ Resume.video = "NORMAL" /\ DOMAIN Pause = {"video", "audio"} /\ DOMAIN Resume = {"video", "audio"}
    BY DEF Pause, Resume
  <1> QED BY <1>1, <1>2, <1>4, <1>5, <1>6, <1>8, <1>9

(* The commands of a decision say what the controller believes after it,   *)
(* and whatever it changed is in one of them.                              *)
LEMMA CommandsFacts ==
    ASSUME quality \in Quality, placeholder \in BOOLEAN, Ladder!Decide,
           NEW o, o = Commands(told', quality')
    PROVE  /\ o \in Seq(Cmd)
           /\ \A i \in 1..Len(o) : \A f \in DOMAIN o[i] : o[i][f] = Believed(f)'
           /\ \A f \in Setting : Believed(f)' = Believed(f)
                                 \/ \E i \in 1..Len(o) : f \in DOMAIN o[i]
  <1> USE DecideFacts, Singles
  <1> USE DEF Commands
  <1>1. CASE told' = "key"
    <2>1. o = <<Idr>>
      BY <1>1
    <2>2. \A f : Believed(f)' = Believed(f)
      BY <1>1 DEF Believed, Size
    <2> QED BY <2>1, <2>2
  <1>2. CASE told' = "bitrate"
    <2>1. o = <<[bitrate |-> quality'.bitrate], Idr>> /\ quality'.bitrate \in Nat
      BY <1>2 DEF Quality
    <2>2. \A f \in Setting \ {"bitrate"} : Believed(f)' = Believed(f)
      BY <1>2 DEF Believed, Size, Setting
    <2>3. Believed("bitrate")' = quality'.bitrate
      BY DEF Believed
    <2>4. PICK c \in Cmd : c = [bitrate |-> quality'.bitrate] /\ DOMAIN c = {"bitrate"} /\ c["bitrate"] = quality'.bitrate
      BY <2>1
    <2>5. o \in Seq(Cmd) /\ Len(o) = 2 /\ o[1] = c /\ o[2] = Idr
      BY <2>1, <2>4
    <2> QED BY <2>2, <2>3, <2>4, <2>5
  <1>3. CASE told' = "fps"
    <2>1. o = <<[fps |-> quality'.fps], Idr>> /\ quality'.fps \in Nat
      BY <1>3 DEF Quality
    <2>2. \A f \in Setting \ {"fps"} : Believed(f)' = Believed(f)
      BY <1>3 DEF Believed, Size, Setting
    <2>3. Believed("fps")' = quality'.fps
      BY DEF Believed
    <2>4. PICK c \in Cmd : c = [fps |-> quality'.fps] /\ DOMAIN c = {"fps"} /\ c["fps"] = quality'.fps
      BY <2>1
    <2>5. o \in Seq(Cmd) /\ Len(o) = 2 /\ o[1] = c /\ o[2] = Idr
      BY <2>1, <2>4
    <2> QED BY <2>2, <2>3, <2>4, <2>5
  <1>4. CASE told' = "size"
    <2>1. o = <<[size |-> Size(quality')], Idr>> /\ Size(quality') \in Nat \X Nat
      BY <1>4 DEF Quality, Size
    <2>2. \A f \in Setting \ {"size"} : Believed(f)' = Believed(f)
      BY <1>4 DEF Believed, Size, Setting
    <2>3. Believed("size")' = Size(quality')
      BY DEF Believed, Size
    <2>4. PICK c \in Cmd : c = [size |-> Size(quality')] /\ DOMAIN c = {"size"} /\ c["size"] = Size(quality')
      BY <2>1
    <2>5. o \in Seq(Cmd) /\ Len(o) = 2 /\ o[1] = c /\ o[2] = Idr
      BY <2>1, <2>4
    <2> QED BY <2>2, <2>3, <2>4, <2>5
  <1>5. CASE told' = "black"
    <2>1. o = <<[video |-> "BLACK"], [audio |-> "SILENT"], Idr>>
      BY <1>5
    <2>2. \A f \in Setting \ {"video", "audio"} : Believed(f)' = Believed(f)
      BY <1>5 DEF Believed, Size, Setting
    <2>3. Believed("video")' = "BLACK" /\ Believed("audio")' = "SILENT"
      BY <1>5 DEF Believed
    <2>4. /\ o \in Seq(Cmd) /\ Len(o) = 3 /\ DOMAIN o[1] = {"video"} /\ DOMAIN o[2] = {"audio"}
          /\ DOMAIN o[3] = {} /\ o[1]["video"] = "BLACK" /\ o[2]["audio"] = "SILENT"
      BY <2>1
    <2> QED BY <2>2, <2>3, <2>4
  <1>6. CASE told' = "normal"
    <2>1. o = <<[video |-> "NORMAL"], [audio |-> "NORMAL"], Idr>>
      BY <1>6
    <2>2. \A f \in Setting \ {"video", "audio"} : Believed(f)' = Believed(f)
      BY <1>6 DEF Believed, Size, Setting
    <2>3. Believed("video")' = "NORMAL" /\ Believed("audio")' = "NORMAL"
      BY <1>6 DEF Believed
    <2>4. /\ o \in Seq(Cmd) /\ Len(o) = 3 /\ DOMAIN o[1] = {"video"} /\ DOMAIN o[2] = {"audio"}
          /\ DOMAIN o[3] = {} /\ o[1]["video"] = "NORMAL" /\ o[2]["audio"] = "NORMAL"
      BY <2>1
    <2> QED BY <2>2, <2>3, <2>4
  <1> QED BY <1>1, <1>2, <1>3, <1>4, <1>5, <1>6
-----------------------------------------------------------------------------
(* The invariant holds at first, and each action keeps it.                 *)

LEMMA AtInit == Init => IInv
  <1> SUFFICES ASSUME Init PROVE IInv
    OBVIOUS
  <1>1. quality \in Quality /\ placeholder \in BOOLEAN
    BY LoopAssumption DEF Init, Ladder!Init, Quality
  <1>2. outbox = <<>> /\ pending = <<>> /\ acked = {} /\ awaiting = FALSE
        /\ remotePaused = FALSE /\ clicked = "no"
    BY DEF Init
  <1>3. DOMAIN actual = Setting /\ watched \in Setting
    BY LoopAssumption DEF Init
  <1>4. Typed
    <2>1. <<>> \in Seq(Cmd) /\ <<>> \in Seq(Entry)
      OBVIOUS
    <2>2. outbox \in Seq(Cmd) /\ pending \in Seq(Entry)
      BY <1>2, <2>1
    <2> QED BY <1>1, <1>2, <1>3, <2>2 DEF Typed
  <1>5. OneOfRelay /\ Current /\ Quiescent /\ Confirmed /\ Believable /\ ClicksShown
    BY <1>2 DEF OneOfRelay, Current, Quiescent, Confirmed, Believable, ClicksShown, ClickAt
  <1> QED BY <1>4, <1>5 DEF IInv

LEMMA RoundKeeps == IInv /\ Round => IInv'
  <1> SUFFICES ASSUME IInv, Round PROVE IInv'
    OBVIOUS
  <1> USE DEF IInv, Typed
  <1>1. UNCHANGED <<awaiting, pending, actual, remotePaused, watched, acked, clicked>>
        /\ awaiting = FALSE /\ outbox = <<>> /\ Ladder!Decide
    BY DEF Round, RelayIdle, history
  <1>2. outbox' = Commands(told', quality')
    BY DEF Round
  <1>3. /\ outbox' \in Seq(Cmd)
        /\ \A i \in 1..Len(outbox') : \A f \in DOMAIN outbox'[i] : outbox'[i][f] = Believed(f)'
        /\ \A f \in Setting : Believed(f)' = Believed(f)
                              \/ \E i \in 1..Len(outbox') : f \in DOMAIN outbox'[i]
    BY <1>1, <1>2, CommandsFacts
  <1>4. Typed'
    BY <1>1, <1>3, DecideFacts
  <1>5. \A i \in 1..Len(pending) : pending[i].by # "relay"
    BY <1>1 DEF OneOfRelay
  <1>6. Current' /\ OneOfRelay'
    BY <1>1, <1>3, <1>5 DEF Current, OneOfRelay, Says
  <1>7. acked \subseteq {Believed(watched)}
    BY <1>1 DEF Believable
  <1>8. Believable'
    BY <1>1, <1>3, <1>7 DEF Believable
  <1>9. Quiescent' /\ Confirmed'
    BY <1>1 DEF Quiescent, Confirmed
  <1>10. ClicksShown'
    BY <1>1 DEF ClicksShown, ClickAt
  <1> QED BY <1>4, <1>6, <1>8, <1>9, <1>10

LEMMA ReachKeeps == IInv /\ Reach => IInv'
  <1> SUFFICES ASSUME IInv, Reach PROVE IInv'
    OBVIOUS
  <1> USE DEF IInv, Typed
  <1>1. UNCHANGED <<quality, placeholder, actual, remotePaused, watched, clicked>>
        /\ awaiting = FALSE /\ awaiting' = TRUE /\ outbox # <<>> /\ outbox' = Tail(outbox)
    BY DEF Reach, Taken
  <1>2. PICK c \in Cmd : c = Head(outbox) /\ c = outbox[1]
    BY <1>1
  <1>3. PICK e \in Entry : e.sets = c /\ e.by = "relay" /\ pending' = Append(pending, e)
    BY <1>2 DEF Reach, Received, Entry
  <1>4. /\ outbox' \in Seq(Cmd) /\ Len(outbox') = Len(outbox) - 1
        /\ \A i \in 1..Len(outbox') : i + 1 \in 1..Len(outbox) /\ outbox'[i] = outbox[i + 1]
        /\ \A i \in 2..Len(outbox) : i - 1 \in 1..Len(outbox') /\ outbox[i] = outbox'[i - 1]
    BY <1>1
  <1>5. /\ pending' \in Seq(Entry) /\ Len(pending') = Len(pending) + 1
        /\ \A i \in 1..Len(pending) : pending'[i] = pending[i]
        /\ pending'[Len(pending) + 1] = e
    BY <1>3
  <1>6. acked' = IF watched \in DOMAIN c THEN {} ELSE acked
    BY <1>2 DEF Reach, Forget
  <1>7. \A f : Believed(f)' = Believed(f)
    BY <1>1, Unmoved
  <1>8. Says(c)
    BY <1>1, <1>2 DEF Current
  <1>9. \A i \in 1..Len(pending) : pending[i].by # "relay"
    BY <1>1 DEF OneOfRelay
  <1>10. Typed'
    BY <1>1, <1>4, <1>5
  <1>11. OneOfRelay'
    BY <1>1, <1>5, <1>9 DEF OneOfRelay
  <1>12. Current'
    <2>1. \A i \in 1..Len(outbox') : \A f \in DOMAIN outbox'[i] : outbox'[i][f] = Believed(f)'
      BY <1>4, <1>7 DEF Current, Says
    <2>2. \A i \in 1..Len(pending') : pending'[i].by = "relay" => pending'[i] = e
      BY <1>5, <1>9
    <2>3. \A f \in DOMAIN e.sets : e.sets[f] = Believed(f)'
      BY <1>3, <1>7, <1>8 DEF Says
    <2> QED BY <2>1, <2>2, <2>3 DEF Current, Says
  <1>13. Quiescent' /\ Confirmed'
    BY <1>1, <1>3, <1>5, <1>6 DEF Quiescent, Confirmed
  <1>14. Believable'
    <2>1. CASE watched \in DOMAIN c
      BY <2>1, <1>6 DEF Believable
    <2>2. CASE watched \notin DOMAIN c
      <3>1. acked' = acked
        BY <2>2, <1>6
      <3>2. CASE acked \subseteq {Believed(watched)}
        BY <3>1, <3>2, <1>1, <1>7 DEF Believable
      <3>3. ASSUME NEW i \in 1..Len(outbox), watched \in DOMAIN outbox[i]
            PROVE  Believable'
        <4>1. i \in 2..Len(outbox)
          BY <3>3, <2>2, <1>2
        <4> QED BY <4>1, <3>3, <1>1, <1>4 DEF Believable
      <3> QED BY <3>2, <3>3 DEF Believable
    <2> QED BY <2>1, <2>2
  <1>15. ClicksShown'
    <2>1. \A i \in 1..Len(pending') :
            ClickAt(i)' => i \in 1..Len(pending) /\ ClickAt(i) /\ pending'[i] = pending[i]
      BY <1>3, <1>5 DEF ClickAt
    <2>2. \A i \in 1..Len(pending) : i \in 1..Len(pending') /\ (ClickAt(i)' <=> ClickAt(i))
      BY <1>5 DEF ClickAt
    <2> QED BY <2>1, <2>2, <1>1 DEF ClicksShown
  <1> QED BY <1>10, <1>11, <1>12, <1>13, <1>14, <1>15

LEMMA UnreachedKeeps == IInv /\ Unreached => IInv'
  <1> SUFFICES ASSUME IInv, Unreached PROVE IInv'
    OBVIOUS
  <1> USE DEF IInv, Typed
  <1>1. UNCHANGED <<quality, placeholder, awaiting, pending, actual, remotePaused, watched, clicked>>
        /\ outbox # <<>> /\ outbox' = Tail(outbox)
    BY DEF Unreached, Taken
  <1>2. PICK c \in Cmd : c = Head(outbox) /\ c = outbox[1]
    BY <1>1
  <1>4. /\ outbox' \in Seq(Cmd) /\ Len(outbox') = Len(outbox) - 1
        /\ \A i \in 1..Len(outbox') : i + 1 \in 1..Len(outbox) /\ outbox'[i] = outbox[i + 1]
        /\ \A i \in 2..Len(outbox) : i - 1 \in 1..Len(outbox') /\ outbox[i] = outbox'[i - 1]
    BY <1>1
  <1>6. acked' = IF watched \in DOMAIN c THEN {} ELSE acked
    BY <1>2 DEF Unreached, Forget
  <1>7. \A f : Believed(f)' = Believed(f)
    BY <1>1, Unmoved
  <1>10. Typed'
    BY <1>1, <1>4
  <1>11. OneOfRelay'
    BY <1>1 DEF OneOfRelay
  <1>12. Current'
    BY <1>1, <1>4, <1>7 DEF Current, Says
  <1>13. Quiescent' /\ Confirmed'
    BY <1>1, <1>6 DEF Quiescent, Confirmed
  <1>14. Believable'
    <2>1. CASE watched \in DOMAIN c
      BY <2>1, <1>6 DEF Believable
    <2>2. CASE watched \notin DOMAIN c
      <3>1. acked' = acked
        BY <2>2, <1>6
      <3>2. CASE acked \subseteq {Believed(watched)}
        BY <3>1, <3>2, <1>1, <1>7 DEF Believable
      <3>3. ASSUME NEW i \in 1..Len(outbox), watched \in DOMAIN outbox[i]
            PROVE  Believable'
        <4>1. i \in 2..Len(outbox)
          BY <3>3, <2>2, <1>2
        <4> QED BY <4>1, <3>3, <1>1, <1>4 DEF Believable
      <3> QED BY <3>2, <3>3 DEF Believable
    <2> QED BY <2>1, <2>2
  <1>15. ClicksShown'
    BY <1>1 DEF ClicksShown, ClickAt
  <1> QED BY <1>10, <1>11, <1>12, <1>13, <1>14, <1>15

LEMMA GiveUpKeeps == IInv /\ GiveUp => IInv'
  <1> SUFFICES ASSUME IInv, GiveUp PROVE IInv'
    OBVIOUS
  <1> USE DEF IInv, Typed
  <1>1. UNCHANGED <<quality, placeholder, outbox, actual, remotePaused, watched, acked, clicked>>
        /\ awaiting' = FALSE
    BY DEF GiveUp, ladderVars, history
  <1>2. pending' = [i \in DOMAIN pending |->
                      [pending[i] EXCEPT !.by = IF @ = "relay" THEN "late" ELSE @]]
    BY DEF GiveUp
  <1>3. DOMAIN pending = 1..Len(pending) /\ Len(pending) \in Nat
    OBVIOUS
  <1>4. \A i \in 1..Len(pending) :
          /\ pending'[i] \in Entry /\ pending'[i].sets = pending[i].sets
          /\ pending'[i].by # "relay" /\ (pending'[i].by = "user" <=> pending[i].by = "user")
    <2> SUFFICES ASSUME NEW i \in 1..Len(pending)
                 PROVE  /\ pending'[i] \in Entry /\ pending'[i].sets = pending[i].sets
                        /\ pending'[i].by # "relay" /\ (pending'[i].by = "user" <=> pending[i].by = "user")
      OBVIOUS
    <2>1. pending[i] \in Entry
      BY <1>3
    <2>2. pending'[i] = [pending[i] EXCEPT !.by = IF pending[i].by = "relay" THEN "late" ELSE pending[i].by]
      BY <1>2, <1>3
    <2> QED BY <2>1, <2>2 DEF Entry
  <1>5. pending' \in Seq(Entry) /\ Len(pending') = Len(pending)
    <2>1. PICK n \in Nat : n = Len(pending)
      BY <1>3
    <2>2. pending' \in [1..n -> Entry]
      BY <1>2, <1>3, <1>4, <2>1
    <2>3. pending' \in Seq(Entry) /\ Len(pending') = n
      BY <2>2
    <2> QED BY <2>1, <2>3
  <1>7. \A f : Believed(f)' = Believed(f)
    BY <1>1, Unmoved
  <1>10. Typed'
    BY <1>1, <1>5
  <1>11. OneOfRelay'
    BY <1>4, <1>5 DEF OneOfRelay
  <1>12. Current'
    BY <1>1, <1>4, <1>5, <1>7 DEF Current, Says
  <1>13. Quiescent' /\ Confirmed'
    BY <1>1, <1>4, <1>5 DEF Quiescent, Confirmed
  <1>14. Believable'
    BY <1>1, <1>7 DEF Believable
  <1>15. ClicksShown'
    BY <1>1, <1>4, <1>5 DEF ClicksShown, ClickAt
  <1> QED BY <1>10, <1>11, <1>12, <1>13, <1>14, <1>15

(* The head of the queue goes; the settings F of it, its all unless some   *)
(* failed, take its values.                                                *)
LEMMA ApplyKeeps == IInv /\ Apply => IInv'
  <1> SUFFICES ASSUME IInv, Apply PROVE IInv'
    OBVIOUS
  <1> USE DEF IInv, Typed
  <1>1. UNCHANGED <<quality, placeholder, outbox, remotePaused, watched>>
        /\ pending # <<>> /\ pending' = Tail(pending)
    BY DEF Apply, ladderVars
  <1>2. PICK e \in Entry : e = Head(pending) /\ e = pending[1]
    BY <1>1
  <1>3. awaiting' = (awaiting /\ e.by # "relay")
    BY <1>2 DEF Apply
  <1>4. /\ pending' \in Seq(Entry) /\ Len(pending') = Len(pending) - 1 /\ Len(pending) \in Nat
        /\ \A i \in 1..Len(pending') : i + 1 \in 1..Len(pending) /\ pending'[i] = pending[i + 1]
        /\ \A i \in 2..Len(pending) : i - 1 \in 1..Len(pending') /\ pending[i] = pending'[i - 1]
    BY <1>1
  <1>5. 1 \in 1..Len(pending) /\ DOMAIN pending = 1..Len(pending)
    BY <1>1
  <1>6. Applied(e) \/ Failed(e)
    BY <1>2 DEF Apply
  <1>7. \A f : Believed(f)' = Believed(f)
    BY <1>1, Unmoved
  <1>8. e.by = "relay" => \A i \in 1..Len(pending') : pending'[i].by = "user"
    BY <1>2, <1>4, <1>5 DEF OneOfRelay
  <1>9. OneOfRelay'
    <2> SUFFICES ASSUME NEW i \in 1..Len(pending'), pending'[i].by = "relay"
                 PROVE  awaiting' /\ \A j \in 1..Len(pending') : i < j => pending'[j].by = "user"
      BY DEF OneOfRelay
    <2>1. awaiting /\ e.by # "relay"
      BY <1>4, <1>8 DEF OneOfRelay
    <2>2. \A j \in 1..Len(pending') : i < j => pending'[j].by = "user"
      BY <1>4 DEF OneOfRelay
    <2> QED BY <2>1, <2>2, <1>3
  <1>10. Current'
    BY <1>1, <1>4, <1>7 DEF Current, Says
  <1>11. ClicksShown' /\ clicked' \in {"no", "yes", "lost"}
    <2>0. clicked' # "lost" => clicked # "lost"
      BY <1>6 DEF Applied, Failed
    <2>1. \A i \in 1..Len(pending') : ClickAt(i + 1) <=> ClickAt(i)'
      BY <1>4 DEF ClickAt
    <2>2. \A i \in 1..Len(pending') : ClickAt(i)' =>
            /\ "video" \in DOMAIN pending'[i].sets
            /\ clicked' # "lost" /\ (\A j \in 1..Len(pending') : i < j => ~ClickAt(j)') =>
                  (remotePaused <=> pending'[i].sets["video"] = "BLACK")
      <3> SUFFICES ASSUME NEW i \in 1..Len(pending'), ClickAt(i)'
                   PROVE  /\ "video" \in DOMAIN pending'[i].sets
                          /\ clicked' # "lost" /\ (\A j \in 1..Len(pending') : i < j => ~ClickAt(j)') =>
                                (remotePaused <=> pending'[i].sets["video"] = "BLACK")
        OBVIOUS
      <3>1. i + 1 \in 1..Len(pending) /\ pending'[i] = pending[i + 1] /\ ClickAt(i + 1)
        BY <2>1, <1>4
      <3>2. ASSUME \A j \in 1..Len(pending') : i < j => ~ClickAt(j)'
            PROVE  \A j \in 1..Len(pending) : i + 1 < j => ~ClickAt(j)
        <4> SUFFICES ASSUME NEW j \in 1..Len(pending), i + 1 < j PROVE ~ClickAt(j)
          OBVIOUS
        <4>1. j - 1 \in 1..Len(pending') /\ i < j - 1 /\ (j - 1) + 1 = j
          BY <1>4
        <4> QED BY <4>1, <3>2, <2>1
      <3> QED BY <3>1, <3>2, <2>0 DEF ClicksShown
    <2>3. clicked' \in {"no", "yes", "lost"} /\
          (clicked' = "yes" /\ (\A i \in 1..Len(pending') : ~ClickAt(i)') =>
            (remotePaused <=> actual'["video"] = "BLACK"))
      <3>1. ASSUME \A i \in 1..Len(pending') : ~ClickAt(i)'
            PROVE  \A j \in 1..Len(pending) : 1 < j => ~ClickAt(j)
        <4> SUFFICES ASSUME NEW j \in 1..Len(pending), 1 < j PROVE ~ClickAt(j)
          OBVIOUS
        <4>1. j - 1 \in 1..Len(pending') /\ (j - 1) + 1 = j
          BY <1>4
        <4> QED BY <4>1, <3>1, <2>1
      <3>2. ClickAt(1) <=> e.by = "user"
        BY <1>2, <1>5 DEF ClickAt
      <3>3. CASE "video" \in DOMAIN e.sets
        <4>1. CASE Applied(e)
          <5>1. /\ clicked' = IF clicked = "lost" THEN "lost"
                              ELSE IF e.by = "user" THEN "yes" ELSE "no"
                /\ actual'["video"] = e.sets["video"]
            BY <3>3, <4>1 DEF Applied, After, Setting
          <5> QED BY <5>1, <3>1, <3>2, <1>2, <1>5 DEF ClicksShown
        <4>2. CASE Failed(e)
          BY <4>2, <3>3 DEF Failed
        <4> QED BY <4>1, <4>2, <1>6
      <3>4. CASE "video" \notin DOMAIN e.sets
        <4>1. clicked' = clicked
          BY <3>4, <1>6 DEF Applied, Failed
        <4>2. actual'["video"] = actual["video"]
          BY <3>4, <1>6 DEF Applied, Failed, After, Setting
        <4>3. ~ClickAt(1)
          BY <3>4, <1>2, <1>5 DEF ClicksShown
        <4>4. ASSUME \A i \in 1..Len(pending') : ~ClickAt(i)'
              PROVE  \A j \in 1..Len(pending) : ~ClickAt(j)
          BY <4>3, <4>4, <3>1
        <4> QED BY <4>1, <4>2, <4>4 DEF ClicksShown
      <3> QED BY <3>3, <3>4
    <2> QED BY <2>2, <2>3, <1>1 DEF ClicksShown
  <1>12. DOMAIN actual' = Setting
    BY <1>6 DEF Applied, Failed, After
  <1>13. Typed'
    BY <1>1, <1>3, <1>4, <1>11, <1>12
  <1>14. CASE e.by = "relay" /\ watched \in DOMAIN e.sets /\ ~TouchedLater(watched) /\ Applied(e)
    <2>1. acked' = {e.sets[watched]}
      BY <1>14 DEF Applied
    <2>2. actual'[watched] = e.sets[watched]
      BY <1>14 DEF Applied, After
    <2>3. e.sets[watched] = Believed(watched)
      BY <1>14, <1>2, <1>5 DEF Current, Says
    <2>4. \A i \in 1..Len(pending') : watched \notin DOMAIN pending'[i].sets
      BY <1>14, <1>4, <1>5, <1>8 DEF TouchedLater
    <2> QED BY <2>1, <2>2, <2>3, <2>4, <1>1, <1>7, <1>9, <1>10, <1>11, <1>13
            DEF Quiescent, Confirmed, Believable
  <1>15. CASE ~(e.by = "relay" /\ watched \in DOMAIN e.sets /\ ~TouchedLater(watched) /\ Applied(e))
    <2>1. acked' = acked
      BY <1>15, <1>6 DEF Applied, Failed
    <2>2. acked # {} => watched \notin DOMAIN e.sets
      BY <1>2, <1>5 DEF Quiescent
    <2>3. watched \notin DOMAIN e.sets => actual'[watched] = actual[watched]
      BY <1>6 DEF Applied, Failed, After
    <2>4. Quiescent'
      BY <2>1, <1>1, <1>4 DEF Quiescent
    <2>5. Confirmed'
      BY <2>1, <2>2, <2>3, <1>1 DEF Confirmed
    <2>6. Believable'
      BY <2>1, <1>1, <1>7 DEF Believable
    <2> QED BY <2>4, <2>5, <2>6, <1>9, <1>10, <1>11, <1>13
  <1> QED BY <1>14, <1>15

LEMMA RestartKeeps == IInv /\ Restart => IInv'
  <1> SUFFICES ASSUME IInv, Restart PROVE IInv'
    OBVIOUS
  <1> USE DEF IInv, Typed
  <1>1. UNCHANGED <<quality, placeholder, outbox, remotePaused, watched>>
        /\ pending' = <<>> /\ awaiting' = FALSE /\ acked' = {} /\ actual' = Startup
    BY DEF Restart, ladderVars
  <1>2. clicked' = "no"
    BY DEF Restart
  <1>3. Typed'
    <2>1. <<>> \in Seq(Entry)
      OBVIOUS
    <2>2. pending' \in Seq(Entry)
      BY <1>1, <2>1
    <2>3. DOMAIN actual' = Setting
      BY <1>1, LoopAssumption
    <2> QED BY <1>1, <1>2, <2>2, <2>3
  <1>4. Current'
    BY <1>1, Unmoved DEF Current, Says
  <1>5. OneOfRelay' /\ Quiescent' /\ Confirmed' /\ Believable'
    BY <1>1 DEF OneOfRelay, Quiescent, Confirmed, Believable
  <1>6. ClicksShown'
    BY <1>1, <1>2 DEF ClicksShown, ClickAt
  <1> QED BY <1>3, <1>4, <1>5, <1>6

LEMMA ClickKeeps == IInv /\ Click => IInv'
  <1> SUFFICES ASSUME IInv, Click PROVE IInv'
    OBVIOUS
  <1> USE DEF IInv, Typed
  <1>1. UNCHANGED <<quality, placeholder, outbox, awaiting, actual, watched>>
    BY DEF Click, relayVars, ladderVars
  <1>2. \A f : Believed(f)' = Believed(f)
    BY <1>1, Unmoved
  <1>3. PICK sent, reached \in BOOLEAN :
          /\ reached => sent
          /\ IF reached
             THEN /\ pending' = Received(pending, [sets |-> IF remotePaused THEN Resume ELSE Pause,
                                                   by |-> "user"])
                  /\ Forget(IF remotePaused THEN Resume ELSE Pause)
                  /\ clicked' = IF clicked = "lost" THEN "no" ELSE clicked
             ELSE /\ UNCHANGED <<pending, acked>>
                  /\ clicked' = IF sent THEN "lost" ELSE clicked
          /\ remotePaused' = Flipped(sent)
    BY DEF Click
  <1>4. CASE ~reached
    <2>1. UNCHANGED <<pending, acked>>
      BY <1>3, <1>4
    <2>5. /\ remotePaused' \in BOOLEAN /\ clicked' \in {"no", "yes", "lost"}
          /\ clicked' = "lost" \/ UNCHANGED <<remotePaused, clicked>>
      BY <1>3, <1>4 DEF Flipped
    <2>2. Typed' /\ OneOfRelay' /\ Quiescent' /\ Confirmed'
      BY <2>1, <2>5, <1>1 DEF OneOfRelay, Quiescent, Confirmed
    <2>3. Current' /\ Believable'
      BY <2>1, <1>1, <1>2 DEF Current, Says, Believable
    <2>4. ClicksShown'
      BY <2>1, <2>5, <1>1 DEF ClicksShown, ClickAt
    <2> QED BY <2>2, <2>3, <2>4
  <1>5. CASE reached
    <2>1. remotePaused' = ~remotePaused
      BY <1>3, <1>5 DEF Flipped
    <2>0. clicked' \in {"no", "yes"}
      BY <1>3, <1>5
    <2>2. PICK c \in Cmd : /\ c = IF remotePaused THEN Resume ELSE Pause
                           /\ "video" \in DOMAIN c
                           /\ c["video"] = "BLACK" <=> remotePaused'
      BY <2>1, Singles
    <2>3. PICK e \in Entry : e.sets = c /\ e.by = "user" /\ pending' = Append(pending, e)
      BY <1>3, <1>5, <2>2 DEF Received, Entry
    <2>4. /\ pending' \in Seq(Entry) /\ Len(pending') = Len(pending) + 1 /\ Len(pending) \in Nat
          /\ \A i \in 1..Len(pending) : pending'[i] = pending[i]
          /\ pending'[Len(pending) + 1] = e
      BY <2>3
    <2>5. acked' = IF watched \in DOMAIN c THEN {} ELSE acked
      BY <1>3, <1>5, <2>2 DEF Forget
    <2>6. Typed'
      BY <1>1, <2>0, <2>1, <2>4
    <2>7. OneOfRelay'
      BY <1>1, <2>3, <2>4 DEF OneOfRelay
    <2>8. Current'
      BY <1>1, <1>2, <2>3, <2>4 DEF Current, Says
    <2>9. Quiescent' /\ Confirmed'
      BY <1>1, <2>3, <2>4, <2>5 DEF Quiescent, Confirmed
    <2>10. Believable'
      BY <1>1, <1>2, <2>5 DEF Believable
    <2>11. ClicksShown'
      <3>0. PICK n \in Nat : n = Len(pending)
        BY <2>4
      <3>1. ClickAt(n + 1)'
        BY <3>0, <2>3, <2>4 DEF ClickAt
      <3>2. ASSUME NEW i \in 1..Len(pending'), ClickAt(i)'
            PROVE  /\ "video" \in DOMAIN pending'[i].sets
                   /\ clicked' # "lost" /\ (\A j \in 1..Len(pending') : i < j => ~ClickAt(j)') =>
                         (remotePaused' <=> pending'[i].sets["video"] = "BLACK")
        <4>1. CASE i = n + 1
          BY <4>1, <3>0, <2>2, <2>3, <2>4
        <4>2. CASE i # n + 1
          <5>1. i \in 1..n /\ ClickAt(i) /\ pending'[i] = pending[i]
            BY <4>2, <3>0, <3>2, <2>4 DEF ClickAt
          <5>2. i < n + 1 /\ n + 1 \in 1..Len(pending')
            BY <5>1, <3>0, <2>4
          <5> QED BY <5>1, <5>2, <3>0, <3>1, <2>1 DEF ClicksShown
        <4> QED BY <4>1, <4>2
      <3>3. n + 1 \in 1..Len(pending')
        BY <3>0, <2>4
      <3> QED BY <3>1, <3>2, <3>3 DEF ClicksShown
    <2> QED BY <2>6, <2>7, <2>8, <2>9, <2>10, <2>11
  <1> QED BY <1>4, <1>5
-----------------------------------------------------------------------------
LEMMA Kept == IInv /\ [Next]_vars => IInv'
  <1> SUFFICES ASSUME IInv, [Next]_vars PROVE IInv'
    OBVIOUS
  <1>1. ASSUME UNCHANGED vars PROVE IInv'
    <2>1. UNCHANGED <<quality, placeholder, outbox, awaiting, pending, actual,
                      remotePaused, watched, acked, clicked>>
      BY <1>1 DEF vars, relayVars, ladderVars, history
    <2>2. Typed' /\ OneOfRelay' /\ Quiescent' /\ Confirmed'
      BY <2>1 DEF IInv, Typed, OneOfRelay, Quiescent, Confirmed
    <2>3. Current' /\ Believable'
      BY <2>1, Unmoved DEF IInv, Current, Says, Believable
    <2>4. ClicksShown'
      BY <2>1 DEF IInv, ClicksShown, ClickAt
    <2> QED BY <2>2, <2>3, <2>4 DEF IInv
  <1> QED BY <1>1, RoundKeeps, ReachKeeps, UnreachedKeeps, GiveUpKeeps, ApplyKeeps,
             RestartKeeps, ClickKeeps DEF Next

LEMMA Inductive == Spec => []IInv
  <1> QED BY AtInit, Kept, PTL DEF Spec

(* An OK can be relied on, whatever is lost, late or restarted: the value  *)
(* the pusher confirmed (control_execute_sync) stays in force until another*)
(* command on that setting is under way, and between two decisions of the  *)
(* relay it is the one the controller believes in.                         *)
THEOREM InForceCorrect == Spec => []InForce
  <1>1. IInv => InForce
    <2> SUFFICES ASSUME IInv PROVE InForce
      OBVIOUS
    <2>1. RelayIdle => acked \subseteq {Believed(watched)}
      BY DEF IInv, RelayIdle, Believable
    <2> QED BY <2>1 DEF IInv, Confirmed, InForce
  <1> QED BY <1>1, Inductive, PTL

(* The pause button (main.cpp) lies only after a click that was sent and   *)
(* did not arrive, or about a mode that is not a click's doing: although   *)
(* nobody reads the answers, the last click to arrive puts it right.       *)
THEOREM ButtonHonestCorrect == Spec => []ButtonHonest
  <1>1. IInv => ButtonHonest
    <2> SUFFICES ASSUME IInv, clicked = "yes", ~ModePending
                 PROVE  remotePaused <=> actual["video"] = "BLACK"
      BY DEF ButtonHonest
    <2>1. \A i \in 1..Len(pending) : ~ClickAt(i)
      BY DEF IInv, Typed, ClicksShown, ClickAt, ModePending
    <2> QED BY <2>1 DEF IInv, ClicksShown
  <1> QED BY <1>1, Inductive, PTL
-----------------------------------------------------------------------------
(* What BlackEnds lacks.  A command on setting f is lost when it is        *)
(* skipped, fails, or goes down with the pusher; the pause button is       *)
(* another will.                                                           *)
Heeded(f) ==
    /\ Unreached => f \notin DOMAIN Head(outbox)
    /\ Apply /\ f \in DOMAIN Head(pending).sets => actual'[f] = Head(pending).sets[f]
    /\ ~Restart
    /\ Click => UNCHANGED pending \/ f \notin {"video", "audio"}

InOutbox(f) == \E i \in 1..Len(outbox) : f \in DOMAIN outbox[i]
InPending(f) == \E i \in 1..Len(pending) : f \in DOMAIN pending[i].sets
Agreed(f) == InOutbox(f) \/ InPending(f) \/ actual[f] = Believed(f)

(* The last command on f under way says what the controller believes.      *)
LastSays(f) ==
    \E i \in 1..Len(pending) :
        /\ f \in DOMAIN pending[i].sets /\ pending[i].sets[f] = Believed(f)
        /\ \A j \in 1..Len(pending) : i < j => f \notin DOMAIN pending[j].sets
Heading(f) ==
    \/ InOutbox(f)
    \/ LastSays(f)
    \/ ~InPending(f) /\ actual[f] = Believed(f)

LEMMA RoundHeads ==
    ASSUME IInv, NEW f \in Setting, Heading(f), Round PROVE Heading(f)'
  <1> USE DEF IInv, Typed
  <1>1. UNCHANGED <<pending, actual>> /\ outbox = <<>> /\ Ladder!Decide
    BY DEF Round, RelayIdle
  <1>2. outbox' = Commands(told', quality')
    BY DEF Round
  <1>3. Believed(f)' = Believed(f) \/ \E i \in 1..Len(outbox') : f \in DOMAIN outbox'[i]
    BY <1>1, <1>2, CommandsFacts
  <1>4. LastSays(f) \/ (~InPending(f) /\ actual[f] = Believed(f))
    BY <1>1 DEF Heading, InOutbox
  <1>5. CASE \E i \in 1..Len(outbox') : f \in DOMAIN outbox'[i]
    BY <1>5 DEF Heading, InOutbox
  <1>6. CASE Believed(f)' = Believed(f)
    BY <1>1, <1>4, <1>6 DEF Heading, LastSays, InPending
  <1> QED BY <1>3, <1>5, <1>6

LEMMA ReachHeads ==
    ASSUME IInv, NEW f \in Setting, Heading(f), Reach PROVE Heading(f)'
  <1> USE DEF IInv, Typed
  <1>1. UNCHANGED <<quality, placeholder, actual>>
        /\ outbox # <<>> /\ outbox' = Tail(outbox)
    BY DEF Reach, Taken
  <1>2. PICK c \in Cmd : c = Head(outbox) /\ c = outbox[1]
    BY <1>1
  <1>3. PICK e \in Entry : e.sets = c /\ pending' = Append(pending, e)
    BY <1>2 DEF Reach, Received, Entry
  <1>4. \A i \in 2..Len(outbox) : i - 1 \in 1..Len(outbox') /\ outbox[i] = outbox'[i - 1]
    BY <1>1
  <1>5. /\ Len(pending) \in Nat /\ Len(pending') = Len(pending) + 1
        /\ \A i \in 1..Len(pending) : pending'[i] = pending[i]
        /\ pending'[Len(pending) + 1] = e
    BY <1>3
  <1>6. Believed(f)' = Believed(f)
    BY <1>1, Unmoved
  <1>7. CASE f \in DOMAIN c
    <2>1. c[f] = Believed(f)
      BY <1>1, <1>2, <1>7 DEF Current, Says
    <2>2. LastSays(f)'
      BY <1>3, <1>5, <1>6, <1>7, <2>1 DEF LastSays
    <2> QED BY <2>2 DEF Heading
  <1>8. CASE f \notin DOMAIN c
    <2>1. InOutbox(f) => InOutbox(f)'
      <3> SUFFICES ASSUME NEW i \in 1..Len(outbox), f \in DOMAIN outbox[i]
                   PROVE  InOutbox(f)'
        BY DEF InOutbox
      <3>1. i \in 2..Len(outbox)
        BY <1>2, <1>8
      <3> QED BY <1>4, <3>1 DEF InOutbox
    <2>2. LastSays(f) => LastSays(f)'
      <3>0. PICK n \in Nat : n = Len(pending)
        BY <1>5
      <3> SUFFICES ASSUME NEW i \in 1..n, f \in DOMAIN pending[i].sets,
                          pending[i].sets[f] = Believed(f),
                          \A j \in 1..n : i < j => f \notin DOMAIN pending[j].sets
                   PROVE  LastSays(f)'
        BY <3>0 DEF LastSays
      <3>1. i \in 1..Len(pending') /\ pending'[i] = pending[i]
        BY <3>0, <1>5
      <3>2. ASSUME NEW j \in 1..Len(pending'), i < j PROVE f \notin DOMAIN pending'[j].sets
        <4>1. j \in 1..n \/ j = n + 1
          BY <3>0, <1>5
        <4>2. CASE j \in 1..n
          BY <3>0, <3>2, <4>2, <1>5
        <4>3. CASE j = n + 1
          BY <3>0, <4>3, <1>5, <1>3, <1>8
        <4> QED BY <4>1, <4>2, <4>3
      <3>3. pending'[i].sets[f] = Believed(f)'
        BY <1>6, <3>1
      <3> QED BY <3>1, <3>2, <3>3 DEF LastSays
    <2>3. ~InPending(f) => ~InPending(f)'
      BY <1>3, <1>5, <1>8 DEF InPending
    <2> QED BY <1>1, <1>6, <2>1, <2>2, <2>3 DEF Heading
  <1> QED BY <1>7, <1>8

LEMMA UnreachedHeads ==
    ASSUME IInv, NEW f \in Setting, Heading(f), Heeded(f), Unreached PROVE Heading(f)'
  <1> USE DEF IInv, Typed
  <1>1. UNCHANGED <<quality, placeholder, pending, actual>>
        /\ outbox # <<>> /\ outbox' = Tail(outbox)
    BY DEF Unreached, Taken
  <1>2. f \notin DOMAIN outbox[1]
    BY <1>1 DEF Heeded
  <1>3. \A i \in 2..Len(outbox) : i - 1 \in 1..Len(outbox') /\ outbox[i] = outbox'[i - 1]
    BY <1>1
  <1>4. Believed(f)' = Believed(f)
    BY <1>1, Unmoved
  <1>5. InOutbox(f) => InOutbox(f)'
    <2> SUFFICES ASSUME NEW i \in 1..Len(outbox), f \in DOMAIN outbox[i]
                 PROVE  InOutbox(f)'
      BY DEF InOutbox
    <2>1. i \in 2..Len(outbox)
      BY <1>2
    <2> QED BY <1>3, <2>1 DEF InOutbox
  <1> QED BY <1>1, <1>4, <1>5 DEF Heading, LastSays, InPending

LEMMA GiveUpHeads ==
    ASSUME IInv, NEW f \in Setting, Heading(f), GiveUp PROVE Heading(f)'
  <1> USE DEF IInv, Typed
  <1>1. UNCHANGED <<quality, placeholder, outbox, actual>>
    BY DEF GiveUp, ladderVars
  <1>2. pending' = [i \in DOMAIN pending |->
                      [pending[i] EXCEPT !.by = IF @ = "relay" THEN "late" ELSE @]]
    BY DEF GiveUp
  <1>3. DOMAIN pending = 1..Len(pending) /\ Len(pending) \in Nat
    OBVIOUS
  <1>4. \A i \in 1..Len(pending) : pending'[i].sets = pending[i].sets
    <2> SUFFICES ASSUME NEW i \in 1..Len(pending)
                 PROVE  pending'[i].sets = pending[i].sets
      OBVIOUS
    <2>1. pending[i] \in Entry
      BY <1>3
    <2>2. pending'[i] = [pending[i] EXCEPT !.by = IF pending[i].by = "relay" THEN "late" ELSE pending[i].by]
      BY <1>2, <1>3
    <2> QED BY <2>1, <2>2 DEF Entry
  <1>5. Len(pending') = Len(pending)
    <2>1. pending' \in Seq(Entry)
      BY GiveUpKeeps
    <2>2. DOMAIN pending' = DOMAIN pending
      BY <1>2
    <2>3. DOMAIN pending' = 1..Len(pending') /\ Len(pending') \in Nat
      BY <2>1
    <2> QED BY <1>3, <2>2, <2>3
  <1>6. Believed(f)' = Believed(f)
    BY <1>1, Unmoved
  <1>7. LastSays(f) => LastSays(f)'
    BY <1>4, <1>5, <1>6 DEF LastSays
  <1>8. ~InPending(f) => ~InPending(f)'
    BY <1>4, <1>5 DEF InPending
  <1>9. InOutbox(f) => InOutbox(f)'
    BY <1>1 DEF InOutbox
  <1> QED BY <1>1, <1>6, <1>7, <1>8, <1>9 DEF Heading

(* The head is applied: it was the last command on f, or another follows.  *)
LEMMA ApplyHeads ==
    ASSUME IInv, NEW f \in Setting, Heading(f), Heeded(f), Apply PROVE Heading(f)'
  <1> USE DEF IInv, Typed
  <1>1. UNCHANGED <<quality, placeholder, outbox>>
        /\ pending # <<>> /\ pending' = Tail(pending)
    BY DEF Apply, ladderVars
  <1>2. PICK e \in Entry : e = Head(pending) /\ e = pending[1]
    BY <1>1
  <1>3. /\ Len(pending) \in Nat /\ Len(pending') = Len(pending) - 1
        /\ \A i \in 1..Len(pending') : i + 1 \in 1..Len(pending) /\ pending'[i] = pending[i + 1]
        /\ \A i \in 2..Len(pending) : i - 1 \in 1..Len(pending') /\ pending[i] = pending'[i - 1]
    BY <1>1
  <1>4. Believed(f)' = Believed(f)
    BY <1>1, Unmoved
  <1>5. f \in DOMAIN e.sets => actual'[f] = e.sets[f]
    BY <1>2 DEF Heeded
  <1>6. f \notin DOMAIN e.sets => actual'[f] = actual[f]
    BY <1>2 DEF Apply, Applied, Failed, After
  <1>7. CASE InOutbox(f)
    BY <1>1, <1>7 DEF Heading, InOutbox
  <1>8. CASE ~InPending(f) /\ actual[f] = Believed(f)
    <2>1. f \notin DOMAIN e.sets /\ ~InPending(f)'
      BY <1>1, <1>2, <1>3, <1>8 DEF InPending
    <2> QED BY <1>4, <1>6, <1>8, <2>1 DEF Heading
  <1>9. CASE LastSays(f)
    <2>1. PICK i \in 1..Len(pending) :
            /\ f \in DOMAIN pending[i].sets /\ pending[i].sets[f] = Believed(f)
            /\ \A j \in 1..Len(pending) : i < j => f \notin DOMAIN pending[j].sets
      BY <1>9 DEF LastSays
    <2>2. CASE i = 1
      <3>1. actual'[f] = Believed(f)'
        BY <1>2, <1>4, <1>5, <2>1, <2>2
      <3>2. ~InPending(f)'
        <4> SUFFICES ASSUME NEW j \in 1..Len(pending'), f \in DOMAIN pending'[j].sets
                     PROVE  FALSE
          BY DEF InPending
        <4>1. j + 1 \in 1..Len(pending) /\ 1 < j + 1 /\ pending'[j] = pending[j + 1]
          BY <1>3
        <4> QED BY <2>1, <2>2, <4>1
      <3> QED BY <3>1, <3>2 DEF Heading
    <2>3. CASE i # 1
      <3>1. i \in 2..Len(pending)
        BY <1>3, <2>1, <2>3
      <3>2. i - 1 \in 1..Len(pending') /\ pending'[i - 1] = pending[i]
        BY <1>3, <3>1
      <3>3. ASSUME NEW j \in 1..Len(pending'), i - 1 < j
            PROVE  f \notin DOMAIN pending'[j].sets
        <4>1. j + 1 \in 1..Len(pending) /\ pending'[j] = pending[j + 1]
          BY <1>3
        <4>2. i < j + 1
          BY <3>1, <3>3, <1>3
        <4> QED BY <2>1, <4>1, <4>2
      <3>4. LastSays(f)'
        BY <1>4, <2>1, <3>2, <3>3 DEF LastSays
      <3> QED BY <3>4 DEF Heading
    <2> QED BY <2>2, <2>3
  <1> QED BY <1>7, <1>8, <1>9 DEF Heading

LEMMA ClickHeads ==
    ASSUME IInv, NEW f \in Setting, Heading(f), Heeded(f), Click PROVE Heading(f)'
  <1> USE DEF IInv, Typed
  <1>1. UNCHANGED <<quality, placeholder, outbox, actual>>
    BY DEF Click, relayVars, ladderVars
  <1>2. Believed(f)' = Believed(f)
    BY <1>1, Unmoved
  <1>3. CASE UNCHANGED pending
    BY <1>1, <1>2, <1>3 DEF Heading, InOutbox, InPending, LastSays
  <1>4. CASE ~UNCHANGED pending
    <2>1. f \notin {"video", "audio"}
      BY <1>4 DEF Heeded
    <2>2. PICK c \in {Resume, Pause} : pending' = Append(pending, [sets |-> c, by |-> "user"])
      BY <1>4 DEF Click, Received
    <2> DEFINE e == [sets |-> c, by |-> "user"]
    <2>3. f \notin DOMAIN e.sets
      BY <2>1, Singles
    <2>4. /\ Len(pending) \in Nat /\ Len(pending') = Len(pending) + 1
          /\ \A i \in 1..Len(pending) : pending'[i] = pending[i]
          /\ pending'[Len(pending) + 1] = e
      BY <2>2
    <2> HIDE DEF e
    <2>5. LastSays(f) => LastSays(f)'
      <3>0. PICK n \in Nat : n = Len(pending)
        BY <2>4
      <3> SUFFICES ASSUME NEW i \in 1..n, f \in DOMAIN pending[i].sets,
                          pending[i].sets[f] = Believed(f),
                          \A j \in 1..n : i < j => f \notin DOMAIN pending[j].sets
                   PROVE  LastSays(f)'
        BY <3>0 DEF LastSays
      <3>1. i \in 1..Len(pending') /\ pending'[i] = pending[i]
        BY <3>0, <2>4
      <3>2. ASSUME NEW j \in 1..Len(pending'), i < j PROVE f \notin DOMAIN pending'[j].sets
        <4>1. j \in 1..n \/ j = n + 1
          BY <3>0, <2>4
        <4>2. CASE j \in 1..n
          BY <3>0, <3>2, <4>2, <2>4
        <4>3. CASE j = n + 1
          BY <3>0, <4>3, <2>4, <2>3
        <4> QED BY <4>1, <4>2, <4>3
      <3>3. pending'[i].sets[f] = Believed(f)'
        BY <1>2, <3>1
      <3> QED BY <3>1, <3>2, <3>3 DEF LastSays
    <2>6. ~InPending(f) => ~InPending(f)'
      BY <2>3, <2>4 DEF InPending
    <2> QED BY <1>1, <1>2, <2>5, <2>6 DEF Heading, InOutbox
  <1> QED BY <1>3, <1>4

(* As long as no command on a setting is lost, the pusher has the value the*)
(* controller believes in whenever no command on it is under way, however  *)
(* late the answers are and whatever happens to the other settings.  So    *)
(* losing commands is the only reason why black can stay (BlackEnds): they *)
(* are not sent again.                                                     *)
THEOREM AgreedUnlessLost ==
    ASSUME NEW f \in Setting
    PROVE  Spec /\ actual[f] = Believed(f) /\ [][Heeded(f)]_vars => []Agreed(f)
  <1>1. Init /\ actual[f] = Believed(f) => Heading(f)
    BY DEF Init, Heading, InPending
  <1>2. IInv /\ Heading(f) /\ [Next]_vars /\ [Heeded(f)]_vars => Heading(f)'
    <2> SUFFICES ASSUME IInv, Heading(f), [Next]_vars, [Heeded(f)]_vars PROVE Heading(f)'
      OBVIOUS
    <2>1. CASE UNCHANGED vars
      <3>1. UNCHANGED <<quality, placeholder, outbox, pending, actual>>
        BY <2>1 DEF vars, relayVars, ladderVars
      <3>2. Believed(f)' = Believed(f)
        BY <3>1, Unmoved
      <3> QED BY <3>1, <3>2 DEF Heading, InOutbox, InPending, LastSays
    <2>2. CASE Next /\ Heeded(f)
      <3>1. ~Restart
        BY <2>2 DEF Heeded
      <3> QED BY <2>2, <3>1, RoundHeads, ReachHeads, UnreachedHeads, GiveUpHeads,
                 ApplyHeads, ClickHeads DEF Next
    <2> QED BY <2>1, <2>2
  <1>3. Heading(f) => Agreed(f)
    BY DEF Heading, Agreed, LastSays, InPending
  <1> QED BY <1>1, <1>2, <1>3, Inductive, PTL DEF Spec
=============================================================================
