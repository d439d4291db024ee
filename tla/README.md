# Verification of the live video chain: relay, pusher control, controllers

The repository is a low-latency live video chain in three programs:

* the **pusher** (`pusher/`, C, GStreamer) captures and encodes, sends MPEG-TS
  over SRT, and obeys commands on a TCP port;
* the **relay** (`srt_server/`, C++) takes one publisher, fans its chunks out to
  many subscribers, watches them, and steers the pusher;
* the **player** (`player/`, C++, Windows) receives, decodes, renders and
  records, and can pause the pusher; `load_test/` is a headless crowd of
  players and `dashboard.html` shows the relay's numbers.

This directory holds TLA+ models of the parts with concurrency, failure or
long-running decisions in them, TLC runs on small instances, and proofs for
every value of the constants.

## 1. Inventory

| Component | State it keeps | Operations | What is hard | What makes it correct |
|---|---|---|---|---|
| Relay fan-out (`relay_server.hpp`, `subscriber_session.hpp`) | map of sessions under `sub_mu_`, per session a queue under its own mutex, atomics `closing_`, `running_`, `control_action_`, an epoll set private to the sender, an eventfd, `subscriber_count` | accept, `broadcast`/`push_chunk`, `subscriber_send_loop`/`send_one`, monitor evaluation, `stop` | five threads; stale reads between locks; sockets that break; shutdown in the middle of anything | order, no silent loss, bounded queues, no lost wake-up, nothing touched after it was stopped, clean and terminating shutdown |
| Subscriber controller (`subscriber_controller.hpp`) | action, four cycle counters, two times | `update` every monitor round | order of tests, cooldowns, counters that go stale | severe subscribers are held, silent ones closed within a bound the pace of the rounds gives, no unjustified action |
| Global controller (`global_controller.hpp`) | believed quality, placeholder, counters, five times | `update` every monitor round | integer ladder, cooldowns that may starve one another, counters across stalls | bounds, honest state, every change announced, recovery and escalation |
| Pusher control (`control_server.c`, `srt_cam_push.c`) | listening socket, stop flag, one shared request, the pipeline | accept, parse, invoke in the main context, wait, reply; start and stop | timeout racing a late callback, callback run inline, shutdown against a blocked thread | exact reference count, OK means applied, order, one callback at a time, nothing applied after the release, termination |
| Closed loop (`execute_global_decision`, `send_pusher_command`, `pusher_control_client.hpp`, the pause button) | none of its own; the button's `remote_paused` | turns a decision into commands, sends each over a connection of its own, waits 1.2 s for the answer | lost, late, failed and partly done commands, a second client, a restarted pusher; belief against reality | an OK can be relied on; the button tells the truth; black video ends |
| Publisher ingest (`accept_publisher_loop`, `publisher_read_loop`, `ts_validator.hpp`) | the one publisher socket, activity time, validator state | accept one, read, validate, broadcast | the idle timeout, state kept across publishers, `stop()` between `srt_accept` and the store | a silent publisher goes, a good one is not refused, a waiting one is served, `stop()` returns |
| WebSocket broadcaster (`ws_broadcaster.hpp`) | set of client descriptors | accept, handshake threads, broadcast, stop | descriptors closed twice and reused, detached threads | a dashboard that stays, and sends no empty frame, is served |
| Player (`FFmpegD3D11Player.h`, `Recorder.cpp`, `main.cpp`, `PlayerUi.h`) | lifecycle state, stop flag, one status under a mutex, recorder, posted repaint events | start, stop, record button, the playing thread (connect, read, record, reconnect) | the status is read in one critical section and answered in a later one; stop at any point; the recorder points into the open input | recorder never outlives its input, truthful record phase, no lost repaint, stop leaves nothing and returns |
| Load test, host monitor, CLI, dashboard, renderer, decoding, devices | counters, settings | one thread each or one-shot, display only | - | not modelled (section 5) |

How they interact: the publisher thread calls `broadcast`, which fills queues
and writes the eventfd; the sender thread wakes and sends; the monitor thread
samples every session through its subscriber controller, feeds the share of bad
sessions, the drop total and the publisher's idle time to the global
controller, and sends its decision to the pusher's control server over a TCP
connection per command, from the monitor thread itself. The player is a second
client of that server. `PROJECT.json` lists the hazards line by line.

## 2. Modules

| Module | Models | Uses |
|---|---|---|
| `RelayFanout` | the subscriber side of the relay, five threads | `LossyStream` |
| `LossyStream` | what the relay promises a subscriber: abstract | - |
| `MCRelayFanout` | symmetry for TLC | `RelayFanout` |
| `PublisherIngest` | acceptor, reader, validator and `stop()`, with time | - |
| `MCPublisherIngest` | two publishers | `PublisherIngest` |
| `SubscriberController` | one session's controller and its clock | - |
| `GlobalController` | the global controller and its rounds | `QualityLadder` |
| `QualityLadder` | what the global controller promises: abstract | - |
| `MCGlobalController` | a small ladder | `GlobalController` |
| `ClosedLoop` | the ladder, the relay's sending, the pusher, the pause button, with faults | `QualityLadder` |
| `MCClosedLoop` | a ladder of two rungs | `ClosedLoop` |
| `PusherControl` | control thread, main loop, clients | - |
| `MCPusherControl` | small command sets | `PusherControl` |
| `PlayerLifecycle` | the player's main thread and playing thread, with the recorder | - |
| `WsBroadcaster` | accept thread, handshake threads, broadcast, stop, descriptors | - |
| `RelayFanoutProofs`, `PublisherIngestProofs`, `SubscriberControllerProofs`, `GlobalControllerProofs`, `ClosedLoopProofs`, `PusherControlProofs`, `PlayerLifecycleProofs`, `WsBroadcasterProofs` | the theorems | the module they are about |

Each model's variables carry the source's name in the comment of their
declaration; every definition that stands for code is in `map` with its lines.

### RelayFanout

One action per critical section or library call of a thread. `lock` is
`sub_mu_` when it is held over several steps (`broadcast`, the monitor); the
critical sections of a session's own `mu_` are one step each. What a thread
carries from one critical section to the next is a variable: `wants` is the
queue depth the sender read before it set the epoll events, `chunk` the front
it copied before `srt_send`, `accSub` the session built and not yet inserted.
`reg` is the sender's `registered` map with the events asked for. Chunks are
numbers; a null-TS chunk is marked. `dropped`, `accepted` and `wire` are
history: what `subscriber_queue_drops` counted, what `push_chunk` took, what
`srt_send` took. SRT is the environment: a socket may break at any time, its
send buffer may fill after any send and drain later, epoll calls may fail, and
`srt_accept` may fail at any time, which ends the acceptor (`AccExit`). The
subscriber controller is here any choice of action (`MonEvaluate`), so that the
fan-out is correct whatever the controller decides.

`LossyStream` is the same without threads: per reader, what was accepted, what
is pending, what was counted as lost and what was delivered. The refinement
mapping is the session's own state, except that a chunk that was sent and not
yet popped is already delivered and no longer pending, and that the readers are
the live sessions. One thing the mapping brings to light is part of the
abstract specification: a chunk dropped while it is being sent is counted as
lost and delivered all the same (`DeliverLate`, `InDoubt`).

### PublisherIngest

One action per call or critical section of `accept_publisher_loop` and
`publisher_read_loop`, and `stop()` in its three steps. Time is three ages in
ticks: since `srt_recv` was called, since `publisher_last_active_at_ms`, since
`broadcast` was called. `srt_recv` times out after `Limit`, which is also the
idle limit, as in the code. A chunk is the set of tables the validator finds in
it and whether it ends in a packet without a sync byte; the validator keeps the
PMT pid, `saw_pmt_` and `saw_h264_` when the publisher changes, as the code
does, and `shown` is history. `AccFailed` is an error of `srt_accept`, which ends
the acceptor for good, also while the relay runs.

### SubscriberController

`Evaluate(g, d, i)` is `evaluate_control`: `g` ms after the previous one, with
queue depth `d`, `i` ms after the last send. `Silent` lets the idle time grow
by exactly the gap, `Sent` sets it to less than the gap. Gaps are 2 s, the
default interval, and 10 s: the monitor thread sends the commands of a decision
itself, at most three of them, each of up to 2.4 s when the pusher does not
answer. `idle`,
`heldSince` and `recent` are history: how long nothing was sent, since when the
session is held as seen from outside, and the last three samples.

### GlobalController

`Update` is one round of the monitor. The five `last_*_ms_` occur only in
`now_ms - last_*_ms_`, so the state keeps ages, cut off at the longest
cooldown, and the model has no clock to bound. The ladder is the code's integer
arithmetic. `round` flips with every round so that a round that changes nothing
else is a step for fairness; `sample` remembers the kind of the last round.
`QualityLadder` keeps only the quality, the placeholder and what the decision
names; the mapping is `told <- Told(decision)`.

### ClosedLoop

The controller is a `QualityLadder` taken by `INSTANCE`: any decision the real
one can make, at any time, so the closed loop is right whatever the network
reports. `outbox` is the rest of a decision's commands in
`execute_global_decision`; `Reach`, `Unreached` and `GiveUp` are the outcomes of
one `send_command`. `pending` is the queue the control server is, as
`PusherControl` shows (commands apply in the order received, also late ones).
A command is the record of the settings it changes. `Failed` applies any part
of it, since the server goes on after one of its settings failed and answers
ERR. A click flips the button when the bytes were sent, whether or not they
reach the pusher (`ControlClient.cpp:51-53`). `watched`, `acked` and `clicked`
are history; `clicked` is "lost" after a click that was sent and did not arrive.

### PusherControl

`refs`, `done`, `ok` are the fields of a `ControlRequest`. `owner` is the owner
of the GLib main context: `g_main_context_invoke_full` runs the callback in the
calling thread when nobody owns the context, which is the case before `main`
enters the loop and after it left; both windows are in the model. `CtlWait` may
happen before the callback (the two seconds are over) or after it. A pipeline
is the selected branches, the bitrate, and for each caps filter the size and
rate last set. `FD_SET(-1)`, possible when `stop_control_server` resets
`listen_fd` between the test of the flag and the use, is undefined: the model
allows both the build that does nothing and the fortified one that aborts.
A client may connect and stay silent for ever.

### PlayerLifecycle

Two threads: `mainPc` is where the main thread is between two critical sections
(in a click, in `stop()`), `workPc` where the playing thread is in `run()`. A
change of the status (`SetState`, `SetPhase`) and the event it posts (`Post`)
are two steps, as in `mutateStatus`; since an event paints the status as it is
at delivery, only whether events are queued matters. Of the status the model
keeps `state` and `record_phase`; error codes, texts, counters and the audio
fields decide nothing. `recording` stands for `recorder_.recording_` and for
`inFmtCtx_` pointing to the open input. `link` is the connection as the
blocking calls see it: data, silence (the peer's keep-alives go on), or broken.

### WsBroadcaster

A descriptor is a number that the kernel hands out again as soon as it was
closed (`open`); the handshake threads, `clients_` and `broadcast` keep the
number. A critical section of `clients_mu_` is one step, except `broadcast`,
which sends with the lock held. A dashboard may send an empty frame (`Hush`):
`ws_recv_frame` returns "" for it as for an error, and the handshake thread
leaves.

## 3. Runs, bounds and what they show

| Run | Instance | Shows |
|---|---|---|
| `fanout` | 1 subscriber, 3 chunks, queue 1, bursts of 1, DROP/PLACEHOLDER, access point in chunk 2 | order, limits, no silent loss, closing is final; the fan-out implements `LossyStream` |
| `fanout_two` | 2 connections, `max_subscribers` 1, 2 chunks, bursts of 2 | wake-ups, use after stop, count, shutdown |
| `fanout_live` | 1 subscriber, 2 chunks, PLACEHOLDER at any time, signal before the first chunk or never, fairness | queues drain, sessions that failed in a way the sender notices are reaped, `stop()` returns |
| `subscriber` | 30 s, rounds of 2 or 10 s, depths 0/2/8, queue 12 | severe subscribers are held, silent ones closed in time, no close and no action without its reason |
| `global` | ladder of 4 rungs, rounds of 3 s, ratios 0/45/80, idle 0/2/5 s, fairness | bounds, honesty, slow recovery; the controller implements `QualityLadder`; recovery and escalation |
| `ingest` | 2 publishers, limit of 3 ticks, `broadcast` of up to 2, fairness | a silent publisher goes, a good one is not refused, a waiting one is served unless an error ended the acceptor; `stop()` returns |
| `closed_loop` | ladder of 2 rungs, 2 commands on the way, every fault, clicks; size and video mode watched | an OK can be relied on; the button is honest unless a click was lost or the relay changed the mode |
| `loop_lost` | the same, commands may be lost, fairness | finding: the command that ends black video is sent once |
| `pusher` | 2 clients, five commands, fairness | the control server's safety; shutdown terminates unless a client stays silent or `FD_SET(-1)` aborts |
| `player` | the whole model, fairness | recorder and input, record phase, repaints, clean stop; `stop()` returns, a stop of the recording is noticed |
| `player_flicker` | same | finding: a stop request is overwritten by the report of the start |
| `ws` | 2 dashboards, 1 descriptor | finding: a descriptor is closed twice |

Why the bounds are enough. Every race of the fan-out is about one session and
at most two chunks of it (the one being sent and the one that takes its place);
three chunks with a queue of one give a drop of the chunk being sent, and two
connections give the races of the acceptor; a burst of two also fills the send
buffer in its middle. Larger queues and bursts need no run: order, limit and
loss are proved for every size. Rounds of 3 s hit the cooldown of 15 s exactly
and pass the others between two rounds; the safety properties of the global
controller are proved for every pace of the rounds. 30 s holds the
slowest way to close a silent subscriber with these rounds (silent for 4, 14, 20
and 30 s) and is longer than any cooldown; all four properties of
the subscriber controller are proved without the bound. In `fanout_live` two
chunks and a placeholder let the monitor empty a queue whose socket is
registered for writing; `SignalBy` 0 keeps the signal to the time before the
first chunk, for the size of the run. The reader goes on broadcasting until it
sees the flag and the sender finishes its round, so `stop()` still meets both at
work (`fanout` and `fanout_two` have no such limit, and `ComesDownCorrect` none
at all). In `closed_loop` one setting of
the ladder is watched besides the video mode: the settings do not interact, and
`InForceCorrect` is about all of them. The ladder has two steps of bitrate, one of
frame rate and one of size, so every rung is taken in both directions; inputs
have one value on each side of every threshold that decides something. Two
clients let one command be late while the next is served. Two publishers, one
without H.264, are a predecessor and a successor; a limit of three ticks leaves
room for data before, at and after it. In `ClosedLoop` a queue of two lets a
late command wait behind, or before, another, and a backlog that is full shows
as a command that is lost. One descriptor is enough for a number to be given
away again. `PlayerLifecycle` has
no bound: its state space is finite, with any number of clicks and connections.

`CHECK_DEADLOCK FALSE` is set for `SubscriberController` only, where the clock
bound stops the model. The models that can end do so in an explicit terminal
step, so a deadlock would be reported.

### Fairness

* `RelayFanout`: every thread keeps running. The publisher, the monitor and
  `main` have weak fairness; the acceptor and the sender strong fairness, since
  their turns at `sub_mu_` could be passed over again and again: every holder is
  busy for a bounded time and then sleeps (monitor) or blocks in a call
  (publisher), so the mutex is obtained. The peer of a connected socket drains
  it. Connections, chunks, signals and failures are never assumed to happen;
  `srt_accept` is bound to fail only once its listener is closed.
* `GlobalController`: the monitor thread keeps calling `update`.
* `PublisherIngest`: the acceptor, the reader and `stop()` run, and time passes
  when they all wait. Publishers need not do anything, and `srt_accept` is bound
  to fail only once its listener is closed. `WaitingServed` is conditional on
  the publisher before falling silent, on no new ones coming, and on no error
  of `srt_accept` ending the acceptor while the relay runs.
* `ClosedLoop` (`loop_lost`): the monitor thread decides and sends, the pusher
  works, and a command that is sent again and again gets through. Even so
  `BlackEnds` fails, because the command is not sent again.
* `PusherControl`: both threads run; nothing is assumed of the clients.
  `StopReturns` is conditional on two things the code does not see to: that no
  client leaves the control thread in `recv`, which has no timeout, for ever,
  and that the process survives `FD_SET(-1)`.
* `PlayerLifecycle`: both threads run and post what they changed. `FairLinkSpec`
  adds that a silent connection ends its silence or breaks, which the relay
  sees to for a subscriber it cannot serve, and strong fairness of the reads:
  what arrived stays in the receive buffer until it is read. `StopIsNoticed`
  needs both (the request is answered between two packets); `StopReturns` does
  not, since the stop flag interrupts the reads. The user never has to click.

### Disagreements with the documents

Three runs end in a counterexample to something a document says; `findings` in
`PROJECT.json` quotes the lines.

* `player_flicker`: a click on stop while the recorder starts is lost and the
  button turns back by itself.
* `loop_lost`: `VIDEO_MODE NORMAL` is sent once; when it does not get through
  the controller believes in normal video, and the stream stays black.
* `ws`: `broadcast` closes the descriptor of a dashboard it could not send to,
  the dashboard's own thread closes the number again, and throws out another
  dashboard that was given it in between.

One more disagreement has no run of its own: `player/ReadMe.md:145-152` lists a
long time without data as a way to `Reconnecting`, but the player's five-second
test is only reached after a packet, so a connection that stays up and silent
is waited for without end. `PlayerLifecycle` has that connection (`Silence`), and
`FairLinkSpec` assumes that it ends.

Limits of the code that no document denies, and that the properties are worded
around:

* The rounding to even sizes keeps an odd base size from ever being reached
  again, and a size of four pixels never grows, since a third of it is less
  than two; `Recovers` is checked, and `CalmProgress` proved, without them.
* The hold of a subscriber is tested against the sample at its end only;
  `CloseIsEarned` does not say that it was bad throughout.
* Three degradations are enough for black video, even when the ladder has
  rungs left.
* `RecoverStep` may set the normal mode while a user has paused the pusher, and
  a click whose bytes were sent and lost flips the button all the same;
  `ButtonHonest` says that these two are the only ways for the button to lie.
* A session closed because its epoll update failed (`relay_server.hpp:265-268`)
  is not reaped while EPOLL_OUT keeps firing for a queue the monitor emptied:
  301 skips it and asks for no synchronisation, and no wait times out.
  `DeadReaped` is about the failures that do ask for one.
* Any error of `srt_accept` ends its acceptor for good while the relay runs on
  (`relay_server.hpp:113`, `172`).
* A silent subscriber is closed 13 s after its last chunk only with an
  evaluation at the right moments; a round before the hold and one after it
  come on top (`SilentIsClosed`), each of up to ten seconds while a pusher does
  not answer.
* A control command that arrives after the main loop was left is applied by the
  control thread itself, possibly while `main` sets the pipeline to NULL
  (`srt_cam_push.c:117`). `SoleApplier` only says that no two callbacks overlap,
  and `Untouched` that none comes after the release.
* A client that connects to the pusher and stays silent keeps the control thread
  in `recv`, and `stop_control_server` waiting for it; and the reset of
  `listen_fd` may meet `FD_SET` (`StopReturns` of `PusherControl` has both as
  conditions).
* A dashboard that sends an empty frame, such as a ping, is dropped
  (`ws_util.hpp:103`, `ws_broadcaster.hpp:109`).
* Calm rounds counted before a publisher stall still count after it
  (`global_controller.hpp:66`); `SlowUp` is about the time since the last step
  down only.
* The continuous idle time of a publisher may reach twice the configured limit
  before it is dropped (`SilentDropped`).

## 4. Proofs

All theorems hold for every value of the constants the module's named
assumption allows. Each proof module states an inductive invariant as a
conjunction of named parts (`IInv` in most), proves that `Init` implies it and that every action
keeps it (a lemma per action), and draws the properties from it.

Liveness needs fairness, which the prover does not have. What can be proved of
it is its other half: a measure that falls with every step the fairness
promises, so that only finitely many can be taken. Such a theorem is called a
*ranking* below; it is an action property like any other, and it says what the
liveness property of the run rests on, for every value of the constants.

`RelayFanoutProofs`, for any subscribers, positive limits and number of chunks,
has four parts. Part 1, the queues:

* `TypeCorrect` - types, and that a burst keeps its limit, which needs that
  `SendTake` is guarded by `MoreInBurst` and that only `SendPop` adds to it.
* `QueueBoundCorrect` - `QueueBounded`: only `Push` lengthens a queue, and
  `Kept` leaves room.
* `OrderCorrect` - `WireInOrder`. That a chunk sent is newer than the whole
  wire follows from the queue being increasing, from its elements being at most
  the last broadcast, and from the wire being older than the queue's elements -
  except while the chunk just sent is still the queue's front, between `SendOk`
  and `SendPop`. The strengthening names these parts and the exception.
* `NoLossCorrect` - `NoSilentLoss`, from what `chunk` can be while it is sent:
  still the front, or dropped and counted.
* `ClosingCorrect` - the action property `ClosingIsFinal`.

Part 2, the sessions:

* `NoUseCorrect`, `CountCorrect`, `CleanCorrect` - `NoUseAfterStop`,
  `CountExact`, `ShutdownClean`. A live session is listed, about to be inserted
  or about to be stopped, and only one is at each of the two thresholds
  (`Listed`); whoever holds `sub_mu_` still has only listed sessions to visit,
  because nobody else changes the map meanwhile (`Visits`); and the sender's
  registrations, work list and current session are listed ones, because it is
  the only thread that erases while the threads run (`Reaches`). `stop()`
  erases the rest only after the join (`Ended`). None of the four is inductive
  without the others.
* `WakeCorrect` - `NoLostWakeup`. Every session with data that is not registered
  for writing is on the sender's list, or the list will be made anew, or a
  wake-up is under way; and the depth the sender holds in `wants`, or tested
  before it turns EPOLL_OUT off, may only be stale if one is (`WakeInv`).

Part 3, the abstract stream:

* `StreamImplemented` - the refinement `ImplementsStream`. There is a lemma for
  each action that shows in the stream (`PushAccepts`, `SendDelivers`,
  `EvaluateDiscards`, ...) and `Unseen` for the others. What it adds to the
  invariants above is small: what a session took precedes what broadcast still
  has to show it, and a session in sync took something (`Taken`); the chunk
  being sent is still the front, or was counted as dropped, which makes its
  arrival a `DeliverLate` (`Sending`); the chunk being popped is the last on
  the wire, which makes it the one number in doubt (`Sent`). `PushQueue` is
  the fact about sequences behind it: which of the pending chunks a push gives
  up, whether or not the front is in flight.

Part 4, coming down:

* `ComesDownCorrect` - the ranking of `ShutdownCompletes`. Each thread has a
  measure of its own: the acceptor's is its place; the others' are compared
  lexicographically (for the sender: the phase, the sessions still on its list,
  and what the current one's burst leaves). After the signal a step of a thread
  shrinks that thread's measure and leaves the other three alone, and neither
  the network nor `main` adds to any. What it needs beyond the earlier parts is
  that the sender's current session is on its list (`Serves`), so that ending
  with it makes the list shorter. The publisher's measure counts the chunks up
  to `MaxChunks`, the model's bound on how much it may still receive before
  `stop()` closes its socket.

`PublisherIngestProofs`, for any publishers and any timeout:

* `SilentDroppedCorrect` - `SilentDropped`. How long the publisher may have
  been silent depends on where its reader is: at most the limit before
  `srt_recv`, the limit and the time spent in it during the call, no more than
  the time in `broadcast` after it (`SilenceKnown`).
* `GoodNotRefusedCorrect` - `GoodNotRefused`: once a publisher has shown its
  PAT the validator's pid is its own, and once its PMT, `saw_h264_` is set,
  whatever was there before (`ValidatorKnown`).
* `ComesDownCorrect` - the ranking of `StopReturns`: after the signal the
  acceptor, the reader and `stop()` each have a handful of steps left, and
  while the reader is in `srt_recv` or `broadcast` a tick brings the end of the
  wait nearer. The acceptor may still start one reader, which is why a step of
  the acceptor may raise the reader's measure, and nothing else may.

`SubscriberControllerProofs`, for every queue size, set of samples and pace:

* `SevereHeld`, `SilentClosed`, `CloseEarned`, `JustifiedCorrect` - the four
  properties of the run, without its time bound. They rest on what the hold's
  start says of the time in Placeholder (`HoldKnown`), on an account of the
  silence (`SilentIsTimed`: the hold began at most a round after the silence
  reached five seconds), and on what each counter says of the last samples
  (`CountersTell`). `SilentClosed` is two bounds: the first evaluation that finds
  13 s and a longest round of silence closes, and no evaluation finds 13 s and
  two (`OpenIsNotSilent` adds the last round to the first bound).

`GlobalControllerProofs`, for every ladder `parse_args` accepts
(`LadderAssumption`) and every set of inputs (`InputAssumption`):

* `TypeCorrect` - the quality keeps its bounds; lemmas on `StepDown` and
  `StepUp` do the arithmetic of each rung.
* `HonestCorrect` - `HonestState`, with the strengthening that the quality can
  differ from the base only while degradations are counted.
* `LadderImplemented` - the refinement `ImplementsLadder`: the initial state
  maps to an initial state and every round to a `Decide` or `Quiet` step.
* `SlowUpCorrect` - `SlowUp`, from an invariant that ties the count of calm
  rounds to the age of the last degradation, the stall that skips the count
  included.
* `CalmProgress` - the ranking of `Recovers`: a calm round keeps full quality
  once it is restored, and until then gives back a rung, the placeholder or the
  count of the degradations (`ToRestore` falls), or else shortens the wait for
  the next step up (`UntilStepUp`: the calm rounds still missing, the cooldown,
  the hold of the placeholder). It assumes `Climbable`, that the base sizes are
  even and the floors at least six pixels, for the reasons given in section 3;
  the default sizes are climbable. `MeasuredCorrect` says that the measures are
  natural numbers.
* `SevereProgress` - the ranking of `CongestionEscalates`, for every ladder: a
  severe round keeps or enters the placeholder, takes a rung down, or shortens
  the wait for the next one. That the key frames do not delay it is the point:
  they have a cooldown of their own.

`PusherControlProofs`, for any clients and commands:

* `RefsCorrect` - `RefsExact`; `OkCorrect` - `OkMeansApplied`; `InOrderCorrect`
  - `InOrder`; `SoleApplierCorrect` - `SoleApplier`; `UntouchedCorrect` -
  `Untouched`. The invariant says who owns the main context where
  (`OwnerKnown`: while it is the control thread, `main` is outside its loop,
  where it may be setting the pipeline to NULL), that a connection makes one request (`OneRequest`), and that
  what was applied and what waits are both in the order of issue, the first
  before the second (`Ordered`).
* `ComesDownCorrect` - the ranking of `StopReturns`: once the flag is up the
  control thread is at most nine of its own steps from its end, and neither
  `main()` nor a client sets it back. `Stopping` says that `main()` has then
  left its loop for good.

`ClosedLoopProofs`, for every ladder, start-up setting, backlog and combination
of faults:

* `InForceCorrect` - `InForce`. A command waited for is the relay's only one,
  and only clicks come after it (`OneOfRelay`); it says what the controller
  believes (`Current`), since no decision is made before its last answer; and
  no command under way touches what was confirmed (`Quiescent`). That a
  decision changes only what it names comes from `QualityLadder`, so together
  with `LadderImplemented` the claim is about the real controller.
* `ButtonHonestCorrect` - `ButtonHonest`: the last click under way is the one
  the button shows, unless the last one sent was lost (`ClicksShown`).
* `AgreedUnlessLost` - what `BlackEnds` lacks: in every behaviour in which no
  command on a setting is lost (`Heeded`: none is skipped or fails, the pusher
  does not restart, and no click pauses it), the pusher has the value the
  controller believes in whenever none is under way, late answers and
  the fate of the other settings notwithstanding. The invariant is `Heading`:
  the last command on the setting under way says what is believed.

`PlayerLifecycleProofs` (the model has no constants; its run is complete, and
the proof says why it comes out as it does):

* `HasInputCorrect`, `HonestCorrect`, `LabelCorrect`, `CleanCorrect` -
  `RecorderHasInput`, `RecordHonest`, `LabelIsCurrent`, `StopIsClean`. Three
  parts make them inductive: what the main thread knows of the playing thread
  from where it is itself (`Known`); that the input is open, and the recorder
  runs, exactly in parts of the loop (`Holds`); and what may have become of the
  phase that the playing thread read in an earlier critical section
  (`Answering`): a start may have been taken back meanwhile, a stop may not.
* `EndsSoonCorrect` - the ranking of `StopReturns`: once the flag is up it
  stays up, and each step of the playing thread, through opening, recording and
  every error path, is one of at most eight.
* `TurnsOnCorrect` - the complement of the finding `NoFlicker`: the button
  turns to "stop" because the user asked for a recording, or because the report
  of a start overtook the request to stop it, and for no other reason.

`WsBroadcasterProofs`, for any dashboards and descriptors:

* `NoLeakCorrect`, `WatchedCorrect` - every open connection has its own thread,
  which is yet to close it, and every listed descriptor a thread that is yet to
  take it off the list (`NoLeak`, `Watched`), whatever `broadcast` and `stop()`
  close at the same time. They need that `broadcast` works only on what is
  listed (`Casting`).
* `ServedWithoutReuse` - the complement of the finding `DashboardServed`: it
  holds in every behaviour in which the kernel hands out no number that a
  thread still holds (`NoReuse`), because the threads then hold different
  numbers (`Apart`). The double close is harmful through the reuse alone. The
  property is about dashboards that send no empty frame; one that does is
  dropped in any case.

Only model-checked: the step from a ranking to its liveness property, which
needs fairness (`ShutdownCompletes`, `Recovers`, `CongestionEscalates` and the
three `StopReturns`); `QueueDrains`, `DeadReaped`, `WaitingServed` and
`StopIsNoticed`, which need the fairness of several threads at once and have no
theorem; and the three findings, which fail, `BlackEnds`, `DashboardServed`
and `NoFlicker`, with what holds instead proved. Every other property of a
passing run is a theorem above. `MeasuredCorrect` and the `TypeCorrect` of the
modules not named here are theorems too.

## 5. Not modelled

* SRT itself (its use is the environment of `RelayFanout` and
  `PublisherIngest`), GStreamer and GLib beyond the rules `PusherControl` uses,
  FFmpeg and Direct3D.
* `load_test/main.cpp`: one thread that opens, reads and counts; it plays the
  subscribers that are already `RelayFanout`'s environment.
* Decoding, audio synchronisation and rendering of the player: calls in
  sequence on one thread. The lifecycle sees how long they took and whether the
  renderer failed.
* The host monitor, option parsing, logs and JSON, SHA-1, base64 and WebSocket
  frames, the pusher's pipeline text and device search: pure functions and
  one-shot I/O. The build output kept in the tree is generated.
* `sub-queue 0`: `cli.hpp` does not refuse it, `push_chunk` would pop from an
  empty queue; the models assume a positive limit.
* How long a blocking `send` to a dashboard holds `clients_mu_`.
* The publisher's stall as the answer to what the closed loop does: the
  controller in `ClosedLoop` decides freely, which includes it.
