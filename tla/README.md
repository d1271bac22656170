# A TLA+ verification of qonductor

qonductor is a Rust implementation of a Qobuz Connect renderer: it announces
devices on the local network, lets the Qobuz app select one of them, and then
runs a WebSocket session with the Qobuz server for that device, on behalf of an
application that plays the music. This directory holds TLA+ modules that model
the program as it is written in `src/src/`, TLC configurations that check them on
small instances, and proofs that TLAPS checks for every instance.

Paths below are relative to the repository's root; `qconnect.rs` means
`src/qconnect.rs`.

## 1. Inventory

| Component | State | Operations | Interacts with |
| --- | --- | --- | --- |
| Session runner (`qconnect.rs`, `event.rs`) | `renderer_id`, `is_active`, `session_uuid`; a command channel; the oneshot of the command in progress | a `select!` over the WebSocket, a 10 s heartbeat and the command channel; one arm per message type; `spawn_session` | server (WebSocket), application (event and command channels, `Responder`) |
| DeviceSession handle (`session.rs`), `connect()` (`lib.rs`) | the receiver of events; the shared, lockable command sender | `recv`, `report_*`, `queue_*`, `clear_queue` | runner, manager (which replaces the sender) |
| Session manager (`manager.rs`) | the queue of selections, the selection in hand | `run`, `add_device`, `remove_device`, `shutdown` | registry, runner |
| Device registry and HTTP endpoint (`discovery.rs`) | per device: config, current session id, event sender, command sender | `add_device`, `remove_device`, `connect_to_qconnect`, two GETs, look-ups | manager (channel of 16 selections), controllers (HTTP) |
| mDNS announcements (`discovery.rs`) | the services known to the daemon, its bounded queue of commands | register, re-announce every 5 s, unregister, shutdown | registry (read and write lock), controllers (multicast packets) |
| WebSocket connection (`connection.rs`) | `msg_id`, the two halves of the stream | authenticate, subscribe, join, send, close, the stream of messages of each batch | runner, server |
| Envelope framing (`connection.rs`) | none | `encode_envelope`, `parse_envelope` | connection |
| Decode tool (`bin/decode.rs`) | none | reads the same frames on its own | none |
| Credentials scraping (`credentials.rs`) | app id, seeds and secrets found so far | the login page, then a scan of bundles in order | the web player's HTTP server |
| Fake player (`examples/fake_player.rs`) | playback state, position snapshot and its time, queue, track index, loop mode | one handler per command and notification, `tick` at each heartbeat | session (events and answers) |

Configuration, data types and errors have little behaviour of their own; what they
have is in the modules that use it. Generated protobuf code and the examples that
only print what they get are not modelled.

What is hard here is concurrency between tasks that share little but channels:

* **The runner waits for the application inside a handler.** It sends a command
  with a `Responder` and awaits the answer; meanwhile messages, heartbeats and
  reports pile up. The answer may never come (the `Responder` or the handle is
  dropped). The fields it read before the wait are used after it.
* **Everything is bounded.** Events and commands have channels of 100, selections
  one of 16. A full channel suspends its sender, and `send_command` holds a read
  lock while it is suspended.
* **Sessions of a device are replaced, not ended.** A second selection replaces
  the command sender while the old runner lives on with the same event channel.
* **`run()` is one loop for all devices**, suspended while one connects, and its
  future may be dropped at any await.
* **Partial failure.** A write that fails in a handler skips the operations that
  follow it (`?`), or does not (a logged warning).
* **Ends.** A session ends by an error, the end of the stream or, for a session
  made by a selection, a deactivation; what it says last, and what `recv()`
  returns afterwards, are promises to the application.
* **Announcements go through others' hands.** The daemon refuses commands when its
  queue is full, packets are lost, a task announces every device again and again,
  and `add_device` announces before it registers and may be abandoned in between.
* **Positions are computed, not stored.** The player keeps a snapshot and a
  timestamp, the server extrapolates on its own, and requests, heartbeats, track
  ends and queue edits move one or the other.
* **Text and bytes from outside** come damaged, cut off, in another order or not at
  all: frames, batches, bundles.

What makes each component correct: the runner's answers are the application's,
once and in order, and its events follow the protocol an application relies on;
the handle's reports reach the session the device was last selected for; the
manager loses no selection and confuses no two sessions; the registry's entries
fit the handles given out; what is registered is announced and what is announced
is served; the reader's stream is the sequence of the server's messages; the
search ends with what the bundles hold; the player is where the server thinks it
is. `PROJECT.json` lists the hazards line by line, each
with the properties that watch it.

## 2. Modules

| Module | Contents |
| --- | --- |
| `SessionRunner` | one session with its server, its network and its application |
| `SessionProtocol` | the abstract session: what an application may rely on |
| `SessionRunnerProperties`, `MCSessionRunner` | its properties, the refinement, fairness and liveness; the message sets of the TLC instances |
| `DeviceManager`, `DeviceManagerProperties`, `MCDeviceManager` | registry, HTTP endpoint, `run()`, handles, and the sessions seen from outside |
| `Announcements`, `AnnouncementsProperties`, `MCAnnouncements` | the registry's mDNS side: daemon, periodic task, overlapping calls, controllers |
| `Envelope` | frames as pure functions: encoder, reader, decode tool |
| `Connection`, `ConnectionProperties`, `MCConnection` | one WebSocket connection, both halves |
| `MessageLink` | the abstract reading half: a FIFO of messages with an end |
| `Credentials`, `CredentialsProperties`, `MCCredentials` | the search for app id and secret, and a definition of its result without loops |
| `FakePlayer`, `FakePlayerProperties`, `MCFakePlayer` | the fake player and what the server believes of it |
| `Playhead` | the abstract player: a head over one track |
| `SessionRunnerProofs`, `SessionEventProofs` | the proofs about the session: what it asks, says and answers; what the application is told and the server is asked |
| `DeviceManagerProofs`, `AnnouncementsProofs`, `ConnectionProofs`, `CredentialsProofs`, `FakePlayerProofs` | the proofs about the others |
| `Induction` | lemmas for proofs about data: least and greatest elements, induction over the naturals, what a recursive function is |

`Announcements` and `DeviceManager` model one registry from two sides: the first
its lock, its names and the daemon, the second its channels, senders and handles.
`MessageLink` is what `SessionRunner` has as `inbox`; `DeviceManager`'s session is
`SessionRunner` reduced to what it shares.

A definition with a suffix (`Ask_NoAwait`) is a variant of the definition below
it with a plausible bug. Nothing uses it: putting it in place of the original
makes some property fail, which shows that the property notices the bug.
`PROJECT.json` pairs them.

### SessionRunner and the code

A handler is straight-line code between await points, and only the runner's task
writes the fields it reads. So the model keeps `todo`, the list of awaited
operations the code being executed has left. Dequeuing something (`HandleMessage`,
one action per arm; `Tick`; `TakeCommand`) runs the code up to the first await
and fills `todo`; `DoEmit`, `DoWrite`, `DoAwait`, `DoClose`, `DoRun`, `DoStop`
perform its head, with the rest of the system interleaved between them. A write
carries the number of operations its error skips, which is what `?` does there;
`DoWriteFails` takes that path.

| Model | Code |
| --- | --- |
| `status`, `todo` | where `spawn_session` and `run()` are |
| `renderer_id`, `is_active`, `session_uuid` | the fields of `SessionRunner` and `SessionState` |
| `inbox`, `wire`, `link` | the reader's stream, what reached the server, the WebSocket's health |
| `log`, `got` | every event put in the event channel, and how many were received; the channel is the part between |
| `reply` | the oneshot of the command that is awaited: in the channel with its `Responder`, held by the application, used, dropped |
| `commands`, `reporting` | the command channel, the report that waits for room in it |
| `app` | the handle: not yet returned (`connect()`), held, dropped |

Payloads are abstracted: an item says what it is, what caused it and which
renderer or session it names. `SetActiveRenderer` carries its id through
`as i32`, modelled with its wrap-around (`AsI32`). A broken link loses what is
written with or without an error.

`SessionProtocol` is the abstract session: Connected first; then notifications
and commands, of which one may be unanswered and is then the last event; with
`auto_activate` a deactivation is followed only by the end; Disconnected and
SessionClosed last. It is refined with `pending <- Unanswered`.

### DeviceManager and the code

`at` is the await point of `run()`: in `recv()`, at the write lock of the command
sender, in `spawn_session`'s connection, at the send of Connected. A POST, the
selection it queues and the session that comes of it share one number, so
`handle[k]`, `status[k]` and `commands[k]` follow a selection through the system.
A handle and its registry entry share one number as well. `StopRun` is the loss
of `run()`'s future at any of these points (`examples/discovery_server.rs` runs
it in a `select!`, `examples/fake_player.rs` aborts its task); `DropManager` is
the loss of the manager, after which the HTTP server and the registry live on.
`add_device`, `remove_device` need the manager that `run()` borrows mutably, and
come only while it does not run. A connection that fails, or a `run()` that is
stopped while it connects, leaves its sender installed: a handle's reports then fail
though an earlier session of the handle may live.

A session is reduced to what it shares: it calls for an event (`Begin`), sends it
(`Notify`, `Ask`: suspended while the channel is full), waits for an answer, takes
reports and ends. These are the behaviours `SessionRunner` has in detail, with
one abstraction: the commands in a channel are counted, not named.

### Announcements and the code

The registry's lock is not a variable: whoever goes over the devices (`round` of
`reannounce_loop`, `left` of a `shutdown()`) has it for reading, and a writer needs
`LockFree` for its one step. A call lasts over steps where it waits: `add_device`
at the write lock, after `register_mdns`; `shutdown`, which blocks its thread after
each device. `add_device` and `shutdown` take `&self` and may overlap, also with
themselves; `remove_device` takes `&mut self` and has the manager alone. `DropAdd`
is the loss of `add_device`'s future at its await.

| Model | Code |
| --- | --- |
| `StartAdd`, `InsertDevice` | `add_device` up to and from `self.state.devices.write().await` |
| `RemoveDevice` | `remove_device` |
| `StartShutdown`, `ShutdownDevice`, `ShutdownDaemon` | `shutdown` |
| `LoopWakes`, `LoopAnnounces` | a round of `reannounce_loop` |
| `queue`, `daemon`, `announced`, `heard` | external: the daemon of the mdns-sd crate, the controllers |

`stray` is a history variable, the names whose announcement the code leaves to
itself: a replaced entry under another name, an abandoned `add_device`, a goodbye
that was refused, what is announced after `shutdown()` was called. Those four happen
in the code, and no property forbids them; `NothingElseIsAnnounced` says that nothing
else does.

### Connection, Envelope and the code

`phase` follows `spawn_session` through `connect` (with `authenticate`),
`subscribe_default`, `join_session` and `split`. Each write takes an id before it is
sent and keeps it when that fails (`Sends`). The id is a u32 that `+= 1` wraps around
in a build without overflow checks (`U32Modulus`) and panics on in one with them
(`IdPanics`, which may then happen in place of the send). `busy` is the runner in a
handler: it polls the stream only between two of them (`Polled`), and a handler that
closes the connection makes `run()` return, so that the rest of the batch is lost
with the reader. How long a handler waits is the application's affair. On the reading
side `net` is the
WebSocket, `batch` what the stream of `into_stream` has left of a batch; a frame that
is cut off, foreign or damaged costs itself only. A byte has `Base` values and a
continuation bit, so that a varint of several bytes happens with short payloads;
protobuf is external and reduced to whether a payload decodes, fields that are
ignored, and messages. A length whose sum with its offset overflows a `usize`
panics (`connection.rs:383`), and with it the runner's task (`ReadPanics`).

### Credentials and the code

A bundle is the sequence of the patterns the scans look for. Each scan is an
operator (`scan_app_id`, `scan_seeds`, `scan_and_derive_secrets`), each turn of the
loop a step; a bundle that fails is skipped. `Window` is the 500 bytes behind an
anchor, counted in patterns, which may end inside a character; the last 44 bytes of
what is joined for base64 may begin inside one (`Split`). Either slice panics
(`credentials.rs:284` and `:311`, `Panics`). Base64 is the set `Decodable` of triples
that decode. A URL is a scheme, a host and a path, each in the order that sorting
gives; `urls.sort(); urls.dedup()` is the sequence that lists the set of URLs in
order. The code asks whether the whole URL contains "play.qobuz.com", so host and
path can both make it the player's (`PlayerHosts`, `PlayerPaths`). `CredentialsProperties`
defines the result a second time, without loops and early exits: by pairs of seed
and time zone, by the last bundle that has a zone's seed, by the first anchor that
decodes.

### FakePlayer and the code

A handler is one step, since the session waits for it. `elapsed` is the age of
`position_timestamp`; `told` is what the server makes of the answers, running on
while the player plays. A heartbeat reads the clock when it judges whether the track
is over and again for its answer, and a unit of time may lie between (`late`); the
answers of the other handlers take one reading, a unit that passes within them being
a step of time right after. `AdvanceTrack` is the part of `tick` behind `IsOver`;
`HandleRestoreState` comes only while the device is not active, which
`SessionRunner`'s `EventsFitTheActivation` gives. `Playhead` hides snapshot,
timestamp, queue and index: a head that moves with the time, by a request, at the
end of a track, or when its track is gone.

## 3. Runs

Each run takes from a few seconds to three minutes.

| Run | Question | Instance |
| --- | --- | --- |
| `SessionRequests` | Is every request answered by its own answer, once, in order, with no report lost or overtaken? | `connect()`; 3 messages of 4 kinds, 2 reports, 1 heartbeat, channels of 2 |
| `SessionActivation` | Do events fit what was said before, when the device is registered, activated, deactivated and removed in any order? | `connect()`; 4 messages of 7 kinds, channel of 1 |
| `SessionOnDemand` | Does the session of a selection implement `SessionProtocol`, with every kind of message? | `auto_activate`; 3 messages of the whole vocabulary, channel of 1 |
| `SessionLiveness` | Do messages and reports get through, and does the end of the stream end the session, unless the runner and the application wait for each other? | 2 messages, 2 reports, 1 heartbeat, channels of 1, fairness; 57,419 states |
| `ManagerReselection` | Are selections handled in order, and are senders, reports, responders and `recv()`'s None right when devices are selected twice, removed and added again, wherever `run()` is stopped? | 2 devices (symmetric), 2 handles, 2 selections, queue of 2, 2 reports, channels of 1; 3.8 million states |
| `ManagerLiveness` | Does each selection get its turn, and every end reach its application, unless an application and a session wait for each other? | 2 devices, one of which is selected twice and may hold up the other, 3 POSTs, queue of 1, 2 reports, 2 events a session, channels of 1, fairness; 211,068 states |
| `Announcements` | Is what is registered announced, and what is announced served; are lost announcements heard again; does every call get the lock? | 2 devices, 2 names of which one is shared, 2 tasks, 3 calls, daemon's queue of 2, fairness; 58,594 states |
| `Connection` | Is the stream a FIFO of the server's messages; do ids stay apart where the u32 wraps around; does the decode tool read what the reader reads? | 3 frames of the server (whole, cut anywhere, foreign, oversized), ids modulo 4, 2 messages sent, fairness; 284,524 states |
| `Credentials` | Is the result what the bundles hold; is each bundle asked for once, in order and only while something is missing; when does the search panic? | 4 pages with up to three bundles of the player, eleven bundles, each of which may fail; 4,923 states |
| `FakePlayer` | Are snapshots and timestamps a playhead, does the server's picture stay right, does a queue end? | 3 items, 3 queues, 2 positions, time up to 3 since a snapshot, fairness; 149,120 states |

Bounds. Channels of 1 or 2 instead of 100 make "full" and "empty" happen in
every run, and nothing in the code depends on the capacity otherwise. One command
is outstanding at a time (this is proved), so two requests and a heartbeat give
every pair of neighbours; three messages give registration, activation and one
more, four give a device that comes back. Two selections of one device are one
replacement of the sender; a third selection, of the other device, waits behind the
one in hand. `ManagerLiveness` starts with two devices added and `run()` called, a
state that `Spec` reaches, and takes steps of `Spec` only, without removals and stops
and with an application for the second device that keeps its handle.
Two names for one device and one name for two are all ways in which names collide,
three calls let an `add_device` and two others overlap, and a queue of 2 is full
as soon as the daemon is behind. Two batches, of several messages and with a
payload of two varint digits, in three frames give a damaged frame between two
whole ones. The bundles hold every order of seeds, zones, anchors and values that
the scans distinguish, and three in a row are needed for a seed, its replacement
and its use. A track of 2 units, a clock that runs 3 units past a snapshot and
positions up to 5 let a heartbeat come before, at and after the end, and the
saturating sum saturate.
`MaxMessages`, `MaxReports`, `MaxBeats`, `MaxEvents`, `MaxPosts`, `MaxHandles`,
`MaxCalls`, `MaxSends`, `MaxFrames` and `MaxElapsed` are guards of the actions that
count. Moduli are small in the runs (`I32Modulus` 4 or 8, `U32Modulus` 4, `U64Modulus` 16,
`UsizeModulus` 64, `MaxU32` 5), so that ids, casts and lengths cross them; the
proofs hold for all. Deadlock is not checked in `ManagerLiveness`, `Announcements`, `Connection`,
`Credentials` and `FakePlayer`, which may stop: bounds are used up, nobody selects a
device any more, a connection is closed, a search is done.

### Disagreements between documents and code

Two are runs that TLC finds violated, with the words they refute quoted at their
property and in `PROJECT.json`.

| Run | Words | Code |
| --- | --- | --- |
| `ManagerTwoSessions` | one session per device | a second selection starts a second one beside the first |
| `ManagerRecvNone` | `recv()` returns None when the session is closed | after SessionClosed was received and with no session left, the registry keeps the channel open |

The second session of `ManagerTwoSessions` has one more consequence: the first
runner's command channel then has no sender, `command_rx.recv()` is ready with
None on every turn, and its loop spins until that session ends.

These were met as well, and have no run of their own:

* "or the session will hang waiting" (`event.rs:42`): a `Responder` that is dropped
  without an answer ends the wait.
* "We trigger a heartbeat immediately after activation" (`qconnect.rs:382`): nothing
  does.
* "Returns an error if not connected" (`session.rs:121`): a report is accepted while
  the session connects, and lost if that fails.
* "Also emit the notification for downstream consumers" (`qconnect.rs:447`): our own
  AddRenderer is not emitted when the activation write fails, since the `?` of line
  443 returns first.
* "Every 10 seconds while active" (`docs/architecture.md:133`): RemoveRenderer leaves
  `is_active` set, and the device active without heartbeats.
* "Stops mDNS announcement" (`discovery.rs:396`): not that of an entry which was
  replaced under another name, nor when the daemon refuses the goodbye. A round of
  `reannounce_loop` announces devices again after `shutdown()` said their goodbyes,
  while the daemon still runs; with two devices of one name, the removal of one
  withdraws the other until the next round.
* `start()` leaves the HTTP server running when the mDNS daemon cannot be created
  (`discovery.rs:316`).
* "Returns true if still playing" (`fake_player.rs:143`) is true of a tick that
  stopped at the end of the queue as well; that stop, and the loss of the
  track by a queue edit, are never told to the server. "Start playing first track"
  (`:234`) does not happen when a restored state left an index behind the queue. A
  deactivation forgets what was played since the last snapshot.
* Casts: ids from 2^31 on come back from their i32 sign-extended and are not found;
  the milliseconds since a snapshot are cut to a u32 and wrap around after 49.7
  days.
* The slices of `credentials.rs:284` and `:311` can end inside a character, and the search
  depends on the order of the bundles: an anchor before its seed gives nothing.
* The sum of `connection.rs:383` overflows for a length near 2^64 and ends the
  runner's task without SessionClosed.

### Fairness

* The runner: an operation of the task that can proceed does (`WF`), and each
  branch of `select!` that is ready again and again is taken (`SF`), because
  `tokio::select!` polls its branches from a random start. For the same reason the
  stream of a connection is polled if the runner is between two handlers again and
  again (`SF_vars(Poll)`); nothing makes a handler return or close the connection,
  so `EverythingIsYielded` names both as exceptions.
* `run()`, the HTTP handlers, the calls of the manager, `reannounce_loop` and the
  daemon are tasks that proceed (`WF`). Weak fairness is enough for the whole of
  `DeviceManager`.
* The application receives its events, and answers or drops each `Responder`, as
  `event.rs` demands. A report returns when there is room for it or its session is
  over (`WF_vars(FinishReport)`): nothing gives up a report that waits, and the
  documented use awaits it bare in the loop that receives.
* So there is a circle of waits, and it is a real one: an application that awaits a
  report with the command channel full does not receive; its runner, which alone
  empties that channel, awaits room in the full event channel, or an answer. They
  wait for each other for ever, and in the manager `run()` waits with them, for the
  lock the report holds (`manager.rs:175`) or for room to say Connected, and with
  it the selections of all devices. `Embrace` (one session) and `Circle` (a handle
  of the manager) describe exactly this state. The liveness properties of the session
  and of the manager promise that what they name happens, or that the circle has
  closed and never opens again (`[]Embrace`, `[]HeldUp`, `[]Circle`): nothing else
  keeps it from happening. Capacities of 1 make the circle close within the runs;
  without the exception TLC finds each of these properties violated.
* tokio's `RwLock` is fair: a writer that waits comes before the readers behind it.
  In `Announcements`, where the queue of the lock is not modelled, this is `SF` on
  `InsertDevice`.
* Of packets that are sent again and again one is heard (`SF`). `HeardAgain`
  assumes besides that the daemon reads what it was sent within the five seconds
  of a round, again and again (`CatchesUp`): with a queue that is full at every
  round, each announcement may be the one that is refused.
* In `FakePlayer` time passes and the session's heartbeats come.
* The network answers a connection attempt, with a connection or an error; the
  code sets no timeout of its own there.
* Nothing is assumed of the server's messages, of selections, of the ends of
  sessions or of the loss of `run()`.

## 4. Proofs

The proofs hold for all capacities, all bounds, all sets of messages, devices,
names and reports, both values of `auto_activate` and both ways to get a handle,
from the assumptions on the constants that each module names (capacities and moduli
are positive naturals, ids and positions are naturals, None is none of them).

* `SessionRunnerProofs`, in the order of its sections:
  * `TypeCorrect == Spec => []TypeOK`. Lemmas give the type of each list a handler
    builds; then one lemma per group of actions.
  * The invariant `Requests` is `TypeOK`, the three-way `OneCommandOutstanding`
    (nothing asked, about to ask, asked: what `todo` and `reply` look like in each)
    and `UnreceivedCommandIsLast`. The strengthening over "one command at a time"
    is the shape of `todo`: an await only directly behind its command's send, and
    nothing else that asks. `RunnerWaits` (the runner does nothing while a command
    is unanswered) follows from it step by step.
  * `HeartbeatsStayValid` by the invariant that operations caused by a heartbeat are
    in `todo` only while `is_active` and `renderer_id` still are what the tick saw.
    `StageIsKnown` by the invariant `Life`, which joins `Requests` with seven stages
    of a session, each with what was last said and what is left to do.
    `RunnerImplementsProtocol` from `Life`: every step of the runner says one event
    that may follow, ends the wait for an answer, or stutters.
  * Three theorems about the wire, each by an invariant that ties the wire to what
    `todo` still holds. `Owed`: an answer that waits in `todo`, like one on the wire,
    belongs to a command received, because the command awaited is the last of the
    channel or one received. `Ordered`: there is a request being handled whose cause
    is later than that of all answers sent and earlier than those of the messages to
    come; the answers of it that are left differ in kind from one another and from
    those sent. `Blocks`: while the link is up, what the wire lacks of a handshake is
    at the head of `todo`.
* `SessionEventProofs`: four theorems that relate what was said long ago to what is
  said or asked now.
  * `ReportsKeepTheirOrder` by `Reports`: a report is written by a list of operations
    of its own, so that at most one is in the runner's hand, and while the session
    runs on a working link (`Flow`) those written are all up to it, in order, and the
    channel goes on from there. With the link down, or the session at its end,
    nothing is claimed, and `Reports` keeps only what the report in progress is.
  * `EventsAlwaysFit` by `Fits`: what the log last said of activation and
    registration, with the event in the runner's hand counted as said (`ToldActive`,
    `ToldRegistered`), is `is_active` and `renderer_id`, as long as the application
    is there; an event that says something of either is the next to be sent
    (`TellersFirst`), and a heartbeat or restored state in hand fits the fields it
    was checked against (`Fitting`). What a longer log says is computed from what it
    said before (`RegisteredGrows`, `ActiveGrows`).
  * `RegisteredFirst` by `Announced`: a SetActiveRenderer on the wire or still to be
    written names a renderer the application was told of, or is told of by the event
    in hand. It holds modulo the cast: the number on the wire is the i32 of the one
    in the event (`SameRenderer`).
  * `AsksForTheRightQueue` by `Queueing`, with `Fits` and `Ordered`: `session_uuid`
    is what the log named last, or will be with the notification left to send
    (`UuidKnown`); activations and requests for the queue are those of messages that
    were taken (`ActivationsTaken`), so that a message to come is caused by none of
    them; and each request asks for what the log named before its activation
    (`QueueAsked`).
* `DeviceManagerProofs`: one inductive invariant, `Inv`, carries six theorems. A
  selection has one number on its whole way (`Pipeline`: POSTs, queue and history
  are disjoint and in order), nothing is known of it before its turn and it has one
  turn (`Turns`, `InHand`), so that a session's handle is fixed when its turn begins
  (`Handled`). From this follow `InOrder` and `SenderIsTheLast`, which holds as
  well after a connection that failed and a `run()` that was stopped, whether or not the
  handle is still held: only the next turn writes the sender. `Channels` keeps
  every event and `Responder` at the handle of its session and counts at most one
  per session, which `WaitersAreServed` needs to be kept when an answer is taken.
  `Senders` says that a report which waits, waits for the sender installed: the read
  lock it holds keeps `InstallSender` out; `ReportsFollowTheSelection` follows.
  `Finality`: after None no sender of the channel exists, and none can come to be,
  because a new session needs a registered entry.
* `AnnouncementsProofs`: `RegisteredStaysAnnounced` and `NothingElseIsAnnounced`.
  What the last command about a name says is a question about a whole queue;
  lemmas say how the answer (`Says`) changes when a command is appended, taken or
  cut off by the daemon's end, and that it is `Announcement`. The invariant joins
  what a name leads to in both directions (`Stays`, `Leads`) with `Goodbyes`: a
  `shutdown()` that has passed a device leaves its name withdrawn or stray, which is
  kept because it holds the lock, and which is what makes `Leads` hold when the
  daemon is told to stop.
* `ConnectionProofs`: `IdsAlwaysStayApart`, from the invariant that of a frame sent
  fewer than 2^32 ids ago the counter's value is known (`Ids`: it is the frame's id
  plus that number, around the modulus), and the arithmetic of the modulus and of the
  cast to i32.
  `ReaderImplementsLink` for all batches, cuts and damaged frames: what a varint
  encodes is what is read back (`VarintRoundTrip`, by induction over its value), a
  frame that is cut off anywhere gives nothing, the messages of a batch are found
  behind its ignored fields, and so the stream yields, in order, the messages of the
  whole frames. `ToolAlwaysAgrees`: the decode tool shows of every received frame
  what the reader makes of it. They assume of the constants that a byte holds the
  types, that `MaxVarint` bytes are enough for every usize, and that the frames of a
  batch fit into memory (`EnvelopeAssumption`, `ConnectionAssumption`).
* `CredentialsProofs`: `ResultIsRight` and `AsksInOrder`. A scan is compared with
  `CredentialsProperties` pattern by pattern: after n patterns the loop of
  `scan_seeds` holds the one seed that is open (`Open`) and the last seed of each
  zone paired so far (`PairedBy`); an anchor ends the search of its zone at the
  least one that decodes. Bundle by bundle this gives the invariant `Held`: what the
  search has found is what the bundles hold that came, none of which breaks a slice.
  A scan panics exactly when the bundle holds, before or at the first anchor that
  decodes, one that breaks (`PanicsBreaks`, `NoneBreaks`, `BreaksStay`). `Asking` says that what was
  asked for comes before what is left in the list of URLs, and that the two make up
  what is wanted; that the list exists is an induction over finite sets.
* `FakePlayerProofs`: type correctness (the stored position fits a u32);
  `PlayerImplementsPlayhead`, `ServerAlwaysFollows`, `HeartbeatsStayInside`,
  `TracksAreKept`. The first three of the latter assume `MaxElapsed <= MaxU32`: no
  snapshot is older than 49.7 days, after which the code's position
  jumps back.

Induction over data. The library's induction theorems take an operator, which the
provers at hand cannot instantiate, so `Induction` states what is needed of sets and
functions: a set of naturals with 0 and all successors is Nat, a set of naturals
that is not empty has a least element (both from the well-foundedness of `<`), and a
recursive function exists when each argument's predecessor has a lower rank
(`RecursionExists`). The recursive definitions that proofs need (`encode_varint`,
`varint_value`, the loop of `scan_seeds`) are therefore functions and not RECURSIVE
operators or folds.

Only model-checked: what needs fairness, since the proof system has no rules for
ENABLED here: `EndsWithTheStream`, `MessagesAreHandled`, `ReportsAreTaken`,
`EverySelectionIsHandled`, `SessionsEnd`, `HeardAgain`, `AddsFinish`,
`EverythingIsYielded`, `EndsAtTheEnd`. All other properties of the passing runs are
theorems.

## 5. Limits of the model

* One report at a time per handle. `report_*` take `&self` and could be joined in
  one task; the order of such reports is the caller's.
* The tick is untimed: a heartbeat may come whenever the loop is at its `select!`.
* The loss of the whole process is not modelled: nothing is stored. Panics are,
  where lengths, ids and slices can cause them (`ReadPanics`, `IdPanics`,
  `BundlePanics`); in `SessionRunner` those of the connection have no counterpart.
* A turn of the loop that changes nothing is a stuttering step, so that a loop
  that spins looks like one that waits.
* External: protobuf, TLS, tungstenite, the mDNS daemon's protocol, HTTP. A request
  for a page or bundle ends with an answer or an error; reqwest is given no timeout.
* `Announcements`: a service is known by its name; port, address and records are
  left out. What the daemon announces when it stops gets its own goodbye or none.
* `Credentials`: HTML and JavaScript between the patterns is left out, and patterns
  do not overlap; `Window` counts patterns and not bytes.
* `FakePlayer`: volume, mute, shuffle, renderer id and buffer state, which are stored
  or echoed, and `main`'s connection handling are left out.

## 6. Not modelled, and the plan

Not modelled: generated protobuf code (`proto/`, `build.rs`); the examples
`discovery_server`, `direct_auth` and `fetch_credentials`, which print what they
get; the plain data of `config.rs`, `types.rs`, `error.rs` and `msg.rs` beyond what
the modules above use; the failures of `start()`, after which there is no registry.

Left to do:

1. A composition of `SessionRunner` with the manager: two runners on one event
   channel, with `DeviceManager`'s session as the abstract one.
2. A proof that `DeviceManager`'s session is what `SessionRunner` shows of itself.
3. Properties of several reports at once on one handle, if the handle ever
   promises an order between them.
