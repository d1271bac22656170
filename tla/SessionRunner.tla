--------------------------- MODULE SessionRunner ---------------------------
(***************************************************************************)
(* One Qobuz Connect session (src/qconnect.rs), with the two parties it    *)
(* talks to: the Qobuz server behind a WebSocket and the application       *)
(* behind a DeviceSession handle.                                          *)
(*                                                                         *)
(* The runner is one task.  Its handlers are straight-line code between    *)
(* await points, and the fields they read are written by this task alone,  *)
(* so a handler is modelled as the list of its awaited operations, `todo`. *)
(* Dequeuing a message, a command or a heartbeat tick runs the code up to  *)
(* the first await and leaves the rest in `todo`; each later action        *)
(* performs the operation at the head of `todo`.                           *)
(*                                                                         *)
(* Everything that travels is an item: what it is (kind), whom it is       *)
(* answering or caused by (from, id), and the renderer or session it names *)
(* (ref).  The payloads are abstracted away.                               *)
(*                                                                         *)
(* A definition whose name has a suffix, Ask_NoAwait for instance, is the  *)
(* definition below it with a plausible bug.  No specification uses it; it *)
(* shows that a property notices the bug.                                  *)
(***************************************************************************)
EXTENDS Integers, Sequences

CONSTANTS
  auto_activate,   \* DeviceConfig::auto_activate
  EarlyHandle,     \* TRUE: add_device() path, the application holds its handle
                   \* before the session starts; FALSE: connect() path
  EventCap,        \* capacity of the event channel (100 in the code)
  CommandCap,      \* capacity of the command channel (100 in the code)
  ServerMessages,  \* messages the server may send: a set of [kind, ref]
  ReportKinds,     \* SessionCommand variants the application uses
  I32Modulus,      \* 2^32: SetActiveRenderer carries the id as an i32
  MaxMessages,     \* bound: server messages of a behaviour
  MaxReports,      \* bound: reports queued in a behaviour
  MaxBeats         \* bound: heartbeats of a behaviour

\* The server's message types the runner tells apart.  An AddRenderer for this
\* device's uuid is AddOurs; a SetActive whose `active` is false or absent is
\* SetInactive; a SetState that requests nothing is SetStateEmpty; Broadcast
\* stands for the types that only dispatch_notification knows, Unhandled for
\* all others and for a message whose body is absent.
ServerKinds == {"AddOurs", "AddOther", "RemoveRenderer", "SessionState",
                "RendererState", "SetState", "SetStateEmpty", "SetVolume",
                "SetActive", "SetInactive", "Broadcast", "Unhandled"}

\* What ends the reader's stream: an error, or the end of the WebSocket.
StreamEnds == {"ReadError", "Closed"}

CommandKinds == {"SetState", "SetVolume", "SetActive", "Heartbeat"}

NotificationKinds == {"Connected", "DeviceRegistered", "AddRenderer",
                      "RemoveRenderer", "SessionState", "RestoreState",
                      "RendererStateUpdated", "Broadcast", "Deactivated",
                      "Disconnected", "SessionClosed"}

EventKinds == CommandKinds \cup NotificationKinds

\* The message each SessionCommand becomes (handle_command and the do_* it calls).
ReportMessage ==
  [ReportState |-> "StateUpdated", ReportVolume |-> "VolumeChanged",
   ReportVolumeMuted |-> "VolumeMuted",
   ReportMaxAudioQuality |-> "MaxAudioQualityChanged",
   ReportFileAudioQuality |-> "FileAudioQualityChanged",
   QueueLoadTracks |-> "QueueLoadTracks", QueueAddTracks |-> "QueueAddTracks",
   QueueInsertTracks |-> "QueueInsertTracks",
   QueueRemoveTracks |-> "QueueRemoveTracks",
   QueueReorderTracks |-> "QueueReorderTracks", ClearQueue |-> "ClearQueue"]

WireKinds == {"Authenticate", "Subscribe", "JoinSession", "SetActiveRenderer",
              "AskForRendererState", "AskForQueueState"}
             \cup {"StateUpdated", "VolumeChanged", "VolumeMuted",
                   "MaxAudioQualityChanged", "FileAudioQualityChanged",
                   "QueueLoadTracks", "QueueAddTracks", "QueueInsertTracks",
                   "QueueRemoveTracks", "QueueReorderTracks", "ClearQueue"}

ASSUME ConstantsAssumption ==
  /\ auto_activate \in BOOLEAN
  /\ EarlyHandle \in BOOLEAN
  /\ EventCap \in Nat \ {0}
  /\ CommandCap \in Nat \ {0}
  /\ I32Modulus \in Nat \ {0}
  /\ ServerMessages \subseteq [kind: ServerKinds, ref: Nat]
  /\ ReportKinds \subseteq DOMAIN ReportMessage
  /\ MaxMessages \in Nat
  /\ MaxReports \in Nat
  /\ MaxBeats \in Nat

Origins == {"server", "app", "timer", "session"}

Items(kinds, origins, refs) == [kind: kinds, from: origins, id: Nat, ref: refs]
ServerItem == Items(ServerKinds \cup StreamEnds, {"server", "session"}, Nat)
EventItem == Items(EventKinds, Origins, Nat)
CommandItem == Items(CommandKinds, Origins, Nat)
WireItem == Items(WireKinds, Origins, Int)
ReportItem == Items(DOMAIN ReportMessage, {"app"}, Nat)

VARIABLES
  status,        \* "starting" (spawn_session), "running", "stopped" or "failed"
  todo,          \* the awaited operations left in the code being executed
  renderer_id,   \* 0: not registered
  is_active,
  session_uuid,  \* set by a SessionState with a uuid; 0 before
  link,          \* "up", or "down" once the WebSocket is broken or closed
  inbox,         \* what the reader has still to yield
  wire,          \* what the server received from us, oldest first
  log,           \* events put in the event channel, oldest first
  got,           \* how many of them the application has received
  reply,         \* the oneshot of the command awaiting its answer
  app,           \* the application's handle: "none", "held" or "gone"
  reporting,     \* the report the application is blocked in, if any
  commands,      \* the command channel
  nmsgs, nreports, beats   \* messages, queued reports and heartbeats so far

session == <<status, renderer_id, is_active, session_uuid>>
channels == <<link, inbox, wire, log, got>>
user == <<app, reporting, commands>>
counters == <<nmsgs, nreports, beats>>
vars == <<session, todo, channels, reply, user, counters>>

-----------------------------------------------------------------------------
(* Awaited operations.                                                     *)

Mk(kind, from, id, ref) == [kind |-> kind, from |-> from, id |-> id, ref |-> ref]
Own(kind) == Mk(kind, "session", 0, 0)

\* The item of another kind with the cause and the reference of x.
As(kind, x) == [x EXCEPT !.kind = kind]

Steps(op, items) == [op: {op}, item: items, skip: Nat]
Step == Steps("emit", EventItem) \cup Steps("write", WireItem)
        \cup Steps("await", CommandItem) \cup Steps("close", ServerItem)
        \cup Steps("run", EventItem) \cup Steps("stop", EventItem)

Op(op, item) == [op |-> op, item |-> item, skip |-> 0]
Emit(x) == Op("emit", x)
Write(x) == Op("write", x)
\* A write whose error makes the code skip the next n operations (`?`).
WriteOrSkip(x, n) == [op |-> "write", item |-> x, skip |-> n]
Await(x) == Op("await", x)

\* event_tx.send(command).await; rx.await
Ask_NoAwait(x) == <<Emit(x)>>
Ask(x) == <<Emit(x), Await(x)>>

AsI32(r) == LET w == r % I32Modulus
            IN  IF 2 * w >= I32Modulus THEN w - I32Modulus ELSE w

StartSteps == <<Write(Own("Authenticate")), Write(Own("Subscribe")),
                Write(Own("JoinSession")), Emit(Own("Connected")),
                Op("run", Own("Connected"))>>

\* send_activation_handshake: the first error abandons the rest.
Handshake_VolumeFirst(x) ==
  <<WriteOrSkip(As("VolumeChanged", x), 2), WriteOrSkip(As("VolumeMuted", x), 1),
    Write(As("MaxAudioQualityChanged", x))>>
Handshake(x) ==
  <<WriteOrSkip(As("VolumeMuted", x), 2), WriteOrSkip(As("VolumeChanged", x), 1),
    Write(As("MaxAudioQualityChanged", x))>>

\* What the code does with the response to command x.
AnswerSteps(x) ==
  CASE x.kind = "SetActive" -> Handshake(x)
    [] x.kind = "SetVolume" -> <<Write(As("VolumeChanged", x))>>
    [] OTHER                -> <<Write(As("StateUpdated", x))>>

\* The end of run(): the loop is left, SessionClosed sent, the task done.
ExitSteps_NoBreak == <<Emit(Own("Disconnected"))>>
ExitSteps == <<Emit(Own("Disconnected")), Emit(Own("SessionClosed")),
               Op("stop", Own("SessionClosed"))>>
CloseSteps == <<Op("close", Own("Closed"))>> \o ExitSteps

\* The handle is gone (event receiver dropped) or the session's task is
\* (command receiver dropped).
NoReceiver == app = "gone"
Ended == status \in {"stopped", "failed"}
EventRoom == Len(log) - got < EventCap
CommandRoom == Len(commands) < CommandCap
Joined == Len(wire) >= 3

-----------------------------------------------------------------------------
Init ==
  /\ status = "starting" /\ todo = StartSteps
  /\ renderer_id = 0 /\ is_active = FALSE
  /\ session_uuid = 0
  /\ link = "up" /\ inbox = <<>> /\ wire = <<>>
  /\ log = <<>> /\ got = 0 /\ reply = "none"
  /\ app = IF EarlyHandle THEN "held" ELSE "none"
  /\ reporting = <<>> /\ commands = <<>>
  /\ nmsgs = 0 /\ nreports = 0 /\ beats = 0

-----------------------------------------------------------------------------
(* The operations of the task at its await points.                         *)

Doing(op) == todo # <<>> /\ Head(todo).op = op

\* event_tx.send: waits for room; if the receiver is dropped the event, and
\* with it a command's Responder, is dropped at once.
DoEmit ==
  /\ Doing("emit")
  /\ LET x == Head(todo).item IN
     /\ \/ NoReceiver /\ log' = log
        \/ ~NoReceiver /\ EventRoom /\ log' = Append(log, x)
     /\ reply' = IF x.kind \in CommandKinds
                 THEN (IF NoReceiver THEN "dropped" ELSE "queued")
                 ELSE reply
  /\ todo' = Tail(todo)
  /\ UNCHANGED <<session, link, inbox, wire, got, user, counters>>

\* writer.send: delivered while the link is up.  On a broken link the bytes may
\* still be buffered and lost without an error.
DoWrite ==
  /\ Doing("write")
  /\ wire' = IF link = "up" THEN Append(wire, Head(todo).item) ELSE wire
  /\ todo' = Tail(todo)
  /\ UNCHANGED <<session, link, inbox, log, got, reply, user, counters>>

\* An error while starting ends spawn_session, and with it the receiver of the
\* command channel; later ones skip what `?` skips.
DoWriteFails ==
  /\ Doing("write") /\ link = "down"
  /\ IF status = "starting"
     THEN status' = "failed" /\ todo' = <<>> /\ commands' = <<>>
     ELSE /\ todo' = SubSeq(todo, 2 + Head(todo).skip, Len(todo))
          /\ UNCHANGED <<status, commands>>
  /\ UNCHANGED <<renderer_id, is_active, session_uuid, channels,
                 reply, app, reporting, counters>>

\* rx.await: Err (the Responder was dropped) and a heartbeat's None send nothing.
HasAnswer_OrDropped == reply \in {"sent", "dropped"}
HasAnswer == reply = "sent"

DoAwait ==
  /\ Doing("await")
  /\ reply \in {"sent", "sent_none", "dropped"}
  /\ todo' = (IF HasAnswer THEN AnswerSteps(Head(todo).item) ELSE <<>>)
             \o Tail(todo)
  /\ reply' = "none"
  /\ UNCHANGED <<session, channels, user, counters>>

\* writer.close()
DoClose ==
  /\ Doing("close")
  /\ link' = "down"
  /\ todo' = Tail(todo)
  /\ UNCHANGED <<session, inbox, wire, log, got, reply, user, counters>>

\* spawn_session returns; with connect() the application gets its handle.
DoRun ==
  /\ Doing("run")
  /\ status' = "running"
  /\ app' = IF app = "none" THEN "held" ELSE app
  /\ todo' = Tail(todo)
  /\ UNCHANGED <<renderer_id, is_active, session_uuid, channels,
                 reply, reporting, commands, counters>>

\* The task is done: its command receiver and what is queued in it are dropped.
DoStop ==
  /\ Doing("stop")
  /\ status' = "stopped" /\ todo' = <<>> /\ commands' = <<>>
  /\ UNCHANGED <<renderer_id, is_active, session_uuid, channels,
                 reply, app, reporting, counters>>

TaskStep == DoEmit \/ DoWrite \/ DoWriteFails \/ DoAwait \/ DoClose \/ DoRun \/ DoStop

-----------------------------------------------------------------------------
(* The branches of select! in run(), taken when the task is back in its    *)
(* loop: reader.next() with one action per arm of handle_qconnect_message, *)
(* heartbeat.tick() and command_rx.recv().                                 *)

AtSelect == status = "running" /\ todo = <<>>

Takes_Again(kinds) ==
  /\ AtSelect
  /\ inbox # <<>> /\ Head(inbox).kind \in kinds
  /\ UNCHANGED <<inbox, status, link, wire, log, got, reply, user, counters>>
Takes_OnceRegistered(kinds) ==
  /\ AtSelect
  /\ inbox # <<>> /\ Head(inbox).kind \in kinds
  /\ renderer_id # 0 \/ Head(inbox).kind = "AddOurs"
  /\ inbox' = Tail(inbox)
  /\ UNCHANGED <<status, link, wire, log, got, reply, user, counters>>
Takes(kinds) ==
  /\ AtSelect
  /\ inbox # <<>> /\ Head(inbox).kind \in kinds
  /\ inbox' = Tail(inbox)
  /\ UNCHANGED <<status, link, wire, log, got, reply, user, counters>>

\* dispatch_notification: the message types with a Notification of their own.
DispatchTable ==
  [AddOurs |-> "AddRenderer", AddOther |-> "AddRenderer",
   RemoveRenderer |-> "RemoveRenderer", SessionState |-> "SessionState",
   RendererState |-> "RendererStateUpdated", Broadcast |-> "Broadcast"]
Dispatch_All(m) == <<Emit(m)>>
Dispatch(m) ==
  IF m.kind \in DOMAIN DispatchTable
  THEN <<Emit(As(DispatchTable[m.kind], m))>> ELSE <<>>

\* Our own AddRenderer: tell the application, then ask to be activated; an error
\* of that write returns before the notification is dispatched.
ActivateSteps(m) ==
  IF auto_activate
  THEN <<WriteOrSkip([As("SetActiveRenderer", m) EXCEPT !.ref = AsI32(@)], 1)>>
  ELSE <<>>
RegisterSteps_ActivateFirst(m) ==
  ActivateSteps(m) \o <<Emit(As("DeviceRegistered", m))>> \o Dispatch(m)
RegisterSteps(m) ==
  <<Emit(As("DeviceRegistered", m))>> \o ActivateSteps(m) \o Dispatch(m)

HandleAddRenderer ==
  /\ Takes({"AddOurs", "AddOther"})
  /\ LET m == Head(inbox) IN
     IF m.kind = "AddOurs"
     THEN renderer_id' = m.ref /\ todo' = RegisterSteps(m)
     ELSE renderer_id' = renderer_id /\ todo' = Dispatch(m)
  /\ UNCHANGED <<is_active, session_uuid>>

HandleRemoveRenderer ==
  /\ Takes({"RemoveRenderer"})
  /\ renderer_id' = IF renderer_id = Head(inbox).ref THEN 0 ELSE renderer_id
  /\ todo' = Dispatch(Head(inbox))
  /\ UNCHANGED <<is_active, session_uuid>>

\* A SessionState names the session's uuid (ref) or none (0).  SessionState's
\* other field, session_id, is read only for the request this handler sends,
\* which names its cause.
UuidAfter_Reset(m) == m.ref
UuidAfter(m) == IF m.ref # 0 THEN m.ref ELSE session_uuid

HandleSessionState ==
  /\ Takes({"SessionState"})
  /\ LET m == Head(inbox) IN
     /\ session_uuid' = UuidAfter(m)
     /\ todo' = <<Write(As("AskForRendererState", m))>> \o Dispatch(m)
  /\ UNCHANGED <<renderer_id, is_active>>

HandleRendererStateUpdated ==
  /\ Takes({"RendererState"})
  /\ LET m == Head(inbox)
         restore == m.ref # renderer_id /\ ~is_active
     IN  todo' = <<Emit(As(IF restore THEN "RestoreState"
                                      ELSE "RendererStateUpdated", m))>>
  /\ UNCHANGED <<renderer_id, is_active, session_uuid>>

HandleSetState ==
  /\ Takes({"SetState", "SetStateEmpty"})
  /\ todo' = IF Head(inbox).kind = "SetState" THEN Ask(Head(inbox)) ELSE <<>>
  /\ UNCHANGED <<renderer_id, is_active, session_uuid>>

HandleSetVolume ==
  /\ Takes({"SetVolume"})
  /\ todo' = Ask(Head(inbox))
  /\ UNCHANGED <<renderer_id, is_active, session_uuid>>

\* do_request_queue_state falls back to the device's own uuid, here 0.
HandleSetActive ==
  /\ Takes({"SetActive"})
  /\ is_active' = TRUE
  /\ LET m == Head(inbox)
         askQueue == [As("AskForQueueState", m) EXCEPT !.ref = session_uuid]
     IN  todo' = Ask(m) \o <<Write(askQueue)>>
  /\ UNCHANGED <<renderer_id, session_uuid>>

\* Deactivated: a session made on demand closes the WebSocket and exits.
InactiveSteps_NoExit(m) ==
  <<Emit(As("Deactivated", m))>>
  \o (IF auto_activate THEN <<Op("close", Own("Closed")), Emit(Own("Disconnected"))>> ELSE <<>>)
InactiveSteps(m) ==
  <<Emit(As("Deactivated", m))>>
  \o (IF auto_activate THEN CloseSteps ELSE <<>>)

HandleSetInactive_KeepsActive ==
  /\ Takes({"SetInactive"})
  /\ todo' = InactiveSteps(Head(inbox))
  /\ UNCHANGED <<renderer_id, is_active, session_uuid>>
HandleSetInactive ==
  /\ Takes({"SetInactive"})
  /\ is_active' = FALSE
  /\ todo' = InactiveSteps(Head(inbox))
  /\ UNCHANGED <<renderer_id, session_uuid>>

HandleOther ==
  /\ Takes({"Broadcast", "Unhandled"})
  /\ todo' = Dispatch(Head(inbox))
  /\ UNCHANGED <<renderer_id, is_active, session_uuid>>

\* The reader yields Err, or None: the loop is left.
HandleStreamEnd ==
  /\ Takes(StreamEnds)
  /\ todo' = ExitSteps
  /\ UNCHANGED <<renderer_id, is_active, session_uuid>>

HandleMessage ==
  \/ HandleAddRenderer \/ HandleRemoveRenderer \/ HandleSessionState
  \/ HandleRendererStateUpdated \/ HandleSetState \/ HandleSetVolume
  \/ HandleSetActive \/ HandleSetInactive \/ HandleOther \/ HandleStreamEnd

MayBeat_Unregistered == is_active
MayBeat == is_active /\ renderer_id # 0

\* heartbeat.tick(): asks only while active and registered.
Tick ==
  /\ AtSelect /\ MayBeat /\ beats < MaxBeats
  /\ todo' = Ask(Mk("Heartbeat", "timer", beats + 1, 0))
  /\ beats' = beats + 1
  /\ UNCHANGED <<session, channels, reply, user, nmsgs, nreports>>

\* A tick that asks nothing, and recv() on a command channel without senders,
\* leave everything as it is; so does a tick past the bound.
IdleTurn ==
  /\ AtSelect /\ (~MayBeat \/ beats = MaxBeats)
  /\ UNCHANGED vars

CommandReady_WhenActive == commands # <<>> /\ is_active
CommandReady == commands # <<>>

\* handle_command
TakeCommand_Newest ==
  /\ AtSelect /\ CommandReady
  /\ LET c == commands[Len(commands)] IN todo' = <<Write(As(ReportMessage[c.kind], c))>>
  /\ commands' = SubSeq(commands, 1, Len(commands) - 1)
  /\ UNCHANGED <<session, channels, reply, app, reporting, counters>>
TakeCommand ==
  /\ AtSelect /\ CommandReady
  /\ LET c == Head(commands) IN todo' = <<Write(As(ReportMessage[c.kind], c))>>
  /\ commands' = Tail(commands)
  /\ UNCHANGED <<session, channels, reply, app, reporting, counters>>

-----------------------------------------------------------------------------
(* The application, behind its DeviceSession.  recv() borrows the handle   *)
(* mutably, so no report is in progress while it runs.                     *)

AppFree == app = "held" /\ reporting = <<>>

Recv ==
  /\ AppFree /\ got < Len(log)
  /\ got' = got + 1
  /\ reply' = IF log[got'].kind \in CommandKinds THEN "held" ELSE reply
  /\ UNCHANGED <<session, todo, link, inbox, wire, log, user, counters>>

\* Responder::send; None is an answer to a heartbeat only.
Respond ==
  /\ reply = "held" /\ reporting = <<>>
  /\ \/ reply' = "sent"
     \/ reply' = "sent_none" /\ log[Len(log)].kind = "Heartbeat"
  /\ UNCHANGED <<session, todo, channels, user, counters>>

DropResponder ==
  /\ reply = "held" /\ reporting = <<>>
  /\ reply' = "dropped"
  /\ UNCHANGED <<session, todo, channels, user, counters>>

\* report_*() and queue_*(): send_command waits for room in the channel.  The
\* report is numbered when it is put there.
StartReport(kind) ==
  /\ AppFree /\ ~Ended /\ nreports < MaxReports
  /\ reporting' = <<Mk(kind, "app", nreports + 1, 0)>>
  /\ UNCHANGED <<session, todo, channels, reply, app, commands, counters>>

FinishReport ==
  /\ reporting # <<>>
  /\ reporting' = <<>>
  /\ \/ Ended /\ UNCHANGED <<commands, nreports>>      \* Err(Session closed)
     \/ /\ ~Ended /\ CommandRoom
        /\ commands' = commands \o reporting
        /\ nreports' = nreports + 1
  /\ UNCHANGED <<session, todo, channels, reply, app, nmsgs, beats>>

\* The report's future is dropped, for instance by a timeout around it.
AbandonReport ==
  /\ reporting # <<>>
  /\ reporting' = <<>>
  /\ UNCHANGED <<session, todo, channels, reply, app, commands, counters>>

\* The handle is dropped: queued events, and a Responder among them, go with it.
DropHandle ==
  /\ AppFree
  /\ app' = "gone"
  /\ reply' = IF reply = "queued" THEN "dropped" ELSE reply
  /\ UNCHANGED <<session, todo, channels, reporting, commands, counters>>

-----------------------------------------------------------------------------
(* The server and the network.                                             *)

ServerSends(m) ==
  /\ link = "up" /\ Joined /\ nmsgs < MaxMessages
  /\ nmsgs' = nmsgs + 1
  /\ inbox' = Append(inbox, Mk(m.kind, "server", nmsgs', m.ref))
  /\ UNCHANGED <<session, todo, link, wire, log, got, reply, user, nreports, beats>>

\* The server closes, or the connection breaks and some messages are lost.
LinkBreaks(end) ==
  /\ link = "up"
  /\ link' = "down"
  /\ \E n \in 0 .. Len(inbox) :
        inbox' = Append(SubSeq(inbox, 1, n), Own(end))
  /\ UNCHANGED <<session, todo, wire, log, got, reply, user, counters>>

\* Nothing is left to do once the session is over and the application is idle.
Finished ==
  /\ Ended /\ reporting = <<>> /\ reply = "none"
  /\ UNCHANGED vars

-----------------------------------------------------------------------------
Select == HandleMessage \/ Tick \/ IdleTurn \/ TakeCommand

Application ==
  \/ Recv \/ Respond \/ DropResponder \/ DropHandle
  \/ FinishReport \/ AbandonReport
  \/ \E kind \in ReportKinds : StartReport(kind)

Environment ==
  \/ \E m \in ServerMessages : ServerSends(m)
  \/ \E end \in StreamEnds : LinkBreaks(end)

Next == TaskStep \/ Select \/ Application \/ Environment \/ Finished

Spec == Init /\ [][Next]_vars
=============================================================================
