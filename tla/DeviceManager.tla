--------------------------- MODULE DeviceManager ---------------------------
(***************************************************************************)
(* The devices of a SessionManager: the registry and its HTTP endpoint     *)
(* (src/discovery.rs), the loop that turns selections into sessions        *)
(* (src/manager.rs), the DeviceSession handles of the application          *)
(* (src/session.rs), and the sessions themselves, reduced to what they     *)
(* share with the rest: they say events, ask for answers, take reports and *)
(* end.  SessionRunner has their inside.                                   *)
(*                                                                         *)
(* add_device, remove_device and shutdown borrow the manager, and run()    *)
(* borrows it mutably: they come only when run() is not running, before it *)
(* or after its future was dropped.                                        *)
(*                                                                         *)
(* A definition whose name has a suffix, InstallSender_NoLock for          *)
(* instance, is the definition below it with a plausible bug.              *)
(***************************************************************************)
EXTENDS Naturals, Sequences

CONSTANTS
  Devices,        \* device uuids
  SelectionCap,   \* capacity of the DeviceSelected channel (16 in the code)
  EventCap,       \* capacity of a handle's event channel (100)
  CommandCap,     \* capacity of a session's command channel (100)
  MaxHandles,     \* bound: calls of add_device
  MaxPosts,       \* bound: POSTs to connect-to-qconnect
  MaxReports,     \* bound: reports of the application
  MaxEvents       \* bound: a session calls for no event once its handle had so many

ASSUME ManagerAssumption ==
  /\ SelectionCap \in Nat \ {0} /\ EventCap \in Nat \ {0} /\ CommandCap \in Nat \ {0}
  /\ MaxHandles \in Nat /\ MaxPosts \in Nat /\ MaxReports \in Nat /\ MaxEvents \in Nat

Handles == 1 .. MaxHandles   \* what add_device returned, and its registry entry
Ids == 1 .. MaxPosts         \* a POST, and the selection and session it leads to

Selection == [id: Ids, device: Devices]

VARIABLES
  devices,     \* the registry: the entry of each device, 0 if there is none
  current_session_id,   \* of each entry; 0: None
  posts,       \* POSTs that recorded their session id and now queue a selection
  selections,  \* the DeviceSelected channel
  accepted,    \* ids of the selections queued so far, oldest first
  at,          \* SessionManager::run: "off", "idle", "selected", "connecting",
               \* "connected"; "dropped": the manager is gone
  hand,        \* the selection run() is handling, 0 if none
  shared_tx,   \* SharedCommandTx of each entry: a session, or 0 for None
  status,      \* of each session; "none" before it, "lost" if it never began
  handle,      \* the entry whose channels a session was given
  commands,    \* how many commands are in each session's channel
  events, got, \* the event channel of each entry: all events, how many received
  app,         \* each handle: "none", "held" or "gone"
  owed,        \* the sessions whose Responder the application holds, per handle
  reporting,   \* the session a handle's report is waiting to reach, 0 if none
  ended,       \* recv() returned None
  nhandles, nposts, nreports

registry == <<devices, current_session_id>>
http == <<posts, selections, accepted>>
manager == <<at, hand, shared_tx>>
session == <<status, handle, commands>>
user == <<app, owed, reporting, ended>>
counters == <<nhandles, nposts, nreports>>
vars == <<registry, http, manager, session, events, got, user, counters>>

\* "running" is the session's select!; "notifying", "asking" and "closing" have an
\* event to send, "waiting" an answer to get.
Statuses == {"none", "connecting", "connected", "running", "notifying", "asking",
             "waiting", "closing", "over", "lost"}
\* The session's task, or spawn_session for it, holds its command receiver and a
\* sender of the event channel.
Alive(k) == status[k] \notin {"none", "over", "lost"}

EventRoom(h) == Len(events[h]) - got[h] < EventCap
Event(k, kind) == [id |-> k, kind |-> kind]

\* event_tx.send: waits for room; without a receiver the event is dropped.
Send(h, e) ==
  \/ app[h] = "gone" /\ UNCHANGED events
  \/ app[h] # "gone" /\ EventRoom(h) /\ events' = [events EXCEPT ![h] = Append(@, e)]

\* A sender of the event channel exists: in the registry's entry, in run()'s
\* hand or in a session.
SenderAlive_Registered(h) == \E d \in Devices : devices[d] = h
SenderAlive(h) ==
  \/ \E d \in Devices : devices[d] = h
  \/ at = "selected" /\ hand # 0 /\ handle[hand] = h
  \/ \E k \in Ids : handle[k] = h /\ Alive(k)

-----------------------------------------------------------------------------
Init ==
  /\ devices = [d \in Devices |-> 0]
  /\ current_session_id = [h \in Handles |-> 0]
  /\ posts = {} /\ selections = <<>> /\ accepted = <<>>
  /\ at = "off" /\ hand = 0
  /\ shared_tx = [h \in Handles |-> 0]
  /\ status = [k \in Ids |-> "none"] /\ handle = [k \in Ids |-> 0]
  /\ commands = [k \in Ids |-> 0]
  /\ events = [h \in Handles |-> <<>>] /\ got = [h \in Handles |-> 0]
  /\ app = [h \in Handles |-> "none"] /\ owed = [h \in Handles |-> {}]
  /\ reporting = [h \in Handles |-> 0] /\ ended = [h \in Handles |-> FALSE]
  /\ nhandles = 0 /\ nposts = 0 /\ nreports = 0

-----------------------------------------------------------------------------
(* The registry.                                                           *)

\* An entry for the same uuid is replaced, and its event sender dropped.
AddDevice(d) ==
  /\ at = "off" /\ nhandles < MaxHandles
  /\ nhandles' = nhandles + 1
  /\ devices' = [devices EXCEPT ![d] = nhandles']
  /\ app' = [app EXCEPT ![nhandles'] = "held"]
  /\ UNCHANGED <<current_session_id, http, manager, session, events, got,
                 owed, reporting, ended, nposts, nreports>>

RemoveDevice(d) ==
  /\ at = "off" /\ devices[d] # 0
  /\ devices' = [devices EXCEPT ![d] = 0]
  /\ UNCHANGED <<current_session_id, http, manager, session, events, got, user, counters>>

\* connect_to_qconnect, up to event_tx.send().await; a device that is not
\* registered is NOT_FOUND and changes nothing.
PostConnect(d) ==
  /\ devices[d] # 0 /\ nposts < MaxPosts
  /\ nposts' = nposts + 1
  /\ current_session_id' = [current_session_id EXCEPT ![devices[d]] = nposts']
  /\ posts' = posts \cup {[id |-> nposts', device |-> d]}
  /\ UNCHANGED <<devices, selections, accepted, manager, session, events, got, user,
                 nhandles, nreports>>

QueueSelection(p) ==
  /\ at # "dropped" /\ Len(selections) < SelectionCap
  /\ posts' = posts \ {p}
  /\ selections' = Append(selections, p)
  /\ accepted' = Append(accepted, p.id)
  /\ UNCHANGED <<registry, manager, session, events, got, user, counters>>

\* "Internal error" once the manager is gone; or the client went away and its
\* handler was dropped.
FailPost(p) ==
  /\ posts' = posts \ {p}
  /\ UNCHANGED <<registry, selections, accepted, manager, session, events, got, user, counters>>

-----------------------------------------------------------------------------
(* SessionManager::run.                                                    *)

StartRun ==
  /\ at = "off"
  /\ at' = "idle"
  /\ UNCHANGED <<registry, http, hand, shared_tx, session, events, got, user, counters>>

\* recv(), then get_device, get_event_tx and get_command_tx: nothing can change
\* the registry between the three while run() runs.
TakeSelection_Newest ==
  /\ at = "idle" /\ selections # <<>>
  /\ LET s == selections[Len(selections)] h == devices[s.device] IN
     IF h = 0
     THEN status' = [status EXCEPT ![s.id] = "lost"] /\ UNCHANGED <<at, hand, handle>>
     ELSE /\ at' = "selected" /\ hand' = s.id
          /\ handle' = [handle EXCEPT ![s.id] = h] /\ UNCHANGED status
  /\ selections' = SubSeq(selections, 1, Len(selections) - 1)
  /\ UNCHANGED <<registry, posts, accepted, shared_tx, commands, events, got, user, counters>>
TakeSelection ==
  /\ at = "idle" /\ selections # <<>>
  /\ LET s == Head(selections) h == devices[s.device] IN
     IF h = 0
     THEN status' = [status EXCEPT ![s.id] = "lost"] /\ UNCHANGED <<at, hand, handle>>
     ELSE /\ at' = "selected" /\ hand' = s.id
          /\ handle' = [handle EXCEPT ![s.id] = h] /\ UNCHANGED status
  /\ selections' = Tail(selections)
  /\ UNCHANGED <<registry, posts, accepted, shared_tx, commands, events, got, user, counters>>

\* shared_command_tx.write().await waits for the report that holds the lock.
InstallSender_NoLock ==
  /\ at = "selected"
  /\ at' = "connecting"
  /\ shared_tx' = [shared_tx EXCEPT ![handle[hand]] = hand]
  /\ status' = [status EXCEPT ![hand] = "connecting"]
  /\ UNCHANGED <<registry, http, hand, handle, commands, events, got, user, counters>>
InstallSender_FirstStays ==
  /\ at = "selected" /\ reporting[handle[hand]] = 0
  /\ at' = "connecting"
  /\ shared_tx' = [shared_tx EXCEPT ![handle[hand]] = IF @ = 0 THEN hand ELSE @]
  /\ status' = [status EXCEPT ![hand] = "connecting"]
  /\ UNCHANGED <<registry, http, hand, handle, commands, events, got, user, counters>>
InstallSender_AfterTheLast ==
  /\ at = "selected" /\ reporting[handle[hand]] = 0
  /\ \A k \in Ids : handle[k] = handle[hand] /\ k # hand => ~Alive(k)
  /\ at' = "connecting"
  /\ shared_tx' = [shared_tx EXCEPT ![handle[hand]] = hand]
  /\ status' = [status EXCEPT ![hand] = "connecting"]
  /\ UNCHANGED <<registry, http, hand, handle, commands, events, got, user, counters>>
InstallSender ==
  /\ at = "selected" /\ reporting[handle[hand]] = 0
  /\ at' = "connecting"
  /\ shared_tx' = [shared_tx EXCEPT ![handle[hand]] = hand]
  /\ status' = [status EXCEPT ![hand] = "connecting"]
  /\ UNCHANGED <<registry, http, hand, handle, commands, events, got, user, counters>>

\* spawn_session: the WebSocket is connected and the session joined, or not, and
\* the command receiver is dropped.
ConnectSucceeds ==
  /\ at = "connecting"
  /\ at' = "connected"
  /\ status' = [status EXCEPT ![hand] = "connected"]
  /\ UNCHANGED <<registry, http, hand, shared_tx, handle, commands, events, got, user, counters>>

ConnectFails ==
  /\ at = "connecting"
  /\ at' = "idle" /\ hand' = 0
  /\ status' = [status EXCEPT ![hand] = "over"]
  /\ commands' = [commands EXCEPT ![hand] = 0]
  /\ UNCHANGED <<registry, http, shared_tx, handle, events, got, user, counters>>

\* Connected is sent by spawn_session itself, so run() waits for the room.
SayConnected ==
  /\ at = "connected"
  /\ Send(handle[hand], Event(hand, "Connected"))
  /\ at' = "idle" /\ hand' = 0
  /\ status' = [status EXCEPT ![hand] = "running"]
  /\ UNCHANGED <<registry, http, shared_tx, handle, commands, got, user, counters>>

\* run()'s future is dropped at an await point, and what it holds with it.
StopRun ==
  /\ at \notin {"off", "dropped"}
  /\ at' = "off" /\ hand' = 0
  /\ status' = [k \in Ids |-> IF k # hand THEN status[k]
                              ELSE IF at = "selected" THEN "lost" ELSE "over"]
  /\ commands' = [k \in Ids |-> IF k = hand THEN 0 ELSE commands[k]]
  /\ UNCHANGED <<registry, http, shared_tx, handle, events, got, user, counters>>

\* The manager is dropped with its receiver.  The HTTP server and the
\* re-announcement task keep the registry's entries.
DropManager ==
  /\ at = "off"
  /\ at' = "dropped" /\ selections' = <<>>
  /\ status' = [k \in Ids |-> IF \E i \in DOMAIN selections : selections[i].id = k
                              THEN "lost" ELSE status[k]]
  /\ UNCHANGED <<registry, posts, accepted, hand, shared_tx, handle, commands,
                 events, got, user, counters>>

-----------------------------------------------------------------------------
(* A session, once its task is spawned.                                    *)

\* A message of the server, or the heartbeat's tick, calls for an event.
Begin(k) ==
  /\ status[k] = "running" /\ Len(events[handle[k]]) < MaxEvents
  /\ \E doing \in {"notifying", "asking"} : status' = [status EXCEPT ![k] = doing]
  /\ UNCHANGED <<registry, http, manager, handle, commands, events, got, user, counters>>

Notify(k) ==
  /\ status[k] = "notifying"
  /\ Send(handle[k], Event(k, "Notification"))
  /\ status' = [status EXCEPT ![k] = "running"]
  /\ UNCHANGED <<registry, http, manager, handle, commands, got, user, counters>>

\* A command is said and its answer awaited; without a receiver the Responder is
\* dropped at once.
Ask(k) ==
  /\ status[k] = "asking"
  /\ Send(handle[k], Event(k, "Command"))
  /\ status' = [status EXCEPT ![k] = IF app[handle[k]] = "gone" THEN "running" ELSE "waiting"]
  /\ UNCHANGED <<registry, http, manager, handle, commands, got, user, counters>>

TakeCommand(k) ==
  /\ status[k] = "running" /\ commands[k] > 0
  /\ commands' = [commands EXCEPT ![k] = @ - 1]
  /\ UNCHANGED <<registry, http, manager, status, handle, events, got, user, counters>>

Leave(k) ==
  /\ status[k] = "running"
  /\ status' = [status EXCEPT ![k] = "closing"]
  /\ UNCHANGED <<registry, http, manager, handle, commands, events, got, user, counters>>

\* With try_send, the event would be lost when the channel is full.
SaySessionClosed_TrySend(k) ==
  /\ status[k] = "closing"
  /\ \/ Send(handle[k], Event(k, "SessionClosed"))
     \/ app[handle[k]] # "gone" /\ ~EventRoom(handle[k]) /\ UNCHANGED events
  /\ status' = [status EXCEPT ![k] = "over"]
  /\ commands' = [commands EXCEPT ![k] = 0]
  /\ UNCHANGED <<registry, http, manager, handle, got, user, counters>>
SaySessionClosed(k) ==
  /\ status[k] = "closing"
  /\ Send(handle[k], Event(k, "SessionClosed"))
  /\ status' = [status EXCEPT ![k] = "over"]
  /\ commands' = [commands EXCEPT ![k] = 0]
  /\ UNCHANGED <<registry, http, manager, handle, got, user, counters>>

-----------------------------------------------------------------------------
(* The application: one task per handle.  recv() borrows the handle        *)
(* mutably, so a report in progress excludes it.                           *)

Free(h) == app[h] = "held" /\ reporting[h] = 0

Recv(h) ==
  /\ Free(h) /\ got[h] < Len(events[h])
  /\ got' = [got EXCEPT ![h] = @ + 1]
  /\ LET e == events[h][got'[h]] IN
     owed' = IF e.kind = "Command" THEN [owed EXCEPT ![h] = @ \cup {e.id}] ELSE owed
  /\ UNCHANGED <<registry, http, manager, session, events, app, reporting, ended, counters>>

RecvNone(h) ==
  /\ Free(h) /\ got[h] = Len(events[h]) /\ ~SenderAlive(h)
  /\ ended' = [ended EXCEPT ![h] = TRUE]
  /\ UNCHANGED <<registry, http, manager, session, events, got, app, owed, reporting, counters>>

\* The Responder of session k is used or dropped.
Answer(h, k) ==
  /\ k \in owed[h] /\ reporting[h] = 0
  /\ owed' = [owed EXCEPT ![h] = @ \ {k}]
  /\ status' = [status EXCEPT ![k] = "running"]
  /\ UNCHANGED <<registry, http, manager, handle, commands, events, got,
                 app, reporting, ended, counters>>

\* send_command: the read lock is held until the command is in the channel.
\* With no sender yet it is an error at once, which changes nothing.
StartReport(h) ==
  /\ Free(h) /\ shared_tx[h] # 0 /\ nreports < MaxReports
  /\ nreports' = nreports + 1
  /\ reporting' = [reporting EXCEPT ![h] = shared_tx[h]]
  /\ UNCHANGED <<registry, http, manager, session, events, got, app, owed, ended,
                 nhandles, nposts>>

FinishReport_Unbounded(h) ==
  /\ reporting[h] # 0
  /\ LET k == reporting[h] IN
     \/ ~Alive(k) /\ UNCHANGED commands
     \/ Alive(k) /\ commands' = [commands EXCEPT ![k] = @ + 1]
  /\ reporting' = [reporting EXCEPT ![h] = 0]
  /\ UNCHANGED <<registry, http, manager, status, handle, events, got,
                 app, owed, ended, counters>>
FinishReport(h) ==
  /\ reporting[h] # 0
  /\ LET k == reporting[h] IN
     \/ ~Alive(k) /\ UNCHANGED commands                \* Err(Session closed)
     \/ Alive(k) /\ commands[k] < CommandCap
        /\ commands' = [commands EXCEPT ![k] = @ + 1]
  /\ reporting' = [reporting EXCEPT ![h] = 0]
  /\ UNCHANGED <<registry, http, manager, status, handle, events, got,
                 app, owed, ended, counters>>

\* The report's future is dropped, for instance by a timeout around it.
AbandonReport(h) ==
  /\ reporting[h] # 0
  /\ reporting' = [reporting EXCEPT ![h] = 0]
  /\ UNCHANGED <<registry, http, manager, session, events, got, app, owed, ended, counters>>

\* Events left in the channel are dropped, and the Responders among them.
Unreceived(h) == {events[h][i] : i \in got[h] + 1 .. Len(events[h])}
DropHandle_Leaks(h) ==
  /\ Free(h)
  /\ app' = [app EXCEPT ![h] = "gone"]
  /\ UNCHANGED <<registry, http, manager, session, events, got,
                 owed, reporting, ended, counters>>
DropHandle(h) ==
  /\ Free(h)
  /\ app' = [app EXCEPT ![h] = "gone"]
  /\ status' = [k \in Ids |-> IF Event(k, "Command") \in Unreceived(h)
                              THEN "running" ELSE status[k]]
  /\ UNCHANGED <<registry, http, manager, handle, commands, events, got,
                 owed, reporting, ended, counters>>

-----------------------------------------------------------------------------
Registry ==
  \/ \E d \in Devices : AddDevice(d) \/ RemoveDevice(d) \/ PostConnect(d)
  \/ \E p \in posts : QueueSelection(p) \/ FailPost(p)
Handling == TakeSelection \/ InstallSender \/ ConnectSucceeds \/ ConnectFails \/ SayConnected
Manager == StartRun \/ Handling \/ StopRun \/ DropManager
Session ==
  \E k \in Ids : \/ Begin(k) \/ Notify(k) \/ Ask(k)
                \/ TakeCommand(k) \/ Leave(k) \/ SaySessionClosed(k)
Application ==
  \E h \in Handles :
    \/ Recv(h) \/ RecvNone(h) \/ StartReport(h) \/ FinishReport(h)
    \/ AbandonReport(h) \/ DropHandle(h)
    \/ \E k \in Ids : Answer(h, k)

\* Nothing is left: the manager is gone, its sessions are over, and no handle
\* has anything to receive.
Finished ==
  /\ at = "dropped" /\ posts = {} /\ \A k \in Ids : ~Alive(k)
  /\ \A h \in Handles : reporting[h] = 0 /\ (app[h] = "held" => got[h] = Len(events[h]))
  /\ UNCHANGED vars

Next == Registry \/ Manager \/ Session \/ Application \/ Finished

Spec == Init /\ [][Next]_vars
=============================================================================
