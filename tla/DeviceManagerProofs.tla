------------------------ MODULE DeviceManagerProofs ------------------------
(***************************************************************************)
(* Theorems about DeviceManager, for every value of its constants.  One    *)
(* inductive invariant, Inv, carries all of them.                          *)
(***************************************************************************)
EXTENDS DeviceManagerProperties, SequenceTheorems, TLAPS

Done == Len(accepted) - Len(selections)

\* A selection has a number of its own; those queued so far, oldest first, are the
\* ones that had their turn, and then those that still wait.
Pipeline ==
  /\ Len(selections) <= Len(accepted)
  /\ \A i \in DOMAIN selections : selections[i].id = accepted[Done + i]
  /\ \A i, j \in DOMAIN accepted : accepted[i] = accepted[j] => i = j
  /\ \A i \in DOMAIN accepted : accepted[i] <= nposts
  /\ \A p \in posts : p.id <= nposts /\ \A i \in DOMAIN accepted : accepted[i] # p.id
  /\ \A p, q \in posts : p.id = q.id => p = q

\* Nothing is known of a selection before its turn, which is the last in the hand
\* of run(); afterwards it has begun or was given up.
Turns ==
  /\ \A i \in DOMAIN accepted :
       IF i > Done THEN status[accepted[i]] = "none" /\ handle[accepted[i]] = 0
       ELSE status[accepted[i]] = "none" => at = "selected" /\ accepted[i] = hand
  /\ \A k \in Ids : (\A i \in DOMAIN accepted : accepted[i] # k)
                       => status[k] = "none" /\ handle[k] = 0
  /\ hand # 0 => Done > 0 /\ accepted[Done] = hand

\* A session is being created only in the hand of run(), one at a time.
OnlyInHand ==
  \A k \in Ids : status[k] \in {"connecting", "connected"} <=> k = hand /\ at = status[k]
InHand ==
  /\ hand # 0 <=> at \in {"selected", "connecting", "connected"}
  /\ hand # 0 => handle[hand] # 0
  /\ at = "selected" => status[hand] = "none"
  /\ at \in {"connecting", "connected"} => status[hand] = at
  /\ OnlyInHand

Handled ==
  /\ \A k \in Ids : status[k] \notin {"none", "lost"} => handle[k] # 0
  /\ \A h \in Handles : h > nhandles => app[h] = "none" /\ ~ended[h]

\* Each event and each Responder is at the handle of its session, and a session
\* has at most one Responder.
Waiting(h, i) == i \in DOMAIN events[h] /\ i > got[h] /\ events[h][i].kind = "Command"
Channels ==
  /\ \A h \in Handles : got[h] <= Len(events[h])
  /\ \A h \in Handles : \A i \in DOMAIN events[h] : handle[events[h][i].id] = h
  /\ \A h \in Handles : \A k \in owed[h] : handle[k] = h
  /\ \A h \in Handles : \A i, j \in DOMAIN events[h] :
       Waiting(h, i) /\ Waiting(h, j) /\ events[h][i].id = events[h][j].id => i = j
  /\ \A h \in Handles : \A i \in DOMAIN events[h] : Waiting(h, i) => events[h][i].id \notin owed[h]
Served == WaitersAreServed

\* The sender installed is one of the handle's sessions, and a report that waits,
\* waits for that one.
Senders ==
  /\ \A h \in Handles : shared_tx[h] # 0 => handle[shared_tx[h]] = h
  /\ \A h \in Handles : reporting[h] # 0 => reporting[h] = shared_tx[h]

Finality == \A h \in Handles : ended[h] => ~SenderAlive(h)

Inv ==
  /\ TypeOK /\ Pipeline /\ Turns /\ InHand /\ Handled /\ Channels /\ Served
  /\ Senders /\ SenderOfTheLastBegun /\ Finality

-----------------------------------------------------------------------------
(* The start.                                                              *)

LEMMA InitialInv == Init => Inv
<1> SUFFICES ASSUME Init PROVE Inv
  OBVIOUS
<1>1. TypeOK
  BY ManagerAssumption DEF Init, TypeOK, Handles, Ids, Statuses
<1>2. Pipeline /\ Turns
  BY DEF Init, Pipeline, Turns, Done
<1>3. InHand /\ Handled
  BY DEF Init, InHand, Handled, OnlyInHand, Handles, Ids
<1>4. Channels /\ Served /\ Senders /\ Finality
  BY DEF Init, Channels, Served, WaitersAreServed, Senders, Finality, Waiting
<1>5. SenderOfTheLastBegun
  BY DEF Init, SenderOfTheLastBegun, Begun
<1> QED  BY <1>1, <1>2, <1>3, <1>4, <1>5 DEF Inv

-----------------------------------------------------------------------------
(* The types, variable group by variable group.                            *)

EventItem == [id : Ids, kind : {"Connected", "Notification", "Command", "SessionClosed"}]

RegistryTyped ==
  /\ devices \in [Devices -> 0 .. MaxHandles] /\ current_session_id \in [Handles -> 0 .. MaxPosts]
HttpTyped == posts \subseteq Selection /\ selections \in Seq(Selection) /\ accepted \in Seq(Ids)
ManagerTyped ==
  /\ at \in {"off", "idle", "selected", "connecting", "connected", "dropped"}
  /\ hand \in 0 .. MaxPosts
  /\ shared_tx \in [Handles -> 0 .. MaxPosts]
SessionTyped ==
  /\ status \in [Ids -> Statuses] /\ handle \in [Ids -> 0 .. MaxHandles]
  /\ commands \in [Ids -> 0 .. CommandCap]
ChannelTyped == events \in [Handles -> Seq(EventItem)] /\ got \in [Handles -> Nat]
UserTyped ==
  /\ app \in [Handles -> {"none", "held", "gone"}] /\ owed \in [Handles -> SUBSET Ids]
  /\ reporting \in [Handles -> 0 .. MaxPosts] /\ ended \in [Handles -> BOOLEAN]
CountersTyped ==
  nhandles \in 0 .. MaxHandles /\ nposts \in 0 .. MaxPosts /\ nreports \in 0 .. MaxReports
AllTyped ==
  /\ RegistryTyped /\ HttpTyped /\ ManagerTyped /\ SessionTyped /\ ChannelTyped /\ UserTyped
  /\ CountersTyped

LEMMA TypeParts == (TypeOK <=> AllTyped) /\ (TypeOK' <=> AllTyped')
BY DEF TypeOK, AllTyped, RegistryTyped, HttpTyped, ManagerTyped, SessionTyped, ChannelTyped,
       UserTyped, CountersTyped, EventItem

LEMMA PartsKept ==
  /\ RegistryTyped /\ UNCHANGED registry => RegistryTyped'
  /\ HttpTyped /\ UNCHANGED http => HttpTyped'
  /\ ManagerTyped /\ UNCHANGED manager => ManagerTyped'
  /\ SessionTyped /\ UNCHANGED session => SessionTyped'
  /\ ChannelTyped /\ UNCHANGED <<events, got>> => ChannelTyped'
  /\ UserTyped /\ UNCHANGED user => UserTyped'
  /\ CountersTyped /\ UNCHANGED counters => CountersTyped'
BY DEF RegistryTyped, HttpTyped, ManagerTyped, SessionTyped, ChannelTyped, UserTyped,
       CountersTyped, registry, http, manager, session, user, counters

LEMMA Numbers ==
  /\ \A k : k \in Ids <=> k \in 0 .. MaxPosts /\ k # 0
  /\ \A h : h \in Handles <=> h \in 0 .. MaxHandles /\ h # 0
  /\ \A k \in Ids : k \in Nat /\ k <= MaxPosts /\ k \in 0 .. MaxPosts
  /\ \A h \in Handles : h \in Nat /\ h <= MaxHandles /\ h \in 0 .. MaxHandles
BY ManagerAssumption DEF Ids, Handles

LEMMA HandTyped ==
  ASSUME Inv, hand # 0
  PROVE  hand \in Ids /\ handle[hand] \in Handles
<1>1. hand \in Ids
  BY TypeParts, Numbers DEF Inv, AllTyped, ManagerTyped
<1>2. handle[hand] \in 0 .. MaxHandles
  BY <1>1, TypeParts DEF Inv, AllTyped, SessionTyped
<1> QED  BY <1>1, <1>2, Numbers DEF Inv, InHand

-----------------------------------------------------------------------------
(* Every step keeps the types.                                             *)

LEMMA SendTyped ==
  ASSUME ChannelTyped, NEW h, NEW k \in Ids, got' = got,
         NEW kind \in {"Connected", "Notification", "Command", "SessionClosed"},
         Send(h, Event(k, kind))
  PROVE  ChannelTyped'
<1>1. Event(k, kind) \in EventItem
  BY DEF Event, EventItem
<1> HIDE DEF EventItem
<1>2. CASE UNCHANGED events
  BY <1>2 DEF ChannelTyped
<1>3. CASE events' = [events EXCEPT ![h] = Append(@, Event(k, kind))]
  <2>1. CASE h \in Handles
    <3>1. Append(events[h], Event(k, kind)) \in Seq(EventItem)
      BY <1>1, <2>1 DEF ChannelTyped
    <3> QED  BY <1>3, <3>1 DEF ChannelTyped
  <2>2. CASE h \notin Handles
    BY <1>3, <2>2 DEF ChannelTyped
  <2> QED  BY <2>1, <2>2
<1> QED  BY <1>2, <1>3 DEF Send

LEMMA RegistryTypes ==
  ASSUME Inv, Registry
  PROVE  TypeOK'
<1>0. AllTyped
  BY TypeParts DEF Inv
<1>1. ASSUME NEW d \in Devices, AddDevice(d) PROVE AllTyped'
  <2>1. CountersTyped' /\ nhandles' \in 0 .. MaxHandles
    BY <1>0, <1>1, ManagerAssumption DEF AddDevice, AllTyped, CountersTyped
  <2>2. RegistryTyped'
    BY <1>0, <1>1, <2>1 DEF AddDevice, AllTyped, RegistryTyped
  <2>3. UserTyped'
    BY <1>0, <1>1 DEF AddDevice, AllTyped, UserTyped
  <2> QED  BY <1>0, <1>1, <2>1, <2>2, <2>3, PartsKept DEF AddDevice, AllTyped
<1>2. ASSUME NEW d \in Devices, RemoveDevice(d) PROVE AllTyped'
  <2>1. RegistryTyped'
    BY <1>0, <1>2, ManagerAssumption DEF RemoveDevice, AllTyped, RegistryTyped
  <2> QED  BY <1>0, <1>2, <2>1, PartsKept DEF RemoveDevice, AllTyped
<1>3. ASSUME NEW d \in Devices, PostConnect(d) PROVE AllTyped'
  <2>1. CountersTyped' /\ nposts' \in 0 .. MaxPosts /\ nposts' # 0
    BY <1>0, <1>3, ManagerAssumption DEF PostConnect, AllTyped, CountersTyped
  <2>2. RegistryTyped'
    BY <1>0, <1>3, <2>1 DEF PostConnect, AllTyped, RegistryTyped
  <2>3. HttpTyped'
    BY <1>0, <1>3, <2>1, Numbers DEF PostConnect, AllTyped, HttpTyped, Selection
  <2> QED  BY <1>0, <1>3, <2>1, <2>2, <2>3, PartsKept DEF PostConnect, AllTyped
<1>4. ASSUME NEW p \in posts, QueueSelection(p) \/ FailPost(p) PROVE AllTyped'
  <2>1. p \in Selection /\ p.id \in Ids
    BY <1>0, <1>4 DEF AllTyped, HttpTyped, Selection
  <2>2. HttpTyped'
    <3>1. CASE QueueSelection(p)
      BY <1>0, <2>1, <3>1 DEF QueueSelection, AllTyped, HttpTyped
    <3>2. CASE FailPost(p)
      BY <1>0, <3>2 DEF FailPost, AllTyped, HttpTyped
    <3> QED  BY <1>4, <3>1, <3>2
  <2> QED  BY <1>0, <1>4, <2>2, PartsKept DEF QueueSelection, FailPost, AllTyped
<1> QED  BY <1>1, <1>2, <1>3, <1>4, TypeParts DEF Registry

LEMMA ManagerTypes ==
  ASSUME Inv, Manager
  PROVE  TypeOK'
<1>0. AllTyped
  BY TypeParts DEF Inv
<1>1. CASE StartRun
  <2>1. ManagerTyped'
    BY <1>0, <1>1 DEF StartRun, AllTyped, ManagerTyped
  <2> QED  BY <1>0, <1>1, <2>1, PartsKept, TypeParts DEF StartRun, AllTyped
<1>2. CASE TakeSelection
  <2> DEFINE s == Head(selections)
  <2>1. s \in Selection /\ Tail(selections) \in Seq(Selection)
    BY <1>0, <1>2 DEF TakeSelection, AllTyped, HttpTyped
  <2>2. s.id \in Ids /\ s.id \in 0 .. MaxPosts /\ devices[s.device] \in 0 .. MaxHandles
    BY <1>0, <2>1, Numbers DEF Selection, AllTyped, RegistryTyped
  <2>3. HttpTyped'
    BY <1>0, <1>2, <2>1 DEF TakeSelection, AllTyped, HttpTyped
  <2> HIDE DEF s
  <2>4. ManagerTyped'
    BY <1>0, <1>2, <2>2 DEF TakeSelection, AllTyped, ManagerTyped, s
  <2>5. SessionTyped'
    BY <1>0, <1>2, <2>2 DEF TakeSelection, AllTyped, SessionTyped, Statuses, s
  <2> QED  BY <1>0, <1>2, <2>3, <2>4, <2>5, PartsKept, TypeParts DEF TakeSelection, AllTyped
<1>3. CASE InstallSender \/ ConnectSucceeds \/ ConnectFails \/ StopRun
  <2>1. ManagerTyped'
    BY <1>0, <1>3, ManagerAssumption
       DEF InstallSender, ConnectSucceeds, ConnectFails, StopRun, AllTyped, ManagerTyped
  <2>2. SessionTyped'
    BY <1>0, <1>3, ManagerAssumption
       DEF InstallSender, ConnectSucceeds, ConnectFails, StopRun, AllTyped, SessionTyped, Statuses
  <2> QED  BY <1>0, <1>3, <2>1, <2>2, PartsKept, TypeParts
              DEF InstallSender, ConnectSucceeds, ConnectFails, StopRun, AllTyped
<1>4. CASE SayConnected
  <2>1. hand \in Ids
    BY <1>4, HandTyped DEF Inv, InHand, SayConnected
  <2>2. ChannelTyped'
    BY <1>0, <1>4, <2>1, SendTyped DEF SayConnected, AllTyped
  <2>3. ManagerTyped'
    BY <1>0, <1>4, ManagerAssumption DEF SayConnected, AllTyped, ManagerTyped
  <2>4. SessionTyped'
    BY <1>0, <1>4 DEF SayConnected, AllTyped, SessionTyped, Statuses
  <2> QED  BY <1>0, <1>4, <2>2, <2>3, <2>4, PartsKept, TypeParts DEF SayConnected, AllTyped
<1>5. CASE DropManager
  <2>1. HttpTyped' /\ ManagerTyped'
    BY <1>0, <1>5 DEF DropManager, AllTyped, HttpTyped, ManagerTyped
  <2>2. SessionTyped'
    BY <1>0, <1>5 DEF DropManager, AllTyped, SessionTyped, Statuses
  <2> QED  BY <1>0, <1>5, <2>1, <2>2, PartsKept, TypeParts DEF DropManager, AllTyped
<1> QED  BY <1>1, <1>2, <1>3, <1>4, <1>5 DEF Manager, Handling

LEMMA SessionTypes ==
  ASSUME Inv, Session
  PROVE  TypeOK'
<1>0. AllTyped
  BY TypeParts DEF Inv
<1>1. PICK k \in Ids : \/ Begin(k) \/ Notify(k) \/ Ask(k)
                       \/ TakeCommand(k) \/ Leave(k) \/ SaySessionClosed(k)
  BY DEF Session
<1>2. SessionTyped'
  <2>1. CASE TakeCommand(k)
    BY <1>0, <2>1, ManagerAssumption DEF TakeCommand, AllTyped, SessionTyped
  <2>2. CASE Begin(k) \/ Leave(k)
    BY <1>0, <2>2 DEF Begin, Leave, AllTyped, SessionTyped, Statuses
  <2>3. CASE Notify(k) \/ Ask(k)
    BY <1>0, <2>3 DEF Notify, Ask, AllTyped, SessionTyped, Statuses
  <2>4. CASE SaySessionClosed(k)
    BY <1>0, <2>4, ManagerAssumption DEF SaySessionClosed, AllTyped, SessionTyped, Statuses
  <2> QED  BY <1>1, <2>1, <2>2, <2>3, <2>4
<1>3. ChannelTyped'
  <2>1. CASE Notify(k) \/ Ask(k) \/ SaySessionClosed(k)
    BY <1>0, <2>1, SendTyped DEF Notify, Ask, SaySessionClosed, AllTyped
  <2>2. CASE Begin(k) \/ TakeCommand(k) \/ Leave(k)
    BY <1>0, <2>2, PartsKept DEF Begin, TakeCommand, Leave, AllTyped
  <2> QED  BY <1>1, <2>1, <2>2
<1> QED  BY <1>0, <1>1, <1>2, <1>3, PartsKept, TypeParts
            DEF Begin, Notify, Ask, TakeCommand, Leave, SaySessionClosed, AllTyped

LEMMA ApplicationTypes ==
  ASSUME Inv, Application
  PROVE  TypeOK'
<1>0. AllTyped
  BY TypeParts DEF Inv
<1>1. PICK h \in Handles :
        \/ Recv(h) \/ RecvNone(h) \/ StartReport(h) \/ FinishReport(h)
        \/ AbandonReport(h) \/ DropHandle(h)
        \/ \E k \in Ids : Answer(h, k)
  BY DEF Application
<1>2. CASE Recv(h)
  <2>1. got'[h] \in DOMAIN events[h] /\ got' \in [Handles -> Nat]
    BY <1>0, <1>2 DEF Recv, AllTyped, ChannelTyped
  <2>2. events[h][got'[h]].id \in Ids
    <3>1. events[h] \in Seq(EventItem)
      BY <1>0 DEF AllTyped, ChannelTyped
    <3>2. events[h][got'[h]] \in EventItem
      BY <2>1, <3>1
    <3> QED  BY <3>2 DEF EventItem
  <2>3. UserTyped'
    BY <1>0, <1>2, <2>2 DEF Recv, AllTyped, UserTyped
  <2>4. ChannelTyped'
    BY <1>0, <1>2, <2>1 DEF Recv, AllTyped, ChannelTyped
  <2> QED  BY <1>0, <1>2, <2>3, <2>4, PartsKept, TypeParts DEF Recv, AllTyped
<1>3. CASE RecvNone(h) \/ AbandonReport(h)
  <2>1. UserTyped'
    <3>1. CASE RecvNone(h)
      BY <1>0, <3>1 DEF RecvNone, AllTyped, UserTyped
    <3>2. CASE AbandonReport(h)
      BY <1>0, <3>2, ManagerAssumption DEF AbandonReport, AllTyped, UserTyped
    <3> QED  BY <1>3, <3>1, <3>2
  <2> QED  BY <1>0, <1>3, <2>1, PartsKept, TypeParts DEF RecvNone, AbandonReport, AllTyped
<1>4. CASE StartReport(h)
  <2>1. UserTyped'
    BY <1>0, <1>4 DEF StartReport, AllTyped, UserTyped, ManagerTyped
  <2>2. CountersTyped'
    BY <1>0, <1>4, ManagerAssumption DEF StartReport, AllTyped, CountersTyped
  <2> QED  BY <1>0, <1>4, <2>1, <2>2, PartsKept, TypeParts DEF StartReport, AllTyped
<1>5. CASE FinishReport(h)
  <2>1. UserTyped'
    BY <1>0, <1>5, ManagerAssumption DEF FinishReport, AllTyped, UserTyped
  <2>2. SessionTyped'
    BY <1>0, <1>5, ManagerAssumption DEF FinishReport, AllTyped, SessionTyped
  <2> QED  BY <1>0, <1>5, <2>1, <2>2, PartsKept, TypeParts DEF FinishReport, AllTyped
<1>6. CASE DropHandle(h)
  <2>1. UserTyped' /\ SessionTyped'
    BY <1>0, <1>6 DEF DropHandle, AllTyped, UserTyped, SessionTyped, Statuses
  <2> QED  BY <1>0, <1>6, <2>1, PartsKept, TypeParts DEF DropHandle, AllTyped
<1>7. ASSUME NEW k \in Ids, Answer(h, k) PROVE TypeOK'
  <2>1. UserTyped' /\ SessionTyped'
    BY <1>0, <1>7 DEF Answer, AllTyped, UserTyped, SessionTyped, Statuses
  <2> QED  BY <1>0, <1>7, <2>1, PartsKept, TypeParts DEF Answer, AllTyped
<1> QED  BY <1>1, <1>2, <1>3, <1>4, <1>5, <1>6, <1>7

LEMMA TypesKept ==
  ASSUME Inv, [Next]_vars
  PROVE  TypeOK'
<1>1. CASE UNCHANGED vars
  BY <1>1, TypeParts, PartsKept DEF Inv, AllTyped, vars
<1> QED  BY <1>1, RegistryTypes, ManagerTypes, SessionTypes, ApplicationTypes DEF Next, Finished

-----------------------------------------------------------------------------
(* What the sessions and the application change.                           *)

\* The session's task is in its loop.
Busy == {"running", "notifying", "asking", "waiting", "closing"}

LEMMA SessionSteps ==
  ASSUME Inv, Session
  PROVE  /\ UNCHANGED <<registry, http, manager, handle, user, counters, got>>
         /\ \A k \in Ids : status'[k] # status[k] =>
              status[k] \in Busy \ {"waiting"} /\ status'[k] \in Busy \cup {"over"}
<1>0. status \in [Ids -> Statuses]
  BY TypeParts DEF Inv, AllTyped, SessionTyped
<1>1. PICK k \in Ids : \/ Begin(k) \/ Notify(k) \/ Ask(k)
                       \/ TakeCommand(k) \/ Leave(k) \/ SaySessionClosed(k)
  BY DEF Session
<1>2. /\ UNCHANGED <<registry, http, manager, handle, user, counters, got>>
      /\ \A j \in Ids : j # k => status'[j] = status[j]
  BY <1>0, <1>1 DEF Begin, Notify, Ask, TakeCommand, Leave, SaySessionClosed
<1>3. status'[k] # status[k] =>
        status[k] \in Busy \ {"waiting"} /\ status'[k] \in Busy \cup {"over"}
  BY <1>0, <1>1 DEF Begin, Notify, Ask, TakeCommand, Leave, SaySessionClosed, Busy
<1> QED  BY <1>2, <1>3

\* A Responder in an open channel, or in the application's hands, has its session
\* waiting for it.
LEMMA ResponderIsAwaited ==
  ASSUME Inv, NEW h \in Handles, NEW k \in Ids,
         k \in owed[h] \/ (app[h] # "gone" /\ Event(k, "Command") \in Unreceived(h))
  PROVE  status[k] = "waiting" /\ handle[k] = h
<1>1. h # 0
  BY Numbers
<1>2. CASE k \in owed[h]
  <2>1. handle[k] = h
    BY <1>2 DEF Inv, Channels
  <2> QED  BY <1>1, <1>2, <2>1 DEF Inv, Served, WaitersAreServed, ResponderOf
<1>3. CASE app[h] # "gone" /\ Event(k, "Command") \in Unreceived(h)
  <2>1. PICK i \in DOMAIN events[h] : events[h][i] = Event(k, "Command")
    <3>1. events[h] \in Seq(EventItem) /\ got[h] \in Nat
      BY TypeParts DEF Inv, AllTyped, ChannelTyped
    <3> QED  BY <1>3, <3>1 DEF Unreceived
  <2>2. handle[k] = h
    BY <2>1 DEF Inv, Channels, Event
  <2> QED  BY <1>1, <1>3, <2>2 DEF Inv, Served, WaitersAreServed, ResponderOf, InTheChannel
<1> QED  BY <1>2, <1>3

LEMMA ApplicationSteps ==
  ASSUME Inv, Application
  PROVE  /\ UNCHANGED <<registry, http, manager, handle, events, nhandles, nposts>>
         /\ \A k \in Ids : status'[k] # status[k] =>
              status[k] = "waiting" /\ status'[k] = "running"
<1>0. status \in [Ids -> Statuses]
  BY TypeParts DEF Inv, AllTyped, SessionTyped
<1>1. PICK h \in Handles :
        \/ Recv(h) \/ RecvNone(h) \/ StartReport(h) \/ FinishReport(h)
        \/ AbandonReport(h) \/ DropHandle(h)
        \/ \E k \in Ids : Answer(h, k)
  BY DEF Application
<1>2. CASE DropHandle(h)
  <2>1. \A k \in Ids : status'[k] # status[k] =>
          /\ Event(k, "Command") \in Unreceived(h) /\ app[h] # "gone"
          /\ status'[k] = "running"
    BY <1>0, <1>2 DEF DropHandle, Free
  <2>2. \A k \in Ids : Event(k, "Command") \in Unreceived(h) /\ app[h] # "gone"
                         => status[k] = "waiting"
    BY ResponderIsAwaited
  <2> QED  BY <1>2, <2>1, <2>2 DEF DropHandle, counters
<1>3. ASSUME NEW k \in Ids, Answer(h, k)
      PROVE  /\ UNCHANGED <<registry, http, manager, handle, events, counters>>
             /\ \A j \in Ids : status'[j] # status[j] =>
                  status[j] = "waiting" /\ status'[j] = "running"
  <2>1. status[k] = "waiting"
    BY <1>3, ResponderIsAwaited DEF Answer
  <2> QED  BY <1>0, <1>3, <2>1 DEF Answer
<1>4. CASE Recv(h) \/ RecvNone(h) \/ StartReport(h) \/ FinishReport(h) \/ AbandonReport(h)
  BY <1>4 DEF Recv, RecvNone, StartReport, FinishReport, AbandonReport, session, counters
<1> QED  BY <1>1, <1>2, <1>3, <1>4 DEF counters

-----------------------------------------------------------------------------
(* The selections.                                                         *)

LEMMA PipelineKept ==
  ASSUME Inv, [Next]_vars
  PROVE  Pipeline'
<1>0. /\ Pipeline /\ selections \in Seq(Selection) /\ accepted \in Seq(Ids) /\ nposts \in Nat
      /\ posts \subseteq Selection
  BY TypeParts DEF Inv, AllTyped, HttpTyped, CountersTyped
<1>1. ASSUME NEW d \in Devices, PostConnect(d) PROVE Pipeline'
  <2>1. /\ nposts' = nposts + 1 /\ UNCHANGED <<selections, accepted>>
        /\ posts' = posts \cup {[id |-> nposts', device |-> d]}
    BY <1>1 DEF PostConnect
  <2>2. \A i \in DOMAIN accepted : accepted[i] \in Nat
    BY <1>0, Numbers
  <2>3. \A p \in posts : p.id \in Nat
    BY <1>0, Numbers DEF Selection
  <2> QED  BY <1>0, <2>1, <2>2, <2>3 DEF Pipeline, Done
<1>2. ASSUME NEW p \in posts, QueueSelection(p) PROVE Pipeline'
  <2>1. /\ selections' = Append(selections, p) /\ accepted' = Append(accepted, p.id)
        /\ posts' = posts \ {p} /\ nposts' = nposts
    BY <1>2 DEF QueueSelection, counters
  <2>2. p \in Selection /\ p.id \in Ids
    BY <1>0 DEF Selection
  <2>3. Len(selections') = Len(selections) + 1 /\ Len(accepted') = Len(accepted) + 1
        /\ Done' = Done
    BY <1>0, <2>1, <2>2 DEF Done
  <2>4. /\ \A i \in DOMAIN selections' : selections'[i] =
              IF i \in DOMAIN selections THEN selections[i] ELSE p
        /\ \A i \in DOMAIN accepted' : accepted'[i] =
              IF i \in DOMAIN accepted THEN accepted[i] ELSE p.id
    BY <1>0, <2>1, <2>2
  <2>5. Len(selections') <= Len(accepted')
        /\ \A i \in DOMAIN selections' : selections'[i].id = accepted'[Done' + i]
    BY <1>0, <2>1, <2>2, <2>3, <2>4 DEF Pipeline, Done
  <2>6. /\ \A i, j \in DOMAIN accepted' : accepted'[i] = accepted'[j] => i = j
        /\ \A i \in DOMAIN accepted' : accepted'[i] <= nposts'
    BY <1>0, <2>1, <2>2, <2>3, <2>4 DEF Pipeline
  <2>7. /\ \A q \in posts' : q.id <= nposts' /\ \A i \in DOMAIN accepted' : accepted'[i] # q.id
        /\ \A q, r \in posts' : q.id = r.id => q = r
    BY <1>0, <2>1, <2>4 DEF Pipeline
  <2> QED  BY <2>5, <2>6, <2>7 DEF Pipeline
<1>3. ASSUME NEW p \in posts, FailPost(p) PROVE Pipeline'
  BY <1>0, <1>3 DEF FailPost, Pipeline, Done, counters
<1>4. CASE TakeSelection
  <2>1. selections # <<>> /\ selections' = Tail(selections)
        /\ UNCHANGED <<posts, accepted, nposts>>
    BY <1>4 DEF TakeSelection, counters
  <2>2. Len(selections') = Len(selections) - 1
        /\ \A i \in DOMAIN selections' : selections'[i] = selections[i + 1]
              /\ i + 1 \in DOMAIN selections
    BY <1>0, <2>1
  <2>3. Done' + 0 = Done + 1
    BY <1>0, <2>1, <2>2 DEF Done
  <2>4. Len(selections') <= Len(accepted')
        /\ \A i \in DOMAIN selections' : selections'[i].id = accepted'[Done' + i]
    BY <1>0, <2>1, <2>2, <2>3 DEF Pipeline, Done
  <2> QED  BY <1>0, <2>1, <2>4 DEF Pipeline
<1>5. CASE DropManager
  BY <1>0, <1>5 DEF DropManager, Pipeline, Done, counters
<1>6. CASE UNCHANGED <<http, nposts>>
  BY <1>0, <1>6 DEF Pipeline, Done, http
<1>7. ASSUME NEW d \in Devices, AddDevice(d) \/ RemoveDevice(d) PROVE UNCHANGED <<http, nposts>>
  BY <1>7 DEF AddDevice, RemoveDevice, counters
<1>8. CASE \/ StartRun \/ InstallSender \/ ConnectSucceeds \/ ConnectFails \/ SayConnected
           \/ StopRun
  BY <1>6, <1>8 DEF StartRun, InstallSender, ConnectSucceeds, ConnectFails, SayConnected,
                    StopRun, counters
<1>9. CASE Session
  BY <1>6, <1>9, SessionSteps DEF counters
<1>10. CASE Application
  BY <1>6, <1>10, ApplicationSteps
<1>11. CASE UNCHANGED vars
  BY <1>6, <1>11 DEF vars, counters
<1> QED  BY <1>1, <1>2, <1>3, <1>4, <1>5, <1>6, <1>7, <1>8, <1>9, <1>10, <1>11
            DEF Next, Registry, Manager, Handling, Finished

\* A step of run() after a selection was taken: the session in its hand goes on, or
\* leaves it.
Onward == InstallSender \/ ConnectSucceeds \/ ConnectFails \/ SayConnected \/ StopRun

LEMMA OnwardSteps ==
  ASSUME Inv, Onward
  PROVE  /\ UNCHANGED <<registry, http, handle, got, user, counters>>
         /\ \A k \in Ids : k # hand => status'[k] = status[k]
         /\ hand = 0 => at' = "off" /\ hand' = 0
         /\ hand # 0 => \/ /\ hand' = hand /\ at' \in {"connecting", "connected"}
                          /\ status'[hand] = at'
                       \/ /\ hand' = 0 /\ at' \in {"idle", "off"}
                          /\ status'[hand] \in {"running", "over", "lost"}
<1>0. status \in [Ids -> Statuses]
  BY TypeParts DEF Inv, AllTyped, SessionTyped
<1>1. hand # 0 => hand \in Ids
  BY HandTyped
<1>2. hand # 0 <=> at \in {"selected", "connecting", "connected"}
  BY DEF Inv, InHand
<1>3. CASE InstallSender
  BY <1>0, <1>1, <1>2, <1>3 DEF InstallSender
<1>4. CASE ConnectSucceeds
  BY <1>0, <1>1, <1>2, <1>4 DEF ConnectSucceeds
<1>5. CASE ConnectFails
  BY <1>0, <1>1, <1>2, <1>5 DEF ConnectFails
<1>6. CASE SayConnected
  BY <1>0, <1>1, <1>2, <1>6 DEF SayConnected
<1>7. CASE StopRun
  BY <1>0, <1>1, <1>2, <1>7 DEF StopRun
<1> QED  BY <1>3, <1>4, <1>5, <1>6, <1>7 DEF Onward

\* A step that leaves the queues and the hand alone, and begins no session.
LEMMA QuietTurns ==
  ASSUME Inv, UNCHANGED <<selections, accepted, hand, handle>>,
         at = "selected" => at' = "selected",
         \A k \in Ids : status'[k] = "none" <=> status[k] = "none"
  PROVE  Turns'
<1>1. \A i \in DOMAIN accepted : accepted[i] \in Ids
  BY TypeParts DEF Inv, AllTyped, HttpTyped
<1> QED  BY <1>1 DEF Inv, Turns, Done

LEMMA TurnsKept ==
  ASSUME Inv, [Next]_vars
  PROVE  Turns'
<1>0. /\ Pipeline /\ Turns /\ selections \in Seq(Selection) /\ accepted \in Seq(Ids)
      /\ status \in [Ids -> Statuses] /\ handle \in [Ids -> 0 .. MaxHandles]
  BY TypeParts DEF Inv, AllTyped, HttpTyped, SessionTyped
<1>1. /\ \A i \in DOMAIN accepted : accepted[i] \in Ids
      /\ \A i \in DOMAIN selections : selections[i].id \in Ids
  <2>1. \A i \in DOMAIN selections : selections[i] \in Selection
    BY <1>0
  <2> QED  BY <1>0, <2>1 DEF Selection
<1>2. ASSUME NEW p \in posts, QueueSelection(p) PROVE Turns'
  <2>1. /\ selections' = Append(selections, p) /\ accepted' = Append(accepted, p.id)
        /\ UNCHANGED <<at, hand, status, handle>>
    BY <1>2 DEF QueueSelection, manager, session
  <2>2. p \in Selection /\ p.id \in Ids
    BY TypeParts DEF Inv, AllTyped, HttpTyped, Selection
  <2>3. Done' = Done /\ Len(accepted') = Len(accepted) + 1
    BY <1>0, <2>1, <2>2 DEF Done
  <2>4. \A i \in DOMAIN accepted' : accepted'[i] =
              IF i \in DOMAIN accepted THEN accepted[i] ELSE p.id
    BY <1>0, <2>1, <2>2
  <2>5. \A i \in DOMAIN accepted' \ DOMAIN accepted : i > Done
    BY <1>0, <2>1, <2>2 DEF Done
  <2>6. status[p.id] = "none" /\ handle[p.id] = 0
    BY <1>0, <2>2 DEF Pipeline, Turns
  <2>7. \A i \in DOMAIN accepted' :
          IF i > Done' THEN status'[accepted'[i]] = "none" /\ handle'[accepted'[i]] = 0
          ELSE status'[accepted'[i]] = "none" => at' = "selected" /\ accepted'[i] = hand'
    BY <1>0, <2>1, <2>3, <2>4, <2>5, <2>6 DEF Turns
  <2>8. DOMAIN accepted \subseteq DOMAIN accepted'
    BY <1>0, <2>1, <2>2
  <2>9. \A k \in Ids : (\A i \in DOMAIN accepted' : accepted'[i] # k)
                          => status'[k] = "none" /\ handle'[k] = 0
    BY <1>0, <2>1, <2>4, <2>8 DEF Turns
  <2>10. hand' # 0 => Done' > 0 /\ accepted'[Done'] = hand'
    <3>1. Done > 0 => Done \in DOMAIN accepted
      BY <1>0 DEF Pipeline, Done
    <3> QED  BY <1>0, <2>1, <2>3, <2>4, <2>8, <3>1 DEF Turns
  <2> QED  BY <2>7, <2>9, <2>10 DEF Turns
<1>3. CASE TakeSelection
  <2> DEFINE s == Head(selections)
  <2>1. /\ selections # <<>> /\ selections' = Tail(selections) /\ accepted' = accepted
        /\ at = "idle"
    BY <1>3 DEF TakeSelection
  <2>2. 1 \in DOMAIN selections /\ s = selections[1] /\ s.id \in Ids
    BY <1>0, <1>1, <2>1
  <2>3. Done' = Done + 1 /\ Done + 1 \in DOMAIN accepted /\ Done \in Nat
    BY <1>0, <2>1 DEF Pipeline, Done
  <2>4. s.id = accepted[Done + 1]
    BY <1>0, <2>2 DEF Pipeline
  <2>5. \A i \in DOMAIN accepted : accepted[i] = s.id => i = Done + 1
    BY <1>0, <2>3, <2>4 DEF Pipeline
  <2>6. hand = 0
    BY <2>1 DEF Inv, InHand
  <2> HIDE DEF s
  <2>7. CASE devices[s.device] = 0
    <3>1. status' = [status EXCEPT ![s.id] = "lost"] /\ UNCHANGED <<at, hand, handle>>
      BY <1>3, <2>7 DEF TakeSelection, s
    <3>2. \A i \in DOMAIN accepted :
            IF i > Done' THEN status'[accepted[i]] = "none" /\ handle'[accepted[i]] = 0
            ELSE status'[accepted[i]] = "none" => at' = "selected" /\ accepted[i] = hand'
      BY <1>0, <1>1, <2>2, <2>3, <2>4, <2>5, <3>1 DEF Turns
    <3>3. \A k \in Ids : (\A i \in DOMAIN accepted : accepted[i] # k)
                          => status'[k] = "none" /\ handle'[k] = 0
      BY <1>0, <2>2, <2>3, <2>4, <3>1 DEF Turns
    <3> QED  BY <2>1, <2>6, <3>1, <3>2, <3>3 DEF Turns
  <2>8. CASE devices[s.device] # 0
    <3>1. /\ handle' = [handle EXCEPT ![s.id] = devices[s.device]]
          /\ at' = "selected" /\ hand' = s.id /\ status' = status
      BY <1>3, <2>8 DEF TakeSelection, s
    <3>2. \A i \in DOMAIN accepted :
            IF i > Done' THEN status'[accepted[i]] = "none" /\ handle'[accepted[i]] = 0
            ELSE status'[accepted[i]] = "none" => at' = "selected" /\ accepted[i] = hand'
      BY <1>0, <1>1, <2>1, <2>2, <2>3, <2>4, <2>5, <3>1 DEF Turns
    <3>3. \A k \in Ids : (\A i \in DOMAIN accepted : accepted[i] # k)
                          => status'[k] = "none" /\ handle'[k] = 0
      BY <1>0, <2>2, <2>3, <2>4, <3>1 DEF Turns
    <3> QED  BY <2>1, <2>3, <2>4, <3>1, <3>2, <3>3 DEF Turns
  <2> QED  BY <2>7, <2>8
<1>4. CASE Onward
  <2>1. UNCHANGED <<selections, accepted, handle>> /\ Done' = Done
    BY <1>4, OnwardSteps DEF http, Done
  <2>2. hand # 0 => hand \in Ids /\ Done \in DOMAIN accepted /\ accepted[Done] = hand
    BY <1>0, HandTyped DEF Turns, Pipeline, Done
  <2>3. \A i \in DOMAIN accepted : i > Done => accepted[i] # hand
    BY <1>0, <1>1, <2>2, Numbers DEF Pipeline, Done
  <2>4. \A k \in Ids : k # hand => status'[k] = status[k]
    BY <1>4, OnwardSteps
  <2>5. hand # 0 => status'[hand] # "none" /\ hand' \in {hand, 0}
    BY <1>4, OnwardSteps
  <2>6. hand = 0 => at # "selected" /\ hand' = 0
    BY <1>4, OnwardSteps DEF Inv, InHand
  <2> QED  BY <1>0, <1>1, <2>1, <2>2, <2>3, <2>4, <2>5, <2>6, Numbers DEF Turns
<1>5. CASE DropManager
  <2>1. /\ selections' = <<>> /\ hand' = hand /\ hand = 0 /\ UNCHANGED <<accepted, handle>>
        /\ status' = [k \in Ids |-> IF \E i \in DOMAIN selections : selections[i].id = k
                                    THEN "lost" ELSE status[k]]
    BY <1>5 DEF DropManager, Inv, InHand
  <2>2. Done' = Len(accepted) /\ at # "selected"
    BY <1>5, <2>1 DEF Done, DropManager
  <2>3. \A i \in DOMAIN accepted : i > Done =>
          i - Done \in DOMAIN selections /\ selections[i - Done].id = accepted[i]
    BY <1>0, SMTT(30) DEF Pipeline, Done
  <2>4. \A i \in DOMAIN accepted : status'[accepted[i]] # "none"
    BY <1>0, <1>1, <2>1, <2>2, <2>3 DEF Turns
  <2>5. \A i \in DOMAIN selections : Done + i \in DOMAIN accepted
                                      /\ selections[i].id = accepted[Done + i]
    BY <1>0 DEF Pipeline, Done
  <2>6. \A k \in Ids : (\A i \in DOMAIN accepted : accepted[i] # k)
                          => status'[k] = "none" /\ handle'[k] = 0
    BY <1>0, <2>1, <2>5 DEF Turns
  <2>7. \A i \in DOMAIN accepted : ~(i > Done')
    BY <1>0, <2>2
  <2>8. \A i \in DOMAIN accepted' :
          IF i > Done' THEN status'[accepted'[i]] = "none" /\ handle'[accepted'[i]] = 0
          ELSE status'[accepted'[i]] = "none" => at' = "selected" /\ accepted'[i] = hand'
    BY <2>1, <2>4, <2>7
  <2>9. hand' # 0 => FALSE
    BY <2>1
  <2>10. \A k \in Ids : (\A i \in DOMAIN accepted' : accepted'[i] # k)
                           => status'[k] = "none" /\ handle'[k] = 0
    BY <2>1, <2>6
  <2> QED  BY <2>8, <2>9, <2>10 DEF Turns
<1>6. ASSUME NEW d \in Devices, AddDevice(d) \/ RemoveDevice(d) \/ PostConnect(d) PROVE Turns'
  BY <1>6, QuietTurns DEF AddDevice, RemoveDevice, PostConnect, http, manager, session
<1>7. ASSUME NEW p \in posts, FailPost(p) PROVE Turns'
  BY <1>7, QuietTurns DEF FailPost, manager, session
<1>8. CASE StartRun
  BY <1>8, QuietTurns DEF StartRun, http, session
<1>9. CASE Session
  BY <1>9, SessionSteps, QuietTurns DEF http, manager, Busy
<1>10. CASE Application
  BY <1>10, ApplicationSteps, QuietTurns DEF http, manager
<1>11. CASE UNCHANGED vars
  BY <1>11, QuietTurns DEF vars, http, manager, session
<1> QED  BY <1>2, <1>3, <1>4, <1>5, <1>6, <1>7, <1>8, <1>9, <1>10, <1>11
            DEF Next, Registry, Manager, Handling, Onward, Finished

-----------------------------------------------------------------------------
(* The hand of run().                                                      *)

\* Nothing was known of the session of the selection that is next.
LEMMA NextIsNew ==
  ASSUME Inv, selections # <<>>
  PROVE  LET s == Head(selections)
         IN  /\ s.id \in Ids /\ status[s.id] = "none" /\ handle[s.id] = 0
             /\ devices[s.device] \in 0 .. MaxHandles
<1> DEFINE s == Head(selections)
<1>0. Pipeline /\ Turns /\ selections \in Seq(Selection) /\ accepted \in Seq(Ids)
  BY TypeParts DEF Inv, AllTyped, HttpTyped
<1>1. s \in Selection /\ 1 \in DOMAIN selections /\ s = selections[1]
  BY <1>0
<1>2. s.id \in Ids /\ devices[s.device] \in 0 .. MaxHandles
  BY <1>1, TypeParts DEF Selection, Inv, AllTyped, RegistryTyped
<1>3. Done + 1 \in DOMAIN accepted /\ Done + 1 > Done /\ s.id = accepted[Done + 1]
  BY <1>0, <1>1 DEF Pipeline, Done
<1> QED  BY <1>0, <1>2, <1>3 DEF Turns

LEMMA QuietHand ==
  ASSUME Inv, UNCHANGED <<hand, handle>>,
         at' = at \/ (hand = 0 /\ at' \in {"idle", "off", "dropped"}),
         \A k \in Ids : status'[k] # status[k] =>
                          k # hand /\ status'[k] \notin {"connecting", "connected"}
  PROVE  InHand'
<1>1. (hand # 0 => hand \in Ids) /\ 0 \notin Ids
  BY HandTyped, Numbers
<1>2. OnlyInHand'
  <2>1. ASSUME NEW k \in Ids
        PROVE  status'[k] \in {"connecting", "connected"} <=> k = hand' /\ at' = status'[k]
    <3>1. CASE status'[k] = status[k]
      BY <1>1, <2>1, <3>1 DEF Inv, InHand, OnlyInHand
    <3>2. CASE status'[k] # status[k]
      BY <2>1, <3>2
    <3> QED  BY <3>1, <3>2
  <2> QED  BY <2>1 DEF OnlyInHand
<1>3. hand # 0 => status'[hand] = status[hand] /\ at' = at
  BY <1>1
<1> QED  BY <1>1, <1>2, <1>3 DEF Inv, InHand

LEMMA InHandKept ==
  ASSUME Inv, [Next]_vars
  PROVE  InHand'
<1>0. /\ InHand /\ (hand # 0 => hand \in Ids)
      /\ status \in [Ids -> Statuses] /\ handle \in [Ids -> 0 .. MaxHandles]
  BY HandTyped, TypeParts DEF Inv, AllTyped, SessionTyped
<1>1. CASE TakeSelection
  <2> DEFINE s == Head(selections)
  <2>1. s.id \in Ids /\ s.id # 0 /\ status[s.id] = "none" /\ at = "idle" /\ hand = 0
    BY <1>0, <1>1, NextIsNew, Numbers DEF TakeSelection, InHand
  <2>2. CASE devices[s.device] = 0
    <3>1. status' = [status EXCEPT ![s.id] = "lost"] /\ UNCHANGED <<at, hand, handle>>
      BY <1>1, <2>2 DEF TakeSelection
    <3> HIDE DEF s
    <3> QED  BY <1>0, <2>1, <3>1, QuietHand
  <2>3. CASE devices[s.device] # 0
    <3>1. /\ handle' = [handle EXCEPT ![s.id] = devices[s.device]]
          /\ at' = "selected" /\ hand' = s.id /\ status' = status
      BY <1>1, <2>3 DEF TakeSelection
    <3> HIDE DEF s
    <3> QED  BY <1>0, <2>1, <2>3, <3>1 DEF InHand, OnlyInHand
  <2> QED  BY <2>2, <2>3
<1>2. CASE Onward
  <2>1. /\ handle' = handle /\ \A k \in Ids : k # hand => status'[k] = status[k]
        /\ hand = 0 => at' = "off" /\ hand' = 0
        /\ hand # 0 => \/ /\ hand' = hand /\ at' \in {"connecting", "connected"}
                          /\ status'[hand] = at'
                       \/ /\ hand' = 0 /\ at' \in {"idle", "off"}
                          /\ status'[hand] \in {"running", "over", "lost"}
    BY <1>2, OnwardSteps
  <2>2. \A k \in Ids : k # hand => status[k] \notin {"connecting", "connected"}
    BY <1>0 DEF InHand, OnlyInHand
  <2>3. 0 \notin Ids
    BY Numbers
  <2> QED  BY <1>0, <2>1, <2>2, <2>3 DEF InHand, OnlyInHand
<1>3. CASE DropManager
  <2>1. hand = 0 /\ 0 \notin Ids
    BY <1>0, <1>3, Numbers DEF DropManager, InHand
  <2> QED  BY <1>3, <2>1, QuietHand DEF DropManager
<1>4. CASE StartRun
  <2>1. hand = 0
    BY <1>0, <1>4 DEF StartRun, InHand
  <2> QED  BY <1>4, <2>1, QuietHand DEF StartRun, session
<1>5. CASE Registry
  BY <1>5, QuietHand DEF Registry, AddDevice, RemoveDevice, PostConnect, QueueSelection, FailPost,
                         manager, session
<1>6. \A k \in Ids : status[k] \in Busy => k # hand
  BY <1>0, Numbers DEF InHand, Busy
<1>7. CASE Session
  <2>1. \A k \in Ids : status'[k] # status[k] =>
              k # hand /\ status'[k] \notin {"connecting", "connected"}
    BY <1>6, <1>7, SessionSteps DEF Busy
  <2> QED  BY <1>7, <2>1, SessionSteps, QuietHand DEF manager
<1>8. CASE Application
  <2>1. \A k \in Ids : status'[k] # status[k] =>
              k # hand /\ status'[k] \notin {"connecting", "connected"}
    BY <1>6, <1>8, ApplicationSteps DEF Busy
  <2> QED  BY <1>8, <2>1, ApplicationSteps, QuietHand DEF manager
<1>9. CASE UNCHANGED vars
  BY <1>9, QuietHand DEF vars, manager, session
<1> QED  BY <1>1, <1>2, <1>3, <1>4, <1>5, <1>7, <1>8, <1>9
            DEF Next, Manager, Handling, Onward, Finished

LEMMA HandledKept ==
  ASSUME Inv, [Next]_vars
  PROVE  Handled'
<1>0. /\ Handled /\ status \in [Ids -> Statuses] /\ handle \in [Ids -> 0 .. MaxHandles]
  BY TypeParts DEF Inv, AllTyped, SessionTyped
<1>1. \A k \in Ids : status'[k] \notin {"none", "lost"} => handle'[k] # 0
  <2>1. CASE TakeSelection
    <3> DEFINE s == Head(selections)
    <3>1. s.id \in Ids
      BY <2>1, NextIsNew DEF TakeSelection
    <3>2. \/ status' = [status EXCEPT ![s.id] = "lost"] /\ handle' = handle
          \/ /\ devices[s.device] # 0
             /\ handle' = [handle EXCEPT ![s.id] = devices[s.device]] /\ status' = status
      BY <2>1 DEF TakeSelection
    <3> HIDE DEF s
    <3> QED  BY <1>0, <3>1, <3>2 DEF Handled
  <2>2. CASE Onward
    <3>1. hand # 0 => handle[hand] # 0
      BY DEF Inv, InHand
    <3> QED  BY <1>0, <2>2, <3>1, OnwardSteps, Numbers DEF Handled
  <2>3. CASE DropManager \/ StartRun
    BY <1>0, <2>3 DEF DropManager, StartRun, Handled, session
  <2>4. CASE Registry
    BY <1>0, <2>4 DEF Registry, AddDevice, RemoveDevice, PostConnect, QueueSelection, FailPost,
                      Handled, session
  <2>5. CASE Session
    BY <1>0, <2>5, SessionSteps DEF Handled, Busy
  <2>6. CASE Application
    BY <1>0, <2>6, ApplicationSteps DEF Handled
  <2>7. CASE UNCHANGED vars
    BY <1>0, <2>7 DEF vars, session, Handled
  <2> QED  BY <2>1, <2>2, <2>3, <2>4, <2>5, <2>6, <2>7
              DEF Next, Manager, Handling, Onward, Finished
<1>2. ASSUME NEW h \in Handles, h > nhandles' PROVE app'[h] = "none" /\ ~ended'[h]
  <2>0. /\ app \in [Handles -> {"none", "held", "gone"}] /\ ended \in [Handles -> BOOLEAN]
        /\ nhandles \in Nat /\ h \in Nat
    BY ManagerAssumption, TypeParts, Numbers DEF Inv, AllTyped, UserTyped, CountersTyped
  <2>1. ASSUME NEW d \in Devices, AddDevice(d) PROVE app'[h] = "none" /\ ~ended'[h]
    <3>1. h > nhandles /\ h # nhandles' /\ ended' = ended /\ app'[h] = app[h]
      BY <1>2, <2>0, <2>1 DEF AddDevice
    <3> QED  BY <1>0, <3>1 DEF Handled
  <2>2. CASE UNCHANGED <<app, ended, nhandles>>
    BY <1>0, <1>2, <2>2 DEF Handled
  <2>3. ASSUME NEW d \in Devices, RemoveDevice(d) \/ PostConnect(d)
        PROVE  UNCHANGED <<app, ended, nhandles>>
    BY <2>3 DEF RemoveDevice, PostConnect, user, counters
  <2>4. ASSUME NEW p \in posts, QueueSelection(p) \/ FailPost(p)
        PROVE  UNCHANGED <<app, ended, nhandles>>
    BY <2>4 DEF QueueSelection, FailPost, user, counters
  <2>5. CASE TakeSelection \/ StartRun \/ DropManager
    BY <2>2, <2>5 DEF TakeSelection, StartRun, DropManager, user, counters
  <2>6. CASE Onward
    BY <2>2, <2>6, OnwardSteps DEF user, counters
  <2>7. CASE Session
    BY <2>2, <2>7, SessionSteps DEF user, counters
  <2>8. CASE Application
    <3>1. nhandles' = nhandles
      BY <2>8, ApplicationSteps
    <3>2. app[h] = "none" /\ ~ended[h]
      BY <1>0, <1>2, <3>1 DEF Handled
    <3>3. PICK g \in Handles :
            \/ Recv(g) \/ RecvNone(g) \/ StartReport(g) \/ FinishReport(g)
            \/ AbandonReport(g) \/ DropHandle(g)
            \/ \E k \in Ids : Answer(g, k)
      BY <2>8 DEF Application
    <3>4. CASE RecvNone(g)
      BY <2>0, <3>2, <3>4 DEF RecvNone, Free
    <3>5. CASE DropHandle(g)
      BY <2>0, <3>2, <3>5 DEF DropHandle, Free
    <3>6. CASE \E k \in Ids : Answer(g, k)
      BY <3>2, <3>6 DEF Answer
    <3>7. CASE Recv(g) \/ StartReport(g) \/ FinishReport(g) \/ AbandonReport(g)
      BY <3>2, <3>7 DEF Recv, StartReport, FinishReport, AbandonReport
    <3> QED  BY <3>3, <3>4, <3>5, <3>6, <3>7
  <2>9. CASE UNCHANGED vars
    BY <2>2, <2>9 DEF vars, user, counters
  <2> QED  BY <2>1, <2>2, <2>3, <2>4, <2>5, <2>6, <2>7, <2>8, <2>9
              DEF Next, Registry, Manager, Handling, Onward, Finished
<1> QED  BY <1>1, <1>2 DEF Handled

-----------------------------------------------------------------------------
(* The event channels.                                                     *)

\* What a channel gains when session k sends an event to its handle.
Gained(k) == Len(events[handle[k]]) + 1

LEMMA SendSteps ==
  ASSUME Inv, NEW k \in Ids, handle[k] \in Handles, got' = got,
         NEW kind \in {"Connected", "Notification", "Command", "SessionClosed"},
         Send(handle[k], Event(k, kind))
  PROVE  \A h \in Handles :
           /\ \A i \in DOMAIN events[h] : i \in DOMAIN events'[h] /\ events'[h][i] = events[h][i]
           /\ \A i \in DOMAIN events'[h] \ DOMAIN events[h] :
                /\ h = handle[k] /\ i = Gained(k) /\ events'[h][i] = Event(k, kind)
                /\ app[h] # "gone"
           /\ app[h] # "gone" /\ h = handle[k] => Gained(k) \in DOMAIN events'[h] \ DOMAIN events[h]
<1>0. events \in [Handles -> Seq(EventItem)]
  BY TypeParts DEF Inv, AllTyped, ChannelTyped
<1>1. CASE app[handle[k]] = "gone" /\ events' = events
  BY <1>0, <1>1
<1>2. CASE /\ app[handle[k]] # "gone"
           /\ events' = [events EXCEPT ![handle[k]] = Append(@, Event(k, kind))]
  <2> TAKE h \in Handles
  <2>1. events[h] \in Seq(EventItem)
    BY <1>0
  <2>2. CASE h # handle[k]
    BY <1>0, <1>2, <2>2
  <2>3. CASE h = handle[k]
    <3>1. events'[h] = Append(events[h], Event(k, kind))
      BY <1>0, <1>2, <2>3
    <3>2. Len(events'[h]) = Len(events[h]) + 1
          /\ \A i \in DOMAIN events'[h] : events'[h][i] =
               IF i \in DOMAIN events[h] THEN events[h][i] ELSE Event(k, kind)
      BY <2>1, <3>1
    <3>3. DOMAIN events[h] = 1 .. Len(events[h]) /\ DOMAIN events'[h] = 1 .. Len(events[h]) + 1
          /\ Len(events[h]) \in Nat
      BY <2>1, <3>1
    <3> QED  BY <1>2, <2>3, <3>2, <3>3 DEF Gained
  <2> QED  BY <2>2, <2>3
<1> QED  BY <1>1, <1>2 DEF Send

\* The Commands that a handle has yet to receive.
LEMMA InUnreceived ==
  ASSUME NEW es \in Seq(EventItem), NEW g \in Nat, NEW k \in Ids
  PROVE  Event(k, "Command") \in {es[i] : i \in g + 1 .. Len(es)}
           <=> \E i \in DOMAIN es : i > g /\ es[i].kind = "Command" /\ es[i].id = k
<1>1. \A i \in DOMAIN es : es[i] = Event(k, "Command") <=> es[i].kind = "Command" /\ es[i].id = k
  <2> TAKE i \in DOMAIN es
  <2>1. es[i] \in EventItem
    OBVIOUS
  <2> QED  BY <2>1 DEF EventItem, Event
<1>2. \A i : i \in g + 1 .. Len(es) <=> i \in DOMAIN es /\ i > g
  OBVIOUS
<1> QED  BY <1>1, <1>2

\* A Responder of session k is at handle h.
At(h, k) ==
  \/ k \in owed[h]
  \/ app[h] # "gone" /\ \E i : Waiting(h, i) /\ events[h][i].id = k
Awaited == \A k \in Ids : status[k] = "waiting" <=> \E h \in Handles : At(h, k)

LEMMA ServedIsAwaited ==
  ASSUME ChannelTyped, SessionTyped, Channels
  PROVE  Served <=> Awaited
<1>1. \A h \in Handles, k \in Ids :
        Event(k, "Command") \in Unreceived(h) <=> \E i : Waiting(h, i) /\ events[h][i].id = k
  <2> TAKE h \in Handles, k \in Ids
  <2>1. events[h] \in Seq(EventItem) /\ got[h] \in Nat
    BY DEF ChannelTyped
  <2>2. Event(k, "Command") \in Unreceived(h)
           <=> \E i \in DOMAIN events[h] :
                 i > got[h] /\ events[h][i].kind = "Command" /\ events[h][i].id = k
    BY <2>1, InUnreceived, Zenon DEF Unreceived
  <2> QED  BY <2>2 DEF Waiting
<1>2. \A k \in Ids : handle[k] # 0 <=> handle[k] \in Handles
  BY Numbers DEF SessionTyped
<1>3. \A h \in Handles, k \in Ids : At(h, k) => handle[k] = h
  BY DEF At, Channels, Waiting
<1>4. ASSUME NEW k \in Ids
      PROVE  handle[k] # 0 /\ ResponderOf(k) <=> \E h \in Handles : At(h, k)
  <2>1. ASSUME handle[k] # 0, ResponderOf(k) PROVE \E h \in Handles : At(h, k)
    BY <1>1, <1>2, <2>1 DEF ResponderOf, InTheChannel, At
  <2>2. ASSUME NEW h \in Handles, At(h, k) PROVE handle[k] # 0 /\ ResponderOf(k)
    BY <1>1, <1>2, <1>3, <2>2 DEF ResponderOf, InTheChannel, At
  <2> QED  BY <2>1, <2>2
<1> QED  BY <1>4 DEF Served, WaitersAreServed, Awaited

LEMMA NextServedIsAwaited ==
  ChannelTyped' /\ SessionTyped' /\ Channels' => (Served' <=> Awaited')
<1>1. ChannelTyped /\ SessionTyped /\ Channels => (Served <=> Awaited)
  BY ServedIsAwaited
<1> QED  BY <1>1, PTL

LEMMA NowAwaited ==
  ASSUME Inv
  PROVE  Awaited /\ ChannelTyped /\ SessionTyped /\ UserTyped
BY TypeParts, ServedIsAwaited DEF Inv, AllTyped

LEMMA QuietChannels ==
  ASSUME Inv, UNCHANGED <<events, got, owed>>,
         \A k \in Ids : handle[k] # 0 => handle'[k] = handle[k]
  PROVE  Channels'
<1>1. \A h \in Handles : h # 0 /\ owed[h] \subseteq Ids
  BY NowAwaited, Numbers DEF UserTyped
<1>2. \A h \in Handles : \A i \in DOMAIN events[h] : events[h][i].id \in Ids
  <2> TAKE h \in Handles
  <2> TAKE i \in DOMAIN events[h]
  <2>1. events[h] \in Seq(EventItem)
    BY NowAwaited DEF ChannelTyped
  <2>2. events[h][i] \in EventItem
    BY <2>1
  <2> QED  BY <2>2 DEF EventItem
<1>3. (\A h \in Handles : \A i \in DOMAIN events[h] : handle[events[h][i].id] = h)'
  BY <1>1, <1>2 DEF Inv, Channels
<1>4. (\A h \in Handles : \A k \in owed[h] : handle[k] = h)'
  BY <1>1 DEF Inv, Channels
<1> QED  BY <1>3, <1>4 DEF Inv, Channels, Waiting

LEMMA SendChannels ==
  ASSUME Inv, NEW k \in Ids, handle[k] \in Handles, UNCHANGED <<got, owed, handle>>,
         NEW kind \in {"Connected", "Notification", "Command", "SessionClosed"},
         Send(handle[k], Event(k, kind)),
         kind = "Command" => status[k] # "waiting"
  PROVE  Channels'
<1>0. Channels /\ Awaited /\ ChannelTyped /\ ChannelTyped'
  BY NowAwaited, SendTyped DEF Inv
<1>1. \A h \in Handles :
        /\ \A i \in DOMAIN events[h] : i \in DOMAIN events'[h] /\ events'[h][i] = events[h][i]
        /\ \A i \in DOMAIN events'[h] \ DOMAIN events[h] :
             /\ h = handle[k] /\ i = Gained(k) /\ events'[h][i] = Event(k, kind)
             /\ app[h] # "gone"
  BY SendSteps
<1>2. ASSUME kind = "Command", NEW h \in Handles, NEW i, Waiting(h, i), app[h] # "gone"
      PROVE  events[h][i].id # k
  BY <1>0, <1>2 DEF Awaited, At
<1>3. ASSUME kind = "Command", NEW h \in Handles PROVE k \notin owed[h]
  BY <1>0, <1>3 DEF Awaited, At
<1>4. ASSUME NEW h \in Handles PROVE got'[h] <= Len(events'[h])
  <2>1. /\ events[h] \in Seq(EventItem) /\ events'[h] \in Seq(EventItem) /\ got[h] \in Nat
        /\ got[h] <= Len(events[h])
    BY <1>0 DEF ChannelTyped, Channels
  <2>2. DOMAIN events[h] \subseteq DOMAIN events'[h]
    BY <1>1
  <2>3. Len(events[h]) <= Len(events'[h])
    BY <2>1, <2>2
  <2> QED  BY <2>1, <2>3
<1>5. ASSUME NEW h \in Handles, NEW i \in DOMAIN events'[h] PROVE handle'[events'[h][i].id] = h
  <2>1. CASE i \in DOMAIN events[h]
    BY <1>0, <1>1, <2>1 DEF Channels
  <2>2. CASE i \notin DOMAIN events[h]
    BY <1>1, <1>5, <2>2 DEF Event
  <2> QED  BY <2>1, <2>2
<1>6. ASSUME NEW h \in Handles, NEW i, Waiting(h, i)'
      PROVE  \/ Waiting(h, i) /\ events'[h][i] = events[h][i]
             \/ /\ kind = "Command" /\ h = handle[k] /\ i = Gained(k) /\ app[h] # "gone"
                /\ events'[h][i].id = k
  <2>1. i \in DOMAIN events'[h] /\ i > got[h] /\ events'[h][i].kind = "Command"
    BY <1>6 DEF Waiting
  <2>2. CASE i \in DOMAIN events[h]
    BY <1>1, <2>1, <2>2 DEF Waiting
  <2>3. CASE i \notin DOMAIN events[h]
    BY <1>1, <2>1, <2>3 DEF Event
  <2> QED  BY <2>2, <2>3
<1>7. ASSUME NEW h \in Handles, NEW i, NEW j, Waiting(h, i)', Waiting(h, j)',
             events'[h][i].id = events'[h][j].id
      PROVE  i = j
  <2>1. CASE Waiting(h, i) /\ Waiting(h, j) /\ events'[h][i] = events[h][i]
             /\ events'[h][j] = events[h][j]
    BY <1>0, <1>7, <2>1 DEF Channels, Waiting
  <2> QED  BY <1>2, <1>6, <1>7, <2>1
<1>8. ASSUME NEW h \in Handles, NEW i, Waiting(h, i)' PROVE events'[h][i].id \notin owed'[h]
  <2>1. CASE Waiting(h, i) /\ events'[h][i] = events[h][i]
    BY <1>0, <2>1 DEF Channels, Waiting
  <2>2. CASE kind = "Command" /\ events'[h][i].id = k
    BY <1>3, <2>2
  <2> QED  BY <1>6, <1>8, <2>1, <2>2
<1>9. (\A h \in Handles : \A j \in owed[h] : handle[j] = h)'
  BY <1>0 DEF Channels
<1> QED  BY <1>4, <1>5, <1>7, <1>8, <1>9 DEF Channels

LEMMA RecvChannels ==
  ASSUME Inv, NEW h \in Handles, Recv(h)
  PROVE  Channels'
<1> DEFINE e == events[h][got[h] + 1]
<1>0. /\ Channels /\ got \in [Handles -> Nat] /\ owed \in [Handles -> SUBSET Ids]
      /\ events[h] \in Seq(EventItem)
  BY NowAwaited DEF Inv, ChannelTyped, UserTyped
<1>1. /\ got' = [got EXCEPT ![h] = got[h] + 1] /\ got[h] < Len(events[h])
      /\ owed' = IF e.kind = "Command" THEN [owed EXCEPT ![h] = @ \cup {e.id}] ELSE owed
      /\ UNCHANGED <<events, handle>>
  BY <1>0 DEF Recv, session
<1>2. got[h] + 1 \in DOMAIN events[h] /\ got'[h] = got[h] + 1
  BY <1>0, <1>1
<1>3. handle[e.id] = h /\ (e.kind = "Command" => Waiting(h, got[h] + 1))
  BY <1>0, <1>2 DEF Channels, Waiting
<1>4. \A g \in Handles : \A i : Waiting(g, i)' => Waiting(g, i) /\ (g = h => i # got[h] + 1)
  BY <1>0, <1>1, <1>2 DEF Waiting
<1>5. \A g \in Handles : got'[g] <= Len(events'[g])
  BY <1>0, <1>1, <1>2 DEF Channels
<1>6. \A g \in Handles : \A k \in owed'[g] : k \in owed[g] \/ (g = h /\ e.kind = "Command" /\ k = e.id)
  BY <1>0, <1>1
<1>7. \A g \in Handles : \A i \in DOMAIN events'[g] :
        Waiting(g, i)' => events'[g][i].id \notin owed'[g]
  <2> SUFFICES ASSUME NEW g \in Handles, NEW i, Waiting(g, i)', i \in DOMAIN events'[g],
                      events'[g][i].id \in owed'[g]
               PROVE  FALSE
    OBVIOUS
  <2>1. events'[g][i].id \notin owed[g] /\ Waiting(g, i)
    BY <1>0, <1>1, <1>4 DEF Channels, Waiting
  <2>2. g = h /\ events[h][i].id = e.id /\ e.kind = "Command" /\ i # got[h] + 1
    BY <1>1, <1>4, <1>6, <2>1
  <2> QED  BY <1>0, <1>2, <1>3, <2>1, <2>2 DEF Channels, Waiting
<1>8. \A g \in Handles : \A k \in owed'[g] : handle'[k] = g
  BY <1>0, <1>1, <1>3, <1>6 DEF Channels
<1>9. \A g \in Handles : \A i, j \in DOMAIN events'[g] :
        Waiting(g, i)' /\ Waiting(g, j)' /\ events'[g][i].id = events'[g][j].id => i = j
  BY <1>0, <1>1, <1>4 DEF Channels
<1> QED  BY <1>0, <1>1, <1>5, <1>7, <1>8, <1>9 DEF Channels

LEMMA AnswerChannels ==
  ASSUME Inv, NEW h \in Handles, NEW k \in Ids, Answer(h, k)
  PROVE  Channels'
<1>0. Channels /\ owed \in [Handles -> SUBSET Ids]
  BY NowAwaited DEF Inv, UserTyped
<1>1. \A g \in Handles : owed'[g] \subseteq owed[g]
  BY <1>0 DEF Answer
<1>2. UNCHANGED <<events, got, handle>>
  BY DEF Answer
<1>3. \A g \in Handles : \A i : Waiting(g, i)' <=> Waiting(g, i)
  BY <1>2 DEF Waiting
<1>4. \A g \in Handles : \A i \in DOMAIN events'[g] :
        Waiting(g, i)' => events'[g][i].id \notin owed'[g]
  BY <1>0, <1>1, <1>2, <1>3 DEF Channels
<1>5. \A g \in Handles : \A j \in owed'[g] : handle'[j] = g
  BY <1>0, <1>1, <1>2 DEF Channels
<1> QED  BY <1>0, <1>2, <1>3, <1>4, <1>5 DEF Channels

LEMMA ChannelsKept ==
  ASSUME Inv, [Next]_vars
  PROVE  Channels'
<1>1. CASE Registry
  BY <1>1, QuietChannels DEF Registry, AddDevice, RemoveDevice, PostConnect, QueueSelection,
                             FailPost, session, user
<1>2. CASE StartRun \/ DropManager \/ InstallSender \/ ConnectSucceeds \/ ConnectFails \/ StopRun
  BY <1>2, QuietChannels DEF StartRun, DropManager, InstallSender, ConnectSucceeds, ConnectFails,
                             StopRun, session, user
<1>3. CASE TakeSelection
  <2> DEFINE s == Head(selections)
  <2>1. s.id \in Ids /\ handle[s.id] = 0
    BY <1>3, NextIsNew DEF TakeSelection
  <2>2. /\ UNCHANGED <<events, got, owed>>
        /\ handle' \in {handle, [handle EXCEPT ![s.id] = devices[s.device]]}
    BY <1>3 DEF TakeSelection, user
  <2> HIDE DEF s
  <2>3. handle \in [Ids -> 0 .. MaxHandles]
    BY NowAwaited DEF SessionTyped
  <2> QED  BY <2>1, <2>2, <2>3, QuietChannels
<1>4. CASE SayConnected
  <2>1. hand \in Ids /\ handle[hand] \in Handles
    BY <1>4, HandTyped DEF SayConnected, Inv, InHand
  <2> QED  BY <1>4, <2>1, SendChannels DEF SayConnected, user
<1>5. CASE Session
  <2>1. PICK k \in Ids : \/ Begin(k) \/ Notify(k) \/ Ask(k)
                         \/ TakeCommand(k) \/ Leave(k) \/ SaySessionClosed(k)
    BY <1>5 DEF Session
  <2>2. CASE Begin(k) \/ TakeCommand(k) \/ Leave(k)
    BY <2>2, QuietChannels DEF Begin, TakeCommand, Leave, user
  <2>3. status[k] \in Busy => handle[k] \in Handles
    BY NowAwaited, Numbers DEF Inv, Handled, SessionTyped, Busy
  <2>4. CASE Notify(k)
    BY <2>3, <2>4, SendChannels DEF Notify, Busy, user
  <2>5. CASE Ask(k)
    BY <2>3, <2>5, SendChannels DEF Ask, Busy, user
  <2>6. CASE SaySessionClosed(k)
    BY <2>3, <2>6, SendChannels DEF SaySessionClosed, Busy, user
  <2> QED  BY <2>1, <2>2, <2>4, <2>5, <2>6
<1>6. CASE Application
  <2>1. PICK h \in Handles :
          \/ Recv(h) \/ RecvNone(h) \/ StartReport(h) \/ FinishReport(h)
          \/ AbandonReport(h) \/ DropHandle(h)
          \/ \E k \in Ids : Answer(h, k)
    BY <1>6 DEF Application
  <2>2. CASE RecvNone(h) \/ StartReport(h) \/ FinishReport(h) \/ AbandonReport(h) \/ DropHandle(h)
    BY <2>2, QuietChannels DEF RecvNone, StartReport, FinishReport, AbandonReport, DropHandle, session
  <2> QED  BY <2>1, <2>2, RecvChannels, AnswerChannels
<1>7. CASE UNCHANGED vars
  BY <1>7, QuietChannels DEF vars, session, user
<1> QED  BY <1>1, <1>2, <1>3, <1>4, <1>5, <1>6, <1>7
            DEF Next, Manager, Handling, Finished

-----------------------------------------------------------------------------
(* The sessions that wait for an answer.                                   *)

LEMMA QuietAwaited ==
  ASSUME Inv, UNCHANGED <<events, got, owed>>,
         \A h \in Handles : app'[h] = "gone" <=> app[h] = "gone",
         \A k \in Ids : status'[k] = "waiting" <=> status[k] = "waiting"
  PROVE  Awaited'
<1>1. \A h \in Handles, k \in Ids : At(h, k)' <=> At(h, k)
  BY DEF At, Waiting
<1> QED  BY <1>1, NowAwaited DEF Awaited

LEMMA SendAwaited ==
  ASSUME Inv, NEW k \in Ids, handle[k] \in Handles, UNCHANGED <<got, owed, app>>,
         NEW kind \in {"Connected", "Notification", "SessionClosed"},
         Send(handle[k], Event(k, kind)),
         \A j \in Ids : status'[j] = "waiting" <=> status[j] = "waiting"
  PROVE  Awaited'
<1>1. \A h \in Handles :
        /\ \A i \in DOMAIN events[h] : i \in DOMAIN events'[h] /\ events'[h][i] = events[h][i]
        /\ \A i \in DOMAIN events'[h] \ DOMAIN events[h] : events'[h][i].kind # "Command"
  <2>1. \A h \in Handles :
          /\ \A i \in DOMAIN events[h] : i \in DOMAIN events'[h] /\ events'[h][i] = events[h][i]
          /\ \A i \in DOMAIN events'[h] \ DOMAIN events[h] : events'[h][i] = Event(k, kind)
    BY SendSteps
  <2> QED  BY <2>1 DEF Event
<1>2. \A h \in Handles : \A i : /\ Waiting(h, i)' <=> Waiting(h, i)
                                /\ Waiting(h, i) => events'[h][i] = events[h][i]
  BY <1>1 DEF Waiting
<1>3. \A h \in Handles, j \in Ids : At(h, j)' <=> At(h, j)
  BY <1>2 DEF At
<1> QED  BY <1>3, NowAwaited DEF Awaited

LEMMA AskAwaited ==
  ASSUME Inv, NEW k \in Ids, Ask(k)
  PROVE  Awaited'
<1>0. /\ Awaited /\ Channels /\ handle[k] \in Handles /\ status \in [Ids -> Statuses]
      /\ status[k] = "asking"
  BY NowAwaited, Numbers DEF Inv, Handled, SessionTyped, Ask
<1>1. \A h \in Handles : ~At(h, k)
  BY <1>0 DEF Awaited
<1>2. Send(handle[k], Event(k, "Command")) /\ UNCHANGED <<got, owed, app>>
  BY DEF Ask, user
<1>3. \A h \in Handles :
        /\ \A i \in DOMAIN events[h] : i \in DOMAIN events'[h] /\ events'[h][i] = events[h][i]
        /\ \A i \in DOMAIN events'[h] \ DOMAIN events[h] :
             /\ h = handle[k] /\ i = Gained(k) /\ events'[h][i] = Event(k, "Command")
             /\ app[h] # "gone"
        /\ app[h] # "gone" /\ h = handle[k] => Gained(k) \in DOMAIN events'[h] \ DOMAIN events[h]
  BY <1>0, <1>2, SendSteps
<1>4. \A h \in Handles : \A i : Waiting(h, i) => Waiting(h, i)' /\ events'[h][i] = events[h][i]
  BY <1>2, <1>3 DEF Waiting
<1>5. \A h \in Handles : \A i : Waiting(h, i)' /\ ~Waiting(h, i) =>
        h = handle[k] /\ events'[h][i].id = k /\ app[h] # "gone"
  BY <1>2, <1>3 DEF Waiting, Event
<1>6. ASSUME NEW j \in Ids \ {k} PROVE status'[j] = "waiting" <=> \E h \in Handles : At(h, j)'
  <2>1. \A h \in Handles : At(h, j)' <=> At(h, j)
    BY <1>2, <1>4, <1>5 DEF At
  <2>2. status'[j] = status[j]
    BY <1>0 DEF Ask
  <2> QED  BY <1>0, <2>1, <2>2 DEF Awaited
<1>7. CASE app[handle[k]] = "gone"
  <2>1. status'[k] = "running"
    BY <1>0, <1>7 DEF Ask
  <2>2. \A h \in Handles : ~At(h, k)'
    BY <1>1, <1>2, <1>4, <1>5, <1>7 DEF At
  <2> QED  BY <1>6, <2>1, <2>2 DEF Awaited
<1>8. CASE app[handle[k]] # "gone"
  <2>1. status'[k] = "waiting"
    BY <1>0, <1>8 DEF Ask
  <2>2. Gained(k) > got[handle[k]]
    BY <1>0, NowAwaited DEF Gained, Channels, ChannelTyped
  <2>3. PICK h \in Handles : h = handle[k] /\ app[h] # "gone"
    BY <1>0, <1>8
  <2>4. At(h, k)'
    <3>1. PICK i : /\ i \in DOMAIN events'[h] \ DOMAIN events[h] /\ i = Gained(k)
      BY <1>3, <2>3
    <3>2. events'[h][i] = Event(k, "Command") /\ i > got'[h] /\ app'[h] # "gone"
      BY <1>2, <1>3, <2>2, <2>3, <3>1
    <3>3. Waiting(h, i)' /\ events'[h][i].id = k
      BY <3>1, <3>2 DEF Waiting, Event
    <3> QED  BY <3>2, <3>3 DEF At
  <2> QED  BY <1>6, <2>1, <2>4 DEF Awaited
<1> QED  BY <1>7, <1>8

LEMMA RecvAwaited ==
  ASSUME Inv, NEW h \in Handles, Recv(h)
  PROVE  Awaited'
<1> DEFINE e == events[h][got[h] + 1]
<1>0. /\ Channels /\ Awaited /\ got \in [Handles -> Nat] /\ owed \in [Handles -> SUBSET Ids]
      /\ events[h] \in Seq(EventItem)
  BY NowAwaited DEF Inv, ChannelTyped, UserTyped
<1>1. /\ got' = [got EXCEPT ![h] = got[h] + 1] /\ got[h] < Len(events[h])
      /\ owed' = IF e.kind = "Command" THEN [owed EXCEPT ![h] = @ \cup {e.id}] ELSE owed
      /\ UNCHANGED <<events, status, app>> /\ app[h] = "held"
  BY <1>0 DEF Recv, Free, session
<1>2. got[h] + 1 \in DOMAIN events[h] /\ got'[h] = got[h] + 1
  BY <1>0, <1>1
<1>3. \A g \in Handles : \A i :
        /\ Waiting(g, i)' => Waiting(g, i)
        /\ Waiting(g, i) => Waiting(g, i)' \/ (g = h /\ i = got[h] + 1 /\ e.kind = "Command")
  BY <1>0, <1>1, <1>2 DEF Waiting
<1>4. e.kind = "Command" => Waiting(h, got[h] + 1)
  BY <1>0, <1>2 DEF Waiting
<1>5. \A g \in Handles : \A k \in Ids :
        k \in owed'[g] <=> k \in owed[g] \/ (g = h /\ e.kind = "Command" /\ k = e.id)
  BY <1>0, <1>1
<1> HIDE DEF e
<1>6. ASSUME NEW g \in Handles, NEW k \in Ids PROVE At(g, k)' <=> At(g, k)
  <2>1. ASSUME At(g, k)' PROVE At(g, k)
    <3>1. CASE k \in owed'[g]
      BY <1>1, <1>4, <1>5, <3>1 DEF At, e
    <3>2. CASE app'[g] # "gone" /\ \E i : Waiting(g, i)' /\ events'[g][i].id = k
      BY <1>1, <1>3, <3>2 DEF At
    <3> QED  BY <2>1, <3>1, <3>2 DEF At
  <2>2. ASSUME At(g, k) PROVE At(g, k)'
    <3>1. CASE k \in owed[g]
      BY <1>5, <3>1 DEF At
    <3>2. ASSUME app[g] # "gone", NEW i, Waiting(g, i), events[g][i].id = k PROVE At(g, k)'
      <4>1. CASE Waiting(g, i)'
        BY <1>1, <3>2, <4>1 DEF At
      <4>2. CASE g = h /\ i = got[h] + 1 /\ e.kind = "Command"
        BY <1>5, <3>2, <4>2 DEF At, e
      <4> QED  BY <1>3, <3>2, <4>1, <4>2
    <3> QED  BY <2>2, <3>1, <3>2 DEF At
  <2> QED  BY <2>1, <2>2
<1> QED  BY <1>0, <1>1, <1>6 DEF Awaited

LEMMA AnswerAwaited ==
  ASSUME Inv, NEW h \in Handles, NEW k \in Ids, Answer(h, k)
  PROVE  Awaited'
<1>0. /\ Channels /\ Awaited /\ owed \in [Handles -> SUBSET Ids] /\ status \in [Ids -> Statuses]
      /\ k \in owed[h]
  BY NowAwaited DEF Inv, UserTyped, SessionTyped, Answer
<1>1. /\ UNCHANGED <<events, got, app>> /\ status' = [status EXCEPT ![k] = "running"]
      /\ owed' = [owed EXCEPT ![h] = @ \ {k}]
  BY DEF Answer
<1>2. \A g \in Handles : \A i : Waiting(g, i)' <=> Waiting(g, i)
  BY <1>1 DEF Waiting
<1>3. \A g \in Handles : \A j \in Ids : j \in owed'[g] <=> j \in owed[g] /\ ~(g = h /\ j = k)
  BY <1>0, <1>1
<1>4. \A g \in Handles : k \in owed[g] => g = h
  BY <1>0 DEF Channels
<1>5. \A g \in Handles : \A i : Waiting(g, i) => events[g][i].id # k
  BY <1>0 DEF Channels, Waiting
<1>6. \A g \in Handles : ~At(g, k)'
  BY <1>1, <1>2, <1>3, <1>4, <1>5 DEF At
<1>7. \A g \in Handles : \A j \in Ids \ {k} : At(g, j)' <=> At(g, j)
  BY <1>1, <1>2, <1>3 DEF At
<1> QED  BY <1>0, <1>1, <1>6, <1>7 DEF Awaited

LEMMA DropAwaited ==
  ASSUME Inv, NEW h \in Handles, DropHandle(h)
  PROVE  Awaited'
<1>0. /\ Channels /\ Awaited /\ owed \in [Handles -> SUBSET Ids] /\ status \in [Ids -> Statuses]
      /\ app \in [Handles -> {"none", "held", "gone"}] /\ app[h] = "held"
      /\ events[h] \in Seq(EventItem) /\ got[h] \in Nat
  BY NowAwaited DEF Inv, UserTyped, SessionTyped, ChannelTyped, DropHandle, Free
<1>1. /\ UNCHANGED <<events, got, owed>> /\ app' = [app EXCEPT ![h] = "gone"]
      /\ status' = [k \in Ids |-> IF Event(k, "Command") \in Unreceived(h)
                                  THEN "running" ELSE status[k]]
  BY DEF DropHandle
<1>2. \A g \in Handles : \A i : Waiting(g, i)' <=> Waiting(g, i)
  BY <1>1 DEF Waiting
<1>3. ASSUME NEW k \in Ids
      PROVE  Event(k, "Command") \in Unreceived(h) <=> \E i : Waiting(h, i) /\ events[h][i].id = k
  <2>1. Event(k, "Command") \in Unreceived(h)
           <=> \E i \in DOMAIN events[h] :
                 i > got[h] /\ events[h][i].kind = "Command" /\ events[h][i].id = k
    BY <1>0, InUnreceived, Zenon DEF Unreceived
  <2> QED  BY <2>1 DEF Waiting
<1>4. ASSUME NEW k \in Ids, NEW i, Waiting(h, i), events[h][i].id = k
      PROVE  status'[k] = "running" /\ \A g \in Handles : ~At(g, k)'
  <2>1. status'[k] = "running"
    BY <1>1, <1>3, <1>4
  <2>2. handle[k] = h /\ k \notin owed[h]
    BY <1>0, <1>4 DEF Channels, Waiting
  <2>3. \A g \in Handles : At(g, k)' => g = h
    BY <1>0, <1>1, <1>2, <2>2 DEF At, Channels, Waiting
  <2>4. ~At(h, k)'
    BY <1>0, <1>1, <2>2 DEF At
  <2> QED  BY <2>1, <2>3, <2>4
<1>5. ASSUME NEW k \in Ids, ~\E i : Waiting(h, i) /\ events[h][i].id = k
      PROVE  status'[k] = status[k] /\ \A g \in Handles : At(g, k)' <=> At(g, k)
  <2>1. status'[k] = status[k]
    BY <1>1, <1>3, <1>5
  <2>2. \A g \in Handles : g # h => app'[g] = app[g]
    BY <1>0, <1>1
  <2>3. \A g \in Handles : At(g, k)' <=> At(g, k)
    BY <1>1, <1>2, <1>5, <2>2 DEF At
  <2> QED  BY <2>1, <2>3
<1>6. ASSUME NEW k \in Ids PROVE status'[k] = "waiting" <=> \E g \in Handles : At(g, k)'
  <2>1. CASE \E i : Waiting(h, i) /\ events[h][i].id = k
    BY <1>4, <2>1
  <2>2. CASE ~\E i : Waiting(h, i) /\ events[h][i].id = k
    BY <1>0, <1>5, <2>2 DEF Awaited
  <2> QED  BY <2>1, <2>2
<1> QED  BY <1>6 DEF Awaited

LEMMA AwaitedKept ==
  ASSUME Inv, [Next]_vars
  PROVE  Awaited'
<1>0. /\ status \in [Ids -> Statuses] /\ handle \in [Ids -> 0 .. MaxHandles]
      /\ app \in [Handles -> {"none", "held", "gone"}]
  BY NowAwaited DEF SessionTyped, UserTyped
<1>1. ASSUME NEW d \in Devices, AddDevice(d) PROVE Awaited'
  <2>1. /\ app' = [app EXCEPT ![nhandles'] = "held"]
        /\ UNCHANGED <<events, got, owed, status>>
    BY <1>1 DEF AddDevice, session
  <2>2. nhandles' \in Handles => app[nhandles'] = "none"
    <3>1. nhandles' = nhandles + 1 /\ nhandles \in Nat
      BY <1>1, TypeParts, ManagerAssumption DEF AddDevice, Inv, AllTyped, CountersTyped
    <3> QED  BY <3>1 DEF Inv, Handled
  <2>3. \A h \in Handles : app'[h] = "gone" <=> app[h] = "gone"
    BY <1>0, <2>1, <2>2
  <2> QED  BY <2>1, <2>3, QuietAwaited
<1>2. ASSUME NEW d \in Devices, RemoveDevice(d) \/ PostConnect(d) PROVE Awaited'
  BY <1>2, QuietAwaited DEF RemoveDevice, PostConnect, session, user
<1>3. ASSUME NEW p \in posts, QueueSelection(p) \/ FailPost(p) PROVE Awaited'
  BY <1>3, QuietAwaited DEF QueueSelection, FailPost, session, user
<1>4. CASE TakeSelection
  <2> DEFINE s == Head(selections)
  <2>1. s.id \in Ids /\ status[s.id] = "none"
    BY <1>4, NextIsNew DEF TakeSelection
  <2>2. /\ UNCHANGED <<events, got, owed, app>>
        /\ status' \in {status, [status EXCEPT ![s.id] = "lost"]}
    BY <1>4 DEF TakeSelection, user
  <2> HIDE DEF s
  <2>3. \A k \in Ids : status'[k] = "waiting" <=> status[k] = "waiting"
    BY <1>0, <2>1, <2>2
  <2> QED  BY <2>2, <2>3, QuietAwaited
<1>5. ASSUME Onward
      PROVE  \A k \in Ids : status'[k] = "waiting" <=> status[k] = "waiting"
  <2>1. hand # 0 => status[hand] # "waiting"
    BY DEF Inv, InHand
  <2>2. hand # 0 => status'[hand] # "waiting"
    BY <1>5, OnwardSteps
  <2>3. \A k \in Ids : k # 0
    BY Numbers
  <2> QED  BY <1>5, <2>1, <2>2, <2>3, OnwardSteps
<1>6. CASE InstallSender \/ ConnectSucceeds \/ ConnectFails \/ StopRun
  <2>1. UNCHANGED <<events, got, owed, app>>
    BY <1>6 DEF InstallSender, ConnectSucceeds, ConnectFails, StopRun, user
  <2> QED  BY <1>5, <1>6, <2>1, QuietAwaited DEF Onward
<1>7. CASE SayConnected
  <2>1. hand \in Ids /\ handle[hand] \in Handles
    BY <1>7, HandTyped DEF SayConnected, Inv, InHand
  <2>2. Send(handle[hand], Event(hand, "Connected")) /\ UNCHANGED <<got, owed, app>>
    BY <1>7 DEF SayConnected, user
  <2> QED  BY <1>5, <1>7, <2>1, <2>2, SendAwaited DEF Onward
<1>8. CASE DropManager
  <2>1. \A i \in DOMAIN selections : status[selections[i].id] = "none"
    <3>1. \A i \in DOMAIN selections : /\ Done + i \in DOMAIN accepted /\ Done + i > Done
                                       /\ selections[i].id = accepted[Done + i]
      BY TypeParts DEF Inv, Pipeline, Done, AllTyped, HttpTyped
    <3> QED  BY <3>1 DEF Inv, Turns
  <2>2. /\ UNCHANGED <<events, got, owed, app>>
        /\ status' = [k \in Ids |-> IF \E i \in DOMAIN selections : selections[i].id = k
                                    THEN "lost" ELSE status[k]]
    BY <1>8 DEF DropManager, user
  <2>3. \A k \in Ids : status'[k] = "waiting" <=> status[k] = "waiting"
    BY <1>0, <2>1, <2>2
  <2> QED  BY <2>2, <2>3, QuietAwaited
<1>9. CASE StartRun
  BY <1>9, QuietAwaited DEF StartRun, session, user
<1>10. CASE Session
  <2>1. PICK k \in Ids : \/ Begin(k) \/ Notify(k) \/ Ask(k)
                         \/ TakeCommand(k) \/ Leave(k) \/ SaySessionClosed(k)
    BY <1>10 DEF Session
  <2>2. CASE Begin(k) \/ TakeCommand(k) \/ Leave(k)
    <3>1. \A j \in Ids : status'[j] = "waiting" <=> status[j] = "waiting"
      BY <1>0, <2>2 DEF Begin, TakeCommand, Leave
    <3> QED  BY <2>2, <3>1, QuietAwaited DEF Begin, TakeCommand, Leave, user
  <2>3. CASE Notify(k) \/ SaySessionClosed(k)
    <3>1. \A j \in Ids : status'[j] = "waiting" <=> status[j] = "waiting"
      BY <1>0, <2>3 DEF Notify, SaySessionClosed
    <3>2. handle[k] \in Handles
      BY <1>0, <2>3, Numbers DEF Notify, SaySessionClosed, Inv, Handled
    <3> QED  BY <2>3, <3>1, <3>2, SendAwaited DEF Notify, SaySessionClosed, user
  <2> QED  BY <2>1, <2>2, <2>3, AskAwaited
<1>11. CASE Application
  <2>1. PICK h \in Handles :
          \/ Recv(h) \/ RecvNone(h) \/ StartReport(h) \/ FinishReport(h)
          \/ AbandonReport(h) \/ DropHandle(h)
          \/ \E k \in Ids : Answer(h, k)
    BY <1>11 DEF Application
  <2>2. CASE RecvNone(h) \/ StartReport(h) \/ FinishReport(h) \/ AbandonReport(h)
    BY <2>2, QuietAwaited DEF RecvNone, StartReport, FinishReport, AbandonReport, session
  <2> QED  BY <2>1, <2>2, RecvAwaited, AnswerAwaited, DropAwaited
<1>12. CASE UNCHANGED vars
  BY <1>12, QuietAwaited DEF vars, session, user
<1> QED  BY <1>1, <1>2, <1>3, <1>4, <1>6, <1>7, <1>8, <1>9, <1>10, <1>11, <1>12
            DEF Next, Registry, Manager, Handling, Finished

-----------------------------------------------------------------------------
(* The senders.                                                            *)

LEMMA QuietSenders ==
  ASSUME Inv, UNCHANGED <<shared_tx, reporting>>,
         \A k \in Ids : handle[k] # 0 => handle'[k] = handle[k]
  PROVE  Senders'
<1>1. \A h \in Handles : h # 0 /\ (shared_tx[h] # 0 => shared_tx[h] \in Ids)
  BY TypeParts, Numbers DEF Inv, AllTyped, ManagerTyped
<1> QED  BY <1>1 DEF Inv, Senders

LEMMA SendersKept ==
  ASSUME Inv, [Next]_vars
  PROVE  Senders'
<1>0. /\ Senders /\ shared_tx \in [Handles -> 0 .. MaxPosts]
      /\ reporting \in [Handles -> 0 .. MaxPosts] /\ handle \in [Ids -> 0 .. MaxHandles]
  BY TypeParts DEF Inv, AllTyped, ManagerTyped, UserTyped, SessionTyped
<1>1. CASE InstallSender
  <2>1. hand \in Ids /\ handle[hand] \in Handles
    BY <1>1, HandTyped DEF InstallSender, Inv, InHand
  <2>2. /\ shared_tx' = [shared_tx EXCEPT ![handle[hand]] = hand]
        /\ reporting[handle[hand]] = 0 /\ UNCHANGED <<handle, reporting>>
    BY <1>1 DEF InstallSender, user
  <2> QED  BY <1>0, <2>1, <2>2 DEF Senders
<1>2. CASE TakeSelection
  <2> DEFINE s == Head(selections)
  <2>1. s.id \in Ids /\ handle[s.id] = 0
    BY <1>2, NextIsNew DEF TakeSelection
  <2>2. /\ UNCHANGED <<shared_tx, reporting>>
        /\ handle' \in {handle, [handle EXCEPT ![s.id] = devices[s.device]]}
    BY <1>2 DEF TakeSelection, user
  <2> HIDE DEF s
  <2> QED  BY <1>0, <2>1, <2>2, QuietSenders
<1>3. CASE Registry
  BY <1>3, QuietSenders DEF Registry, AddDevice, RemoveDevice, PostConnect, QueueSelection,
                            FailPost, manager, session, user
<1>4. CASE StartRun \/ DropManager \/ ConnectSucceeds \/ ConnectFails \/ SayConnected \/ StopRun
  BY <1>4, QuietSenders DEF StartRun, DropManager, ConnectSucceeds, ConnectFails, SayConnected,
                            StopRun, session, user
<1>5. CASE Session
  BY <1>5, SessionSteps, QuietSenders DEF manager, user
<1>6. CASE Application
  <2>1. PICK h \in Handles :
          \/ Recv(h) \/ RecvNone(h) \/ StartReport(h) \/ FinishReport(h)
          \/ AbandonReport(h) \/ DropHandle(h)
          \/ \E k \in Ids : Answer(h, k)
    BY <1>6 DEF Application
  <2>2. UNCHANGED <<shared_tx, handle>>
    BY <1>6, ApplicationSteps DEF manager
  <2>3. CASE StartReport(h)
    BY <1>0, <2>2, <2>3 DEF StartReport, Senders
  <2>4. CASE FinishReport(h) \/ AbandonReport(h)
    BY <1>0, <2>2, <2>4 DEF FinishReport, AbandonReport, Senders
  <2>5. CASE UNCHANGED reporting
    BY <1>0, <2>2, <2>5, QuietSenders
  <2> QED  BY <2>1, <2>3, <2>4, <2>5 DEF Recv, RecvNone, DropHandle, Answer
<1>7. CASE UNCHANGED vars
  BY <1>7, QuietSenders DEF vars, manager, session, user
<1> QED  BY <1>1, <1>2, <1>3, <1>4, <1>5, <1>6, <1>7
            DEF Next, Manager, Handling, Finished

\* A step that begins no session, and installs no sender.
Idle == {"none", "lost"}

LEMMA QuietLast ==
  ASSUME Inv, UNCHANGED <<accepted, shared_tx>>,
         \A k \in Ids : status'[k] \in Idle <=> status[k] \in Idle,
         \A k \in Ids : status[k] \notin Idle => handle'[k] = handle[k]
  PROVE  SenderOfTheLastBegun'
<1>1. \A i \in DOMAIN accepted : accepted[i] \in Ids
  BY TypeParts DEF Inv, AllTyped, HttpTyped
<1>2. ASSUME NEW h \in Handles
      PROVE  {i \in DOMAIN accepted' : handle'[accepted'[i]] = h
                                       /\ status'[accepted'[i]] \notin Idle} = Begun(h)
  BY <1>1 DEF Begun, Idle
<1>3. SenderOfTheLastBegun
  BY DEF Inv
<1> QED  BY <1>2, <1>3 DEF SenderOfTheLastBegun, Begun, Idle

LEMMA LastKept ==
  ASSUME Inv, [Next]_vars
  PROVE  SenderOfTheLastBegun'
<1>0. /\ Pipeline /\ Turns /\ InHand /\ SenderOfTheLastBegun
      /\ selections \in Seq(Selection) /\ accepted \in Seq(Ids)
      /\ shared_tx \in [Handles -> 0 .. MaxPosts]
      /\ status \in [Ids -> Statuses] /\ handle \in [Ids -> 0 .. MaxHandles]
      /\ \A p \in posts : p.id \in Ids
  BY TypeParts DEF Inv, AllTyped, HttpTyped, ManagerTyped, SessionTyped, Selection
<1>1. CASE InstallSender
  <2> DEFINE g == handle[hand]
  <2>1. /\ hand \in Ids /\ hand # 0 /\ g \in Handles
        /\ UNCHANGED <<accepted, handle>> /\ status[hand] = "none"
        /\ shared_tx' = [shared_tx EXCEPT ![g] = hand]
        /\ status' = [status EXCEPT ![hand] = "connecting"]
    BY <1>0, <1>1, HandTyped, Numbers DEF InstallSender, InHand, http
  <2>2. /\ Done \in DOMAIN accepted /\ accepted[Done] = hand
        /\ \A i \in DOMAIN accepted : accepted[i] = hand => i = Done
    BY <1>0, <2>1 DEF Turns, Pipeline, Done
  <2>3. \A i \in DOMAIN accepted : status[accepted[i]] # "none" => i <= Done
    BY <1>0, <2>2 DEF Turns, Done
  <2> SUFFICES ASSUME NEW h \in Handles
               PROVE  \/ Begun(h)' = {} /\ shared_tx'[h] = 0
                      \/ \E i \in Begun(h)' : /\ shared_tx'[h] = accepted'[i]
                                              /\ \A j \in Begun(h)' : j <= i
    BY DEF SenderOfTheLastBegun
  <2> HIDE DEF g
  <2>4. CASE h = g
    <3>1. Done \in Begun(h)'
      BY <1>0, <2>1, <2>2, <2>4 DEF Begun, g
    <3>2. \A j \in Begun(h)' : j <= Done
      BY <1>0, <2>1, <2>2, <2>3 DEF Begun
    <3>3. shared_tx'[h] = accepted'[Done]
      BY <1>0, <2>1, <2>2, <2>4
    <3> QED  BY <3>1, <3>2, <3>3
  <2>5. CASE h # g
    <3>1. Begun(h)' = Begun(h) /\ shared_tx'[h] = shared_tx[h]
      BY <1>0, <2>1, <2>5 DEF Begun, g
    <3> QED  BY <1>0, <2>1, <3>1 DEF SenderOfTheLastBegun
  <2> QED  BY <2>4, <2>5
<1>2. CASE TakeSelection
  <2> DEFINE s == Head(selections)
  <2>1. s.id \in Ids /\ status[s.id] = "none"
    BY <1>2, NextIsNew DEF TakeSelection
  <2>2. /\ UNCHANGED <<accepted, shared_tx>>
        /\ handle' \in {handle, [handle EXCEPT ![s.id] = devices[s.device]]}
        /\ status' \in {status, [status EXCEPT ![s.id] = "lost"]}
    BY <1>2 DEF TakeSelection
  <2> HIDE DEF s
  <2> QED  BY <1>0, <2>1, <2>2, QuietLast DEF Idle
<1>3. ASSUME NEW p \in posts, QueueSelection(p)
      PROVE  SenderOfTheLastBegun'
  <2>1. /\ accepted' = Append(accepted, p.id) /\ p.id \in Ids
        /\ UNCHANGED <<shared_tx, status, handle>>
    BY <1>0, <1>3 DEF QueueSelection, manager, session
  <2>2. status[p.id] = "none"
    BY <1>0, <2>1 DEF Pipeline, Turns
  <2> SUFFICES ASSUME NEW h \in Handles
               PROVE  \/ Begun(h)' = {} /\ shared_tx'[h] = 0
                      \/ \E i \in Begun(h)' : /\ shared_tx'[h] = accepted'[i]
                                              /\ \A j \in Begun(h)' : j <= i
    BY DEF SenderOfTheLastBegun
  <2>3. Begun(h)' = Begun(h) /\ \A i \in Begun(h) : accepted'[i] = accepted[i]
    BY <1>0, <2>1, <2>2 DEF Begun
  <2> QED  BY <1>0, <2>1, <2>3 DEF SenderOfTheLastBegun
<1>4. CASE Registry
  <2>1. CASE \E p \in posts : QueueSelection(p)
    BY <1>3, <2>1
  <2>2. CASE UNCHANGED <<accepted, shared_tx, status, handle>>
    BY <2>2, QuietLast
  <2> QED  BY <1>4, <2>1, <2>2 DEF Registry, AddDevice, RemoveDevice, PostConnect, FailPost, http,
                                   manager, session
<1>5. CASE StopRun
  <2>1. \A k \in Ids : status'[k] \in Idle <=> status[k] \in Idle
    BY <1>0, <1>5, Numbers DEF StopRun, InHand, Idle
  <2> QED  BY <1>5, <2>1, QuietLast DEF StopRun, http
<1>6. CASE ConnectSucceeds \/ ConnectFails \/ SayConnected
  <2>1. hand \in Ids /\ status[hand] \in {"connecting", "connected"}
    BY <1>0, <1>6, HandTyped DEF ConnectSucceeds, ConnectFails, SayConnected, InHand
  <2>2. \A k \in Ids : status'[k] \in Idle <=> status[k] \in Idle
    BY <1>0, <1>6, <2>1 DEF ConnectSucceeds, ConnectFails, SayConnected, Idle
  <2> QED  BY <1>6, <2>2, QuietLast DEF ConnectSucceeds, ConnectFails, SayConnected, http
<1>7. CASE DropManager
  <2>1. \A i \in DOMAIN selections : status[selections[i].id] = "none"
    <3>1. SUFFICES ASSUME NEW i \in DOMAIN selections
                   PROVE  status[selections[i].id] = "none"
      OBVIOUS
    <3>2. /\ Done + i \in DOMAIN accepted /\ Done + i > Done
          /\ selections[i].id = accepted[Done + i]
      BY <1>0 DEF Pipeline, Done
    <3> QED  BY <1>0, <3>2 DEF Turns
  <2>2. \A k \in Ids : status'[k] \in Idle <=> status[k] \in Idle
    BY <1>0, <1>7, <2>1 DEF DropManager, Idle
  <2> QED  BY <1>7, <2>2, QuietLast DEF DropManager
<1>8. CASE Session
  <2>1. \A k \in Ids : status'[k] \in Idle <=> status[k] \in Idle
    BY <1>8, SessionSteps DEF Busy, Idle
  <2> QED  BY <1>8, <2>1, SessionSteps, QuietLast DEF http, manager
<1>9. CASE Application
  <2>1. \A k \in Ids : status'[k] \in Idle <=> status[k] \in Idle
    BY <1>9, ApplicationSteps DEF Idle
  <2> QED  BY <1>9, <2>1, ApplicationSteps, QuietLast DEF http, manager
<1>10. CASE StartRun \/ UNCHANGED vars
  BY <1>10, QuietLast DEF StartRun, vars, http, manager, session
<1> QED  BY <1>1, <1>2, <1>4, <1>5, <1>6, <1>7, <1>8, <1>9, <1>10
            DEF Next, Manager, Handling, Finished

\* A handle gets no new sender, but from the hand of run().
LEMMA QuietFinality ==
  ASSUME Inv, UNCHANGED <<handle, ended>>,
         \A d \in Devices : devices'[d] # 0 => devices'[d] = devices[d],
         at' = "selected" /\ hand' # 0 => at = "selected" /\ hand' = hand,
         \A k \in Ids : Alive(k)' => Alive(k) \/ (at = "selected" /\ k = hand)
  PROVE  Finality'
<1>1. \A h \in Handles : h # 0
  BY Numbers
<1>2. \A k \in Ids : k # 0
  BY Numbers
<1>3. \A h \in Handles : SenderAlive(h)' => SenderAlive(h)
  BY <1>1, <1>2 DEF SenderAlive
<1> QED  BY <1>3 DEF Inv, Finality

LEMMA FinalityKept ==
  ASSUME Inv, [Next]_vars
  PROVE  Finality'
<1>0. /\ Finality /\ status \in [Ids -> Statuses] /\ handle \in [Ids -> 0 .. MaxHandles]
      /\ devices \in [Devices -> 0 .. MaxHandles]
  BY TypeParts DEF Inv, AllTyped, SessionTyped, RegistryTyped
<1>1. ASSUME NEW d \in Devices, AddDevice(d) PROVE Finality'
  <2>1. nhandles' = nhandles + 1 /\ nhandles \in Nat
    BY <1>1, TypeParts, ManagerAssumption DEF AddDevice, Inv, AllTyped, CountersTyped
  <2>2. \A h \in Handles : ended[h] => h # nhandles'
    BY <2>1 DEF Inv, Handled
  <2>3. \A h \in Handles : h # nhandles' /\ SenderAlive(h)' => SenderAlive(h)
    BY <1>0, <1>1 DEF AddDevice, SenderAlive, Alive, manager, session
  <2>4. ended' = ended
    BY <1>1 DEF AddDevice
  <2> QED  BY <1>0, <2>2, <2>3, <2>4 DEF Finality
<1>2. CASE TakeSelection
  <2> DEFINE s == Head(selections)
  <2>1. s.id \in Ids /\ status[s.id] = "none" /\ selections # <<>> /\ at = "idle"
    BY <1>2, NextIsNew DEF TakeSelection
  <2>2. UNCHANGED <<devices, ended>>
    BY <1>2 DEF TakeSelection, registry, user
  <2>3. s.device \in Devices
    <3>1. s \in Selection
      BY <2>1, TypeParts DEF Inv, AllTyped, HttpTyped
    <3> QED  BY <3>1 DEF Selection
  <2>4. CASE devices[s.device] = 0
    <3>1. status' = [status EXCEPT ![s.id] = "lost"] /\ UNCHANGED <<at, hand, handle>>
      BY <1>2, <2>4 DEF TakeSelection
    <3> HIDE DEF s
    <3>2. \A k \in Ids : Alive(k)' => Alive(k)
      BY <1>0, <2>1, <3>1 DEF Alive
    <3> QED  BY <2>2, <3>1, <3>2, QuietFinality
  <2>5. CASE devices[s.device] # 0
    <3>1. /\ handle' = [handle EXCEPT ![s.id] = devices[s.device]]
          /\ at' = "selected" /\ hand' = s.id /\ status' = status
      BY <1>2, <2>5 DEF TakeSelection
    <3> HIDE DEF s
    <3>2. \A h \in Handles : SenderAlive(h)' => SenderAlive(h)
      BY <1>0, <2>1, <2>2, <2>3, <3>1 DEF SenderAlive, Alive
    <3> QED  BY <1>0, <2>2, <3>2 DEF Finality
  <2> QED  BY <2>4, <2>5
<1>3. CASE Onward
  <2>1. /\ UNCHANGED <<devices, handle, ended>> /\ at' # "selected"
        /\ \A k \in Ids : k # hand => status'[k] = status[k]
    BY <1>3, OnwardSteps DEF registry, user
  <2>2. hand # 0 => at = "selected" \/ Alive(hand)
    BY DEF Inv, InHand, Alive
  <2>3. \A k \in Ids : k # 0
    BY Numbers
  <2>4. \A k \in Ids : Alive(k)' => Alive(k) \/ (at = "selected" /\ k = hand)
    BY <2>1, <2>2, <2>3 DEF Alive
  <2> QED  BY <2>1, <2>4, QuietFinality
<1>4. CASE DropManager
  <2>1. /\ UNCHANGED <<devices, handle, ended>> /\ at' = "dropped"
        /\ \A k \in Ids : status'[k] \in {status[k], "lost"}
    BY <1>0, <1>4 DEF DropManager, registry, user
  <2>2. \A k \in Ids : Alive(k)' => Alive(k)
    BY <2>1 DEF Alive
  <2> QED  BY <2>1, <2>2, QuietFinality
<1>5. CASE StartRun
  BY <1>5, QuietFinality DEF StartRun, registry, session, user, Alive
<1>6. ASSUME NEW d \in Devices, RemoveDevice(d) \/ PostConnect(d) PROVE Finality'
  <2>1. \A e \in Devices : devices'[e] # 0 => devices'[e] = devices[e]
    BY <1>0, <1>6 DEF RemoveDevice, PostConnect
  <2>2. UNCHANGED <<status, handle, ended, at, hand>>
    BY <1>6 DEF RemoveDevice, PostConnect, session, manager, user
  <2> QED  BY <2>1, <2>2, QuietFinality DEF Alive
<1>7. ASSUME NEW p \in posts, QueueSelection(p) \/ FailPost(p) PROVE Finality'
  BY <1>7, QuietFinality DEF QueueSelection, FailPost, registry, session, manager, user, Alive
<1>8. CASE Session
  <2>1. \A k \in Ids : Alive(k)' => Alive(k)
    BY <1>8, SessionSteps DEF Alive, Busy
  <2> QED  BY <1>8, <2>1, SessionSteps, QuietFinality DEF registry, manager, user
<1>9. CASE Application
  <2>1. UNCHANGED <<devices, handle, at, hand>>
    BY <1>9, ApplicationSteps DEF registry, manager
  <2>2. \A k \in Ids : Alive(k)' => Alive(k)
    BY <1>9, ApplicationSteps DEF Alive
  <2>3. CASE UNCHANGED ended
    BY <2>1, <2>2, <2>3, QuietFinality
  <2>4. ASSUME NEW h \in Handles, RecvNone(h) PROVE Finality'
    <3>1. \A g \in Handles : ended'[g] => ended[g] \/ g = h
      BY <2>4 DEF RecvNone
    <3>2. \A g \in Handles : SenderAlive(g)' => SenderAlive(g)
      BY <2>1, <2>2 DEF SenderAlive
    <3>3. ~SenderAlive(h)
      BY <2>4 DEF RecvNone
    <3> QED  BY <1>0, <3>1, <3>2, <3>3 DEF Finality
  <2> QED  BY <1>9, <2>3, <2>4
              DEF Application, Recv, StartReport, FinishReport, AbandonReport, DropHandle, Answer
<1>10. CASE UNCHANGED vars
  BY <1>10, QuietFinality DEF vars, registry, session, manager, user, Alive
<1> QED  BY <1>1, <1>2, <1>3, <1>4, <1>5, <1>6, <1>7, <1>8, <1>9, <1>10
            DEF Next, Registry, Manager, Handling, Onward, Finished

-----------------------------------------------------------------------------
(* The theorems.                                                           *)

LEMMA InvKept ==
  ASSUME Inv, [Next]_vars
  PROVE  Inv'
<1>1. TypeOK' /\ Channels' /\ Awaited'
  BY TypesKept, ChannelsKept, AwaitedKept
<1>2. Served'
  BY <1>1, NextServedIsAwaited, TypeParts DEF AllTyped
<1> QED  BY <1>1, <1>2, PipelineKept, TurnsKept, InHandKept, HandledKept, SendersKept,
            LastKept, FinalityKept DEF Inv

LEMMA AlwaysInv == Spec => []Inv
<1>1. Inv /\ [Next]_vars => Inv'
  BY InvKept
<1> QED  BY <1>1, InitialInv, PTL DEF Spec

\* Every variable keeps its kind: in particular no session is ever given the
\* channels of a handle that does not exist, and no command channel overflows.
THEOREM ManagerTypeCorrect == Spec => []TypeOK
<1>1. Inv => TypeOK
  BY DEF Inv
<1> QED  BY <1>1, AlwaysInv, PTL

\* However HTTP handlers, run() and its cancellations interleave, the selections
\* have their turns in the order in which they were queued (discovery.rs
\* connect_to_qconnect, manager.rs run).
THEOREM SelectionsInOrder == Spec => []InOrder
<1>1. Inv => InOrder
  <2> SUFFICES ASSUME Inv, NEW i \in DOMAIN accepted, NEW j \in DOMAIN accepted, i < j,
                      status[accepted[j]] # "none" \/ hand = accepted[j]
               PROVE  status[accepted[i]] # "none"
    BY DEF InOrder
  <2>0. /\ Pipeline /\ Turns /\ InHand /\ selections \in Seq(Selection) /\ accepted \in Seq(Ids)
        /\ accepted[j] \in Ids /\ accepted[j] # 0
    BY TypeParts, Numbers DEF Inv, AllTyped, HttpTyped
  <2>1. hand # 0 => Done \in DOMAIN accepted /\ accepted[Done] = hand
    BY <2>0 DEF Turns, Pipeline, Done
  <2>2. j <= Done
    <3>1. CASE status[accepted[j]] # "none"
      BY <2>0, <3>1 DEF Turns, Done
    <3>2. CASE hand = accepted[j]
      BY <2>0, <2>1, <3>2 DEF Pipeline, Done
    <3> QED  BY <3>1, <3>2
  <2>3. ~(i > Done) /\ i # Done
    BY <2>0, <2>2 DEF Done
  <2>4. accepted[i] # hand
    BY <2>0, <2>1, <2>3, Numbers DEF Pipeline
  <2> QED  BY <2>0, <2>3, <2>4 DEF Turns
<1> QED  BY <1>1, AlwaysInv, PTL

\* The sender behind a handle is that of the selection begun last for it, whatever
\* became of that one: a report never reaches an earlier session (manager.rs
\* handle_device_selected, its errors, and the drop of run()'s future).
THEOREM SenderIsTheLast == Spec => []SenderOfTheLastBegun
<1>1. Inv => SenderOfTheLastBegun
  BY DEF Inv
<1> QED  BY <1>1, AlwaysInv, PTL

\* A session waits for an answer exactly while the application can still give it,
\* or drop it: no session is stuck on a Responder that no longer exists, and no
\* Responder is left for a session that does not wait (session.rs DeviceSession,
\* event.rs Responder).
THEOREM WaitersAlwaysServed == Spec => []WaitersAreServed
<1>1. Inv => WaitersAreServed
  BY DEF Inv, Served
<1> QED  BY <1>1, AlwaysInv, PTL

\* When a report enters a command channel, it is the channel of the session its
\* device was last selected for, even if it had waited for room (session.rs
\* send_command, manager.rs install of the sender).
THEOREM ReportsReachTheSelected == Spec => ReportsFollowTheSelection
<1> DEFINE Follows == \A k \in Ids : commands'[k] > commands[k] =>
                        \E h \in Handles : shared_tx[h] = k /\ handle[k] = h
<1>1. ASSUME Inv, [Next]_vars PROVE [Follows]_vars
  <2> SUFFICES ASSUME NEW k \in Ids, commands'[k] > commands[k]
               PROVE  \E h \in Handles : shared_tx[h] = k /\ handle[k] = h
    OBVIOUS
  <2>0. commands \in [Ids -> 0 .. CommandCap] /\ commands[k] \in Nat
    BY <1>1, TypeParts, ManagerAssumption DEF Inv, AllTyped, SessionTyped
  <2>1. ~UNCHANGED commands
    BY <2>0
  <2>2. ASSUME NEW h \in Handles, FinishReport(h)
        PROVE  \E g \in Handles : shared_tx[g] = k /\ handle[k] = g
    <3>1. commands' = [commands EXCEPT ![reporting[h]] = @ + 1] /\ reporting[h] # 0
      BY <2>1, <2>2 DEF FinishReport
    <3>2. reporting[h] = k
      BY <2>0, <3>1
    <3> QED  BY <1>1, <2>2, <3>1, <3>2 DEF Inv, Senders, FinishReport
  <2>3. ASSUME NEW j \in Ids, TakeCommand(j) \/ SaySessionClosed(j) PROVE FALSE
    <3>1. commands[j] \in Nat
      BY <1>1, TypeParts, ManagerAssumption DEF Inv, AllTyped, SessionTyped
    <3> QED  BY <2>0, <2>3, <3>1 DEF TakeCommand, SaySessionClosed
  <2>4. ~ConnectFails /\ ~StopRun
    BY <2>0 DEF ConnectFails, StopRun
  <2>5. ~Registry
    BY <2>1 DEF Registry, AddDevice, RemoveDevice, PostConnect, QueueSelection, FailPost, session
  <2>6. ~(StartRun \/ TakeSelection \/ InstallSender \/ ConnectSucceeds \/ SayConnected \/ DropManager)
    BY <2>1 DEF StartRun, TakeSelection, InstallSender, ConnectSucceeds, SayConnected, DropManager,
                session
  <2>7. Session => \E j \in Ids : TakeCommand(j) \/ SaySessionClosed(j)
    BY <2>1 DEF Session, Begin, Notify, Ask, Leave
  <2>8. Application => \E h \in Handles : FinishReport(h)
    BY <2>1 DEF Application, Recv, RecvNone, StartReport, AbandonReport, DropHandle, Answer, session
  <2>9. ~UNCHANGED vars
    BY <2>1 DEF vars, session
  <2> QED  BY <1>1, <2>2, <2>3, <2>4, <2>5, <2>6, <2>7, <2>8, <2>9
              DEF Next, Manager, Handling, Finished
<1>2. ReportsFollowTheSelection <=> [][Follows]_vars
  BY DEF ReportsFollowTheSelection
<1> QED  BY <1>1, <1>2, AlwaysInv, PTL DEF Spec

\* Once recv() returned None, nothing is sent to that handle again: the entry it
\* came with, run() and the sessions have all let go of its sender (session.rs
\* recv, discovery.rs RegisteredDevice, manager.rs run).
THEOREM NoneStaysFinal == Spec => NoneIsFinal
<1> DEFINE Final == \A h \in Handles : ended[h] => events'[h] = events[h]
<1>1. ASSUME Inv, [Next]_vars PROVE [Final]_vars
  <2> SUFFICES ASSUME NEW h \in Handles, ended[h] PROVE events'[h] = events[h]
    OBVIOUS
  <2>0. events \in [Handles -> Seq(EventItem)]
    BY <1>1, TypeParts DEF Inv, AllTyped, ChannelTyped
  <2>1. ~SenderAlive(h)
    BY <1>1 DEF Inv, Finality
  <2>2. ASSUME NEW k \in Ids, NEW e, Alive(k), Send(handle[k], e) PROVE events'[h] = events[h]
    <3>1. handle[k] # h
      BY <2>1, <2>2 DEF SenderAlive
    <3> QED  BY <2>0, <2>2, <3>1 DEF Send
  <2>3. CASE SayConnected
    <3>1. hand \in Ids /\ Alive(hand)
      BY <1>1, <2>3, HandTyped DEF SayConnected, Inv, InHand, Alive
    <3> QED  BY <2>2, <2>3, <3>1 DEF SayConnected
  <2>4. CASE Session
    <3>1. PICK k \in Ids : \/ Begin(k) \/ Notify(k) \/ Ask(k)
                           \/ TakeCommand(k) \/ Leave(k) \/ SaySessionClosed(k)
      BY <2>4 DEF Session
    <3>2. CASE Notify(k) \/ Ask(k) \/ SaySessionClosed(k)
      BY <2>2, <3>2 DEF Notify, Ask, SaySessionClosed, Alive
    <3> QED  BY <3>1, <3>2 DEF Begin, TakeCommand, Leave
  <2>5. CASE Registry
    BY <2>5 DEF Registry, AddDevice, RemoveDevice, PostConnect, QueueSelection, FailPost
  <2>6. CASE \/ StartRun \/ TakeSelection \/ InstallSender \/ ConnectSucceeds \/ ConnectFails
             \/ StopRun \/ DropManager
    BY <2>6 DEF StartRun, TakeSelection, InstallSender, ConnectSucceeds, ConnectFails, StopRun,
                DropManager
  <2>7. CASE Application
    BY <1>1, <2>7, ApplicationSteps
  <2>8. CASE UNCHANGED vars
    BY <2>8 DEF vars
  <2> QED  BY <1>1, <2>3, <2>4, <2>5, <2>6, <2>7, <2>8 DEF Next, Manager, Handling, Finished
<1>2. NoneIsFinal <=> [][Final]_vars
  BY DEF NoneIsFinal
<1> QED  BY <1>1, <1>2, AlwaysInv, PTL DEF Spec
=============================================================================
