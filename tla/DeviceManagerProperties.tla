---------------------- MODULE DeviceManagerProperties ----------------------
(***************************************************************************)
(* What the manager guarantees to the handles it gave out and to the       *)
(* controllers that select its devices.                                    *)
(***************************************************************************)
EXTENDS DeviceManager

\* Every variable holds a value of its kind.
TypeOK ==
  /\ devices \in [Devices -> 0 .. MaxHandles]
  /\ current_session_id \in [Handles -> 0 .. MaxPosts]
  /\ posts \subseteq Selection /\ selections \in Seq(Selection) /\ accepted \in Seq(Ids)
  /\ at \in {"off", "idle", "selected", "connecting", "connected", "dropped"}
  /\ hand \in 0 .. MaxPosts
  /\ shared_tx \in [Handles -> 0 .. MaxPosts]
  /\ status \in [Ids -> Statuses] /\ handle \in [Ids -> 0 .. MaxHandles]
  /\ commands \in [Ids -> 0 .. CommandCap]
  /\ events \in [Handles -> Seq([id : Ids, kind : {"Connected", "Notification", "Command",
                                                   "SessionClosed"}])]
  /\ got \in [Handles -> Nat]
  /\ app \in [Handles -> {"none", "held", "gone"}]
  /\ owed \in [Handles -> SUBSET Ids]
  /\ reporting \in [Handles -> 0 .. MaxPosts] /\ ended \in [Handles -> BOOLEAN]
  /\ nhandles \in 0 .. MaxHandles /\ nposts \in 0 .. MaxPosts /\ nreports \in 0 .. MaxReports

-----------------------------------------------------------------------------
(* Handles and sessions.                                                   *)

\* A report goes to the session its device was last selected for, and to no
\* other: when it is queued, its session is the handle's newest, although it may
\* have waited for room while the device was selected again.
ReportsFollowTheSelection ==
  [][\A k \in Ids : commands'[k] > commands[k] =>
       \E h \in Handles : shared_tx[h] = k /\ handle[k] = h]_vars

\* None from recv() is final: no session says anything to that handle later.
NoneIsFinal == [][\A h \in Handles : ended[h] => events'[h] = events[h]]_vars

\* A session is waiting for an answer exactly while its Responder is in the
\* application's hands or in the channel of a handle the application holds.  No
\* Responder outlives the session that waits for it, none is lost in a dropped
\* handle, and the Responders of two sessions of one device are not confused.
InTheChannel(k) == app[handle[k]] # "gone" /\ Event(k, "Command") \in Unreceived(handle[k])
ResponderOf(k) == InTheChannel(k) \/ \E h \in Handles : k \in owed[h]
WaitersAreServed == \A k \in Ids : status[k] = "waiting" <=> handle[k] # 0 /\ ResponderOf(k)

-----------------------------------------------------------------------------
(* Selections.                                                             *)

\* Selections are handled in the order in which the HTTP handlers queued them:
\* none is begun, or given up, before an earlier one.
InOrder ==
  \A i, j \in DOMAIN accepted :
     i < j /\ (status[accepted[j]] # "none" \/ hand = accepted[j])
       => status[accepted[i]] # "none"

\* The sender behind a handle is that of the selection begun last for it, none
\* before the first.  A connection that fails, or a run() that is stopped while it
\* connects, leaves it installed: reports then end with "Session closed", even
\* while an earlier session of the handle lives, and never reach that one.
Begun(h) == {i \in DOMAIN accepted :
               handle[accepted[i]] = h /\ status[accepted[i]] \notin {"none", "lost"}}
SenderOfTheLastBegun ==
  \A h \in Handles :
    \/ Begun(h) = {} /\ shared_tx[h] = 0
    \/ \E i \in Begun(h) : shared_tx[h] = accepted[i] /\ \A j \in Begun(h) : j <= i

-----------------------------------------------------------------------------
(* Liveness.  The tasks proceed, a session that is idle takes the commands *)
(* in its channel, and the network answers a connection attempt.  The      *)
(* application receives and answers; its report returns once there is room *)
(* for it or its session is over, and may be awaited for ever before.      *)
(* What comes between is bounded here, so that weak fairness does.         *)

Fairness ==
  /\ WF_vars(\E p \in posts : QueueSelection(p))
  /\ WF_vars(TakeSelection) /\ WF_vars(InstallSender) /\ WF_vars(SayConnected)
  /\ WF_vars(ConnectSucceeds \/ ConnectFails)
  /\ \A k \in Ids : /\ WF_vars(Notify(k) \/ Ask(k) \/ SaySessionClosed(k))
                    /\ WF_vars(TakeCommand(k))
  /\ \A h \in Handles : /\ WF_vars(Recv(h)) /\ WF_vars(FinishReport(h))
                        /\ WF_vars(\E k \in Ids : Answer(h, k))

\* The one circle of waits: the application of handle h awaits room for its report
\* in the full command channel of a session, whose runner (or spawn_session, before
\* Connected is said) awaits that application, for room for an event or an answer.
Circle(h) ==
  LET k == reporting[h]
  IN  /\ k # 0 /\ Alive(k) /\ commands[k] = CommandCap
      /\ \/ status[k] = "waiting"
         \/ status[k] \in {"notifying", "asking", "closing", "connected"} /\ ~EventRoom(h)

Pending(k) == k = hand \/ \E i \in DOMAIN selections : selections[i].id = k
RunsOn == at \notin {"off", "dropped"}

\* While run() is running, every queued selection gets its turn.  What can keep
\* run() from it is a Circle that lasts: of the device in its hand, whose lock the
\* blocked report holds or whose event channel is full, and which holds up the
\* selections of all devices.
HeldUp == hand # 0 /\ Circle(handle[hand])
EverySelectionIsHandled ==
  \A k \in Ids : RunsOn /\ Pending(k) ~> ~RunsOn \/ ~Pending(k) \/ []HeldUp

\* A session that left its loop ends, and its application reads that it ended,
\* unless it dropped the handle or is in a Circle for ever.
Received(h) == {events[h][i] : i \in 1 .. got[h]}
SessionsEnd ==
  \A k \in Ids : status[k] = "closing" ~>
    \/ /\ handle[k] # 0 /\ status[k] = "over"
       /\ \/ app[handle[k]] = "gone"
          \/ Event(k, "SessionClosed") \in Received(handle[k])
    \/ [](handle[k] # 0 /\ Circle(handle[k]))

-----------------------------------------------------------------------------
(* What documents and comments say and the code does not do.               *)

\* "1:1 Device-Session Mapping: when a device is selected in the Qobuz app, a
\* dedicated session is created for that device" (README.md:237).
OneSessionPerDevice ==
  \A j, k \in Ids : j # k /\ handle[j] = handle[k] => ~(Alive(j) /\ Alive(k))

\* "Returns None when the session is closed" (session.rs:96): once the application
\* read SessionClosed, no session of the handle lives or is being made and nothing
\* is left to receive, recv() can only return None.
NoneWhenClosed ==
  \A h \in Handles :
    LET mine == {k \in Ids : handle[k] = h}
    IN  /\ \E k \in mine : Event(k, "SessionClosed") \in Received(h)
        /\ \A k \in mine : status[k] = "over"
        /\ got[h] = Len(events[h])
        => ~SenderAlive(h)
=============================================================================
