---------------------- MODULE SessionRunnerProperties ----------------------
(***************************************************************************)
(* What the session of SessionRunner guarantees: to the application that   *)
(* reads its events, and to the server that reads its messages.            *)
(***************************************************************************)
EXTENDS SessionRunner

\* Every variable holds a value of its kind: the fields of SessionRunner and
\* SessionState, the channels, and the operations left in the handler.
TypeOK ==
  /\ status \in {"starting", "running", "stopped", "failed"}
  /\ todo \in Seq(Step)
  /\ renderer_id \in Nat /\ is_active \in BOOLEAN
  /\ session_uuid \in Nat
  /\ link \in {"up", "down"}
  /\ inbox \in Seq(ServerItem) /\ wire \in Seq(WireItem) /\ log \in Seq(EventItem)
  /\ got \in 0 .. Len(log)
  /\ reply \in {"none", "queued", "held", "sent", "sent_none", "dropped"}
  /\ app \in {"none", "held", "gone"}
  /\ reporting \in Seq(ReportItem) /\ commands \in Seq(ReportItem)
  /\ nmsgs \in Nat /\ nreports \in Nat /\ beats \in Nat

-----------------------------------------------------------------------------
(* The abstract session.                                                   *)

\* A command is in the event channel or in the application's hands.
Unanswered == reply \in {"queued", "held"}

Protocol == INSTANCE SessionProtocol
              WITH pending <- Unanswered

\* Seen from the application, the session is the one of SessionProtocol:
\* Connected first, then notifications and commands, at most one command
\* unanswered and nothing said after it until then, Disconnected and
\* SessionClosed last.  (spawn_session, run and every arm of
\* handle_qconnect_message.)
ImplementsProtocol == Protocol!Spec

\* Where the session is in its life, by what it last said and what the code has
\* left to do, as long as the application holds its handle.
Last == IF log = <<>> THEN "nothing" ELSE log[Len(log)].kind
Live == Last \notin {"nothing", "Disconnected", "SessionClosed"}

\* The steps that neither end the session nor say that it begins or ends.
Lifecycle == {"Connected", "Disconnected", "SessionClosed"}
PlainStep ==
  {s \in Step : /\ s.op \in {"emit", "write", "await"}
                /\ s.op = "emit" => /\ s.item.kind \notin Lifecycle
                                    /\ ~(auto_activate /\ s.item.kind = "Deactivated")}

Connecting ==
  /\ status = "starting" /\ Last = "nothing"
  /\ \E n \in 1 .. 4 : todo = SubSeq(StartSteps, n, 5)
Entering == status = "starting" /\ Last = "Connected" /\ todo = SubSeq(StartSteps, 5, 5)
InService == status = "running" /\ Live /\ ~(auto_activate /\ Last = "Deactivated")
Serving == InService /\ todo \in Seq(PlainStep)
Deactivating ==
  /\ InService /\ Doing("emit")
  /\ Head(todo).item.kind = "Deactivated" /\ Tail(todo) = CloseSteps
Leaving == status = "running" /\ Live /\ todo \in {CloseSteps, ExitSteps}
Left ==
  /\ status = "running"
  /\ \/ Last = "Disconnected" /\ todo = Tail(ExitSteps)
     \/ Last = "SessionClosed" /\ todo = Tail(Tail(ExitSteps))
Over == status \in {"failed", "stopped"} /\ todo = <<>>

LifeStage ==
  Connecting \/ Entering \/ Serving \/ Deactivating \/ Leaving \/ Left \/ Over

SaysWhereItIs == app # "gone" => LifeStage

-----------------------------------------------------------------------------
(* Requests and answers.                                                   *)

Cause(x) == <<x.from, x.id>>

\* What is sent when a command is answered, per kind of command.
AnswerKinds(kind) ==
  CASE kind = "SetActive" -> {"VolumeMuted", "VolumeChanged", "MaxAudioQualityChanged"}
    [] kind = "SetVolume" -> {"VolumeChanged"}
    [] OTHER              -> {"StateUpdated"}

Answers == {i \in DOMAIN wire :
              /\ wire[i].from \in {"server", "timer"}
              /\ wire[i].kind \in {"StateUpdated", "VolumeChanged", "VolumeMuted",
                                   "MaxAudioQualityChanged"}}

\* An answer on the wire is the application's own: it belongs to a command the
\* application received, and is of the type that command asks for.
AnswersAreTheApplications ==
  \A i \in Answers : \E j \in 1 .. got :
     /\ log[j].kind \in CommandKinds
     /\ Cause(log[j]) = Cause(wire[i])
     /\ wire[i].kind \in AnswerKinds(log[j].kind)

\* The server's requests are answered in the order it made them, each at most
\* once, whatever heartbeats and reports come between.
AnswersInOrder ==
  \A i, j \in Answers :
     i < j /\ wire[i].from = wire[j].from
     => \/ wire[i].id < wire[j].id
        \/ wire[i].id = wire[j].id /\ wire[i].kind # wire[j].kind

\* The activation handshake is one block: muted, volume, quality and the
\* request for the queue follow each other with nothing between, although
\* reports and heartbeats are waiting to be sent.
HandshakeIsOneBlock ==
  LET block == <<"VolumeMuted", "VolumeChanged", "MaxAudioQualityChanged",
                 "AskForQueueState">>
  IN  \A i \in DOMAIN wire : wire[i].kind = "VolumeMuted" /\ wire[i].from = "server"
        => \A k \in 2 .. 4 : i + k - 1 <= Len(wire)
             => /\ wire[i + k - 1].kind = block[k]
                /\ Cause(wire[i + k - 1]) = Cause(wire[i])

\* Every command the runner asks is awaited at once, with a oneshot of its own,
\* and no other is outstanding: the oneshot exists exactly while it is awaited.
IsAsk(s) == s.op = "emit" /\ s.item.kind \in CommandKinds
QuietStep == {s \in Step : s.op # "await" /\ ~IsAsk(s)}

NothingAsked == reply = "none" /\ todo \in Seq(QuietStep)
AboutToAsk ==
  /\ reply = "none" /\ Doing("emit") /\ IsAsk(Head(todo))
  /\ Tail(todo) # <<>> /\ Head(Tail(todo)).op = "await"
  /\ Tail(Tail(todo)) \in Seq(QuietStep)
Asked == reply # "none" /\ Doing("await") /\ Tail(todo) \in Seq(QuietStep)

OneCommandOutstanding == NothingAsked \/ AboutToAsk \/ Asked

\* A command the application has not received is the last event, and its
\* Responder is with it in the channel.
UnreceivedCommandIsLast ==
  app # "gone" => \A j \in got + 1 .. Len(log) :
                     log[j].kind \in CommandKinds => j = Len(log) /\ reply = "queued"

\* While a command is unanswered the runner does nothing else: it sends nothing,
\* says nothing, takes no message and no report, and keeps its view of the
\* session.
TaskWaits ==
  /\ UNCHANGED <<todo, wire, log, status, renderer_id, is_active, session_uuid>>
  /\ Len(commands') >= Len(commands)

WaitsForTheAnswer == [][Unanswered => TaskWaits]_vars

-----------------------------------------------------------------------------
(* Activation and registration.                                            *)

\* Event i of the log comes while the server has us active.
ActiveAt(i) ==
  \E j \in 1 .. i - 1 : /\ log[j].kind = "SetActive"
                        /\ \A k \in j .. i - 1 : log[k].kind # "Deactivated"

\* The renderer id the application was last told of before event i, 0 for none.
RegisteredAt(i) ==
  LET told == {j \in 1 .. i - 1 : log[j].kind = "DeviceRegistered"}
      last == CHOOSE j \in told : \A k \in told : k <= j
  IN  IF told = {} THEN 0
      ELSE IF \E k \in last .. i - 1 :
                log[k].kind = "RemoveRenderer" /\ log[k].ref = log[last].ref
           THEN 0
           ELSE log[last].ref

\* A heartbeat asks for the state of a renderer that is registered and active,
\* by what the application was told; a state to restore never comes while the
\* device is active, and is never the device's own.
EventsFitTheActivation ==
  \A i \in DOMAIN log :
     /\ log[i].kind = "Heartbeat" => ActiveAt(i) /\ RegisteredAt(i) # 0
     /\ log[i].kind = "RestoreState" => ~ActiveAt(i) /\ log[i].ref # RegisteredAt(i)

\* The check made before a heartbeat is asked for still holds when its answer is
\* sent, however long the application took.
HeartbeatStillValid ==
  \A i \in DOMAIN todo :
     todo[i].item.from = "timer" => is_active /\ renderer_id # 0

\* The server is asked to make a renderer active only after the application was
\* told that this renderer is its device.  The request names it by an i32: by its
\* own number, unless that is 2^31 or more.
SameRenderer(told, asked) ==
  /\ (asked.ref - told.ref) % I32Modulus = 0
  /\ 2 * told.ref < I32Modulus => asked.ref = told.ref
RegisteredBeforeActivation ==
  app # "gone" =>
    \A i \in DOMAIN wire : wire[i].kind = "SetActiveRenderer"
      => \E j \in DOMAIN log : /\ log[j].kind = "DeviceRegistered"
                               /\ Cause(log[j]) = Cause(wire[i])
                               /\ SameRenderer(log[j], wire[i])

\* After an activation the queue asked for is that of the session the server
\* last announced with a uuid, and the device's own before that.
AsksForTheSessionsQueue ==
  \A i \in DOMAIN wire, j \in DOMAIN log :
     /\ wire[i].kind = "AskForQueueState"
     /\ log[j].kind = "SetActive" /\ Cause(log[j]) = Cause(wire[i])
     => LET named == {k \in 1 .. j - 1 : log[k].kind = "SessionState" /\ log[k].ref # 0}
        IN  wire[i].ref = IF named = {} THEN 0
                          ELSE log[CHOOSE k \in named : \A l \in named : l <= k].ref

-----------------------------------------------------------------------------
(* The application's reports.                                              *)

IsReport(x) == x.from = "app"

\* While the session runs on a working link no report is lost, sent twice or
\* overtaken, however it interleaves with requests and heartbeats: from the oldest
\* to the newest, the reports that left the application are on the wire, in the
\* runner's hand and in the channel.
InHand == todo # <<>> /\ IsReport(Head(todo).item)
Taken == nreports - Len(commands)
OnWire == IF InHand THEN Taken - 1 ELSE Taken
WiredReports == {i \in DOMAIN wire : IsReport(wire[i])}

ReportsArriveInOrder ==
  status = "running" /\ link = "up" =>
    /\ {wire[i].id : i \in WiredReports} = 1 .. OnWire
    /\ \A i, j \in WiredReports : i < j => wire[i].id < wire[j].id
    /\ InHand => Head(todo).item.id = Taken
    /\ \A k \in DOMAIN commands : commands[k].id = Taken + k

-----------------------------------------------------------------------------
(* Liveness.  Each select! branch that is ready again and again is taken:  *)
(* tokio::select! starts polling at a random branch.  An operation of the  *)
(* task that can proceed does.  The application comes back to receiving    *)
(* and gives every command its answer, or drops the Responder, as event.rs *)
(* asks; a report that has room in the channel, or whose session is over,  *)
(* returns.  Nothing makes an application give up a report: it may, or it  *)
(* may await it for ever.                                                  *)

TaskFairness ==
  /\ WF_vars(TaskStep)
  /\ SF_vars(HandleMessage) /\ SF_vars(TakeCommand) /\ SF_vars(Tick)

AppFairness ==
  /\ SF_vars(Recv) /\ SF_vars(Respond \/ DropResponder)
  /\ WF_vars(FinishReport)

FairSpec == Spec /\ TaskFairness /\ AppFairness

\* The one circle of waits: the application awaits room for its report in the
\* full command channel, and the runner, which alone empties that channel, awaits
\* the application, for room in the full event channel or for an answer.
Embrace ==
  /\ reporting # <<>> /\ ~Ended /\ ~CommandRoom
  /\ \/ Doing("emit") /\ app = "held" /\ ~EventRoom
     \/ Doing("await") /\ reply \in {"queued", "held"}

\* A session that started and whose stream ended is over in the end, with
\* SessionClosed said and every event delivered, or the handle dropped.  Nothing
\* keeps it from its end but an Embrace that the application never leaves.
EverythingSaid == log[Len(log)].kind = "SessionClosed" /\ got = Len(log)
EndsWithTheStream ==
  status = "running" /\ inbox # <<>> /\ inbox[Len(inbox)].kind \in StreamEnds
    ~> \/ status = "stopped" /\ (app = "gone" \/ EverythingSaid)
       \/ []Embrace

\* Every message that reached the reader is handled, unless the session ends, or
\* the runner and the application wait for each other for ever.
MessagesAreHandled ==
  status = "running" /\ inbox # <<>>
    ~> inbox = <<>> \/ status = "stopped" \/ []Embrace

\* The command channel is emptied again, whatever else the runner is asked to
\* do, and the report the application awaits returns or is given up: only an
\* Embrace holds it for ever.
ReportsAreTaken ==
  reporting # <<>> \/ (commands # <<>> /\ status = "running")
    ~> (reporting = <<>> /\ commands = <<>>) \/ []Embrace

=============================================================================
