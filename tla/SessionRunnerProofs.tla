------------------------ MODULE SessionRunnerProofs ------------------------
(***************************************************************************)
(* Theorems about SessionRunner, for every value of its constants: its     *)
(* types; one command at a time, and nothing else done until it has its    *)
(* answer; what the session says follows SessionProtocol; a heartbeat is   *)
(* only ever answered for a device that is still registered and active;    *)
(* and what the server reads: the answers are those the application gave   *)
(* to commands it received, they come in the order of the requests, and a  *)
(* handshake is one block.                                                 *)
(***************************************************************************)
EXTENDS SessionRunnerProperties, SequenceTheorems, TLAPS

-----------------------------------------------------------------------------
(* The operations and the lists of them are what their names say.          *)

LEMMA AsType ==
  ASSUME NEW K, NEW O, NEW R, NEW x \in Items(K, O, R), NEW K2, NEW k \in K2
  PROVE  /\ As(k, x) \in Items(K2, O, R)
         /\ As(k, x).kind = k /\ As(k, x).from = x.from
         /\ As(k, x).id = x.id /\ As(k, x).ref = x.ref
BY DEF As, Items

LEMMA StepTypes ==
  /\ \A x \in EventItem : Emit(x) \in Step
  /\ \A x \in WireItem : Write(x) \in Step
  /\ \A x \in WireItem, n \in Nat : WriteOrSkip(x, n) \in Step
  /\ \A x \in CommandItem : Await(x) \in Step
  /\ \A x \in ServerItem : Op("close", x) \in Step
  /\ \A x \in EventItem : Op("stop", x) \in Step /\ Op("run", x) \in Step
BY DEF Emit, Write, WriteOrSkip, Await, Op, Step, Steps

LEMMA OwnTypes ==
  /\ Own("Authenticate") \in WireItem /\ Own("Subscribe") \in WireItem
  /\ Own("JoinSession") \in WireItem
  /\ Own("Connected") \in EventItem /\ Own("Disconnected") \in EventItem
  /\ Own("SessionClosed") \in EventItem
  /\ Own("ReadError") \in ServerItem /\ Own("Closed") \in ServerItem
BY DEF Own, Mk, WireItem, EventItem, ServerItem, Items, WireKinds, EventKinds,
       NotificationKinds, StreamEnds, Origins

LEMMA ListTypes ==
  /\ StartSteps \in Seq(Step) /\ ExitSteps \in Seq(Step) /\ CloseSteps \in Seq(Step)
BY StepTypes, OwnTypes DEF StartSteps, ExitSteps, CloseSteps

LEMMA AskType ==
  ASSUME NEW x \in CommandItem
  PROVE  Ask(x) \in Seq(Step)
<1>1. x \in EventItem
  BY DEF EventItem, CommandItem, Items, EventKinds
<1> QED  BY <1>1, StepTypes DEF Ask

LEMMA AnswerType ==
  ASSUME NEW x \in CommandItem
  PROVE  AnswerSteps(x) \in Seq(Step)
<1>1. \A k \in WireKinds : As(k, x) \in WireItem
  <2> TAKE k \in WireKinds
  <2>1. As(k, x) \in Items(WireKinds, Origins, Nat)
    BY AsType DEF CommandItem
  <2> QED  BY <2>1 DEF WireItem, Items
<1>2. {"VolumeMuted", "VolumeChanged", "MaxAudioQualityChanged", "StateUpdated"}
        \subseteq WireKinds
  BY DEF WireKinds
<1>3. Handshake(x) \in Seq(Step)
  BY <1>1, <1>2, StepTypes DEF Handshake
<1> QED  BY <1>1, <1>2, <1>3, StepTypes DEF AnswerSteps

LEMMA AsI32Type ==
  ASSUME NEW r \in Nat
  PROVE  AsI32(r) \in Int
BY ConstantsAssumption DEF AsI32

LEMMA ServerEventType ==
  ASSUME NEW m \in ServerItem, NEW k \in EventKinds
  PROVE  As(k, m) \in EventItem
<1>1. As(k, m) \in Items(EventKinds, {"server", "session"}, Nat)
  BY AsType DEF ServerItem
<1> QED  BY <1>1 DEF EventItem, Items, Origins

LEMMA DispatchType ==
  ASSUME NEW m \in ServerItem
  PROVE  Dispatch(m) \in Seq(Step)
<1>1. CASE m.kind \in DOMAIN DispatchTable
  <2>1. DispatchTable[m.kind] \in EventKinds
    BY <1>1 DEF DispatchTable, EventKinds, NotificationKinds
  <2>2. As(DispatchTable[m.kind], m) \in EventItem
    BY <2>1, ServerEventType
  <2> QED  BY <1>1, <2>2, StepTypes DEF Dispatch
<1>2. CASE m.kind \notin DOMAIN DispatchTable
  BY <1>2 DEF Dispatch
<1> QED  BY <1>1, <1>2

LEMMA ServerWireType ==
  ASSUME NEW m \in ServerItem, NEW k \in WireKinds
  PROVE  /\ As(k, m) \in WireItem
         /\ \A r \in Int : [As(k, m) EXCEPT !.ref = r] \in WireItem
<1>1. As(k, m) \in Items(WireKinds, {"server", "session"}, Nat)
  BY AsType DEF ServerItem
<1> QED  BY <1>1 DEF WireItem, Items, Origins

LEMMA RegisterType ==
  ASSUME NEW m \in ServerItem
  PROVE  RegisterSteps(m) \in Seq(Step)
<1>1. Emit(As("DeviceRegistered", m)) \in Step
  BY ServerEventType, StepTypes DEF EventKinds, NotificationKinds
<1>2. ActivateSteps(m) \in Seq(Step)
  <2>1. m.ref \in Nat
    BY DEF ServerItem, Items
  <2>2. [As("SetActiveRenderer", m) EXCEPT !.ref = AsI32(m.ref)] \in WireItem
    BY <2>1, AsI32Type, ServerWireType DEF WireKinds
  <2>3. As("SetActiveRenderer", m).ref = m.ref
    BY DEF As, ServerItem, Items
  <2>4. WriteOrSkip([As("SetActiveRenderer", m) EXCEPT !.ref = AsI32(m.ref)], 1) \in Step
    BY <2>2, StepTypes
  <2> QED  BY <2>3, <2>4 DEF ActivateSteps
<1> QED  BY <1>1, <1>2, DispatchType DEF RegisterSteps

LEMMA InactiveType ==
  ASSUME NEW m \in ServerItem
  PROVE  InactiveSteps(m) \in Seq(Step)
<1>1. Emit(As("Deactivated", m)) \in Step
  BY ServerEventType, StepTypes DEF EventKinds, NotificationKinds
<1> QED  BY <1>1, ListTypes DEF InactiveSteps

-----------------------------------------------------------------------------
(* Type correctness.                                                       *)

LEMMA TypeInit == Init => TypeOK
<1> SUFFICES ASSUME Init PROVE TypeOK
  OBVIOUS
<1>1. todo \in Seq(Step)
  BY ListTypes DEF Init
<1>2. inbox \in Seq(ServerItem) /\ wire \in Seq(WireItem) /\ log \in Seq(EventItem)
  BY DEF Init
<1>3. reporting \in Seq(ReportItem) /\ commands \in Seq(ReportItem)
  BY DEF Init
<1>4. got \in 0 .. Len(log)
  BY DEF Init
<1> QED  BY <1>1, <1>2, <1>3, <1>4 DEF Init, TypeOK

\* What an operation at the head of todo is.
LEMMA HeadType ==
  ASSUME TypeOK, NEW op, Doing(op)
  PROVE  /\ todo # <<>> /\ Head(todo) \in Step /\ Tail(todo) \in Seq(Step)
         /\ Head(todo).op = op
         /\ op = "emit" => Head(todo).item \in EventItem
         /\ op = "write" => Head(todo).item \in WireItem /\ Head(todo).skip \in Nat
         /\ op = "await" => Head(todo).item \in CommandItem
<1>1. todo # <<>> /\ Head(todo) \in Step /\ Tail(todo) \in Seq(Step)
  BY DEF TypeOK, Doing
<1>2. Head(todo).op = op
  BY DEF Doing
<1> QED  BY <1>1, <1>2 DEF Step, Steps

LEMMA SuffixType ==
  ASSUME NEW S, NEW s \in Seq(S), NEW n \in Nat
  PROVE  SubSeq(s, 2 + n, Len(s)) \in Seq(S)
<1>1. \A i \in 2 + n .. Len(s) : s[i] \in S
  BY ElementOfSeq, LenProperties
<1> QED  BY <1>1, SubSeqProperties, LenProperties

LEMMA TypeTask == TypeOK /\ TaskStep => TypeOK'
<1> SUFFICES ASSUME TypeOK, TaskStep PROVE TypeOK'
  OBVIOUS
<1> USE DEF TypeOK
<1>1. CASE DoEmit
  <2>1. Head(todo).item \in EventItem /\ Tail(todo) \in Seq(Step)
    BY <1>1, HeadType DEF DoEmit
  <2>2. log' \in Seq(EventItem) /\ got' \in 0 .. Len(log')
    <3>1. got' = got /\ (log' = log \/ log' = Append(log, Head(todo).item))
      BY <1>1 DEF DoEmit
    <3>2. log' \in Seq(EventItem) /\ Len(log') \in {Len(log), Len(log) + 1}
      <4>1. CASE log' = log
        BY <4>1
      <4>2. CASE log' = Append(log, Head(todo).item)
        <5>1. log \in Seq(EventItem)
          OBVIOUS
        <5> HIDE DEF TypeOK
        <5> QED  BY <2>1, <4>2, <5>1, AppendProperties
      <4> QED  BY <3>1, <4>1, <4>2
    <3>3. Len(log) \in Nat
      BY LenProperties
    <3> QED  BY <3>1, <3>2, <3>3
  <2>3. reply' \in {"none", "queued", "held", "sent", "sent_none", "dropped"}
    BY <1>1 DEF DoEmit
  <2> QED  BY <1>1, <2>1, <2>2, <2>3 DEF DoEmit, session, user, counters
<1>2. CASE DoWrite
  <2>1. Head(todo).item \in WireItem /\ Tail(todo) \in Seq(Step)
    BY <1>2, HeadType DEF DoWrite
  <2>2. wire' \in Seq(WireItem)
    BY <1>2, <2>1 DEF DoWrite
  <2> QED  BY <1>2, <2>1, <2>2 DEF DoWrite, session, user, counters
<1>3. CASE DoWriteFails
  <2>1. Head(todo).skip \in Nat
    BY <1>3, HeadType DEF DoWriteFails
  <2>2. todo' \in Seq(Step) /\ commands' \in Seq(ReportItem)
        /\ status' \in {"starting", "running", "stopped", "failed"}
    <3>1. SubSeq(todo, 2 + Head(todo).skip, Len(todo)) \in Seq(Step)
      BY <2>1, SuffixType
    <3>2. <<>> \in Seq(Step) /\ <<>> \in Seq(ReportItem)
      BY EmptySeq
    <3>3. CASE status = "starting"
      BY <1>3, <3>2, <3>3 DEF DoWriteFails
    <3>4. CASE status # "starting"
      BY <1>3, <3>1, <3>4 DEF DoWriteFails
    <3> QED  BY <3>3, <3>4
  <2> QED  BY <1>3, <2>2 DEF DoWriteFails, channels, counters
<1>4. CASE DoAwait
  <2>1. Head(todo).item \in CommandItem /\ Tail(todo) \in Seq(Step)
    BY <1>4, HeadType DEF DoAwait
  <2>2. AnswerSteps(Head(todo).item) \in Seq(Step)
    BY <2>1, AnswerType
  <2>3. todo' \in Seq(Step)
    BY <1>4, <2>1, <2>2 DEF DoAwait
  <2> QED  BY <1>4, <2>3 DEF DoAwait, session, channels, user, counters
<1>5. CASE DoClose
  <2>1. Tail(todo) \in Seq(Step)
    BY <1>5, HeadType DEF DoClose
  <2> QED  BY <1>5, <2>1 DEF DoClose, session, user, counters
<1>6. CASE DoRun
  <2>1. Tail(todo) \in Seq(Step)
    BY <1>6, HeadType DEF DoRun
  <2> QED  BY <1>6, <2>1 DEF DoRun, channels, counters
<1>7. CASE DoStop
  BY <1>7 DEF DoStop, channels, counters
<1> QED  BY <1>1, <1>2, <1>3, <1>4, <1>5, <1>6, <1>7 DEF TaskStep

\* A message taken from the stream is a server item; taking it keeps the rest.
LEMMA TakesType ==
  ASSUME TypeOK, NEW kinds, Takes(kinds)
  PROVE  /\ Head(inbox) \in ServerItem /\ Head(inbox).kind \in kinds
         /\ Head(inbox).ref \in Nat
         /\ inbox' \in Seq(ServerItem)
         /\ todo = <<>> /\ status = "running"
<1>1. Head(inbox) \in ServerItem /\ inbox' \in Seq(ServerItem)
  BY DEF Takes, TypeOK
<1> QED  BY <1>1 DEF Takes, AtSelect, ServerItem, Items

\* A handler keeps the types if what it leaves to do and the fields it sets have
\* their types.
LEMMA HandlerType ==
  ASSUME TypeOK, NEW kinds, Takes(kinds),
         todo' \in Seq(Step), renderer_id' \in Nat, is_active' \in BOOLEAN,
         session_uuid' \in Nat
  PROVE  TypeOK'
BY TakesType DEF TypeOK, Takes, user, counters

LEMMA TypeMessage == TypeOK /\ HandleMessage => TypeOK'
<1> SUFFICES ASSUME TypeOK, HandleMessage PROVE TypeOK'
  OBVIOUS
<1> DEFINE m == Head(inbox)
<1>0. renderer_id \in Nat /\ is_active \in BOOLEAN /\ session_uuid \in Nat
  BY DEF TypeOK
<1>1. CASE HandleAddRenderer
  <2>1. m \in ServerItem /\ m.ref \in Nat
    BY <1>1, TakesType DEF HandleAddRenderer
  <2>2. todo' \in Seq(Step)
    BY <1>1, <2>1, RegisterType, DispatchType DEF HandleAddRenderer
  <2> QED  BY <1>0, <1>1, <2>1, <2>2, HandlerType DEF HandleAddRenderer
<1>2. CASE HandleRemoveRenderer
  <2>1. m \in ServerItem
    BY <1>2, TakesType DEF HandleRemoveRenderer
  <2> QED  BY <1>0, <1>2, <2>1, DispatchType, HandlerType DEF HandleRemoveRenderer
<1>3. CASE HandleSessionState
  <2>1. m \in ServerItem /\ m.ref \in Nat
    BY <1>3, TakesType DEF HandleSessionState
  <2>2. Write(As("AskForRendererState", m)) \in Step
    BY <2>1, ServerWireType, StepTypes DEF WireKinds
  <2>3. todo' \in Seq(Step) /\ session_uuid' \in Nat
    BY <1>0, <1>3, <2>1, <2>2, DispatchType DEF HandleSessionState, UuidAfter
  <2> QED  BY <1>0, <1>3, <2>3, HandlerType DEF HandleSessionState
<1>4. CASE HandleRendererStateUpdated
  <2>1. m \in ServerItem
    BY <1>4, TakesType DEF HandleRendererStateUpdated
  <2>2. todo' \in Seq(Step)
    BY <1>4, <2>1, ServerEventType, StepTypes
       DEF HandleRendererStateUpdated, EventKinds, NotificationKinds
  <2> QED  BY <1>0, <1>4, <2>2, HandlerType DEF HandleRendererStateUpdated
<1>5. CASE HandleSetState
  <2>1. m \in ServerItem
    BY <1>5, TakesType DEF HandleSetState
  <2>2. m.kind = "SetState" => m \in CommandItem
    BY <2>1 DEF ServerItem, CommandItem, Items, CommandKinds, Origins
  <2> QED  BY <1>0, <1>5, <2>2, AskType, HandlerType DEF HandleSetState
<1>6. CASE HandleSetVolume
  <2>1. m \in ServerItem /\ m.kind = "SetVolume"
    BY <1>6, TakesType DEF HandleSetVolume
  <2>2. m \in CommandItem
    BY <2>1 DEF ServerItem, CommandItem, Items, CommandKinds, Origins
  <2> QED  BY <1>0, <1>6, <2>2, AskType, HandlerType DEF HandleSetVolume
<1>7. CASE HandleSetActive
  <2>1. m \in ServerItem /\ m.kind = "SetActive"
    BY <1>7, TakesType DEF HandleSetActive
  <2>2. m \in CommandItem
    BY <2>1 DEF ServerItem, CommandItem, Items, CommandKinds, Origins
  <2>3. Write([As("AskForQueueState", m) EXCEPT !.ref = session_uuid]) \in Step
    BY <1>0, <2>1, ServerWireType, StepTypes DEF WireKinds
  <2>4. todo' \in Seq(Step)
    BY <1>7, <2>2, <2>3, AskType DEF HandleSetActive
  <2> QED  BY <1>0, <1>7, <2>4, HandlerType DEF HandleSetActive
<1>8. CASE HandleSetInactive
  <2>1. m \in ServerItem
    BY <1>8, TakesType DEF HandleSetInactive
  <2> QED  BY <1>0, <1>8, <2>1, InactiveType, HandlerType DEF HandleSetInactive
<1>9. CASE HandleOther
  <2>1. m \in ServerItem
    BY <1>9, TakesType DEF HandleOther
  <2> QED  BY <1>0, <1>9, <2>1, DispatchType, HandlerType DEF HandleOther
<1>10. CASE HandleStreamEnd
  BY <1>0, <1>10, ListTypes, HandlerType DEF HandleStreamEnd
<1> QED  BY <1>1, <1>2, <1>3, <1>4, <1>5, <1>6, <1>7, <1>8, <1>9, <1>10
         DEF HandleMessage

LEMMA TypeSelect == TypeOK /\ Select => TypeOK'
<1> SUFFICES ASSUME TypeOK, Select PROVE TypeOK'
  OBVIOUS
<1>1. CASE HandleMessage
  BY <1>1, TypeMessage
<1>2. CASE Tick
  <2>1. Mk("Heartbeat", "timer", beats + 1, 0) \in CommandItem
    BY DEF TypeOK, Mk, CommandItem, Items, CommandKinds, Origins
  <2>2. todo' \in Seq(Step)
    BY <1>2, <2>1, AskType DEF Tick
  <2> QED  BY <1>2, <2>2 DEF Tick, TypeOK, session, channels, user
<1>3. CASE IdleTurn
  BY <1>3 DEF IdleTurn, TypeOK, vars, session, channels, user, counters
<1>4. CASE TakeCommand
  <2>1. Head(commands) \in ReportItem /\ commands' \in Seq(ReportItem)
    BY <1>4 DEF TakeCommand, CommandReady, TypeOK
  <2>2. ReportMessage[Head(commands).kind] \in WireKinds
    BY <2>1 DEF ReportItem, Items, ReportMessage, WireKinds
  <2>3. As(ReportMessage[Head(commands).kind], Head(commands)) \in Items(WireKinds, {"app"}, Nat)
    BY <2>1, <2>2, AsType DEF ReportItem
  <2>4. As(ReportMessage[Head(commands).kind], Head(commands)) \in WireItem
    BY <2>3 DEF WireItem, Items, Origins
  <2>5. todo' \in Seq(Step)
    BY <1>4, <2>4, StepTypes DEF TakeCommand
  <2> QED  BY <1>4, <2>1, <2>5 DEF TakeCommand, TypeOK, session, channels, counters
<1> QED  BY <1>1, <1>2, <1>3, <1>4 DEF Select

LEMMA TypeApplication == TypeOK /\ Application => TypeOK'
<1> SUFFICES ASSUME TypeOK, Application PROVE TypeOK'
  OBVIOUS
<1> USE DEF TypeOK
<1>1. CASE Recv
  <2>1. got' \in 0 .. Len(log')
    BY <1>1, LenProperties DEF Recv
  <2> QED  BY <1>1, <2>1 DEF Recv, session, user, counters
<1>2. CASE Respond
  BY <1>2 DEF Respond, session, channels, user, counters
<1>3. CASE DropResponder
  BY <1>3 DEF DropResponder, session, channels, user, counters
<1>4. CASE FinishReport
  <2>1. commands \o reporting \in Seq(ReportItem) /\ <<>> \in Seq(ReportItem)
    BY ConcatProperties, EmptySeq
  <2>2. nreports + 1 \in Nat
    OBVIOUS
  <2> QED  BY <1>4, <2>1, <2>2 DEF FinishReport, session, channels
<1>5. CASE AbandonReport
  BY <1>5, EmptySeq DEF AbandonReport, session, channels, counters
<1>6. CASE DropHandle
  BY <1>6 DEF DropHandle, session, channels, counters
<1>7. ASSUME NEW kind \in ReportKinds, StartReport(kind) PROVE TypeOK'
  <2>1. Mk(kind, "app", nreports + 1, 0) \in ReportItem
    BY <1>7, ConstantsAssumption DEF StartReport, Mk, ReportItem, Items, Origins
  <2> QED  BY <1>7, <2>1 DEF StartReport, session, channels, counters
<1> QED  BY <1>1, <1>2, <1>3, <1>4, <1>5, <1>6, <1>7 DEF Application

LEMMA TypeEnvironment == TypeOK /\ Environment => TypeOK'
<1> SUFFICES ASSUME TypeOK, Environment PROVE TypeOK'
  OBVIOUS
<1> USE DEF TypeOK
<1>1. ASSUME NEW m \in ServerMessages, ServerSends(m) PROVE TypeOK'
  <2>1. Mk(m.kind, "server", nmsgs', m.ref) \in ServerItem
    BY <1>1, ConstantsAssumption DEF ServerSends, Mk, ServerItem, Items, Origins
  <2> QED  BY <1>1, <2>1, AppendProperties DEF ServerSends, session, user
<1>2. ASSUME NEW end \in StreamEnds, LinkBreaks(end) PROVE TypeOK'
  <2>1. Own(end) \in ServerItem
    BY <1>2, OwnTypes DEF StreamEnds
  <2>2. PICK n \in 0 .. Len(inbox) : inbox' = Append(SubSeq(inbox, 1, n), Own(end))
    BY <1>2 DEF LinkBreaks
  <2>3. SubSeq(inbox, 1, n) \in Seq(ServerItem)
    BY SubSeqProperties, LenProperties, ElementOfSeq
  <2>4. inbox' \in Seq(ServerItem)
    BY <2>1, <2>2, <2>3, AppendProperties
  <2> QED  BY <1>2, <2>4 DEF LinkBreaks, session, user, counters
<1> QED  BY <1>1, <1>2 DEF Environment

LEMMA TypeStutter == TypeOK /\ (Finished \/ UNCHANGED vars) => TypeOK'
BY DEF Finished, TypeOK, vars, session, channels, user, counters

\* Every reachable state is well typed: the fields of the runner, the channels
\* and the operations it has left, for all capacities and message sets.
THEOREM TypeCorrect == Spec => []TypeOK
<1>1. Init => TypeOK
  BY TypeInit
<1>2. TypeOK /\ [Next]_vars => TypeOK'
  BY TypeStutter, TypeTask, TypeSelect, TypeApplication, TypeEnvironment DEF Next
<1> QED  BY <1>1, <1>2, PTL DEF Spec

-----------------------------------------------------------------------------
(* The lists of operations that handlers leave, by what is in them.        *)

\* Operations that are no command, no answer to a heartbeat and nothing that
\* begins or ends the session.
MildStep ==
  {s \in Step : /\ s.op \in {"emit", "write"}
                /\ s.item.from # "timer"
                /\ s.op = "emit" =>
                     s.item.kind \in NotificationKinds \ (Lifecycle \cup {"Deactivated"})}

UntimedStep == {s \in Step : s.item.from # "timer"}

LEMMA MildSubsets ==
  MildStep \subseteq QuietStep /\ MildStep \subseteq PlainStep /\ MildStep \subseteq UntimedStep
BY DEF MildStep, QuietStep, PlainStep, UntimedStep, IsAsk, NotificationKinds, CommandKinds

LEMMA MildLists ==
  ASSUME NEW s \in Seq(MildStep)
  PROVE  s \in Seq(QuietStep) /\ s \in Seq(PlainStep) /\ s \in Seq(UntimedStep)
BY MildSubsets, SeqMonotonic

LEMMA MildEmit ==
  ASSUME NEW m \in ServerItem,
         NEW k \in NotificationKinds \ (Lifecycle \cup {"Deactivated"})
  PROVE  Emit(As(k, m)) \in MildStep
<1>1. As(k, m) \in EventItem /\ Emit(As(k, m)) \in Step
  BY ServerEventType, StepTypes DEF EventKinds
<1>2. As(k, m).kind = k /\ As(k, m).from = m.from /\ m.from # "timer"
  BY DEF As, ServerItem, Items
<1> QED  BY <1>1, <1>2 DEF MildStep, Emit, Op

LEMMA MildWrite ==
  ASSUME NEW x \in WireItem, x.from # "timer"
  PROVE  Write(x) \in MildStep /\ \A n \in Nat : WriteOrSkip(x, n) \in MildStep
BY StepTypes DEF MildStep, Write, WriteOrSkip, Op

LEMMA MildServerWrite ==
  ASSUME NEW m \in ServerItem, NEW k \in WireKinds
  PROVE  /\ Write(As(k, m)) \in MildStep
         /\ \A r \in Int : /\ Write([As(k, m) EXCEPT !.ref = r]) \in MildStep
                           /\ WriteOrSkip([As(k, m) EXCEPT !.ref = r], 1) \in MildStep
<1>1. As(k, m) \in WireItem /\ \A r \in Int : [As(k, m) EXCEPT !.ref = r] \in WireItem
  BY ServerWireType
<1>2. /\ As(k, m).from # "timer"
      /\ \A r \in Int : [As(k, m) EXCEPT !.ref = r].from # "timer"
  BY DEF As, ServerItem, Items
<1> QED  BY <1>1, <1>2, MildWrite

LEMMA MildDispatch ==
  ASSUME NEW m \in ServerItem
  PROVE  Dispatch(m) \in Seq(MildStep)
<1>1. CASE m.kind \in DOMAIN DispatchTable
  <2>1. DispatchTable[m.kind] \in NotificationKinds \ (Lifecycle \cup {"Deactivated"})
    BY <1>1 DEF DispatchTable, NotificationKinds, Lifecycle
  <2> QED  BY <1>1, <2>1, MildEmit DEF Dispatch
<1>2. CASE m.kind \notin DOMAIN DispatchTable
  BY <1>2 DEF Dispatch
<1> QED  BY <1>1, <1>2

LEMMA MildRegister ==
  ASSUME NEW m \in ServerItem
  PROVE  RegisterSteps(m) \in Seq(MildStep)
<1>1. Emit(As("DeviceRegistered", m)) \in MildStep
  BY MildEmit DEF NotificationKinds, Lifecycle
<1>2. ActivateSteps(m) \in Seq(MildStep)
  <2>1. m.ref \in Nat /\ As("SetActiveRenderer", m).ref = m.ref
    BY DEF As, ServerItem, Items
  <2>2. WriteOrSkip([As("SetActiveRenderer", m) EXCEPT !.ref = AsI32(m.ref)], 1) \in MildStep
    BY <2>1, AsI32Type, MildServerWrite DEF WireKinds
  <2> QED  BY <2>1, <2>2 DEF ActivateSteps
<1> QED  BY <1>1, <1>2, MildDispatch DEF RegisterSteps

\* The answer to command x is made of writes caused by x.
AnswerStep(x) ==
  {s \in Step : /\ s.op = "write" /\ s.item.from = x.from
                /\ s.item.kind \in {"VolumeMuted", "VolumeChanged",
                                    "MaxAudioQualityChanged", "StateUpdated"}}

LEMMA AnswerWrites ==
  ASSUME NEW x \in CommandItem
  PROVE  AnswerSteps(x) \in Seq(AnswerStep(x))
<1>1. ASSUME NEW k \in {"VolumeMuted", "VolumeChanged", "MaxAudioQualityChanged", "StateUpdated"}
      PROVE  /\ Write(As(k, x)) \in AnswerStep(x)
             /\ \A n \in Nat : WriteOrSkip(As(k, x), n) \in AnswerStep(x)
  <2>1. As(k, x) \in Items(WireKinds, Origins, Nat) /\ As(k, x).from = x.from
        /\ As(k, x).kind = k
    BY <1>1, AsType DEF CommandItem, WireKinds
  <2>2. As(k, x) \in WireItem
    BY <2>1 DEF WireItem, Items
  <2> QED  BY <2>1, <2>2, StepTypes DEF AnswerStep, Write, WriteOrSkip, Op
<1>2. Handshake(x) \in Seq(AnswerStep(x))
  BY <1>1 DEF Handshake
<1> QED  BY <1>1, <1>2 DEF AnswerSteps

LEMMA QuietLists ==
  /\ StartSteps \in Seq(QuietStep) /\ ExitSteps \in Seq(QuietStep)
  /\ CloseSteps \in Seq(QuietStep)
  /\ \A x \in CommandItem : AnswerSteps(x) \in Seq(QuietStep)
  /\ \A m \in ServerItem : InactiveSteps(m) \in Seq(QuietStep)
<1>1. Own("Connected").kind = "Connected" /\ Own("Disconnected").kind = "Disconnected"
      /\ Own("SessionClosed").kind = "SessionClosed"
  BY DEF Own, Mk
<1>2. /\ Emit(Own("Connected")) \in QuietStep /\ Emit(Own("Disconnected")) \in QuietStep
      /\ Emit(Own("SessionClosed")) \in QuietStep
      /\ Op("run", Own("Connected")) \in QuietStep
      /\ Op("stop", Own("SessionClosed")) \in QuietStep
      /\ Op("close", Own("Closed")) \in QuietStep
  BY <1>1, StepTypes, OwnTypes DEF QuietStep, IsAsk, Emit, Op, CommandKinds
<1>3. \A x \in WireItem : Write(x) \in QuietStep
  BY StepTypes DEF QuietStep, IsAsk, Write, Op
<1>4. StartSteps \in Seq(QuietStep) /\ ExitSteps \in Seq(QuietStep)
      /\ CloseSteps \in Seq(QuietStep)
  BY <1>2, <1>3, OwnTypes DEF StartSteps, ExitSteps, CloseSteps
<1>5. ASSUME NEW x \in CommandItem PROVE AnswerSteps(x) \in Seq(QuietStep)
  <2>1. AnswerStep(x) \subseteq QuietStep
    BY DEF AnswerStep, QuietStep, IsAsk
  <2> QED  BY <2>1, AnswerWrites, SeqMonotonic
<1>6. ASSUME NEW m \in ServerItem PROVE InactiveSteps(m) \in Seq(QuietStep)
  <2>1. As("Deactivated", m).kind = "Deactivated"
    BY DEF As, ServerItem, Items
  <2>2. Emit(As("Deactivated", m)) \in Step
    BY ServerEventType, StepTypes DEF EventKinds, NotificationKinds
  <2>3. Emit(As("Deactivated", m)) \in QuietStep
    BY <2>1, <2>2 DEF QuietStep, IsAsk, Emit, Op, CommandKinds
  <2> QED  BY <1>4, <2>3 DEF InactiveSteps
<1> QED  BY <1>4, <1>5, <1>6

-----------------------------------------------------------------------------
(* One command at a time.                                                  *)

Requests == TypeOK /\ OneCommandOutstanding /\ UnreceivedCommandIsLast

\* Asking command x and then doing quiet things is AboutToAsk.
LEMMA AskIsAboutToAsk ==
  ASSUME NEW x \in CommandItem, NEW s \in Seq(QuietStep),
         reply' = "none", todo' = Ask(x) \o s
  PROVE  AboutToAsk'
<1>1. Emit(x) \in Step /\ Await(x) \in Step /\ Emit(x).op = "emit" /\ IsAsk(Emit(x))
      /\ Await(x).op = "await"
  <2>1. x \in EventItem /\ x.kind \in CommandKinds
    BY DEF CommandItem, EventItem, Items, EventKinds
  <2> QED  BY <2>1, StepTypes DEF Emit, Await, Op, IsAsk
<1>2. s \in Seq(Step)
  BY SeqMonotonic DEF QuietStep
<1>3. /\ todo' # <<>> /\ Head(todo') = Emit(x) /\ Tail(todo') # <<>>
      /\ Head(Tail(todo')) = Await(x) /\ Tail(Tail(todo')) = s
  BY <1>1, <1>2, SMTT(30) DEF Ask
<1> QED  BY <1>1, <1>3 DEF AboutToAsk, Doing

\* Back at select! nothing is asked; the variables of requests are left alone.
LEMMA TakesRequests ==
  ASSUME Requests, NEW kinds, Takes(kinds)
  PROVE  /\ Head(inbox) \in ServerItem /\ Head(inbox).kind \in kinds
         /\ reply = "none" /\ reply' = "none" /\ UnreceivedCommandIsLast'
<1>1. todo = <<>> /\ reply = "none"
  BY DEF Requests, Takes, AtSelect, OneCommandOutstanding, NothingAsked, AboutToAsk,
         Asked, Doing
<1>2. UNCHANGED <<app, log, got, reply>>
  BY DEF Takes, user
<1>3. UnreceivedCommandIsLast'
  BY <1>2 DEF Requests, UnreceivedCommandIsLast
<1> QED  BY <1>1, <1>2, <1>3, TakesType DEF Requests

LEMMA RequestsMessage ==
  Requests /\ HandleMessage => OneCommandOutstanding' /\ UnreceivedCommandIsLast'
<1> SUFFICES ASSUME Requests, HandleMessage
             PROVE  OneCommandOutstanding' /\ UnreceivedCommandIsLast'
  OBVIOUS
<1> DEFINE m == Head(inbox)
<1>0. ASSUME reply' = "none", todo' \in Seq(QuietStep) PROVE OneCommandOutstanding'
  BY <1>0 DEF OneCommandOutstanding, NothingAsked
<1>1. CASE HandleAddRenderer
  <2>1. m \in ServerItem /\ reply' = "none" /\ UnreceivedCommandIsLast'
    BY <1>1, TakesRequests DEF HandleAddRenderer
  <2>2. RegisterSteps(m) \in Seq(QuietStep) /\ Dispatch(m) \in Seq(QuietStep)
    BY <2>1, MildRegister, MildDispatch, MildLists
  <2> QED  BY <1>0, <1>1, <2>1, <2>2 DEF HandleAddRenderer
<1>2. CASE HandleRemoveRenderer
  <2>1. m \in ServerItem /\ reply' = "none" /\ UnreceivedCommandIsLast'
    BY <1>2, TakesRequests DEF HandleRemoveRenderer
  <2> QED  BY <1>0, <1>2, <2>1, MildDispatch, MildLists DEF HandleRemoveRenderer
<1>3. CASE HandleSessionState
  <2>1. m \in ServerItem /\ reply' = "none" /\ UnreceivedCommandIsLast'
    BY <1>3, TakesRequests DEF HandleSessionState
  <2>2. Write(As("AskForRendererState", m)) \in MildStep
    BY <2>1, MildServerWrite DEF WireKinds
  <2>3. <<Write(As("AskForRendererState", m))>> \o Dispatch(m) \in Seq(MildStep)
    BY <2>1, <2>2, MildDispatch
  <2> QED  BY <1>0, <1>3, <2>1, <2>3, MildLists DEF HandleSessionState
<1>4. CASE HandleRendererStateUpdated
  <2>1. m \in ServerItem /\ reply' = "none" /\ UnreceivedCommandIsLast'
    BY <1>4, TakesRequests DEF HandleRendererStateUpdated
  <2>2. Emit(As("RestoreState", m)) \in MildStep /\ Emit(As("RendererStateUpdated", m)) \in MildStep
    BY <2>1, MildEmit DEF NotificationKinds, Lifecycle
  <2>3. todo' \in Seq(MildStep)
    BY <1>4, <2>2 DEF HandleRendererStateUpdated
  <2> QED  BY <1>0, <2>1, <2>3, MildLists
<1>5. CASE HandleSetState
  <2>1. m \in ServerItem /\ reply' = "none" /\ UnreceivedCommandIsLast'
    BY <1>5, TakesRequests DEF HandleSetState
  <2>2. CASE m.kind = "SetState"
    <3>1. m \in CommandItem
      BY <2>1, <2>2 DEF ServerItem, CommandItem, Items, CommandKinds, Origins
    <3>2. Ask(m) \o <<>> = Ask(m)
      BY <3>1, AskType, ConcatEmptySeq
    <3> QED  BY <1>5, <2>1, <2>2, <3>1, <3>2, AskIsAboutToAsk, EmptySeq
             DEF HandleSetState, OneCommandOutstanding
  <2>3. CASE m.kind # "SetState"
    BY <1>0, <1>5, <2>1, <2>3, EmptySeq DEF HandleSetState
  <2> QED  BY <2>2, <2>3
<1>6. CASE HandleSetVolume
  <2>1. m \in ServerItem /\ m.kind = "SetVolume" /\ reply' = "none" /\ UnreceivedCommandIsLast'
    BY <1>6, TakesRequests DEF HandleSetVolume
  <2>2. m \in CommandItem
    BY <2>1 DEF ServerItem, CommandItem, Items, CommandKinds, Origins
  <2>3. Ask(m) \o <<>> = Ask(m)
    BY <2>2, AskType, ConcatEmptySeq
  <2> QED  BY <1>6, <2>1, <2>2, <2>3, AskIsAboutToAsk, EmptySeq
           DEF HandleSetVolume, OneCommandOutstanding
<1>7. CASE HandleSetActive
  <2>1. m \in ServerItem /\ m.kind = "SetActive" /\ reply' = "none" /\ UnreceivedCommandIsLast'
    BY <1>7, TakesRequests DEF HandleSetActive
  <2>2. m \in CommandItem
    BY <2>1 DEF ServerItem, CommandItem, Items, CommandKinds, Origins
  <2> DEFINE w == Write([As("AskForQueueState", m) EXCEPT !.ref = session_uuid])
  <2>3. w \in MildStep
    BY <2>1, MildServerWrite DEF WireKinds, Requests, TypeOK
  <2>4. todo' = Ask(m) \o <<w>>
    BY <1>7 DEF HandleSetActive
  <2> HIDE DEF w
  <2>5. <<w>> \in Seq(QuietStep)
    BY <2>3, MildSubsets
  <2> QED  BY <2>1, <2>2, <2>4, <2>5, AskIsAboutToAsk DEF OneCommandOutstanding
<1>8. CASE HandleSetInactive
  <2>1. m \in ServerItem /\ reply' = "none" /\ UnreceivedCommandIsLast'
    BY <1>8, TakesRequests DEF HandleSetInactive
  <2> QED  BY <1>0, <1>8, <2>1, QuietLists DEF HandleSetInactive
<1>9. CASE HandleOther
  <2>1. m \in ServerItem /\ reply' = "none" /\ UnreceivedCommandIsLast'
    BY <1>9, TakesRequests DEF HandleOther
  <2> QED  BY <1>0, <1>9, <2>1, MildDispatch, MildLists DEF HandleOther
<1>10. CASE HandleStreamEnd
  <2>1. reply' = "none" /\ UnreceivedCommandIsLast'
    BY <1>10, TakesRequests DEF HandleStreamEnd
  <2> QED  BY <1>0, <1>10, <2>1, QuietLists DEF HandleStreamEnd
<1> QED  BY <1>1, <1>2, <1>3, <1>4, <1>5, <1>6, <1>7, <1>8, <1>9, <1>10
         DEF HandleMessage

LEMMA RequestsSelect ==
  Requests /\ Select => OneCommandOutstanding' /\ UnreceivedCommandIsLast'
<1> SUFFICES ASSUME Requests, Select
             PROVE  OneCommandOutstanding' /\ UnreceivedCommandIsLast'
  OBVIOUS
<1>1. CASE HandleMessage
  BY <1>1, RequestsMessage
<1>2. CASE Tick
  <2>1. todo = <<>> /\ reply = "none" /\ reply' = "none" /\ UNCHANGED <<app, log, got>>
    BY <1>2 DEF Tick, AtSelect, Requests, OneCommandOutstanding, NothingAsked,
                AboutToAsk, Asked, Doing, channels, user
  <2>2. UnreceivedCommandIsLast'
    BY <2>1 DEF Requests, UnreceivedCommandIsLast
  <2> DEFINE h == Mk("Heartbeat", "timer", beats + 1, 0)
  <2>3. h \in CommandItem
    BY DEF Requests, TypeOK, Mk, CommandItem, Items, CommandKinds, Origins
  <2>4. todo' = Ask(h)
    BY <1>2 DEF Tick
  <2> HIDE DEF h
  <2>5. todo' = Ask(h) \o <<>>
    BY <2>3, <2>4, AskType, ConcatEmptySeq
  <2> QED  BY <2>1, <2>2, <2>3, <2>5, AskIsAboutToAsk, EmptySeq DEF OneCommandOutstanding
<1>3. CASE IdleTurn
  BY <1>3 DEF IdleTurn, Requests, OneCommandOutstanding, NothingAsked, AboutToAsk, Asked,
              Doing, UnreceivedCommandIsLast, vars, channels, user
<1>4. CASE TakeCommand
  <2>1. todo = <<>> /\ reply = "none" /\ reply' = "none" /\ UNCHANGED <<app, log, got>>
    BY <1>4 DEF TakeCommand, AtSelect, Requests, OneCommandOutstanding, NothingAsked,
                AboutToAsk, Asked, Doing, channels
  <2>2. UnreceivedCommandIsLast'
    BY <2>1 DEF Requests, UnreceivedCommandIsLast
  <2>3. todo' \in Seq(Step)
    BY <1>4, TypeSelect DEF Select, Requests, TypeOK
  <2> DEFINE w == Write(As(ReportMessage[Head(commands).kind], Head(commands)))
  <2>4. todo' = <<w>> /\ w.op = "write"
    BY <1>4 DEF TakeCommand, Write, Op
  <2> HIDE DEF w
  <2>5. w \in QuietStep
    BY <2>3, <2>4 DEF QuietStep, IsAsk
  <2> QED  BY <2>1, <2>2, <2>4, <2>5 DEF OneCommandOutstanding, NothingAsked
<1> QED  BY <1>1, <1>2, <1>3, <1>4 DEF Select

LEMMA RequestsTask ==
  Requests /\ TaskStep => OneCommandOutstanding' /\ UnreceivedCommandIsLast'
<1> SUFFICES ASSUME Requests, TaskStep
             PROVE  OneCommandOutstanding' /\ UnreceivedCommandIsLast'
  OBVIOUS
<1>0. TypeOK /\ OneCommandOutstanding /\ UnreceivedCommandIsLast
  BY DEF Requests
\* An operation that is neither asking nor awaiting leaves quiet ones.
<1>1. ASSUME NEW op \in {"write", "close", "run", "stop"}, Doing(op),
             reply' = reply, UNCHANGED <<got, log>>, app = "gone" => app' = "gone",
             \/ todo' = Tail(todo) \/ todo' = <<>>
             \/ \E n \in Nat : todo' = SubSeq(todo, 2 + n, Len(todo))
      PROVE  OneCommandOutstanding' /\ UnreceivedCommandIsLast'
  <2>1. NothingAsked
    BY <1>0, <1>1 DEF OneCommandOutstanding, AboutToAsk, Asked, Doing
  <2>2. todo' \in Seq(QuietStep)
    BY <1>1, <2>1, SuffixType, EmptySeq, HeadTailProperties DEF NothingAsked, Doing
  <2>3. OneCommandOutstanding'
    BY <1>1, <2>1, <2>2 DEF OneCommandOutstanding, NothingAsked
  <2>4. UnreceivedCommandIsLast'
    BY <1>0, <1>1 DEF UnreceivedCommandIsLast
  <2> QED  BY <2>3, <2>4
<1>2. CASE DoEmit
  <2> DEFINE x == Head(todo).item
  <2>1. reply = "none" /\ todo # <<>> /\ Head(todo).op = "emit"
    BY <1>0, <1>2 DEF DoEmit, OneCommandOutstanding, NothingAsked, AboutToAsk, Asked, Doing
  <2>2. OneCommandOutstanding'
    <3>1. CASE x.kind \in CommandKinds
      <4>1. AboutToAsk
        <5>1. ~NothingAsked
          BY <2>1, <3>1, HeadTailProperties DEF NothingAsked, QuietStep, IsAsk
        <5> QED  BY <1>0, <2>1, <5>1 DEF OneCommandOutstanding, Asked
      <4>2. reply' # "none" /\ todo' = Tail(todo)
        BY <1>2, <3>1 DEF DoEmit
      <4> QED  BY <4>1, <4>2 DEF AboutToAsk, OneCommandOutstanding, Asked, Doing
    <3>2. CASE x.kind \notin CommandKinds
      <4>1. NothingAsked
        BY <1>0, <2>1, <3>2 DEF OneCommandOutstanding, AboutToAsk, Asked, IsAsk
      <4>2. reply' = "none" /\ todo' = Tail(todo)
        BY <1>2, <2>1, <3>2 DEF DoEmit
      <4> QED  BY <2>1, <4>1, <4>2, HeadTailProperties DEF OneCommandOutstanding, NothingAsked
    <3> QED  BY <3>1, <3>2
  <2>3. UnreceivedCommandIsLast'
    <3>1. CASE app = "gone"
      BY <1>2, <3>1 DEF DoEmit, UnreceivedCommandIsLast, user
    <3>2. CASE app # "gone"
      <4>1. log' = Append(log, x) /\ got' = got
            /\ (x.kind \in CommandKinds => reply' = "queued")
        BY <1>2, <3>2 DEF DoEmit, NoReceiver
      <4>2. log \in Seq(EventItem) /\ got \in Nat
        BY <1>0, LenProperties DEF TypeOK
      <4>3. x \in EventItem
        BY <1>0, <1>2, HeadType DEF DoEmit
      <4>4. /\ Len(log') = Len(log) + 1 /\ Len(log) \in Nat /\ log'[Len(log) + 1] = x
            /\ \A j \in 1 .. Len(log) : log'[j] = log[j]
        <5> HIDE DEF x
        <5> QED  BY <4>1, <4>2, <4>3, AppendProperties, LenProperties
      <4>5. \A j \in got + 1 .. Len(log) : log[j].kind \notin CommandKinds
        BY <1>0, <2>1, <3>2 DEF UnreceivedCommandIsLast
      <4> HIDE DEF x
      <4> QED  BY <4>1, <4>2, <4>4, <4>5 DEF UnreceivedCommandIsLast
    <3> QED  BY <3>1, <3>2
  <2> QED  BY <2>2, <2>3
<1>3. CASE DoWrite
  BY <1>1, <1>3 DEF DoWrite, user
<1>4. CASE DoWriteFails
  <2>1. Head(todo).skip \in Nat
    BY <1>0, <1>4, HeadType DEF DoWriteFails
  <2> QED  BY <1>1, <1>4, <2>1 DEF DoWriteFails, channels
<1>5. CASE DoAwait
  <2>1. Asked
    BY <1>0, <1>5 DEF DoAwait, OneCommandOutstanding, NothingAsked, AboutToAsk, Doing
  <2>2. Head(todo).item \in CommandItem
    BY <1>0, <1>5, HeadType DEF DoAwait
  <2>3. todo' \in Seq(QuietStep)
    <3>1. AnswerSteps(Head(todo).item) \in Seq(QuietStep) /\ Tail(todo) \in Seq(QuietStep)
      BY <2>1, <2>2, QuietLists DEF Asked
    <3>2. <<>> \o Tail(todo) = Tail(todo)
      BY <3>1, ConcatEmptySeq
    <3> QED  BY <1>5, <3>1, <3>2, ConcatProperties DEF DoAwait
  <2>4. reply' = "none" /\ reply # "queued" /\ UNCHANGED <<app, log, got>>
    BY <1>5 DEF DoAwait, channels, user
  <2> QED  BY <1>0, <2>3, <2>4 DEF OneCommandOutstanding, NothingAsked, UnreceivedCommandIsLast
<1>6. CASE DoClose
  BY <1>1, <1>6 DEF DoClose, user
<1>7. CASE DoRun
  BY <1>1, <1>7 DEF DoRun, channels
<1>8. CASE DoStop
  BY <1>1, <1>8 DEF DoStop, channels
<1> QED  BY <1>2, <1>3, <1>4, <1>5, <1>6, <1>7, <1>8 DEF TaskStep

LEMMA RequestsApplication ==
  Requests /\ Application => OneCommandOutstanding' /\ UnreceivedCommandIsLast'
<1> SUFFICES ASSUME Requests, Application
             PROVE  OneCommandOutstanding' /\ UnreceivedCommandIsLast'
  OBVIOUS
<1>0. TypeOK /\ OneCommandOutstanding /\ UnreceivedCommandIsLast
  BY DEF Requests
\* The application never creates or completes the oneshot.
<1>1. ASSUME todo' = todo, reply' = "none" <=> reply = "none"
      PROVE  OneCommandOutstanding'
  BY <1>0, <1>1 DEF OneCommandOutstanding, NothingAsked, AboutToAsk, Asked, Doing
<1>2. CASE Recv
  <2>1. app # "gone" /\ app' = app /\ got' = got + 1 /\ got \in Nat /\ got < Len(log)
        /\ log' = log /\ todo' = todo /\ Len(log) \in Nat
    BY <1>0, <1>2, LenProperties DEF Recv, AppFree, user, TypeOK
  <2>2. CASE log[got + 1].kind \in CommandKinds
    <3>1. reply = "queued" /\ got + 1 = Len(log)
      BY <1>0, <2>1, <2>2 DEF UnreceivedCommandIsLast
    <3>2. reply' = "held"
      BY <1>2, <2>1, <2>2 DEF Recv
    <3> QED  BY <1>1, <2>1, <3>1, <3>2 DEF UnreceivedCommandIsLast
  <2>3. CASE log[got + 1].kind \notin CommandKinds
    <3>1. reply' = reply
      BY <1>2, <2>1, <2>3 DEF Recv
    <3>2. UnreceivedCommandIsLast'
      BY <1>0, <2>1, <3>1 DEF UnreceivedCommandIsLast
    <3> QED  BY <1>1, <2>1, <3>1, <3>2
  <2> QED  BY <2>2, <2>3
<1>3. ASSUME todo' = todo, reply = "held", reply' # "none", UNCHANGED <<app, log, got>>
      PROVE  OneCommandOutstanding' /\ UnreceivedCommandIsLast'
  BY <1>0, <1>1, <1>3 DEF UnreceivedCommandIsLast
<1>4. CASE Respond
  BY <1>3, <1>4 DEF Respond, channels, user
<1>5. CASE DropResponder
  BY <1>3, <1>5 DEF DropResponder, channels, user
<1>6. CASE FinishReport \/ AbandonReport \/ \E kind \in ReportKinds : StartReport(kind)
  <2>1. UNCHANGED <<todo, reply, app, log, got>>
    BY <1>6 DEF FinishReport, AbandonReport, StartReport, channels
  <2> QED  BY <1>0, <1>1, <2>1 DEF UnreceivedCommandIsLast
<1>7. CASE DropHandle
  <2>1. todo' = todo /\ app' = "gone" /\ (reply' = "none" <=> reply = "none")
    BY <1>7 DEF DropHandle
  <2> QED  BY <1>1, <2>1 DEF UnreceivedCommandIsLast
<1> QED  BY <1>2, <1>4, <1>5, <1>6, <1>7 DEF Application

LEMMA RequestsInductive ==
  /\ Init => Requests
  /\ Requests /\ [Next]_vars => Requests'
<1>1. Init => Requests
  <2> SUFFICES ASSUME Init PROVE OneCommandOutstanding /\ UnreceivedCommandIsLast
    BY TypeInit DEF Requests
  <2>1. OneCommandOutstanding
    BY QuietLists DEF Init, OneCommandOutstanding, NothingAsked
  <2>2. UnreceivedCommandIsLast
    BY DEF Init, UnreceivedCommandIsLast
  <2> QED  BY <2>1, <2>2
<1>2. Requests /\ [Next]_vars => Requests'
  <2> SUFFICES ASSUME Requests, [Next]_vars PROVE Requests'
    OBVIOUS
  <2>1. TypeOK'
    BY TypeTask, TypeSelect, TypeApplication, TypeEnvironment, TypeStutter
       DEF Requests, Next
  <2>2. OneCommandOutstanding' /\ UnreceivedCommandIsLast'
    <3>1. CASE Environment \/ Finished \/ UNCHANGED vars
      <4>1. UNCHANGED <<todo, reply, app, log, got>>
        BY <3>1 DEF Environment, ServerSends, LinkBreaks, Finished, vars, channels, user
      <4> QED  BY <4>1 DEF Requests, OneCommandOutstanding, NothingAsked, AboutToAsk, Asked,
                       Doing, UnreceivedCommandIsLast
    <3> QED  BY <3>1, RequestsTask, RequestsSelect, RequestsApplication DEF Next
  <2> QED  BY <2>1, <2>2 DEF Requests
<1> QED  BY <1>1, <1>2

\* At every moment at most one command is asked or about to be asked, and the
\* oneshot exists exactly while it is awaited (qconnect.rs: every arm that sends
\* a Command awaits rx before it goes on).
THEOREM OneCommandAtATime == Spec => []OneCommandOutstanding
<1>1. Requests => OneCommandOutstanding
  BY DEF Requests
<1> QED  BY <1>1, RequestsInductive, PTL DEF Spec

\* A command waits in the event channel with its Responder, behind every event
\* said before it and with none after it.
THEOREM UnreceivedCommandLast == Spec => []UnreceivedCommandIsLast
<1>1. Requests => UnreceivedCommandIsLast
  BY DEF Requests
<1> QED  BY <1>1, RequestsInductive, PTL DEF Spec

\* While the application owes an answer, no step makes the runner send, say or
\* take anything, and what it knows of the session does not change.
THEOREM RunnerWaits == Spec => WaitsForTheAnswer
<1>1. Requests /\ [Next]_vars => [Unanswered => TaskWaits]_vars
  <2> SUFFICES ASSUME Requests, [Next]_vars, Unanswered PROVE TaskWaits
    OBVIOUS
  <2>0. TypeOK
    BY DEF Requests
  <2>1. Doing("await") /\ reply \in {"queued", "held"}
    BY DEF Requests, OneCommandOutstanding, NothingAsked, AboutToAsk, Asked, Unanswered
  <2>2. ~TaskStep /\ ~Select
    <3>1. ~TaskStep
      BY <2>1 DEF TaskStep, DoEmit, DoWrite, DoWriteFails, DoAwait, DoClose, DoRun, DoStop,
                  Doing
    <3>2. ~AtSelect
      BY <2>1 DEF AtSelect, Doing
    <3> QED  BY <3>1, <3>2
             DEF Select, HandleMessage, HandleAddRenderer, HandleRemoveRenderer,
                 HandleSessionState, HandleRendererStateUpdated, HandleSetState,
                 HandleSetVolume, HandleSetActive, HandleSetInactive, HandleOther,
                 HandleStreamEnd, Takes, Tick, IdleTurn, TakeCommand
  <2>3. CASE Application
    <3>1. UNCHANGED <<todo, wire, log, status, renderer_id, is_active, session_uuid>>
      BY <2>3 DEF Application, Recv, Respond, DropResponder, DropHandle, FinishReport,
                  AbandonReport, StartReport, session, channels
    <3>2. commands' = commands \/ commands' = commands \o reporting
      BY <2>3 DEF Application, Recv, Respond, DropResponder, DropHandle, FinishReport,
                  AbandonReport, StartReport, user
    <3>3. commands \in Seq(ReportItem) /\ reporting \in Seq(ReportItem)
      BY <2>0 DEF TypeOK
    <3>4. Len(commands') >= Len(commands)
      BY <3>2, <3>3, ConcatProperties, LenProperties
    <3> QED  BY <3>1, <3>4 DEF TaskWaits
  <2>4. CASE Environment \/ Finished \/ UNCHANGED vars
    <3>1. UNCHANGED <<todo, wire, log, status, renderer_id, is_active, session_uuid, commands>>
      BY <2>4 DEF Environment, ServerSends, LinkBreaks, Finished, vars, session, channels, user
    <3>2. Len(commands) \in Nat
      BY <2>0, LenProperties DEF TypeOK
    <3> QED  BY <3>1, <3>2 DEF TaskWaits
  <2> QED  BY <2>2, <2>3, <2>4 DEF Next
<1> QED  BY <1>1, RequestsInductive, PTL DEF Spec, WaitsForTheAnswer

-----------------------------------------------------------------------------
(* What the handlers leave to do.                                          *)

LEMMA AskLists ==
  ASSUME NEW x \in CommandItem
  PROVE  /\ Ask(x) \in Seq(PlainStep)
         /\ x.from # "timer" => Ask(x) \in Seq(UntimedStep)
<1>1. /\ Emit(x) \in Step /\ Emit(x).op = "emit" /\ Emit(x).item = x
      /\ Await(x) \in Step /\ Await(x).op = "await" /\ Await(x).item = x
  BY StepTypes DEF CommandItem, EventItem, Items, EventKinds, Emit, Await, Op
<1>2. x.kind \in CommandKinds
  BY DEF CommandItem, Items
<1>3. Emit(x) \in PlainStep /\ Await(x) \in PlainStep
  BY <1>1, <1>2 DEF PlainStep, CommandKinds, Lifecycle
<1>4. x.from # "timer" => Emit(x) \in UntimedStep /\ Await(x) \in UntimedStep
  BY <1>1 DEF UntimedStep
<1> QED  BY <1>3, <1>4 DEF Ask

LEMMA AnswerLists ==
  ASSUME NEW x \in CommandItem
  PROVE  /\ AnswerSteps(x) \in Seq(PlainStep)
         /\ x.from # "timer" => AnswerSteps(x) \in Seq(UntimedStep)
<1>1. AnswerStep(x) \subseteq PlainStep
  BY DEF AnswerStep, PlainStep
<1>2. x.from # "timer" => AnswerStep(x) \subseteq UntimedStep
  BY DEF AnswerStep, UntimedStep
<1> QED  BY <1>1, <1>2, AnswerWrites, SeqMonotonic

LEMMA EndLists == ExitSteps \in Seq(UntimedStep) /\ CloseSteps \in Seq(UntimedStep)
<1>1. \A k \in {"Closed", "Disconnected", "SessionClosed"} : Own(k).from # "timer"
  BY DEF Own, Mk
<1>2. /\ Emit(Own("Disconnected")) \in UntimedStep /\ Emit(Own("SessionClosed")) \in UntimedStep
      /\ Op("stop", Own("SessionClosed")) \in UntimedStep
      /\ Op("close", Own("Closed")) \in UntimedStep
  BY <1>1, StepTypes, OwnTypes DEF UntimedStep, Emit, Op
<1> QED  BY <1>2 DEF ExitSteps, CloseSteps

\* Whatever the message, its handler leaves plain operations, or the end of the
\* session, or the deactivation that ends it; none answers a heartbeat.
EndsByDeactivation ==
  /\ Doing("emit")
  /\ Head(todo).item.kind = "Deactivated" /\ Tail(todo) = CloseSteps

LEMMA MessageLeaves ==
  ASSUME TypeOK, HandleMessage
  PROVE  /\ todo' \in Seq(UntimedStep)
         /\ todo' \in Seq(PlainStep) \/ EndsByDeactivation' \/ todo' = ExitSteps
<1> DEFINE m == Head(inbox)
<1>0. ASSUME todo' \in Seq(MildStep)
      PROVE  todo' \in Seq(UntimedStep) /\ todo' \in Seq(PlainStep)
  BY <1>0, MildLists
<1>1. CASE HandleAddRenderer
  BY <1>0, <1>1, TakesType, MildRegister, MildDispatch DEF HandleAddRenderer
<1>2. CASE HandleRemoveRenderer
  BY <1>0, <1>2, TakesType, MildDispatch DEF HandleRemoveRenderer
<1>3. CASE HandleSessionState
  <2>1. m \in ServerItem
    BY <1>3, TakesType DEF HandleSessionState
  <2>2. Write(As("AskForRendererState", m)) \in MildStep
    BY <2>1, MildServerWrite DEF WireKinds
  <2>3. <<Write(As("AskForRendererState", m))>> \o Dispatch(m) \in Seq(MildStep)
    BY <2>1, <2>2, MildDispatch
  <2> QED  BY <1>0, <1>3, <2>3 DEF HandleSessionState
<1>4. CASE HandleRendererStateUpdated
  <2>1. m \in ServerItem
    BY <1>4, TakesType DEF HandleRendererStateUpdated
  <2>2. Emit(As("RestoreState", m)) \in MildStep /\ Emit(As("RendererStateUpdated", m)) \in MildStep
    BY <2>1, MildEmit DEF NotificationKinds, Lifecycle
  <2>3. todo' \in Seq(MildStep)
    BY <1>4, <2>2 DEF HandleRendererStateUpdated
  <2> QED  BY <1>0, <2>3
<1>5. CASE HandleSetState
  <2>1. m \in ServerItem
    BY <1>5, TakesType DEF HandleSetState
  <2>2. m.kind = "SetState" => m \in CommandItem /\ m.from # "timer"
    BY <2>1 DEF ServerItem, CommandItem, Items, CommandKinds, Origins
  <2>3. m.kind = "SetState" => Ask(m) \in Seq(UntimedStep) /\ Ask(m) \in Seq(PlainStep)
    BY <2>2, AskLists
  <2> QED  BY <1>5, <2>3, EmptySeq DEF HandleSetState
<1>6. CASE HandleSetVolume
  <2>1. m \in ServerItem /\ m.kind = "SetVolume"
    BY <1>6, TakesType DEF HandleSetVolume
  <2>2. m \in CommandItem /\ m.from # "timer"
    BY <2>1 DEF ServerItem, CommandItem, Items, CommandKinds, Origins
  <2> QED  BY <1>6, <2>2, AskLists DEF HandleSetVolume
<1>7. CASE HandleSetActive
  <2>1. m \in ServerItem /\ m.kind = "SetActive"
    BY <1>7, TakesType DEF HandleSetActive
  <2>2. m \in CommandItem /\ m.from # "timer"
    BY <2>1 DEF ServerItem, CommandItem, Items, CommandKinds, Origins
  <2> DEFINE w == Write([As("AskForQueueState", m) EXCEPT !.ref = session_uuid])
  <2>3. w \in MildStep
    BY <2>1, MildServerWrite DEF WireKinds, TypeOK
  <2>4. todo' = Ask(m) \o <<w>>
    BY <1>7 DEF HandleSetActive
  <2> HIDE DEF w
  <2>5. <<w>> \in Seq(UntimedStep) /\ <<w>> \in Seq(PlainStep)
    BY <2>3, MildSubsets
  <2>6. Ask(m) \in Seq(UntimedStep) /\ Ask(m) \in Seq(PlainStep)
    BY <2>2, AskLists
  <2> QED  BY <2>4, <2>5, <2>6, ConcatProperties
<1>8. CASE HandleSetInactive
  <2>1. m \in ServerItem
    BY <1>8, TakesType DEF HandleSetInactive
  <2> DEFINE d == Emit(As("Deactivated", m))
  <2>2. d \in Step /\ d.op = "emit" /\ d.item.kind = "Deactivated" /\ d.item.from # "timer"
    <3>1. As("Deactivated", m).kind = "Deactivated" /\ As("Deactivated", m).from # "timer"
      BY <2>1 DEF As, ServerItem, Items
    <3>2. As("Deactivated", m) \in EventItem
      BY <2>1, ServerEventType DEF EventKinds, NotificationKinds
    <3> QED  BY <3>1, <3>2, StepTypes DEF Emit, Op
  <2>3. todo' = <<d>> \o (IF auto_activate THEN CloseSteps ELSE <<>>)
    BY <1>8 DEF HandleSetInactive, InactiveSteps
  <2> HIDE DEF d
  <2>4. d \in UntimedStep
    BY <2>2 DEF UntimedStep
  <2>5. CASE auto_activate
    <3>1. todo' = <<d>> \o CloseSteps
      BY <2>3, <2>5
    <3>2. todo' \in Seq(UntimedStep)
      BY <2>4, <3>1, EndLists
    <3>3. Head(todo') = d /\ Tail(todo') = CloseSteps /\ todo' # <<>>
      BY <2>2, <3>1, ListTypes
    <3> QED  BY <2>2, <3>2, <3>3 DEF EndsByDeactivation, Doing
  <2>6. CASE ~auto_activate
    <3>1. todo' = <<d>>
      BY <2>3, <2>6
    <3>2. d \in PlainStep
      BY <2>2, <2>6 DEF PlainStep, Lifecycle
    <3> QED  BY <2>4, <3>1, <3>2
  <2> QED  BY <2>5, <2>6
<1>9. CASE HandleOther
  BY <1>0, <1>9, TakesType, MildDispatch DEF HandleOther
<1>10. CASE HandleStreamEnd
  BY <1>10, EndLists DEF HandleStreamEnd
<1> QED  BY <1>1, <1>2, <1>3, <1>4, <1>5, <1>6, <1>7, <1>8, <1>9, <1>10
         DEF HandleMessage

-----------------------------------------------------------------------------
(* Heartbeats.                                                             *)

Beats == TypeOK /\ ((is_active /\ renderer_id # 0) \/ todo \in Seq(UntimedStep))

LEMMA BeatsTask == Beats /\ TaskStep => Beats'
<1> SUFFICES ASSUME Beats, TaskStep PROVE Beats'
  OBVIOUS
<1>0. TypeOK /\ TypeOK'
  BY TypeTask DEF Beats
<1>1. UNCHANGED <<is_active, renderer_id>>
  BY DEF TaskStep, DoEmit, DoWrite, DoWriteFails, DoAwait, DoClose, DoRun, DoStop, session
<1>2. ASSUME todo \in Seq(UntimedStep) PROVE todo' \in Seq(UntimedStep)
  <2>1. CASE DoAwait
    <3>1. Head(todo).item \in CommandItem /\ Head(todo) \in UntimedStep
          /\ Tail(todo) \in Seq(UntimedStep)
      BY <1>0, <1>2, <2>1, HeadType, HeadTailProperties DEF DoAwait, Doing
    <3>2. AnswerSteps(Head(todo).item) \in Seq(UntimedStep)
      BY <3>1, AnswerLists DEF UntimedStep
    <3> QED  BY <2>1, <3>1, <3>2, ConcatProperties, EmptySeq DEF DoAwait
  <2>2. CASE DoWriteFails
    <3>1. Head(todo).skip \in Nat
      BY <1>0, <2>2, HeadType DEF DoWriteFails
    <3> QED  BY <1>2, <2>2, <3>1, SuffixType, EmptySeq DEF DoWriteFails
  <2>3. CASE DoEmit \/ DoWrite \/ DoClose \/ DoRun \/ DoStop
    <3>1. todo # <<>> /\ (todo' = Tail(todo) \/ todo' = <<>>)
      BY <2>3 DEF DoEmit, DoWrite, DoClose, DoRun, DoStop, Doing
    <3> QED  BY <1>2, <3>1, HeadTailProperties, EmptySeq
  <2> QED  BY <2>1, <2>2, <2>3 DEF TaskStep
<1> QED  BY <1>0, <1>1, <1>2 DEF Beats

LEMMA BeatsSelect == Beats /\ Select => Beats'
<1> SUFFICES ASSUME Beats, Select PROVE Beats'
  OBVIOUS
<1>0. TypeOK /\ TypeOK'
  BY TypeSelect DEF Beats
<1>1. CASE HandleMessage
  BY <1>0, <1>1, MessageLeaves DEF Beats
<1>2. CASE Tick
  BY <1>0, <1>2 DEF Tick, MayBeat, Beats, session
<1>3. CASE IdleTurn
  <2>1. UNCHANGED <<todo, is_active, renderer_id>>
    BY <1>3 DEF IdleTurn, vars, session
  <2> QED  BY <1>0, <2>1 DEF Beats
<1>4. CASE TakeCommand
  <2> DEFINE w == Write(As(ReportMessage[Head(commands).kind], Head(commands)))
  <2>1. Head(commands) \in ReportItem
    <3>1. commands \in Seq(ReportItem) /\ commands # <<>>
      BY <1>4 DEF TakeCommand, CommandReady, Beats, TypeOK
    <3> QED  BY <3>1, HeadTailProperties
  <2>2. todo' = <<w>> /\ w.item.from = "app"
    BY <1>4, <2>1 DEF TakeCommand, Write, Op, As, ReportItem, Items
  <2>3. todo' \in Seq(Step)
    BY <1>0 DEF TypeOK
  <2> HIDE DEF w
  <2>4. w \in UntimedStep
    BY <2>2, <2>3 DEF UntimedStep
  <2> QED  BY <1>0, <2>2, <2>4 DEF Beats
<1> QED  BY <1>1, <1>2, <1>3, <1>4 DEF Select

\* The device is registered and active whenever a heartbeat is being asked,
\* awaited or answered: the check `is_active && renderer_id != 0` made before the
\* await (qconnect.rs:172) still holds after it.
THEOREM HeartbeatsStayValid == Spec => []HeartbeatStillValid
<1>1. Init => Beats
  <2>1. Init => todo \in Seq(UntimedStep)
    <3>1. \A k \in {"Authenticate", "Subscribe", "JoinSession", "Connected"} :
            Own(k).from # "timer"
      BY DEF Own, Mk
    <3>2. /\ Write(Own("Authenticate")) \in UntimedStep /\ Write(Own("Subscribe")) \in UntimedStep
          /\ Write(Own("JoinSession")) \in UntimedStep /\ Emit(Own("Connected")) \in UntimedStep
          /\ Op("run", Own("Connected")) \in UntimedStep
      BY <3>1, StepTypes, OwnTypes DEF UntimedStep, Write, Emit, Op
    <3> QED  BY <3>2 DEF Init, StartSteps
  <2> QED  BY <2>1, TypeInit DEF Beats
<1>2. Beats /\ [Next]_vars => Beats'
  <2> SUFFICES ASSUME Beats, [Next]_vars PROVE Beats'
    OBVIOUS
  <2>1. CASE Application \/ Environment \/ Finished \/ UNCHANGED vars
    <3>1. UNCHANGED <<todo, is_active, renderer_id>>
      BY <2>1 DEF Application, Recv, Respond, DropResponder, DropHandle, FinishReport,
                  AbandonReport, StartReport, Environment, ServerSends, LinkBreaks, Finished,
                  vars, session
    <3>2. TypeOK'
      BY <2>1, TypeApplication, TypeEnvironment, TypeStutter DEF Beats
    <3> QED  BY <3>1, <3>2 DEF Beats
  <2> QED  BY <2>1, BeatsTask, BeatsSelect DEF Next
<1>3. Beats => HeartbeatStillValid
  BY ElementOfSeq, LenProperties DEF Beats, HeartbeatStillValid, UntimedStep
<1> QED  BY <1>1, <1>2, <1>3, PTL DEF Spec

-----------------------------------------------------------------------------
(* The stages of a session's life.                                         *)

LEMMA ListShapes ==
  /\ CloseSteps # <<>> /\ Head(CloseSteps).op = "close" /\ Tail(CloseSteps) = ExitSteps
  /\ ExitSteps # <<>> /\ Head(ExitSteps) = Emit(Own("Disconnected"))
  /\ Tail(ExitSteps) # <<>> /\ Head(Tail(ExitSteps)) = Emit(Own("SessionClosed"))
  /\ Tail(Tail(ExitSteps)) # <<>> /\ Head(Tail(Tail(ExitSteps))).op = "stop"
<1>1. CloseSteps # <<>> /\ Head(CloseSteps).op = "close" /\ Tail(CloseSteps) = ExitSteps
  BY ListTypes DEF CloseSteps, Op
<1> DEFINE a == Emit(Own("Disconnected"))
           b == Emit(Own("SessionClosed"))
           c == Op("stop", Own("SessionClosed"))
<1>2. ExitSteps = <<a, b, c>> /\ c.op = "stop"
  BY DEF ExitSteps, Op
<1> HIDE DEF a, b, c
<1>3. ExitSteps # <<>> /\ Head(ExitSteps) = a /\ Tail(ExitSteps) = <<b, c>>
  BY <1>2
<1>4. <<b, c>> # <<>> /\ Head(<<b, c>>) = b /\ Tail(<<b, c>>) = <<c>>
  OBVIOUS
<1>5. <<c>> # <<>> /\ Head(<<c>>) = c
  OBVIOUS
<1> QED  BY <1>1, <1>2, <1>3, <1>4, <1>5 DEF a, b

LEMMA StartShapes ==
  /\ StartSteps = SubSeq(StartSteps, 1, 5)
  /\ \A n \in 1 .. 3 : LET s == SubSeq(StartSteps, n, 5)
                       IN  s # <<>> /\ Head(s).op = "write" /\ Tail(s) = SubSeq(StartSteps, n + 1, 5)
  /\ LET s == SubSeq(StartSteps, 4, 5)
     IN  s # <<>> /\ Head(s) = Emit(Own("Connected")) /\ Tail(s) = SubSeq(StartSteps, 5, 5)
  /\ LET s == SubSeq(StartSteps, 5, 5)
     IN  s # <<>> /\ Head(s).op = "run" /\ Tail(s) = <<>>
<1>1. /\ StartSteps[1].op = "write" /\ StartSteps[2].op = "write" /\ StartSteps[3].op = "write"
      /\ StartSteps[4] = Emit(Own("Connected")) /\ StartSteps[5].op = "run"
      /\ Len(StartSteps) = 5
  BY DEF StartSteps, Write, Op
<1>2. StartSteps = SubSeq(StartSteps, 1, 5)
  BY <1>1, ListTypes, SubSeqFull
<1>3. ASSUME NEW n \in 1 .. 5
      PROVE  /\ SubSeq(StartSteps, n, 5) # <<>>
             /\ Head(SubSeq(StartSteps, n, 5)) = StartSteps[n]
             /\ Tail(SubSeq(StartSteps, n, 5)) = SubSeq(StartSteps, n + 1, 5)
  <2>1. n \in 1 .. Len(StartSteps) /\ 5 \in n .. Len(StartSteps)
    BY <1>1
  <2>2. \A i \in n .. 5 : StartSteps[i] \in Step
    <3>1. \A i \in 1 .. Len(StartSteps) : StartSteps[i] \in Step
      BY ListTypes, ElementOfSeq
    <3> QED  BY <1>1, <3>1
  <2>3. Len(SubSeq(StartSteps, n, 5)) = 5 - n + 1
    BY <2>2, SubSeqProperties
  <2>4. SubSeq(StartSteps, n, 5) # <<>>
    <3>1. 5 - n + 1 # 0
      OBVIOUS
    <3> QED  BY <2>3, <3>1, EmptySeq
  <2> QED  BY <2>1, <2>4, ListTypes, HeadTailOfSubSeq
<1>4. SubSeq(StartSteps, 6, 5) = <<>>
  BY SubSeqEmpty
<1> QED  BY <1>1, <1>2, <1>3, <1>4

Life == Requests /\ SaysWhereItIs

\* Saying x makes it what was last said.
LEMMA LastSaid ==
  ASSUME TypeOK, DoEmit, app # "gone"
  PROVE  /\ Last' = Head(todo).item.kind /\ Head(todo).item.kind \in EventKinds
         /\ todo # <<>> /\ Head(todo).op = "emit" /\ todo' = Tail(todo)
         /\ UNCHANGED <<status, app>>
<1> DEFINE x == Head(todo).item
<1>1. x \in EventItem /\ log \in Seq(EventItem)
  BY HeadType DEF DoEmit, TypeOK
<1>2. log' = Append(log, x)
  BY DEF DoEmit, NoReceiver
<1>3. x.kind \in EventKinds
  BY <1>1 DEF EventItem, Items
<1> HIDE DEF x
<1>4. log' # <<>> /\ log'[Len(log')] = x
  BY <1>1, <1>2, AppendProperties, LenProperties, EmptySeq
<1>5. Last' = x.kind
  BY <1>4 DEF Last
<1> QED  BY <1>3, <1>5 DEF DoEmit, Doing, session, user, x

\* In service, what is left to do is plain from the first operation on.
LEMMA ServingHead ==
  ASSUME Serving, todo # <<>>
  PROVE  /\ Head(todo) \in PlainStep /\ Tail(todo) \in Seq(PlainStep)
         /\ Head(todo).op \in {"emit", "write", "await"}
<1>1. Head(todo) \in PlainStep /\ Tail(todo) \in Seq(PlainStep)
  BY HeadTailProperties DEF Serving
<1>2. \A s \in PlainStep : s.op \in {"emit", "write", "await"}
  BY DEF PlainStep
<1> QED  BY <1>1, <1>2

LEMMA LifeEmit ==
  ASSUME Life, DoEmit, app # "gone"
  PROVE  LifeStage'
<1>0. TypeOK /\ LifeStage
  BY DEF Life, Requests, SaysWhereItIs
<1>1. /\ Last' = Head(todo).item.kind /\ Head(todo).item.kind \in EventKinds
      /\ todo # <<>> /\ Head(todo).op = "emit" /\ todo' = Tail(todo)
      /\ UNCHANGED <<status, app>>
  BY <1>0, LastSaid
<1>2. CASE Connecting
  <2>1. PICK n \in 1 .. 4 : todo = SubSeq(StartSteps, n, 5)
    BY <1>2 DEF Connecting
  <2>2. n = 4
    BY <1>1, <2>1, StartShapes
  <2>3. Head(todo) = Emit(Own("Connected")) /\ todo' = SubSeq(StartSteps, 5, 5)
    BY <1>1, <2>1, <2>2, StartShapes
  <2>4. Last' = "Connected"
    BY <1>1, <2>3 DEF Emit, Op, Own, Mk
  <2> QED  BY <1>1, <1>2, <2>3, <2>4 DEF Connecting, Entering, LifeStage
<1>3. CASE Entering
  BY <1>1, <1>3, StartShapes DEF Entering
<1>4. CASE Serving
  <2>1. Head(todo) \in PlainStep /\ todo' \in Seq(PlainStep)
    BY <1>1, <1>4, ServingHead
  <2>2. Last' \notin Lifecycle /\ ~(auto_activate /\ Last' = "Deactivated")
        /\ Last' # "nothing"
    BY <1>1, <2>1 DEF PlainStep, EventKinds, CommandKinds, NotificationKinds
  <2> QED  BY <1>1, <1>4, <2>1, <2>2 DEF Serving, InService, Live, Lifecycle, LifeStage
<1>5. CASE Deactivating
  BY <1>1, <1>5 DEF Deactivating, InService, Leaving, Live, LifeStage
<1>6. CASE Leaving
  <2>1. todo = ExitSteps
    BY <1>1, <1>6, ListShapes DEF Leaving
  <2>2. Last' = "Disconnected"
    BY <1>1, <2>1, ListShapes DEF Emit, Op, Own, Mk
  <2> QED  BY <1>1, <1>6, <2>1, <2>2 DEF Leaving, Left, LifeStage
<1>7. CASE Left
  <2>1. todo = Tail(ExitSteps)
    BY <1>1, <1>7, ListShapes DEF Left
  <2>2. Last' = "SessionClosed"
    BY <1>1, <2>1, ListShapes DEF Emit, Op, Own, Mk
  <2> QED  BY <1>1, <1>7, <2>1, <2>2 DEF Left, LifeStage
<1>8. CASE Over
  BY <1>1, <1>8 DEF Over
<1> QED  BY <1>0, <1>2, <1>3, <1>4, <1>5, <1>6, <1>7, <1>8 DEF LifeStage

LEMMA LifeTask ==
  ASSUME Life, TaskStep, app # "gone"
  PROVE  LifeStage'
<1>0. TypeOK /\ LifeStage
  BY DEF Life, Requests, SaysWhereItIs
\* The stages a session can be in when its next operation is no event.
<1>1. ASSUME NEW op, Doing(op), op \in {"write", "await", "close", "run", "stop"}
      PROVE  /\ op = "write" => Connecting \/ Serving
             /\ op = "await" => Serving
             /\ op = "close" => Leaving /\ todo = CloseSteps
             /\ op = "run" => Entering
             /\ op = "stop" => Left
  <2>1. todo # <<>> /\ Head(todo).op = op
    BY <1>1 DEF Doing
  <2>2. Emit(Own("Connected")).op = "emit" /\ Emit(Own("Disconnected")).op = "emit"
        /\ Emit(Own("SessionClosed")).op = "emit"
    BY DEF Emit, Op
  <2>3. ASSUME Connecting PROVE op = "write"
    BY <1>1, <2>1, <2>2, <2>3, StartShapes DEF Connecting
  <2>4. ASSUME Entering PROVE op = "run"
    BY <2>1, <2>4, StartShapes DEF Entering
  <2>5. ASSUME Serving PROVE op \in {"write", "await"}
    BY <1>1, <2>1, <2>5, ServingHead
  <2>6. ~Deactivating /\ ~Over
    BY <1>1, <2>1 DEF Deactivating, Doing, Over
  <2>7. ASSUME Leaving PROVE op = "close" /\ todo = CloseSteps
    BY <1>1, <2>1, <2>2, <2>7, ListShapes DEF Leaving
  <2>8. ASSUME Left PROVE op = "stop"
    BY <1>1, <2>1, <2>2, <2>8, ListShapes DEF Left
  <2> QED  BY <1>0, <2>3, <2>4, <2>5, <2>6, <2>7, <2>8 DEF LifeStage
<1>2. CASE DoEmit
  BY <1>2, LifeEmit
<1>3. CASE DoWrite
  <2>1. UNCHANGED <<status, log>> /\ todo' = Tail(todo) /\ Doing("write") /\ todo # <<>>
        /\ Head(todo).op = "write"
    BY <1>3 DEF DoWrite, Doing, session
  <2>2. CASE Connecting
    <3>1. PICK n \in 1 .. 4 : todo = SubSeq(StartSteps, n, 5)
      BY <2>2 DEF Connecting
    <3>2. Emit(Own("Connected")).op = "emit"
      BY DEF Emit, Op
    <3>3. n \in 1 .. 3
      BY <2>1, <3>1, <3>2, StartShapes
    <3>4. todo' = SubSeq(StartSteps, n + 1, 5) /\ n + 1 \in 1 .. 4
      BY <2>1, <3>1, <3>3, StartShapes
    <3> QED  BY <2>1, <2>2, <3>4 DEF Connecting, Last, LifeStage
  <2>3. CASE Serving
    BY <2>1, <2>3, ServingHead DEF Serving, InService, Live, Last, LifeStage
  <2> QED  BY <1>1, <2>1, <2>2, <2>3
<1>4. CASE DoWriteFails
  <2>1. Doing("write") /\ log' = log /\ Head(todo).skip \in Nat
    BY <1>0, <1>4, HeadType DEF DoWriteFails, channels
  <2>2. CASE status = "starting"
    BY <1>4, <2>2 DEF DoWriteFails, Over, LifeStage
  <2>3. CASE status # "starting"
    <3>1. Serving
      BY <1>1, <2>1, <2>3 DEF Connecting
    <3>2. todo' \in Seq(PlainStep) /\ status' = status
      BY <1>4, <2>1, <2>3, <3>1, SuffixType DEF DoWriteFails, Serving
    <3> QED  BY <2>1, <3>1, <3>2 DEF Serving, InService, Live, Last, LifeStage
  <2> QED  BY <2>2, <2>3
<1>5. CASE DoAwait
  <2>1. Serving /\ UNCHANGED <<status, log>> /\ todo # <<>>
    BY <1>1, <1>5 DEF DoAwait, Doing, session, channels
  <2>2. Head(todo).item \in CommandItem /\ Tail(todo) \in Seq(PlainStep)
    BY <1>0, <1>5, <2>1, HeadType, ServingHead DEF DoAwait
  <2>3. AnswerSteps(Head(todo).item) \in Seq(PlainStep)
    BY <2>2, AnswerLists
  <2>4. todo' \in Seq(PlainStep)
    BY <1>5, <2>2, <2>3, ConcatProperties, EmptySeq DEF DoAwait
  <2> QED  BY <2>1, <2>4 DEF Serving, InService, Live, Last, LifeStage
<1>6. CASE DoClose
  <2>1. Leaving /\ todo' = ExitSteps /\ UNCHANGED <<status, log>>
    BY <1>1, <1>6, ListShapes DEF DoClose, session
  <2> QED  BY <2>1 DEF Leaving, Live, Last, LifeStage
<1>7. CASE DoRun
  <2>1. Entering /\ status' = "running" /\ log' = log /\ todo' = Tail(todo)
    BY <1>1, <1>7 DEF DoRun, channels
  <2>2. todo' = <<>>
    BY <2>1, StartShapes DEF Entering
  <2> QED  BY <2>1, <2>2, EmptySeq DEF Entering, Serving, InService, Live, Last, LifeStage
<1>8. CASE DoStop
  BY <1>8 DEF DoStop, Over, LifeStage
<1> QED  BY <1>2, <1>3, <1>4, <1>5, <1>6, <1>7, <1>8 DEF TaskStep

LEMMA LifeSelect ==
  ASSUME Life, Select, app # "gone"
  PROVE  LifeStage'
<1>0. TypeOK /\ LifeStage
  BY DEF Life, Requests, SaysWhereItIs
<1>1. CASE IdleTurn
  <2>1. UNCHANGED <<todo, status, log>>
    BY <1>1 DEF IdleTurn, vars, session, channels
  <2> QED  BY <1>0, <2>1
           DEF LifeStage, Connecting, Entering, Serving, Deactivating, Doing, InService,
               Leaving, Left, Over, Live, Last
<1>2. CASE ~IdleTurn
  <2>1. todo = <<>> /\ UNCHANGED <<status, log>> /\ status = "running"
    BY <1>2 DEF Select, HandleMessage, HandleAddRenderer, HandleRemoveRenderer,
                HandleSessionState, HandleRendererStateUpdated, HandleSetState,
                HandleSetVolume, HandleSetActive, HandleSetInactive, HandleOther,
                HandleStreamEnd, Takes, Tick, TakeCommand, AtSelect, session, channels
  <2>2. Serving
    <3>1. ~Connecting /\ ~Entering /\ ~Over
      BY <2>1 DEF Connecting, Entering, Over
    <3>2. ~Deactivating /\ ~Leaving /\ ~Left
      BY <2>1, ListShapes DEF Deactivating, Doing, Leaving, Left
    <3> QED  BY <1>0, <3>1, <3>2 DEF LifeStage
  <2>3. \/ todo' \in Seq(PlainStep) \/ EndsByDeactivation' \/ todo' = ExitSteps
    <3>1. CASE HandleMessage
      BY <1>0, <3>1, MessageLeaves
    <3>2. CASE Tick
      <4> DEFINE h == Mk("Heartbeat", "timer", beats + 1, 0)
      <4>1. h \in CommandItem
        BY <1>0 DEF TypeOK, Mk, CommandItem, Items, CommandKinds, Origins
      <4>2. todo' = Ask(h)
        BY <3>2 DEF Tick
      <4> HIDE DEF h
      <4> QED  BY <4>1, <4>2, AskLists
    <3>3. CASE TakeCommand
      <4> DEFINE w == Write(As(ReportMessage[Head(commands).kind], Head(commands)))
      <4>1. todo' = <<w>> /\ w.op = "write"
        BY <3>3 DEF TakeCommand, Write, Op
      <4>2. todo' \in Seq(Step)
        BY <1>0, TypeSelect DEF TypeOK
      <4> HIDE DEF w
      <4>3. w \in PlainStep
        BY <4>1, <4>2 DEF PlainStep
      <4> QED  BY <4>1, <4>3
    <3> QED  BY <1>2, <3>1, <3>2, <3>3 DEF Select
  <2>4. InService'
    BY <2>1, <2>2 DEF Serving, InService, Live, Last
  <2>5. CASE todo' \in Seq(PlainStep)
    BY <2>4, <2>5 DEF Serving, LifeStage
  <2>6. CASE EndsByDeactivation'
    BY <2>4, <2>6 DEF EndsByDeactivation, Deactivating, LifeStage
  <2>7. CASE todo' = ExitSteps
    BY <2>4, <2>7 DEF InService, Leaving, LifeStage
  <2> QED  BY <2>3, <2>5, <2>6, <2>7
<1> QED  BY <1>1, <1>2

LEMMA LifeInductive ==
  /\ Init => Life
  /\ Life /\ [Next]_vars => Life'
<1>1. Init => Life
  <2> SUFFICES ASSUME Init PROVE Connecting
    BY RequestsInductive DEF Life, SaysWhereItIs, LifeStage
  <2> QED  BY StartShapes DEF Init, Connecting, Last
<1>2. Life /\ [Next]_vars => Life'
  <2> SUFFICES ASSUME Life, [Next]_vars, app' # "gone" PROVE LifeStage'
    BY RequestsInductive DEF Life, SaysWhereItIs
  <2>1. app # "gone"
    BY DEF Next, TaskStep, DoEmit, DoWrite, DoWriteFails, DoAwait, DoClose, DoRun, DoStop,
           Select, HandleMessage, HandleAddRenderer, HandleRemoveRenderer,
           HandleSessionState, HandleRendererStateUpdated, HandleSetState,
           HandleSetVolume, HandleSetActive, HandleSetInactive, HandleOther,
           HandleStreamEnd, Takes, Tick, IdleTurn, TakeCommand, Application, Recv, Respond,
           DropResponder, DropHandle, FinishReport, AbandonReport, StartReport, AppFree,
           Environment,
           ServerSends, LinkBreaks, Finished, vars, user
  <2>2. CASE Application \/ Environment \/ Finished \/ UNCHANGED vars
    <3>1. UNCHANGED <<todo, status, log>>
      BY <2>2 DEF Application, Recv, Respond, DropResponder, DropHandle, FinishReport,
                  AbandonReport, StartReport, Environment, ServerSends, LinkBreaks, Finished, vars,
                  session, channels
    <3> QED  BY <2>1, <3>1
             DEF Life, SaysWhereItIs, LifeStage, Connecting, Entering, Serving, Deactivating,
                 Doing, InService, Leaving, Left, Over, Live, Last
  <2> QED  BY <2>1, <2>2, LifeTask, LifeSelect DEF Next
<1> QED  BY <1>1, <1>2

\* Until the application leaves, what the session last said and what it has left
\* to do are those of one stage of its life.
THEOREM StageIsKnown == Spec => []SaysWhereItIs
<1>1. Life => SaysWhereItIs
  BY DEF Life
<1> QED  BY <1>1, LifeInductive, PTL DEF Spec

-----------------------------------------------------------------------------
(* The refinement: saying an event is Says, an answer or its loss is       *)
(* Answered, and every other step stutters.                                *)

\* What is said next may follow what was said before.
LEMMA SaidInOrder ==
  ASSUME Life, DoEmit, app # "gone"
  PROVE  Protocol!MayFollow(Head(todo).item.kind)
<1> DEFINE k == Head(todo).item.kind
<1>0. TypeOK /\ LifeStage /\ todo # <<>> /\ Head(todo).op = "emit"
  BY LastSaid DEF Life, Requests, SaysWhereItIs
<1>1. Protocol!Last = Last /\ Protocol!Live = Live
  BY DEF Protocol!Last, Protocol!Live, Last, Live
<1>2. CASE Connecting
  <2>1. k = "Connected"
    BY <1>0, <1>2, StartShapes DEF Connecting, Emit, Op, Own, Mk
  <2> QED  BY <1>1, <1>2, <2>1 DEF Connecting, Protocol!MayFollow
<1>3. CASE Serving
  <2>1. k \notin Lifecycle
    BY <1>0, <1>3, ServingHead DEF PlainStep
  <2> QED  BY <1>1, <1>3, <2>1 DEF Serving, InService, Lifecycle, Protocol!MayFollow
<1>4. CASE Deactivating
  BY <1>1, <1>4 DEF Deactivating, InService, Protocol!MayFollow
<1>5. CASE Leaving
  <2>1. k = "Disconnected"
    BY <1>0, <1>5, ListShapes DEF Leaving, Emit, Op, Own, Mk
  <2> QED  BY <1>1, <1>5, <2>1 DEF Leaving, Protocol!MayFollow
<1>6. CASE Left
  <2>1. todo = Tail(ExitSteps) /\ Last = "Disconnected"
    BY <1>0, <1>6, ListShapes DEF Left
  <2>2. k = "SessionClosed"
    BY <2>1, ListShapes DEF Emit, Op, Own, Mk
  <2> QED  BY <1>1, <2>1, <2>2 DEF Protocol!MayFollow
<1>7. ~Entering /\ ~Over
  BY <1>0, StartShapes DEF Entering, Over
<1> QED  BY <1>0, <1>2, <1>3, <1>4, <1>5, <1>6, <1>7 DEF LifeStage

LEMMA SayingRefines ==
  ASSUME Life, DoEmit
  PROVE  [Protocol!Next]_<<log, Unanswered>>
<1>0. TypeOK /\ Requests
  BY DEF Life, Requests
<1>1. reply = "none" /\ ~Unanswered
  BY <1>0 DEF DoEmit, Requests, OneCommandOutstanding, NothingAsked, AboutToAsk, Asked,
              Doing, Unanswered
<1>2. CASE app = "gone"
  <2>1. log' = log /\ reply' \in {"none", "dropped"}
    BY <1>1, <1>2 DEF DoEmit, NoReceiver
  <2> QED  BY <1>1, <2>1 DEF Unanswered
<1>3. CASE app # "gone"
  <2> DEFINE x == Head(todo).item
  <2>1. x \in EventItem /\ log \in Seq(EventItem)
    BY <1>0, HeadType DEF DoEmit, TypeOK
  <2>2. log' = Append(log, x)
    BY <1>3 DEF DoEmit, NoReceiver
  <2>3. Unanswered' = (x.kind \in CommandKinds)
    BY <1>1, <1>3 DEF DoEmit, NoReceiver, Unanswered
  <2>4. Last' = x.kind /\ LifeStage /\ LifeStage' /\ x.kind \in EventKinds
    BY <1>0, <1>3, LastSaid, LifeEmit DEF Life, SaysWhereItIs
  <2>5. Protocol!MayFollow(x.kind)
    BY <1>3, <2>4, SaidInOrder DEF DoEmit
  <2> HIDE DEF x
  <2>6. log'[Len(log) + 1] = x /\ Len(log') = Len(log) + 1
    BY <2>1, <2>2, AppendProperties, LenProperties
  <2>7. Protocol!Says
    BY <1>1, <2>2, <2>3, <2>5, <2>6 DEF Protocol!Says
  <2> QED  BY <2>7 DEF Protocol!Next
<1> QED  BY <1>2, <1>3

LEMMA StepRefines ==
  Life /\ [Next]_vars => [Protocol!Next]_<<log, Unanswered>>
<1> SUFFICES ASSUME Life, [Next]_vars PROVE [Protocol!Next]_<<log, Unanswered>>
  OBVIOUS
<1>1. CASE DoEmit
  BY <1>1, SayingRefines
<1>2. CASE TaskStep /\ ~DoEmit
  <2>1. log' = log
    BY <1>2 DEF TaskStep, DoWrite, DoWriteFails, DoAwait, DoClose, DoRun, DoStop, channels
  <2>2. Unanswered' = Unanswered
    <3>1. CASE DoAwait
      BY <3>1 DEF DoAwait, Unanswered
    <3>2. CASE ~DoAwait
      BY <1>2, <3>2 DEF TaskStep, DoWrite, DoWriteFails, DoClose, DoRun, DoStop, Unanswered
    <3> QED  BY <3>1, <3>2
  <2> QED  BY <2>1, <2>2
<1>3. CASE Select
  <2>1. UNCHANGED <<log, reply>>
    BY <1>3 DEF Select, HandleMessage, HandleAddRenderer, HandleRemoveRenderer,
                HandleSessionState, HandleRendererStateUpdated, HandleSetState,
                HandleSetVolume, HandleSetActive, HandleSetInactive, HandleOther,
                HandleStreamEnd, Takes, Tick, IdleTurn, TakeCommand, channels, vars
  <2> QED  BY <2>1 DEF Unanswered
<1>4. CASE Application
  <2>1. log' = log
    BY <1>4 DEF Application, Recv, Respond, DropResponder, DropHandle, FinishReport,
                AbandonReport, StartReport, channels
  <2>2. CASE Recv
    <3>1. app # "gone" /\ got' = got + 1 /\ got' \in got + 1 .. Len(log)
      BY <2>2, LenProperties DEF Recv, AppFree, Life, Requests, TypeOK
    <3>2. log[got'].kind \in CommandKinds => reply = "queued"
      BY <3>1 DEF Life, Requests, UnreceivedCommandIsLast
    <3>3. Unanswered' = Unanswered
      BY <2>2, <3>2 DEF Recv, Unanswered
    <3> QED  BY <2>1, <3>3
  <2>3. CASE Respond \/ DropResponder
    <3>1. Unanswered = TRUE /\ Unanswered' = FALSE
      BY <2>3 DEF Respond, DropResponder, Unanswered
    <3> QED  BY <2>1, <3>1 DEF Protocol!Answered, Protocol!Next
  <2>4. CASE DropHandle
    <3>1. Unanswered' = Unanswered \/ (Unanswered = TRUE /\ Unanswered' = FALSE)
      BY <2>4 DEF DropHandle, Unanswered
    <3> QED  BY <2>1, <3>1 DEF Protocol!Answered, Protocol!Next
  <2>5. CASE FinishReport \/ AbandonReport \/ \E kind \in ReportKinds : StartReport(kind)
    BY <2>1, <2>5 DEF FinishReport, AbandonReport, StartReport, Unanswered
  <2> QED  BY <1>4, <2>2, <2>3, <2>4, <2>5 DEF Application
<1>5. CASE Environment \/ Finished \/ UNCHANGED vars
  BY <1>5 DEF Environment, ServerSends, LinkBreaks, Finished, vars, channels, Unanswered
<1> QED  BY <1>1, <1>2, <1>3, <1>4, <1>5 DEF Next

\* The runner implements SessionProtocol: whatever the server sends, the link
\* does and the application answers, the application reads Connected first, one
\* command at a time with nothing after it until it is answered, nothing after a
\* deactivation that ends the session but its end, Disconnected and SessionClosed
\* last and once.
THEOREM RunnerImplementsProtocol == Spec => ImplementsProtocol
<1>1. Init => Protocol!Init
  BY DEF Init, Protocol!Init, Unanswered
<1> QED  BY <1>1, LifeInductive, StepRefines, PTL DEF Spec, Protocol!Spec, ImplementsProtocol

-----------------------------------------------------------------------------
(* What a turn of select! leaves to do: nothing that is an answer yet, and *)
(* nothing caused by another message or tick than the one just taken.      *)

Requesters == {"server", "timer"}

IsAnswer(x) ==
  /\ x.from \in Requesters
  /\ x.kind \in {"StateUpdated", "VolumeChanged", "VolumeMuted", "MaxAudioQualityChanged"}

CausedBy(c) == {s \in Step : s.item.from \in Requesters => Cause(s.item) = c}

FreshStep(c) == {s \in CausedBy(c) : s.op = "write" => ~IsAnswer(s.item)}

LEMMA FreshEmit ==
  ASSUME NEW m \in ServerItem, NEW k \in EventKinds
  PROVE  Emit(As(k, m)) \in FreshStep(Cause(m))
<1>1. As(k, m) \in EventItem /\ Emit(As(k, m)) \in Step
  BY ServerEventType, StepTypes
<1>2. Cause(As(k, m)) = Cause(m)
  BY DEF As, ServerItem, Items, Cause
<1> QED  BY <1>1, <1>2 DEF FreshStep, CausedBy, Emit, Op

LEMMA FreshWrite ==
  ASSUME NEW m \in ServerItem,
         NEW k \in {"AskForRendererState", "AskForQueueState", "SetActiveRenderer"}
  PROVE  /\ Write(As(k, m)) \in FreshStep(Cause(m))
         /\ \A r \in Int : /\ Write([As(k, m) EXCEPT !.ref = r]) \in FreshStep(Cause(m))
                           /\ WriteOrSkip([As(k, m) EXCEPT !.ref = r], 1) \in FreshStep(Cause(m))
<1>1. As(k, m) \in WireItem /\ \A r \in Int : [As(k, m) EXCEPT !.ref = r] \in WireItem
  BY ServerWireType DEF WireKinds
<1>2. /\ Cause(As(k, m)) = Cause(m) /\ ~IsAnswer(As(k, m))
      /\ \A r \in Int : /\ Cause([As(k, m) EXCEPT !.ref = r]) = Cause(m)
                        /\ ~IsAnswer([As(k, m) EXCEPT !.ref = r])
  BY DEF As, ServerItem, Items, Cause, IsAnswer
<1> QED  BY <1>1, <1>2, StepTypes DEF FreshStep, CausedBy, Write, WriteOrSkip, Op

LEMMA FreshDispatch ==
  ASSUME NEW m \in ServerItem
  PROVE  Dispatch(m) \in Seq(FreshStep(Cause(m)))
<1>1. CASE m.kind \in DOMAIN DispatchTable
  <2>1. DispatchTable[m.kind] \in EventKinds
    BY <1>1 DEF DispatchTable, EventKinds, NotificationKinds
  <2> QED  BY <1>1, <2>1, FreshEmit DEF Dispatch
<1>2. CASE m.kind \notin DOMAIN DispatchTable
  BY <1>2 DEF Dispatch
<1> QED  BY <1>1, <1>2

LEMMA FreshRegister ==
  ASSUME NEW m \in ServerItem
  PROVE  RegisterSteps(m) \in Seq(FreshStep(Cause(m)))
<1>1. Emit(As("DeviceRegistered", m)) \in FreshStep(Cause(m))
  BY FreshEmit DEF EventKinds, NotificationKinds
<1>2. ActivateSteps(m) \in Seq(FreshStep(Cause(m)))
  <2>1. m.ref \in Nat /\ As("SetActiveRenderer", m).ref = m.ref
    BY DEF As, ServerItem, Items
  <2>2. WriteOrSkip([As("SetActiveRenderer", m) EXCEPT !.ref = AsI32(m.ref)], 1)
          \in FreshStep(Cause(m))
    BY <2>1, AsI32Type, FreshWrite
  <2> QED  BY <2>1, <2>2 DEF ActivateSteps
<1> QED  BY <1>1, <1>2, FreshDispatch DEF RegisterSteps

LEMMA FreshEnd ==
  ASSUME NEW c
  PROVE  ExitSteps \in Seq(FreshStep(c)) /\ CloseSteps \in Seq(FreshStep(c))
<1>1. \A k \in {"Closed", "Disconnected", "SessionClosed"} : Own(k).from \notin Requesters
  BY DEF Own, Mk, Requesters
<1>2. /\ Emit(Own("Disconnected")) \in FreshStep(c) /\ Emit(Own("SessionClosed")) \in FreshStep(c)
      /\ Op("stop", Own("SessionClosed")) \in FreshStep(c)
      /\ Op("close", Own("Closed")) \in FreshStep(c)
  BY <1>1, StepTypes, OwnTypes DEF FreshStep, CausedBy, Emit, Op
<1> QED  BY <1>2 DEF ExitSteps, CloseSteps

LEMMA FreshAsk ==
  ASSUME NEW x \in CommandItem
  PROVE  Ask(x) \in Seq(FreshStep(Cause(x)))
<1>1. /\ Emit(x) \in Step /\ Emit(x).op = "emit" /\ Emit(x).item = x
      /\ Await(x) \in Step /\ Await(x).op = "await" /\ Await(x).item = x
  BY StepTypes DEF CommandItem, EventItem, Items, EventKinds, Emit, Await, Op
<1>2. Emit(x) \in FreshStep(Cause(x)) /\ Await(x) \in FreshStep(Cause(x))
  BY <1>1 DEF FreshStep, CausedBy
<1> QED  BY <1>2 DEF Ask

\* The oneshot that will be awaited is that of the command being asked.
AwaitsWhatItAsks ==
  Doing("emit") /\ IsAsk(Head(todo)) => Head(Tail(todo)).item = Head(todo).item

LEMMA QuietAsksNothing == todo' \in Seq(QuietStep) => AwaitsWhatItAsks'
<1> SUFFICES ASSUME todo' \in Seq(QuietStep), todo' # <<>> PROVE ~IsAsk(Head(todo'))
  BY DEF AwaitsWhatItAsks, Doing
<1>1. Head(todo') \in QuietStep
  BY HeadTailProperties
<1> QED  BY <1>1 DEF QuietStep

LEMMA AskAwaitsIt ==
  ASSUME NEW x \in CommandItem, NEW s \in Seq(Step), todo' = Ask(x) \o s
  PROVE  AwaitsWhatItAsks'
<1>1. Emit(x) \in Step /\ Await(x) \in Step /\ Emit(x).item = x /\ Await(x).item = x
  BY StepTypes DEF CommandItem, EventItem, Items, EventKinds, Emit, Await, Op
<1>2. Head(todo') = Emit(x) /\ Head(Tail(todo')) = Await(x)
  BY <1>1 DEF Ask
<1> QED  BY <1>1, <1>2 DEF AwaitsWhatItAsks

\* After a message was taken, what is left is fresh and caused by that message.
LEMMA MessageLeavesFresh ==
  ASSUME TypeOK, HandleMessage
  PROVE  /\ todo' \in Seq(FreshStep(Cause(Head(inbox))))
         /\ AwaitsWhatItAsks'
<1> DEFINE m == Head(inbox)
           F == FreshStep(Cause(m))
<1>0. ASSUME todo' \in Seq(MildStep) PROVE AwaitsWhatItAsks'
  BY <1>0, MildLists, QuietAsksNothing
<1>1. CASE HandleAddRenderer
  <2>1. m \in ServerItem
    BY <1>1, TakesType DEF HandleAddRenderer
  <2>2. todo' \in {RegisterSteps(m), Dispatch(m)}
    BY <1>1 DEF HandleAddRenderer
  <2> QED  BY <1>0, <2>1, <2>2, FreshRegister, FreshDispatch, MildRegister, MildDispatch
<1>2. CASE HandleRemoveRenderer
  BY <1>0, <1>2, TakesType, FreshDispatch, MildDispatch DEF HandleRemoveRenderer
<1>3. CASE HandleSessionState
  <2>1. m \in ServerItem
    BY <1>3, TakesType DEF HandleSessionState
  <2> DEFINE w == Write(As("AskForRendererState", m))
  <2>2. w \in MildStep /\ w \in F
    BY <2>1, MildServerWrite, FreshWrite DEF WireKinds
  <2>3. todo' = <<w>> \o Dispatch(m)
    BY <1>3 DEF HandleSessionState
  <2> HIDE DEF w
  <2>4. todo' \in Seq(MildStep) /\ todo' \in Seq(F)
    BY <2>1, <2>2, <2>3, MildDispatch, FreshDispatch
  <2> QED  BY <1>0, <2>4
<1>4. CASE HandleRendererStateUpdated
  <2>1. m \in ServerItem
    BY <1>4, TakesType DEF HandleRendererStateUpdated
  <2>2. \A k \in {"RestoreState", "RendererStateUpdated"} :
          Emit(As(k, m)) \in MildStep /\ Emit(As(k, m)) \in F
    BY <2>1, MildEmit, FreshEmit DEF NotificationKinds, Lifecycle, EventKinds
  <2>3. PICK e \in {Emit(As("RestoreState", m)), Emit(As("RendererStateUpdated", m))} :
          todo' = <<e>>
    BY <1>4 DEF HandleRendererStateUpdated
  <2>4. e \in MildStep /\ e \in F
    BY <2>2
  <2>5. todo' \in Seq(MildStep) /\ todo' \in Seq(F)
    BY <2>3, <2>4
  <2> QED  BY <1>0, <2>5
<1>5. ASSUME NEW s \in Seq(MildStep), s \in Seq(F), m \in CommandItem, todo' = Ask(m) \o s
      PROVE  todo' \in Seq(F) /\ AwaitsWhatItAsks'
  <2>1. s \in Seq(Step)
    BY SeqMonotonic DEF MildStep
  <2> QED  BY <1>5, <2>1, AskAwaitsIt, FreshAsk, ConcatProperties
<1>6. CASE HandleSetState
  <2>1. m \in ServerItem
    BY <1>6, TakesType DEF HandleSetState
  <2>2. CASE m.kind = "SetState"
    <3>1. m \in CommandItem
      BY <2>1, <2>2 DEF ServerItem, CommandItem, Items, CommandKinds, Origins
    <3>2. Ask(m) \o <<>> = Ask(m)
      BY <3>1, AskType, ConcatEmptySeq
    <3>3. todo' = Ask(m) \o <<>>
      BY <1>6, <2>2, <3>2 DEF HandleSetState
    <3> QED  BY <1>5, <3>1, <3>3, EmptySeq
  <2>3. CASE m.kind # "SetState"
    BY <1>0, <1>6, <2>3, EmptySeq DEF HandleSetState
  <2> QED  BY <2>2, <2>3
<1>7. CASE HandleSetVolume
  <2>1. m \in ServerItem /\ m.kind = "SetVolume"
    BY <1>7, TakesType DEF HandleSetVolume
  <2>2. m \in CommandItem
    BY <2>1 DEF ServerItem, CommandItem, Items, CommandKinds, Origins
  <2>3. todo' = Ask(m) \o <<>>
    BY <1>7, <2>2, AskType, ConcatEmptySeq DEF HandleSetVolume
  <2> QED  BY <1>5, <2>2, <2>3, EmptySeq
<1>8. CASE HandleSetActive
  <2>1. m \in ServerItem /\ m.kind = "SetActive"
    BY <1>8, TakesType DEF HandleSetActive
  <2>2. m \in CommandItem
    BY <2>1 DEF ServerItem, CommandItem, Items, CommandKinds, Origins
  <2> DEFINE w == Write([As("AskForQueueState", m) EXCEPT !.ref = session_uuid])
  <2>3. w \in MildStep /\ w \in F
    BY <2>1, MildServerWrite, FreshWrite DEF WireKinds, TypeOK
  <2>4. todo' = Ask(m) \o <<w>>
    BY <1>8 DEF HandleSetActive
  <2> HIDE DEF w
  <2>5. <<w>> \in Seq(MildStep) /\ <<w>> \in Seq(F)
    BY <2>3
  <2> QED  BY <1>5, <2>2, <2>4, <2>5
<1>9. CASE HandleSetInactive
  <2>1. m \in ServerItem
    BY <1>9, TakesType DEF HandleSetInactive
  <2>2. todo' = InactiveSteps(m)
    BY <1>9 DEF HandleSetInactive
  <2> DEFINE d == Emit(As("Deactivated", m))
  <2>3. d \in F
    BY <2>1, FreshEmit DEF EventKinds, NotificationKinds
  <2>4. InactiveSteps(m) = <<d>> \o (IF auto_activate THEN CloseSteps ELSE <<>>)
    BY DEF InactiveSteps
  <2> HIDE DEF d
  <2>5. CloseSteps \in Seq(F)
    BY FreshEnd
  <2> HIDE DEF F
  <2>6. InactiveSteps(m) \in Seq(F)
    <3>1. <<d>> \in Seq(F)
      BY <2>3
    <3>2. CASE auto_activate
      BY <2>4, <2>5, <3>1, <3>2, ConcatProperties
    <3>3. CASE ~auto_activate
      BY <2>4, <3>1, <3>3, ConcatEmptySeq
    <3> QED  BY <3>2, <3>3
  <2> QED  BY <2>1, <2>2, <2>6, QuietLists, QuietAsksNothing DEF F
<1>10. CASE HandleOther
  BY <1>0, <1>10, TakesType, FreshDispatch, MildDispatch DEF HandleOther
<1>11. CASE HandleStreamEnd
  BY <1>11, FreshEnd, QuietLists, QuietAsksNothing DEF HandleStreamEnd
<1> QED  BY <1>1, <1>2, <1>3, <1>4, <1>6, <1>7, <1>8, <1>9, <1>10, <1>11
         DEF HandleMessage

\* So it is after any turn of select!; a tick is its own cause, and a report is
\* caused by no request.
LEMMA SelectLeavesFresh ==
  ASSUME TypeOK, Select, ~IdleTurn
  PROVE  /\ todo = <<>>
         /\ AwaitsWhatItAsks'
         /\ \/ HandleMessage /\ todo' \in Seq(FreshStep(Cause(Head(inbox))))
            \/ Tick /\ todo' \in Seq(FreshStep(<<"timer", beats + 1>>))
            \/ TakeCommand /\ \A c : todo' \in Seq(FreshStep(c))
<1>1. CASE HandleMessage
  <2>1. todo = <<>>
    BY <1>1 DEF HandleMessage, HandleAddRenderer, HandleRemoveRenderer, HandleSessionState,
                HandleRendererStateUpdated, HandleSetState, HandleSetVolume, HandleSetActive,
                HandleSetInactive, HandleOther, HandleStreamEnd, Takes, AtSelect
  <2> QED  BY <1>1, <2>1, MessageLeavesFresh
<1>2. CASE Tick
  <2> DEFINE h == Mk("Heartbeat", "timer", beats + 1, 0)
  <2>1. h \in CommandItem /\ Cause(h) = <<"timer", beats + 1>>
    BY DEF TypeOK, Mk, CommandItem, Items, CommandKinds, Origins, Cause
  <2>2. todo' = Ask(h) /\ todo = <<>>
    BY <1>2 DEF Tick, AtSelect
  <2> HIDE DEF h
  <2>3. todo' = Ask(h) \o <<>>
    BY <2>1, <2>2, AskType, ConcatEmptySeq
  <2> QED  BY <1>2, <2>1, <2>2, <2>3, AskAwaitsIt, FreshAsk, EmptySeq
<1>3. CASE TakeCommand
  <2> DEFINE w == Write(As(ReportMessage[Head(commands).kind], Head(commands)))
  <2>1. Head(commands) \in ReportItem
    BY <1>3 DEF TakeCommand, CommandReady, TypeOK
  <2>2. todo = <<>> /\ todo' = <<w>> /\ w.item.from = "app" /\ w.op = "write"
    BY <1>3, <2>1 DEF TakeCommand, AtSelect, Write, Op, As, ReportItem, Items
  <2>3. todo' \in Seq(Step)
    BY <1>3, TypeSelect DEF Select, TypeOK
  <2> HIDE DEF w
  <2>4. w \in Step
    BY <2>2, <2>3
  <2>5. w \in QuietStep /\ \A c : w \in FreshStep(c)
    BY <2>2, <2>4 DEF QuietStep, IsAsk, FreshStep, CausedBy, IsAnswer, Requesters
  <2>6. todo' \in Seq(QuietStep) /\ \A c : todo' \in Seq(FreshStep(c))
    BY <2>2, <2>5
  <2> QED  BY <1>3, <2>2, <2>6, QuietAsksNothing
<1> QED  BY <1>1, <1>2, <1>3 DEF Select

-----------------------------------------------------------------------------
(* The answers are the application's.                                      *)

\* x answers a command the application has received, as that command asks.
Belongs(x) ==
  \E j \in 1 .. got : /\ log[j].kind \in CommandKinds
                      /\ Cause(log[j]) = Cause(x)
                      /\ x.kind \in AnswerKinds(log[j].kind)

OwedStep == {s \in Step : s.op = "write" /\ IsAnswer(s.item) => Belongs(s.item)}

\* The command that is awaited is the one in the channel, or in the
\* application's hands.
AwaitedIsKnown ==
  Doing("await") =>
    /\ reply = "queued" => got < Len(log) /\ log[Len(log)] = Head(todo).item
    /\ reply \in {"held", "sent", "sent_none"} =>
         \E j \in 1 .. got : log[j] = Head(todo).item

AnswersBelong == \A i \in DOMAIN wire : IsAnswer(wire[i]) => Belongs(wire[i])

Owed ==
  /\ Requests /\ AwaitsWhatItAsks /\ AwaitedIsKnown
  /\ todo \in Seq(OwedStep)
  /\ AnswersBelong

LEMMA FreshIsOwed ==
  ASSUME NEW c, NEW s \in Seq(FreshStep(c))
  PROVE  s \in Seq(OwedStep)
<1>1. FreshStep(c) \subseteq OwedStep
  BY DEF FreshStep, CausedBy, OwedStep
<1> QED  BY <1>1, SeqMonotonic

\* What was received stays received.
LEMMA ReceivedStays ==
  ASSUME TypeOK, got' \in Nat, got' >= got, \A j \in 1 .. got : log'[j] = log[j]
  PROVE  /\ \A x : Belongs(x) => Belongs(x)'
         /\ OwedStep \subseteq OwedStep'
         /\ wire' = wire /\ AnswersBelong => AnswersBelong'
<1>1. got \in Nat
  BY LenProperties DEF TypeOK
<1>2. \A x : Belongs(x) => Belongs(x)'
  BY <1>1 DEF Belongs
<1> QED  BY <1>2 DEF OwedStep, AnswersBelong

LEMMA OwedTask == Owed /\ TaskStep => Owed'
<1> SUFFICES ASSUME Owed, TaskStep PROVE Owed'
  OBVIOUS
<1>0. TypeOK /\ Requests /\ Requests' /\ OneCommandOutstanding /\ todo \in Seq(OwedStep)
      /\ got \in Nat /\ Len(log) \in Nat /\ got <= Len(log)
  BY RequestsInductive, LenProperties DEF Owed, Requests, Next, TypeOK
\* An operation that is neither asking nor awaiting.
<1>1. ASSUME NEW op \in {"write", "close", "run", "stop"}, Doing(op),
             UNCHANGED <<got, log>>,
             \/ todo' = Tail(todo) \/ todo' = <<>>
             \/ \E n \in Nat : todo' = SubSeq(todo, 2 + n, Len(todo))
      PROVE  AwaitsWhatItAsks' /\ AwaitedIsKnown' /\ todo' \in Seq(OwedStep')
  <2>1. NothingAsked
    BY <1>0, <1>1 DEF OneCommandOutstanding, AboutToAsk, Asked, Doing
  <2>2. todo' \in Seq(QuietStep) /\ todo' \in Seq(OwedStep)
    <3>1. todo \in Seq(QuietStep) /\ todo \in Seq(OwedStep) /\ todo # <<>>
      BY <1>0, <1>1, <2>1 DEF NothingAsked, Doing
    <3> HIDE DEF QuietStep, OwedStep
    <3>2. CASE todo' = Tail(todo)
      BY <3>1, <3>2, HeadTailProperties
    <3>3. CASE todo' = <<>>
      BY <3>3, EmptySeq
    <3>4. CASE \E n \in Nat : todo' = SubSeq(todo, 2 + n, Len(todo))
      BY <3>1, <3>4, SuffixType
    <3> QED  BY <1>1, <3>2, <3>3, <3>4
  <2>3. ~Doing("await")'
    BY <2>2, HeadTailProperties DEF QuietStep, Doing
  <2>4. OwedStep' = OwedStep
    BY <1>1 DEF OwedStep, Belongs
  <2> QED  BY <2>2, <2>3, <2>4, QuietAsksNothing DEF AwaitedIsKnown
<1>2. CASE DoEmit
  <2> DEFINE x == Head(todo).item
  <2>1. x \in EventItem /\ todo # <<>> /\ Tail(todo) \in Seq(OwedStep)
        /\ todo' = Tail(todo) /\ got' = got /\ wire' = wire /\ Head(todo).op = "emit"
    BY <1>0, <1>2, HeadType, HeadTailProperties DEF DoEmit, Doing
  <2>2. log' = log \/ log' = Append(log, x)
    BY <1>2 DEF DoEmit
  <2>3. log \in Seq(EventItem)
    BY <1>0 DEF TypeOK
  <2>4. /\ \A j \in 1 .. got : log'[j] = log[j]
        /\ log' = Append(log, x) => Len(log') = Len(log) + 1 /\ log'[Len(log')] = x
    <3> HIDE DEF x
    <3> QED  BY <1>0, <2>1, <2>2, <2>3, AppendProperties
  <2>5. todo' \in Seq(OwedStep') /\ AnswersBelong'
    BY <1>0, <2>1, <2>4, ReceivedStays, SeqMonotonic DEF Owed
  <2>6. AwaitsWhatItAsks' /\ AwaitedIsKnown'
    <3>1. CASE x.kind \in CommandKinds
      <4>1. AboutToAsk
        <5>1. ~NothingAsked
          BY <2>1, <3>1, HeadTailProperties DEF NothingAsked, QuietStep, IsAsk
        <5>2. ~Asked
          BY <2>1 DEF Asked, Doing
        <5> QED  BY <1>0, <5>1, <5>2 DEF OneCommandOutstanding
      <4>2. Head(Tail(todo)).op = "await" /\ Head(Tail(todo)).item = x
        BY <4>1 DEF AboutToAsk, AwaitsWhatItAsks, Owed
      <4>3. AwaitsWhatItAsks'
        BY <2>1, <4>2 DEF AwaitsWhatItAsks, Doing
      <4>4. reply' = "dropped" \/ (reply' = "queued" /\ log' = Append(log, x))
        BY <1>2, <3>1 DEF DoEmit
      <4>5. Head(todo').item = x
        BY <2>1, <4>2
      <4>6. reply' = "queued" => got' < Len(log') /\ log'[Len(log')] = x
        BY <1>0, <2>1, <2>4, <4>4
      <4> HIDE DEF x
      <4>7. AwaitedIsKnown'
        BY <4>4, <4>5, <4>6 DEF AwaitedIsKnown
      <4> QED  BY <4>3, <4>7
    <3>2. CASE x.kind \notin CommandKinds
      <4>1. NothingAsked
        BY <1>0, <2>1, <3>2 DEF OneCommandOutstanding, AboutToAsk, Asked, IsAsk, Doing
      <4>2. todo' \in Seq(QuietStep)
        BY <2>1, <4>1, HeadTailProperties DEF NothingAsked
      <4>3. ~Doing("await")'
        BY <4>2, HeadTailProperties DEF QuietStep, Doing
      <4> QED  BY <4>2, <4>3, QuietAsksNothing DEF AwaitedIsKnown
    <3> QED  BY <3>1, <3>2
  <2> QED  BY <1>0, <2>5, <2>6 DEF Owed
<1>3. CASE DoWrite
  <2> DEFINE x == Head(todo).item
  <2>1. AwaitsWhatItAsks' /\ AwaitedIsKnown' /\ todo' \in Seq(OwedStep')
    BY <1>1, <1>3 DEF DoWrite
  <2>2. \A y : Belongs(y)' <=> Belongs(y)
    BY <1>3 DEF DoWrite, Belongs
  <2>3. IsAnswer(x) => Belongs(x)
    <3>1. Head(todo) \in OwedStep /\ Head(todo).op = "write"
      BY <1>0, <1>3, HeadTailProperties DEF DoWrite, Doing
    <3> QED  BY <3>1 DEF OwedStep
  <2>4. x \in WireItem /\ wire \in Seq(WireItem) /\ (wire' = wire \/ wire' = Append(wire, x))
    BY <1>0, <1>3, HeadType DEF DoWrite, TypeOK
  <2>5. \A i \in DOMAIN wire' : (i \in DOMAIN wire /\ wire'[i] = wire[i]) \/ wire'[i] = x
    <3> HIDE DEF x
    <3> QED  BY <2>4, AppendProperties, LenProperties
  <2>6. AnswersBelong'
    <3> HIDE DEF x
    <3> QED  BY <2>2, <2>3, <2>5 DEF AnswersBelong, Owed
  <2> QED  BY <1>0, <2>1, <2>6 DEF Owed
<1>4. ASSUME DoWriteFails \/ DoClose \/ DoRun \/ DoStop PROVE Owed'
  <2>1. UNCHANGED <<got, log, wire>>
    BY <1>4 DEF DoWriteFails, DoClose, DoRun, DoStop, channels
  <2>2. AwaitsWhatItAsks' /\ AwaitedIsKnown' /\ todo' \in Seq(OwedStep')
    <3>1. CASE DoWriteFails
      <4>1. Head(todo).skip \in Nat
        BY <1>0, <3>1, HeadType DEF DoWriteFails
      <4> QED  BY <1>1, <2>1, <3>1, <4>1 DEF DoWriteFails
    <3>2. CASE DoClose \/ DoRun \/ DoStop
      BY <1>1, <2>1, <3>2 DEF DoClose, DoRun, DoStop
    <3> QED  BY <1>4, <3>1, <3>2
  <2>3. AnswersBelong'
    BY <2>1 DEF Owed, AnswersBelong, Belongs
  <2> QED  BY <1>0, <2>2, <2>3 DEF Owed
<1>5. CASE DoAwait
  <2> DEFINE x == Head(todo).item
  <2>1. UNCHANGED <<got, log, wire>> /\ Doing("await") /\ x \in CommandItem
    BY <1>0, <1>5, HeadType DEF DoAwait, channels
  <2>2. OwedStep' = OwedStep
    BY <2>1 DEF OwedStep, Belongs
  <2>3. Tail(todo) \in Seq(OwedStep)
    BY <1>0, <2>1, HeadTailProperties DEF Doing
  <2>4. HasAnswer => AnswerSteps(x) \in Seq(OwedStep)
    <3> SUFFICES ASSUME HasAnswer PROVE AnswerSteps(x) \in Seq(OwedStep)
      OBVIOUS
    <3>1. PICK j \in 1 .. got : log[j] = x
      BY <2>1 DEF Owed, AwaitedIsKnown, HasAnswer
    <3>2. x.kind \in CommandKinds
      BY <2>1 DEF CommandItem, Items
    <3> HIDE DEF x
    <3>3. ASSUME NEW k \in AnswerKinds(x.kind), k \in WireKinds
          PROVE  /\ Write(As(k, x)) \in OwedStep
                 /\ \A n \in Nat : WriteOrSkip(As(k, x), n) \in OwedStep
      <4>1. As(k, x) \in Items(WireKinds, Origins, Nat) /\ As(k, x).kind = k
            /\ Cause(As(k, x)) = Cause(x)
        BY <2>1, <3>3, AsType DEF CommandItem, Cause
      <4>2. As(k, x) \in WireItem
        BY <4>1 DEF WireItem, Items
      <4>3. Belongs(As(k, x))
        BY <3>1, <3>2, <3>3, <4>1 DEF Belongs
      <4> QED  BY <4>2, <4>3, StepTypes DEF OwedStep, Write, WriteOrSkip, Op
    <3>4. CASE x.kind = "SetActive"
      <4>1. \A k \in {"VolumeMuted", "VolumeChanged", "MaxAudioQualityChanged"} :
              k \in AnswerKinds(x.kind) /\ k \in WireKinds
        BY <3>4 DEF AnswerKinds, WireKinds
      <4> QED  BY <3>3, <3>4, <4>1 DEF AnswerSteps, Handshake
    <3>5. CASE x.kind = "SetVolume"
      <4>1. "VolumeChanged" \in AnswerKinds(x.kind) /\ "VolumeChanged" \in WireKinds
        BY <3>5 DEF AnswerKinds, WireKinds
      <4> QED  BY <3>3, <3>5, <4>1 DEF AnswerSteps
    <3>6. CASE x.kind \notin {"SetActive", "SetVolume"}
      <4>1. "StateUpdated" \in AnswerKinds(x.kind) /\ "StateUpdated" \in WireKinds
        BY <3>6 DEF AnswerKinds, WireKinds
      <4> QED  BY <3>3, <3>6, <4>1 DEF AnswerSteps
    <3> QED  BY <3>4, <3>5, <3>6
  <2>5. todo' \in Seq(OwedStep)
    <3>1. CASE HasAnswer
      <4>1. todo' = AnswerSteps(x) \o Tail(todo)
        BY <1>5, <3>1 DEF DoAwait
      <4> QED  BY <2>3, <2>4, <3>1, <4>1, ConcatProperties
    <3>2. CASE ~HasAnswer
      <4>1. todo' = <<>> \o Tail(todo)
        BY <1>5, <3>2 DEF DoAwait
      <4> QED  BY <2>3, <4>1, ConcatEmptySeq
    <3> QED  BY <3>1, <3>2
  <2>6. todo' \in Seq(QuietStep)
    <3>1. Tail(todo) \in Seq(QuietStep)
      BY <1>0, <2>1 DEF OneCommandOutstanding, NothingAsked, AboutToAsk, Asked, Doing,
                        QuietStep
    <3>2. CASE HasAnswer
      <4>1. todo' = AnswerSteps(x) \o Tail(todo) /\ AnswerSteps(x) \in Seq(QuietStep)
        BY <1>5, <2>1, <3>2, QuietLists DEF DoAwait
      <4> QED  BY <3>1, <4>1, ConcatProperties
    <3>3. CASE ~HasAnswer
      <4>1. todo' = <<>> \o Tail(todo)
        BY <1>5, <3>3 DEF DoAwait
      <4> QED  BY <3>1, <4>1, ConcatEmptySeq
    <3> QED  BY <3>2, <3>3
  <2>7. AwaitsWhatItAsks' /\ AwaitedIsKnown'
    <3>1. ~Doing("await")'
      BY <2>6, HeadTailProperties DEF QuietStep, Doing
    <3> QED  BY <2>6, <3>1, QuietAsksNothing DEF AwaitedIsKnown
  <2>8. AnswersBelong'
    BY <2>1 DEF Owed, AnswersBelong, Belongs
  <2> QED  BY <1>0, <2>2, <2>5, <2>7, <2>8 DEF Owed
<1> QED  BY <1>2, <1>3, <1>4, <1>5 DEF TaskStep

LEMMA OwedSelect == Owed /\ Select => Owed'
<1> SUFFICES ASSUME Owed, Select PROVE Owed'
  OBVIOUS
<1>0. TypeOK /\ Requests' /\ todo \in Seq(OwedStep)
  BY RequestsInductive DEF Owed, Requests, Next
<1>1. CASE IdleTurn
  <2>1. UNCHANGED <<todo, wire, log, got, reply>>
    BY <1>1 DEF IdleTurn, vars, channels
  <2> QED  BY <1>0, <2>1
           DEF Owed, AwaitsWhatItAsks, AwaitedIsKnown, Doing, OwedStep, AnswersBelong, Belongs
<1>2. CASE ~IdleTurn
  <2>1. UNCHANGED <<wire, log, got>>
    <3>1. HandleMessage => UNCHANGED <<wire, log, got>>
      BY DEF HandleMessage, HandleAddRenderer, HandleRemoveRenderer, HandleSessionState,
             HandleRendererStateUpdated, HandleSetState, HandleSetVolume, HandleSetActive,
             HandleSetInactive, HandleOther, HandleStreamEnd, Takes
    <3> QED  BY <1>2, <3>1 DEF Select, Tick, TakeCommand, channels
  <2>2. PICK c : todo' \in Seq(FreshStep(c))
    BY <1>0, <1>2, SelectLeavesFresh
  <2>3. AwaitsWhatItAsks'
    BY <1>0, <1>2, SelectLeavesFresh
  <2>4. todo' \in Seq(OwedStep')
    <3>1. OwedStep' = OwedStep
      BY <2>1 DEF OwedStep, Belongs
    <3> QED  BY <2>2, <3>1, FreshIsOwed
  <2>5. AnswersBelong'
    BY <2>1 DEF Owed, AnswersBelong, Belongs
  <2>6. ~Doing("await")'
    <3>1. reply' = "none"
      <4>1. todo = <<>> /\ reply' = reply
        <5>1. HandleMessage => reply' = reply
          BY DEF HandleMessage, HandleAddRenderer, HandleRemoveRenderer, HandleSessionState,
                 HandleRendererStateUpdated, HandleSetState, HandleSetVolume,
                 HandleSetActive, HandleSetInactive, HandleOther, HandleStreamEnd, Takes
        <5> QED  BY <1>0, <1>2, <5>1, SelectLeavesFresh DEF Select, Tick, TakeCommand
      <4> QED  BY <4>1 DEF Owed, Requests, OneCommandOutstanding, AboutToAsk, Asked, Doing,
                          NothingAsked
    <3>2. NothingAsked' \/ AboutToAsk'
      BY <1>0, <3>1 DEF Requests, OneCommandOutstanding, Asked
    <3>3. CASE NothingAsked'
      BY <3>3, HeadTailProperties DEF NothingAsked, QuietStep, Doing
    <3>4. CASE AboutToAsk'
      BY <3>4 DEF AboutToAsk, Doing
    <3> QED  BY <3>2, <3>3, <3>4
  <2> QED  BY <1>0, <2>3, <2>4, <2>5, <2>6 DEF Owed, AwaitedIsKnown
<1> QED  BY <1>1, <1>2

LEMMA OwedApplication == Owed /\ Application => Owed'
<1> SUFFICES ASSUME Owed, Application PROVE Owed'
  OBVIOUS
<1>0. TypeOK /\ Requests' /\ todo \in Seq(OwedStep) /\ UnreceivedCommandIsLast
      /\ got \in Nat /\ Len(log) \in Nat /\ got <= Len(log)
  BY RequestsInductive, LenProperties DEF Owed, Requests, Next, TypeOK
<1>1. UNCHANGED <<todo, wire, log>> /\ got' \in Nat /\ got' >= got
  BY <1>0 DEF Application, Recv, Respond, DropResponder, DropHandle, FinishReport, AbandonReport,
              StartReport, channels
<1>2. AwaitsWhatItAsks' /\ todo' \in Seq(OwedStep') /\ AnswersBelong'
  BY <1>0, <1>1, ReceivedStays, SeqMonotonic DEF Owed, AwaitsWhatItAsks, Doing
<1>3. AwaitedIsKnown'
  <2> SUFFICES ASSUME Doing("await")' PROVE AwaitedIsKnown'
    BY DEF AwaitedIsKnown
  <2> DEFINE x == Head(todo).item
  <2>0. /\ Doing("await") /\ Head(todo').item = x /\ x \in CommandItem
        /\ reply = "queued" => got < Len(log) /\ log[Len(log)] = x
        /\ reply \in {"held", "sent", "sent_none"} => \E j \in 1 .. got : log[j] = x
    <3>1. Doing("await")
      BY <1>1 DEF Doing
    <3> QED  BY <1>0, <1>1, <3>1, HeadType DEF Owed, AwaitedIsKnown
  <2>1. CASE Recv
    <3>1. got' = got + 1 /\ app # "gone" /\ got < Len(log)
      BY <2>1 DEF Recv, AppFree
    <3>2. CASE log[got + 1].kind \in CommandKinds
      <4>1. reply = "queued" /\ got + 1 = Len(log) /\ reply' = "held"
        BY <1>0, <2>1, <3>1, <3>2 DEF UnreceivedCommandIsLast, Recv
      <4>2. log'[got'] = x /\ got' \in 1 .. got'
        BY <1>0, <1>1, <2>0, <3>1, <4>1
      <4> HIDE DEF x
      <4> QED  BY <2>0, <4>1, <4>2 DEF AwaitedIsKnown
    <3>3. CASE log[got + 1].kind \notin CommandKinds
      <4>1. reply' = reply
        BY <2>1, <3>1, <3>3 DEF Recv
      <4>2. x.kind \in CommandKinds
        BY <2>0 DEF CommandItem, Items
      <4> HIDE DEF x
      <4>3. reply = "queued" => got' < Len(log')
        BY <1>0, <1>1, <2>0, <3>1, <3>3, <4>2
      <4> QED  BY <1>0, <1>1, <2>0, <3>1, <4>1, <4>3 DEF AwaitedIsKnown
    <3> QED  BY <3>2, <3>3
  <2>2. CASE ~Recv
    <3>1. got' = got /\ (reply' = reply \/ reply' = "dropped"
                         \/ (reply = "held" /\ reply' \in {"sent", "sent_none"}))
      BY <2>2 DEF Application, Respond, DropResponder, DropHandle, FinishReport, AbandonReport,
                  StartReport, channels
    <3> HIDE DEF x
    <3> QED  BY <1>1, <2>0, <3>1 DEF AwaitedIsKnown
  <2> QED  BY <2>1, <2>2
<1> QED  BY <1>0, <1>2, <1>3 DEF Owed

\* Every answer the server reads belongs to a command the application received
\* before, and is of the type that command asks for (handle_qconnect_message and
\* the heartbeat branch: nothing is sent unless rx.await yields a response).
THEOREM AnswersBelongToTheApplication == Spec => []AnswersAreTheApplications
<1>1. Init => Owed
  <2> SUFFICES ASSUME Init PROVE Owed
    OBVIOUS
  <2>1. Requests /\ todo = StartSteps /\ wire = <<>>
    BY RequestsInductive DEF Init
  <2>2. AwaitsWhatItAsks /\ AwaitedIsKnown
    <3>1. Head(StartSteps).op = "write" /\ StartSteps # <<>>
      BY DEF StartSteps, Write, Op
    <3> QED  BY <2>1, <3>1 DEF AwaitsWhatItAsks, AwaitedIsKnown, Doing
  <2>3. todo \in Seq(OwedStep)
    <3>1. \A k \in {"Authenticate", "Subscribe", "JoinSession", "Connected"} :
            ~IsAnswer(Own(k))
      BY DEF Own, Mk, IsAnswer, Requesters
    <3>2. /\ Write(Own("Authenticate")) \in OwedStep /\ Write(Own("Subscribe")) \in OwedStep
          /\ Write(Own("JoinSession")) \in OwedStep /\ Emit(Own("Connected")) \in OwedStep
          /\ Op("run", Own("Connected")) \in OwedStep
      BY <3>1, StepTypes, OwnTypes DEF OwedStep, Write, Emit, Op
    <3> QED  BY <2>1, <3>2 DEF StartSteps
  <2>4. AnswersBelong
    BY <2>1 DEF AnswersBelong
  <2> QED  BY <2>1, <2>2, <2>3, <2>4 DEF Owed
<1>2. Owed /\ [Next]_vars => Owed'
  <2> SUFFICES ASSUME Owed, [Next]_vars PROVE Owed'
    OBVIOUS
  <2>1. CASE Environment \/ Finished \/ UNCHANGED vars
    <3>1. UNCHANGED <<todo, wire, log, got, reply>>
      BY <2>1 DEF Environment, ServerSends, LinkBreaks, Finished, vars, channels
    <3>2. Requests'
      BY RequestsInductive DEF Owed
    <3> QED  BY <3>1, <3>2
             DEF Owed, AwaitsWhatItAsks, AwaitedIsKnown, Doing, OwedStep, AnswersBelong, Belongs
  <2> QED  BY <2>1, OwedTask, OwedSelect, OwedApplication DEF Next
<1>3. Owed => AnswersAreTheApplications
  BY DEF Owed, AnswersBelong, AnswersAreTheApplications, Answers, IsAnswer, Requesters, Belongs
<1> QED  BY <1>1, <1>2, <1>3, PTL DEF Spec

-----------------------------------------------------------------------------
(* The answers come in the order of the requests.                          *)

\* The request with cause c was taken: those still to come are later ones.
Spent(c) ==
  /\ c[1] = "server" =>
       /\ c[2] <= nmsgs
       /\ \A k \in DOMAIN inbox : inbox[k].from = "server" => c[2] < inbox[k].id
  /\ c[1] = "timer" => c[2] <= beats

InboxInOrder ==
  \A k \in DOMAIN inbox : inbox[k].from = "server" =>
     /\ inbox[k].id <= nmsgs
     /\ \A l \in k + 1 .. Len(inbox) :
          inbox[l].from = "server" => inbox[k].id < inbox[l].id

IsAnswerWrite(s) == s.op = "write" /\ IsAnswer(s.item)

Distinct(list) ==
  \A k \in DOMAIN list : IsAnswerWrite(list[k]) =>
     \A l \in k + 1 .. Len(list) :
        IsAnswerWrite(list[l]) => list[l].item.kind # list[k].item.kind

\* The request being handled, of cause c: none of its answer is sent, or what is
\* left of the answer differs in kind from what is sent.
Unsent(c) ==
  /\ todo \in Seq(FreshStep(c))
  /\ \A i \in Answers : Cause(wire[i]) # c

Sending(c) ==
  /\ todo \in Seq(CausedBy(c)) /\ todo \in Seq(QuietStep)
  /\ Distinct(todo)
  /\ \A k \in DOMAIN todo : IsAnswerWrite(todo[k]) =>
       \A i \in Answers : Cause(wire[i]) = c => wire[i].kind # todo[k].item.kind

Current(c) ==
  /\ Spent(c)
  /\ \A i \in Answers : wire[i].from = c[1] => wire[i].id <= c[2]
  /\ Unsent(c) \/ Sending(c)

AnswersSpent == \A i \in Answers : Spent(Cause(wire[i]))

Ordered ==
  /\ Requests /\ InboxInOrder /\ AnswersInOrder /\ AnswersSpent
  /\ \E c \in Origins \X Nat : Current(c)

LEMMA AnswersAre ==
  /\ Answers = {i \in DOMAIN wire : IsAnswer(wire[i])}
  /\ Answers' = {i \in DOMAIN wire' : IsAnswer(wire'[i])}
BY DEF Answers, IsAnswer, Requesters

LEMMA DistinctTail ==
  ASSUME NEW S, NEW s \in Seq(S), s # <<>>, Distinct(s)
  PROVE  /\ Distinct(Tail(s))
         /\ IsAnswerWrite(Head(s)) =>
              \A k \in DOMAIN Tail(s) :
                 IsAnswerWrite(Tail(s)[k]) => Tail(s)[k].item.kind # Head(s).item.kind
<1> DEFINE t == Tail(s)
           q == Len(t)
<1>1. /\ q \in Nat /\ DOMAIN s = 1 .. q + 1 /\ Len(s) = q + 1 /\ DOMAIN t = 1 .. q
      /\ s[1] = Head(s) /\ \A i \in 1 .. q : t[i] = s[i + 1]
  BY HeadTailProperties, LenProperties
<1> HIDE DEF t, q
<1>2. Distinct(t)
  <2> SUFFICES ASSUME NEW k \in 1 .. q, IsAnswerWrite(t[k]),
                      NEW l \in k + 1 .. q, IsAnswerWrite(t[l])
               PROVE  t[l].item.kind # t[k].item.kind
    BY <1>1 DEF Distinct, q
  <2>1. /\ t[k] = s[k + 1] /\ k + 1 \in 1 .. q + 1
        /\ l \in 1 .. q /\ l + 1 \in (k + 1) + 1 .. q + 1
    BY <1>1
  <2>2. t[l] = s[l + 1]
    BY <1>1, <2>1
  <2> QED  BY <1>1, <2>1, <2>2 DEF Distinct
<1>3. ASSUME IsAnswerWrite(s[1]), NEW k \in 1 .. q, IsAnswerWrite(t[k])
      PROVE  t[k].item.kind # s[1].item.kind
  <2>1. t[k] = s[k + 1] /\ 1 \in 1 .. q + 1 /\ k + 1 \in 1 + 1 .. q + 1
    BY <1>1
  <2> QED  BY <1>1, <1>3, <2>1 DEF Distinct
<1> QED  BY <1>1, <1>2, <1>3 DEF t

LEMMA AnswerItem ==
  ASSUME TypeOK, NEW i \in Answers
  PROVE  /\ wire[i] \in WireItem /\ wire[i].id \in Nat /\ wire[i].from \in Requesters
<1>1. wire \in Seq(WireItem) /\ i \in 1 .. Len(wire)
  BY AnswersAre, LenProperties DEF TypeOK
<1>2. wire[i] \in WireItem
  BY <1>1, ElementOfSeq
<1>3. wire[i].from \in Requesters
  BY AnswersAre DEF IsAnswer
<1> QED  BY <1>2, <1>3 DEF WireItem, Items

\* Dropping the first operations of the list changes nothing that matters.
LEMMA CurrentSuffix ==
  ASSUME TypeOK, NEW c, Current(c), UNCHANGED <<wire, inbox, nmsgs, beats>>,
         NEW n \in Nat, todo' = SubSeq(todo, 2 + n, Len(todo))
  PROVE  Current(c)'
<1>1. /\ Spent(c)' /\ Answers' = Answers
      /\ \A i \in Answers' : wire'[i].from = c[1] => wire'[i].id <= c[2]
  BY AnswersAre DEF Current, Spent
<1>2. CASE Unsent(c)
  <2>1. todo' \in Seq(FreshStep(c))
    BY <1>2, SuffixType DEF Unsent
  <2> QED  BY <1>1, <1>2, <2>1 DEF Current, Unsent
<1>3. CASE Sending(c)
  <2>1. todo' \in Seq(CausedBy(c)) /\ todo' \in Seq(QuietStep)
    BY <1>3, SuffixType DEF Sending
  <2> DEFINE p == Len(todo)
             q == Len(todo')
  <2>2. /\ p \in Nat /\ q \in Nat /\ DOMAIN todo = 1 .. p /\ DOMAIN todo' = 1 .. q
        /\ q # 0 => q + 1 + n = p
        /\ \A k \in 1 .. q : todo'[k] = todo[k + 1 + n]
    <3>1. todo \in Seq(Step)
      BY DEF TypeOK
    <3>2. \A i \in 2 + n .. Len(todo) : todo[i] \in Step
      BY <3>1, ElementOfSeq, LenProperties
    <3> QED  BY <2>1, <3>1, <3>2, SubSeqProperties, LenProperties
  <2> HIDE DEF p, q
  <2>3. \A k \in 1 .. q : k + 1 + n \in 1 .. p
    BY <2>2
  <2>4. Distinct(todo)'
    <3> SUFFICES ASSUME NEW k \in 1 .. q, IsAnswerWrite(todo'[k]),
                        NEW l \in k + 1 .. q, IsAnswerWrite(todo'[l])
                 PROVE  todo'[l].item.kind # todo'[k].item.kind
      BY <2>2 DEF Distinct, q
    <3>1. k + 1 + n \in 1 .. p /\ l + 1 + n \in (k + 1 + n) + 1 .. p
      BY <2>2, <2>3
    <3>2. k \in 1 .. q /\ l \in 1 .. q
      BY <2>2
    <3>3. todo'[k] = todo[k + 1 + n] /\ todo'[l] = todo[l + 1 + n]
      BY <2>2, <3>2, Zenon
    <3> QED  BY <1>3, <2>2, <3>1, <3>3 DEF Sending, Distinct, p
  <2>5. \A k \in DOMAIN todo' : IsAnswerWrite(todo'[k]) =>
          \A i \in Answers : Cause(wire[i]) = c => wire[i].kind # todo'[k].item.kind
    BY <1>3, <2>2, <2>3 DEF Sending
  <2> QED  BY <1>1, <2>1, <2>4, <2>5 DEF Current, Sending
<1> QED  BY <1>2, <1>3 DEF Current

\* The answer to a command is of one cause, and its messages differ in kind.
LEMMA AnswerIsDistinct ==
  ASSUME NEW x \in CommandItem, NEW c, x.from \in Requesters => Cause(x) = c
  PROVE  AnswerSteps(x) \in Seq(CausedBy(c)) /\ Distinct(AnswerSteps(x))
<1>1. ASSUME NEW k \in {"VolumeMuted", "VolumeChanged", "MaxAudioQualityChanged", "StateUpdated"}
      PROVE  /\ Write(As(k, x)) \in CausedBy(c) /\ Write(As(k, x)).item.kind = k
             /\ \A n \in Nat : /\ WriteOrSkip(As(k, x), n) \in CausedBy(c)
                               /\ WriteOrSkip(As(k, x), n).item.kind = k
  <2>1. As(k, x) \in Items(WireKinds, Origins, Nat) /\ As(k, x).kind = k
        /\ As(k, x).from = x.from /\ Cause(As(k, x)) = Cause(x)
    BY <1>1, AsType DEF CommandItem, WireKinds, Cause
  <2>2. As(k, x) \in WireItem
    BY <2>1 DEF WireItem, Items
  <2> QED  BY <2>1, <2>2, StepTypes DEF CausedBy, Write, WriteOrSkip, Op
<1>2. CASE x.kind = "SetActive"
  <2> DEFINE a == WriteOrSkip(As("VolumeMuted", x), 2)
             b == WriteOrSkip(As("VolumeChanged", x), 1)
             d == Write(As("MaxAudioQualityChanged", x))
  <2>1. AnswerSteps(x) = <<a, b, d>>
    BY <1>2 DEF AnswerSteps, Handshake
  <2>2. /\ a \in CausedBy(c) /\ b \in CausedBy(c) /\ d \in CausedBy(c)
        /\ a.item.kind = "VolumeMuted" /\ b.item.kind = "VolumeChanged"
        /\ d.item.kind = "MaxAudioQualityChanged"
    BY <1>1
  <2> HIDE DEF a, b, d
  <2> QED  BY <2>1, <2>2 DEF Distinct
<1>3. CASE x.kind # "SetActive"
  <2>1. PICK w \in CausedBy(c) : AnswerSteps(x) = <<w>>
    BY <1>1, <1>3 DEF AnswerSteps
  <2> QED  BY <2>1 DEF Distinct
<1> QED  BY <1>2, <1>3

\* Sending the next message of an answer, or any other message.
LEMMA OrderedWrite ==
  ASSUME Ordered, DoWrite, link = "up"
  PROVE  Ordered'
<1> DEFINE x == Head(todo).item
           n == Len(wire) + 1
<1>0. TypeOK /\ Requests'
  BY RequestsInductive DEF Ordered, Requests, Next, TaskStep
<1>1. PICK c \in Origins \X Nat : Current(c)
  BY DEF Ordered
<1>2. /\ wire \in Seq(WireItem) /\ x \in WireItem /\ wire' = Append(wire, x)
      /\ todo \in Seq(Step) /\ todo # <<>> /\ Head(todo).op = "write" /\ todo' = Tail(todo)
      /\ UNCHANGED <<inbox, nmsgs, beats>>
  BY <1>0, HeadType DEF DoWrite, TypeOK, channels, counters, Doing
<1>3. /\ Len(wire) \in Nat /\ DOMAIN wire = 1 .. Len(wire) /\ DOMAIN wire' = 1 .. n
      /\ wire'[n] = x /\ \A i \in DOMAIN wire : wire'[i] = wire[i]
  <2> HIDE DEF x
  <2> QED  BY <1>2, AppendProperties, LenProperties
<1>4. /\ Answers' = Answers \cup (IF IsAnswer(x) THEN {n} ELSE {})
      /\ n \notin Answers
      /\ \A i \in Answers : i \in 1 .. Len(wire) /\ wire'[i] = wire[i]
  <2> HIDE DEF x, n
  <2> QED  BY <1>3, AnswersAre DEF n
<1>5. /\ todo[1] = Head(todo) /\ DOMAIN todo = 1 .. Len(todo) /\ Len(todo) \in Nat \ {0}
      /\ DOMAIN todo' = 1 .. Len(todo) - 1
      /\ \A k \in 1 .. Len(todo) - 1 : todo'[k] = todo[k + 1]
  BY <1>2, HeadTailProperties, LenProperties
<1>6. InboxInOrder' /\ \A d : Spent(d) <=> Spent(d)'
  BY <1>2 DEF Ordered, InboxInOrder, Spent
<1>7. CASE ~IsAnswer(x)
  <2>1. Answers' = Answers
    BY <1>4, <1>7
  <2>2. AnswersInOrder'
    <3> HIDE DEF x, n
    <3> QED  BY <1>4, <2>1 DEF Ordered, AnswersInOrder
  <2>3. AnswersSpent'
    <3> HIDE DEF x, n
    <3> QED  BY <1>2, <1>4, <2>1 DEF Ordered, AnswersSpent, Spent
  <2>4. Current(c)'
    <3>1. \A i \in Answers' : wire'[i].from = c[1] => wire'[i].id <= c[2]
      BY <1>1, <1>4, <2>1 DEF Current
    <3>2. CASE Unsent(c)
      <4>1. Unsent(c)'
        BY <1>2, <1>4, <2>1, <3>2, HeadTailProperties DEF Unsent
      <4> QED  BY <1>1, <1>6, <3>1, <4>1 DEF Current
    <3>3. CASE Sending(c)
      <4>1. todo' \in Seq(CausedBy(c)) /\ todo' \in Seq(QuietStep)
        BY <1>2, <3>3, HeadTailProperties DEF Sending
      <4>2. Distinct(todo')
        BY <1>2, <3>3, DistinctTail DEF Sending
      <4>3. \A k \in DOMAIN todo' : IsAnswerWrite(todo'[k]) =>
              \A i \in Answers' : Cause(wire'[i]) = c => wire'[i].kind # todo'[k].item.kind
        <5> TAKE k \in DOMAIN todo'
        <5>1. k + 1 \in DOMAIN todo /\ todo'[k] = todo[k + 1]
          BY <1>5
        <5> HIDE DEF x, n
        <5> QED  BY <1>4, <2>1, <3>3, <5>1 DEF Sending
      <4> QED  BY <1>1, <1>6, <3>1, <4>1, <4>2, <4>3 DEF Current, Sending
    <3> QED  BY <1>1, <3>2, <3>3 DEF Current
  <2> QED  BY <1>0, <1>6, <2>2, <2>3, <2>4 DEF Ordered
<1>8. CASE IsAnswer(x)
  <2>1. Answers' = Answers \cup {n}
    BY <1>4, <1>8
  <2>2. IsAnswerWrite(todo[1]) /\ x.from \in Requesters
    BY <1>2, <1>5, <1>8 DEF IsAnswerWrite, IsAnswer
  <2>3. Sending(c)
    <3>1. ASSUME Unsent(c) PROVE FALSE
      <4>1. Head(todo) \in FreshStep(c)
        BY <1>2, <3>1, HeadTailProperties DEF Unsent
      <4> QED  BY <1>2, <1>8, <4>1 DEF FreshStep
    <3> QED  BY <1>1, <3>1 DEF Current
  <2>4. Cause(x) = c /\ c = <<x.from, x.id>> /\ x.id \in Nat
    <3>1. Head(todo) \in CausedBy(c)
      BY <1>2, <2>3, HeadTailProperties DEF Sending
    <3> QED  BY <1>2, <2>2, <3>1 DEF CausedBy, Cause, WireItem, Items
  <2>5. \A i \in Answers : wire[i].from = x.from =>
          /\ wire[i].id \in Nat
          /\ wire[i].id < x.id \/ (wire[i].id = x.id /\ wire[i].kind # x.kind)
    <3> TAKE i \in Answers
    <3> HAVE wire[i].from = x.from
    <3>1. wire[i] \in WireItem
      BY <1>2, <1>4, ElementOfSeq
    <3>2. wire[i].id \in Nat /\ wire[i].id <= x.id
      BY <1>1, <2>4, <3>1 DEF Current, WireItem, Items
    <3>3. wire[i].id = x.id => wire[i].kind # x.kind
      BY <1>5, <2>2, <2>3, <2>4 DEF Sending, Cause
    <3> QED  BY <2>4, <3>2, <3>3
  <2>6. AnswersInOrder'
    <3> SUFFICES ASSUME NEW i \in Answers', NEW j \in Answers', i < j,
                        wire'[i].from = wire'[j].from
                 PROVE  \/ wire'[i].id < wire'[j].id
                        \/ wire'[i].id = wire'[j].id /\ wire'[i].kind # wire'[j].kind
      BY DEF AnswersInOrder
    <3>1. CASE j = n
      <4>1. i \in Answers
        BY <2>1, <3>1
      <4> HIDE DEF x, n
      <4> QED  BY <1>3, <1>4, <2>5, <3>1, <4>1
    <3>2. CASE j # n
      <4>1. j \in Answers /\ j \in 1 .. Len(wire)
        BY <1>4, <2>1, <3>2
      <4>2. i # n
        BY <1>3, <4>1
      <4>3. i \in Answers
        BY <2>1, <4>2
      <4> HIDE DEF x, n
      <4> QED  BY <1>4, <4>1, <4>3 DEF Ordered, AnswersInOrder
    <3> QED  BY <3>1, <3>2
  <2>7. AnswersSpent'
    <3>1. Spent(Cause(x))
      BY <1>1, <2>4 DEF Current
    <3> HIDE DEF x, n
    <3> SUFFICES ASSUME NEW i \in Answers' PROVE Spent(Cause(wire[i]))'
      BY DEF AnswersSpent
    <3>2. CASE i = n
      BY <1>2, <1>3, <3>1, <3>2 DEF Spent
    <3>3. CASE i # n
      <4>1. i \in Answers /\ wire'[i] = wire[i]
        BY <1>4, <2>1, <3>3
      <4> QED  BY <1>2, <4>1 DEF Ordered, AnswersSpent, Spent
    <3> QED  BY <3>2, <3>3
  <2>8. Current(c)'
    <3>1. \A i \in Answers' : wire'[i].from = c[1] => wire'[i].id <= c[2]
      <4> HIDE DEF x, n
      <4> QED  BY <1>1, <1>3, <1>4, <2>1, <2>4 DEF Current
    <3>2. todo' \in Seq(CausedBy(c)) /\ todo' \in Seq(QuietStep)
      BY <1>2, <2>3, HeadTailProperties DEF Sending
    <3>3. /\ Distinct(todo')
          /\ \A k \in DOMAIN todo' : IsAnswerWrite(todo'[k]) => todo'[k].item.kind # x.kind
      BY <1>2, <1>5, <2>2, <2>3, DistinctTail DEF Sending
    <3>4. \A k \in DOMAIN todo' : IsAnswerWrite(todo'[k]) =>
            \A i \in Answers' : Cause(wire'[i]) = c => wire'[i].kind # todo'[k].item.kind
      <4> TAKE k \in DOMAIN todo'
      <4> HAVE IsAnswerWrite(todo'[k])
      <4> TAKE i \in Answers'
      <4>1. k + 1 \in DOMAIN todo /\ todo'[k] = todo[k + 1]
        BY <1>5
      <4>2. x.kind # todo'[k].item.kind
        BY <3>3
      <4>3. i \in Answers => (Cause(wire[i]) = c => wire[i].kind # todo'[k].item.kind)
        BY <2>3, <4>1 DEF Sending
      <4> HIDE DEF x, n
      <4> QED  BY <1>3, <1>4, <2>1, <4>2, <4>3
    <3>5. Spent(c)'
      BY <1>1, <1>6 DEF Current
    <3> QED  BY <3>1, <3>2, <3>3, <3>4, <3>5 DEF Current, Sending
  <2> QED  BY <1>0, <1>6, <2>6, <2>7, <2>8 DEF Ordered
<1> QED  BY <1>7, <1>8

\* The response to a command becomes its answer.
LEMMA OrderedAnswer ==
  ASSUME Ordered, DoAwait, HasAnswer, NEW c, Current(c)
  PROVE  Current(c)'
<1> DEFINE x == Head(todo).item
           a == AnswerSteps(x)
           b == Tail(todo)
<1>0. TypeOK /\ OneCommandOutstanding /\ UNCHANGED <<wire, inbox, nmsgs, beats>>
      /\ Doing("await") /\ todo' = a \o b /\ x \in CommandItem
  BY HeadType DEF Ordered, Requests, DoAwait, channels, counters
<1>1. Unsent(c)
  <2>1. ASSUME todo \in Seq(QuietStep) PROVE FALSE
    BY <1>0, <2>1, HeadTailProperties DEF QuietStep, Doing
  <2> QED  BY <2>1 DEF Current, Sending
<1>2. Head(todo) \in FreshStep(c) /\ b \in Seq(FreshStep(c))
  BY <1>0, <1>1, HeadTailProperties DEF Unsent, Doing
<1>3. a \in Seq(CausedBy(c)) /\ Distinct(a)
  <2>1. x.from \in Requesters => Cause(x) = c
    BY <1>2 DEF FreshStep, CausedBy
  <2> QED  BY <1>0, <2>1, AnswerIsDistinct
<1>4. a \in Seq(QuietStep) /\ b \in Seq(QuietStep)
  <2>1. b \in Seq(QuietStep)
    BY <1>0 DEF OneCommandOutstanding, NothingAsked, AboutToAsk, Asked, Doing, QuietStep
  <2> QED  BY <1>0, <2>1, QuietLists
<1>5. b \in Seq(CausedBy(c)) /\ \A l \in DOMAIN b : ~IsAnswerWrite(b[l])
  <2>1. FreshStep(c) \subseteq CausedBy(c)
    BY DEF FreshStep
  <2>2. \A l \in DOMAIN b : b[l] \in FreshStep(c)
    BY <1>2, ElementOfSeq, LenProperties
  <2> QED  BY <1>2, <2>1, <2>2, SeqMonotonic DEF FreshStep, IsAnswerWrite
<1> HIDE DEF a, b, x
<1>6. todo' \in Seq(CausedBy(c)) /\ todo' \in Seq(QuietStep)
  BY <1>0, <1>3, <1>4, <1>5, ConcatProperties
<1>7. Distinct(todo)'
  <2>1. /\ Len(a) \in Nat /\ Len(b) \in Nat /\ DOMAIN a = 1 .. Len(a) /\ DOMAIN b = 1 .. Len(b)
        /\ DOMAIN todo' = 1 .. Len(a) + Len(b) /\ Len(todo') = Len(a) + Len(b)
        /\ \A i \in 1 .. Len(a) + Len(b) :
             todo'[i] = IF i <= Len(a) THEN a[i] ELSE b[i - Len(a)]
    BY <1>0, <1>4, ConcatProperties, LenProperties
  <2>2. \A i \in 1 .. Len(a) + Len(b) :
          IsAnswerWrite(todo'[i]) => i \in 1 .. Len(a) /\ todo'[i] = a[i]
    <3> TAKE i \in 1 .. Len(a) + Len(b)
    <3>1. CASE i <= Len(a)
      BY <2>1, <3>1
    <3>2. CASE ~(i <= Len(a))
      <4>1. i - Len(a) \in DOMAIN b /\ todo'[i] = b[i - Len(a)]
        BY <2>1, <3>2
      <4> QED  BY <1>5, <4>1
    <3> QED  BY <3>1, <3>2
  <2> SUFFICES ASSUME NEW k \in 1 .. Len(a) + Len(b), IsAnswerWrite(todo'[k]),
                      NEW l \in k + 1 .. Len(a) + Len(b), IsAnswerWrite(todo'[l])
               PROVE  todo'[l].item.kind # todo'[k].item.kind
    BY <2>1 DEF Distinct
  <2>3. l \in 1 .. Len(a) + Len(b)
    BY <2>1
  <2>4. /\ k \in DOMAIN a /\ todo'[k] = a[k]
        /\ l \in k + 1 .. Len(a) /\ todo'[l] = a[l]
    BY <2>1, <2>2, <2>3
  <2> QED  BY <1>3, <2>4 DEF Distinct
<1>8. Answers' = Answers /\ \A i \in Answers' : Cause(wire'[i]) # c
  BY <1>0, <1>1, AnswersAre DEF Unsent
<1>9. Spent(c)' /\ \A i \in Answers' : wire'[i].from = c[1] => wire'[i].id <= c[2]
  BY <1>0, <1>8 DEF Current, Spent
<1> QED  BY <1>6, <1>7, <1>8, <1>9 DEF Current, Sending

\* Steps that leave the wire and what may come as it is.
LEMMA OrderedWithout ==
  ASSUME Ordered, [Next]_vars, UNCHANGED <<wire, inbox, nmsgs, beats>>,
         \E c \in Origins \X Nat : Current(c)'
  PROVE  Ordered'
<1>1. Requests'
  BY RequestsInductive DEF Ordered
<1>2. Answers' = Answers
  BY AnswersAre
<1> QED  BY <1>1, <1>2 DEF Ordered, InboxInOrder, AnswersInOrder, AnswersSpent, Spent

LEMMA OrderedTask == Ordered /\ TaskStep => Ordered'
<1> SUFFICES ASSUME Ordered, TaskStep PROVE Ordered'
  OBVIOUS
<1>0. TypeOK /\ [Next]_vars /\ todo \in Seq(Step)
  BY DEF Ordered, Requests, Next, TypeOK
<1>1. CASE DoWrite /\ link = "up"
  BY <1>1, OrderedWrite
<1>2. CASE ~(DoWrite /\ link = "up")
  <2>1. PICK c \in Origins \X Nat : Current(c)
    BY DEF Ordered
  <2>2. UNCHANGED <<wire, inbox, nmsgs, beats>>
    BY <1>2 DEF TaskStep, DoEmit, DoWrite, DoWriteFails, DoAwait, DoClose, DoRun, DoStop,
                channels, counters
  <2>3. CASE DoAwait /\ HasAnswer
    <3>1. Current(c)'
      BY <2>1, <2>3, OrderedAnswer
    <3> QED  BY <1>0, <2>1, <2>2, <3>1, OrderedWithout
  <2>4. CASE ~(DoAwait /\ HasAnswer)
    <3>1. PICK n \in Nat : todo' = SubSeq(todo, 2 + n, Len(todo))
      <4>1. ASSUME todo # <<>>, todo' = Tail(todo) PROVE todo' = SubSeq(todo, 2 + 0, Len(todo))
        BY <1>0, <4>1, TailIsSubSeq
      <4>2. ASSUME todo' = <<>> PROVE todo' = SubSeq(todo, 2 + Len(todo), Len(todo))
        <5>1. Len(todo) \in Nat
          BY <1>0, LenProperties
        <5> QED  BY <4>2, <5>1, SubSeqEmpty
      <4>3. Len(todo) \in Nat
        BY <1>0, LenProperties
      <4>4. CASE DoWriteFails
        <5>1. Head(todo).skip \in Nat
          BY <1>0, <4>4, HeadType DEF DoWriteFails
        <5> QED  BY <4>2, <4>3, <4>4, <5>1 DEF DoWriteFails
      <4>5. CASE DoAwait
        <5>1. todo # <<>> /\ Tail(todo) \in Seq(Step) /\ todo' = <<>> \o Tail(todo)
          BY <1>0, <2>4, <4>5, HeadTailProperties DEF DoAwait, Doing
        <5>2. todo' = Tail(todo)
          BY <5>1, ConcatEmptySeq
        <5> QED  BY <4>1, <5>1, <5>2
      <4>6. CASE DoEmit \/ DoWrite \/ DoClose \/ DoRun \/ DoStop
        <5>1. todo # <<>> /\ (todo' = Tail(todo) \/ todo' = <<>>)
          BY <4>6 DEF DoEmit, DoWrite, DoClose, DoRun, DoStop, Doing
        <5> QED  BY <4>1, <4>2, <4>3, <5>1
      <4> QED  BY <4>4, <4>5, <4>6 DEF TaskStep
    <3>2. Current(c)'
      BY <1>0, <2>1, <2>2, <3>1, CurrentSuffix
    <3> QED  BY <1>0, <2>1, <2>2, <3>2, OrderedWithout
  <2> QED  BY <2>3, <2>4
<1> QED  BY <1>1, <1>2

\* A turn of select! begins with a request later than all that were answered.
LEMMA OrderedTurn ==
  ASSUME Ordered, [Next]_vars, wire' = wire, NEW c \in Origins \X Nat,
         todo' \in Seq(FreshStep(c)), InboxInOrder', AnswersSpent', Spent(c)',
         \A i \in Answers : wire[i].from = c[1] => wire[i].id < c[2]
  PROVE  Ordered'
<1>1. Requests' /\ wire \in Seq(WireItem)
  BY RequestsInductive DEF Ordered, Requests, TypeOK
<1>2. Answers' = Answers
  BY AnswersAre
<1>3. AnswersInOrder'
  BY <1>2 DEF Ordered, AnswersInOrder
<1>4. \A i \in Answers : wire[i].id \in Nat
  BY AnswerItem DEF Ordered, Requests
<1>5. Current(c)'
  <2>1. \A i \in Answers' : Cause(wire'[i]) # c
    BY <1>2, <1>4 DEF Cause
  <2>2. \A i \in Answers' : wire'[i].from = c[1] => wire'[i].id <= c[2]
    BY <1>2, <1>4
  <2> QED  BY <2>1, <2>2 DEF Current, Unsent
<1> QED  BY <1>1, <1>3, <1>5 DEF Ordered

LEMMA OrderedSelect == Ordered /\ Select => Ordered'
<1> SUFFICES ASSUME Ordered, Select PROVE Ordered'
  OBVIOUS
<1>0. TypeOK /\ [Next]_vars /\ wire \in Seq(WireItem) /\ inbox \in Seq(ServerItem)
      /\ nmsgs \in Nat /\ beats \in Nat
  BY DEF Ordered, Requests, Next, TypeOK
<1>1. ASSUME NEW i \in Answers
      PROVE  /\ Spent(Cause(wire[i])) /\ wire[i] \in WireItem
             /\ wire[i].id \in Nat /\ wire[i].from \in Requesters
  BY <1>0, AnswerItem DEF Ordered, AnswersSpent
<1>2. CASE IdleTurn
  <2>1. UNCHANGED <<wire, todo, inbox, nmsgs, beats>>
    BY <1>2 DEF IdleTurn, vars, channels, counters
  <2>2. PICK c \in Origins \X Nat : Current(c)
    BY DEF Ordered
  <2>3. Current(c)'
    BY <2>1, <2>2, AnswersAre DEF Current, Spent, Unsent, Sending, Distinct
  <2> QED  BY <1>0, <2>1, <2>2, <2>3, OrderedWithout
<1>3. ASSUME TakeCommand, \A c : todo' \in Seq(FreshStep(c)) PROVE Ordered'
  <2>1. UNCHANGED <<wire, inbox, nmsgs, beats>>
    BY <1>3 DEF TakeCommand, channels, counters
  <2>2. PICK c \in Origins \X Nat : c[1] = "session"
    <3>1. <<"session", 0>> \in Origins \X Nat /\ <<"session", 0>>[1] = "session"
      BY DEF Origins
    <3> QED  BY <3>1
  <2>3. InboxInOrder' /\ AnswersSpent' /\ Spent(c)'
    BY <2>1, <2>2, AnswersAre DEF Ordered, InboxInOrder, AnswersSpent, Spent
  <2>4. \A i \in Answers : wire[i].from # c[1]
    BY <1>1, <2>2 DEF Requesters
  <2> QED  BY <1>0, <1>3, <2>1, <2>3, <2>4, OrderedTurn
<1>4. ASSUME Tick, todo' \in Seq(FreshStep(<<"timer", beats + 1>>)) PROVE Ordered'
  <2>1. UNCHANGED <<wire, inbox, nmsgs>> /\ beats' = beats + 1
    BY <1>4 DEF Tick, channels
  <2>2. PICK c \in Origins \X Nat : c = <<"timer", beats + 1>>
    <3>1. <<"timer", beats + 1>> \in Origins \X Nat
      BY <1>0 DEF Origins
    <3> QED  BY <3>1
  <2>3. AnswersSpent'
    <3>1. Answers' = Answers
      BY <2>1, AnswersAre
    <3> SUFFICES ASSUME NEW i \in Answers PROVE Spent(Cause(wire[i]))'
      BY <3>1 DEF AnswersSpent
    <3> QED  BY <1>0, <1>1, <2>1 DEF Spent, Cause
  <2>4. InboxInOrder' /\ Spent(c)'
    BY <1>0, <2>1, <2>2 DEF Ordered, InboxInOrder, Spent
  <2>5. ASSUME NEW i \in Answers, wire[i].from = c[1] PROVE wire[i].id < c[2]
    BY <1>0, <1>1, <2>2, <2>5 DEF Spent, Cause
  <2> QED  BY <1>0, <1>4, <2>1, <2>2, <2>3, <2>4, <2>5, OrderedTurn
<1>5. ASSUME HandleMessage, todo' \in Seq(FreshStep(Cause(Head(inbox)))) PROVE Ordered'
  <2> DEFINE m == Head(inbox)
  <2>1. inbox # <<>> /\ inbox' = Tail(inbox) /\ UNCHANGED <<wire, nmsgs, beats>>
    BY <1>5 DEF HandleMessage, HandleAddRenderer, HandleRemoveRenderer, HandleSessionState,
                HandleRendererStateUpdated, HandleSetState, HandleSetVolume, HandleSetActive,
                HandleSetInactive, HandleOther, HandleStreamEnd, Takes, counters
  <2>2. /\ Len(inbox) \in Nat \ {0} /\ DOMAIN inbox = 1 .. Len(inbox) /\ inbox[1] = m
        /\ Len(inbox') = Len(inbox) - 1 /\ DOMAIN inbox' = 1 .. Len(inbox) - 1
        /\ \A k \in DOMAIN inbox' : k + 1 \in DOMAIN inbox /\ inbox'[k] = inbox[k + 1]
        /\ m \in ServerItem
    BY <1>0, <2>1, HeadTailProperties, LenProperties
  <2>3. PICK c \in Origins \X Nat : c = <<m.from, m.id>>
    BY <2>2 DEF ServerItem, Items, Origins
  <2> HIDE DEF m
  <2>4. InboxInOrder'
    <3> SUFFICES ASSUME NEW k \in DOMAIN inbox', inbox'[k].from = "server"
                 PROVE  /\ inbox'[k].id <= nmsgs'
                        /\ \A l \in k + 1 .. Len(inbox') : inbox'[l].from = "server" =>
                                                          inbox'[k].id < inbox'[l].id
      BY DEF InboxInOrder
    <3>1. k + 1 \in DOMAIN inbox /\ inbox'[k] = inbox[k + 1]
      BY <2>2
    <3>2. ASSUME NEW l \in k + 1 .. Len(inbox')
          PROVE  l + 1 \in (k + 1) + 1 .. Len(inbox) /\ inbox'[l] = inbox[l + 1]
      <4>1. l \in DOMAIN inbox'
        BY <2>2
      <4> QED  BY <2>2, <4>1
    <3> QED  BY <2>1, <3>1, <3>2 DEF Ordered, InboxInOrder
  <2>5. AnswersSpent'
    <3>1. Answers' = Answers
      BY <2>1, AnswersAre
    <3> SUFFICES ASSUME NEW i \in Answers PROVE Spent(Cause(wire[i]))'
      BY <3>1 DEF AnswersSpent
    <3> QED  BY <1>1, <2>1, <2>2 DEF Spent, Cause
  <2>6. Spent(c)'
    <3>1. m.from = "server" =>
            /\ m.id <= nmsgs
            /\ \A l \in 1 + 1 .. Len(inbox) : inbox[l].from = "server" => m.id < inbox[l].id
      BY <2>2 DEF Ordered, InboxInOrder
    <3>2. \A k \in DOMAIN inbox' : k + 1 \in 1 + 1 .. Len(inbox) /\ inbox'[k] = inbox[k + 1]
      BY <2>2
    <3>3. m.from # "timer"
      BY <2>2 DEF ServerItem, Items
    <3> QED  BY <2>1, <2>3, <3>1, <3>2, <3>3 DEF Spent
  <2>7. ASSUME NEW i \in Answers, wire[i].from = c[1] PROVE wire[i].id < c[2]
    <3>1. m.from = "server" /\ 1 \in DOMAIN inbox
      BY <1>1, <2>2, <2>3, <2>7 DEF ServerItem, Items, Requesters
    <3> QED  BY <1>1, <2>2, <2>3, <2>7, <3>1 DEF Spent, Cause
  <2>8. todo' \in Seq(FreshStep(c))
    BY <1>5, <2>3 DEF Cause, m
  <2> QED  BY <1>0, <2>1, <2>4, <2>5, <2>6, <2>7, <2>8, OrderedTurn
<1> QED  BY <1>0, <1>2, <1>3, <1>4, <1>5, SelectLeavesFresh

\* What arrives is later than what was taken; a broken connection loses the last.
LEMMA OrderedEnvironment == Ordered /\ Environment => Ordered'
<1> SUFFICES ASSUME Ordered, Environment PROVE Ordered'
  OBVIOUS
<1>0. TypeOK /\ Requests' /\ inbox \in Seq(ServerItem) /\ Len(inbox) \in Nat
      /\ DOMAIN inbox = 1 .. Len(inbox) /\ wire \in Seq(WireItem)
      /\ nmsgs \in Nat /\ UNCHANGED <<wire, todo, beats>> /\ Answers' = Answers
  BY RequestsInductive, LenProperties, AnswersAre
     DEF Ordered, Requests, Next, TypeOK, Environment, ServerSends, LinkBreaks, counters
<1>1. PICK c \in Origins \X Nat : Current(c)
  BY DEF Ordered
\* It is enough that what may still come is what could come before, or later.
<1>2. ASSUME InboxInOrder', nmsgs' \in Nat, nmsgs' >= nmsgs,
             \A k \in DOMAIN inbox' : inbox'[k].from = "server" =>
                inbox'[k].id > nmsgs \/ \E l \in DOMAIN inbox : inbox'[k] = inbox[l]
      PROVE  Ordered'
  <2>1. ASSUME NEW d, d[2] \in Nat, Spent(d) PROVE Spent(d)'
    <3>1. d[1] = "timer" => d[2] <= beats'
      BY <1>0, <2>1 DEF Spent
    <3>2. ASSUME d[1] = "server" PROVE d[2] <= nmsgs /\ d[2] <= nmsgs'
      BY <1>0, <1>2, <2>1, <3>2 DEF Spent
    <3>3. ASSUME d[1] = "server", NEW k \in DOMAIN inbox', inbox'[k].from = "server",
                 inbox'[k] \in ServerItem
          PROVE  d[2] < inbox'[k].id
      <4>1. inbox'[k].id \in Nat
        BY <3>3 DEF ServerItem, Items
      <4> QED  BY <1>0, <1>2, <2>1, <3>2, <3>3, <4>1 DEF Spent
    <3>4. \A k \in DOMAIN inbox' : inbox'[k] \in ServerItem
      <4>1. inbox' \in Seq(ServerItem)
        BY <1>0 DEF Requests, TypeOK
      <4> QED  BY <4>1, ElementOfSeq, LenProperties
    <3> QED  BY <3>1, <3>2, <3>3, <3>4 DEF Spent
  <2>2. AnswersSpent'
    <3> SUFFICES ASSUME NEW i \in Answers PROVE Spent(Cause(wire[i]))'
      BY <1>0 DEF AnswersSpent
    <3>1. Spent(Cause(wire[i])) /\ wire[i].id \in Nat
      BY <1>0, AnswerItem DEF Ordered, AnswersSpent
    <3>2. PICK d : d = Cause(wire[i])
      OBVIOUS
    <3>3. Spent(d)' /\ d[1] = wire[i].from /\ d[2] = wire[i].id
      BY <2>1, <3>1, <3>2 DEF Cause
    <3> QED  BY <1>0, <3>3 DEF Spent, Cause
  <2>3. Current(c)'
    BY <1>0, <1>1, <2>1 DEF Current, Unsent, Sending, Distinct
  <2> QED  BY <1>0, <1>2, <2>2, <2>3 DEF Ordered, AnswersInOrder
<1>3. ASSUME NEW m \in ServerMessages, ServerSends(m) PROVE Ordered'
  <2> DEFINE x == Mk(m.kind, "server", nmsgs', m.ref)
  <2>1. x.id = nmsgs + 1 /\ nmsgs' = nmsgs + 1 /\ inbox' = Append(inbox, x)
    BY <1>3 DEF ServerSends, Mk
  <2>2. x \in ServerItem
    BY <1>0, <1>3, <2>1, ConstantsAssumption DEF Mk, ServerItem, Items
  <2> HIDE DEF x
  <2>3. /\ DOMAIN inbox' = 1 .. Len(inbox) + 1 /\ Len(inbox') = Len(inbox) + 1
        /\ inbox'[Len(inbox) + 1] = x /\ \A k \in 1 .. Len(inbox) : inbox'[k] = inbox[k]
    BY <1>0, <2>1, <2>2, AppendProperties
  <2>4. InboxInOrder'
    <3>1. \A k \in 1 .. Len(inbox) : inbox[k] \in ServerItem /\ inbox[k].id \in Nat
      <4>1. \A k \in 1 .. Len(inbox) : inbox[k] \in ServerItem
        BY <1>0, ElementOfSeq
      <4> QED  BY <4>1 DEF ServerItem, Items
    <3> SUFFICES ASSUME NEW k \in 1 .. Len(inbox) + 1, inbox'[k].from = "server"
                 PROVE  /\ inbox'[k].id <= nmsgs'
                        /\ \A l \in k + 1 .. Len(inbox) + 1 : inbox'[l].from = "server" =>
                                                             inbox'[k].id < inbox'[l].id
      BY <2>3 DEF InboxInOrder
    <3>2. CASE k = Len(inbox) + 1
      BY <1>0, <2>1, <2>3, <3>2
    <3>3. CASE k \in 1 .. Len(inbox)
      <4>1. inbox'[k] = inbox[k] /\ inbox[k].id <= nmsgs
        BY <1>0, <2>3, <3>3 DEF Ordered, InboxInOrder
      <4>2. ASSUME NEW l \in k + 1 .. Len(inbox) + 1, inbox'[l].from = "server"
            PROVE  inbox'[k].id < inbox'[l].id
        <5>1. CASE l = Len(inbox) + 1
          BY <1>0, <2>1, <2>3, <3>1, <3>3, <4>1, <5>1
        <5>2. CASE l # Len(inbox) + 1
          <6>1. l \in k + 1 .. Len(inbox) /\ l \in 1 .. Len(inbox)
            BY <1>0, <5>2
          <6>2. inbox'[l] = inbox[l]
            BY <2>3, <6>1
          <6> QED  BY <1>0, <3>3, <4>1, <4>2, <6>1, <6>2 DEF Ordered, InboxInOrder
        <5> QED  BY <5>1, <5>2
      <4> QED  BY <1>0, <2>1, <3>1, <3>3, <4>1, <4>2
    <3> QED  BY <1>0, <3>2, <3>3
  <2>5. \A k \in DOMAIN inbox' : inbox'[k].from = "server" =>
          inbox'[k].id > nmsgs \/ \E l \in DOMAIN inbox : inbox'[k] = inbox[l]
    BY <1>0, <2>1, <2>3
  <2> QED  BY <1>0, <1>2, <2>1, <2>4, <2>5
<1>4. ASSUME NEW end \in StreamEnds, LinkBreaks(end) PROVE Ordered'
  <2>1. PICK n \in 0 .. Len(inbox) : inbox' = Append(SubSeq(inbox, 1, n), Own(end))
    BY <1>4 DEF LinkBreaks
  <2>2. nmsgs' = nmsgs /\ Own(end) \in ServerItem /\ Own(end).from = "session"
    BY <1>4, OwnTypes DEF LinkBreaks, counters, StreamEnds, Own, Mk
  <2> DEFINE kept == SubSeq(inbox, 1, n)
  <2>3. kept \in Seq(ServerItem) /\ Len(kept) = n /\ \A k \in 1 .. n : kept[k] = inbox[k]
    BY <1>0, SubSeqProperties, ElementOfSeq
  <2> HIDE DEF kept
  <2>4. /\ DOMAIN inbox' = 1 .. n + 1 /\ Len(inbox') = n + 1 /\ inbox'[n + 1] = Own(end)
        /\ \A k \in 1 .. n : inbox'[k] = inbox[k]
    BY <2>1, <2>2, <2>3, AppendProperties, LenProperties DEF kept
  <2>5. \A k \in DOMAIN inbox' : inbox'[k].from = "server" =>
          k \in 1 .. n /\ k \in DOMAIN inbox /\ inbox'[k] = inbox[k]
    BY <1>0, <2>2, <2>4
  <2>6. InboxInOrder'
    <3> SUFFICES ASSUME NEW k \in DOMAIN inbox', inbox'[k].from = "server"
                 PROVE  /\ inbox'[k].id <= nmsgs
                        /\ \A l \in k + 1 .. Len(inbox') : inbox'[l].from = "server" =>
                                                          inbox'[k].id < inbox'[l].id
      BY <2>2 DEF InboxInOrder
    <3>1. k \in 1 .. n /\ k \in DOMAIN inbox /\ inbox'[k] = inbox[k]
      BY <2>5
    <3>2. ASSUME NEW l \in k + 1 .. Len(inbox'), inbox'[l].from = "server"
          PROVE  inbox'[k].id < inbox'[l].id
      <4>1. l \in DOMAIN inbox'
        BY <2>4, <3>1
      <4>2. l \in k + 1 .. Len(inbox) /\ inbox'[l] = inbox[l]
        BY <1>0, <2>5, <3>1, <3>2, <4>1
      <4> QED  BY <3>1, <3>2, <4>2 DEF Ordered, InboxInOrder
    <3> QED  BY <3>1, <3>2 DEF Ordered, InboxInOrder
  <2> QED  BY <1>0, <1>2, <2>2, <2>5, <2>6
<1> QED  BY <1>3, <1>4 DEF Environment

LEMMA OrderedInductive ==
  /\ Init => Ordered
  /\ Ordered /\ [Next]_vars => Ordered'
<1>1. Init => Ordered
  <2> SUFFICES ASSUME Init PROVE Ordered
    OBVIOUS
  <2>1. Requests /\ todo = StartSteps /\ wire = <<>> /\ inbox = <<>> /\ beats = 0
    BY RequestsInductive DEF Init
  <2>2. Answers = {}
    BY <2>1 DEF Answers
  <2>3. <<"session", 0>> \in Origins \X Nat /\ Current(<<"session", 0>>)
    <3> DEFINE c == <<"session", 0>>
    <3>1. \A k \in {"Authenticate", "Subscribe", "JoinSession", "Connected"} :
            Own(k).from \notin Requesters
      BY DEF Own, Mk, Requesters
    <3>2. /\ Write(Own("Authenticate")) \in FreshStep(c)
          /\ Write(Own("Subscribe")) \in FreshStep(c)
          /\ Write(Own("JoinSession")) \in FreshStep(c)
          /\ Emit(Own("Connected")) \in FreshStep(c)
          /\ Op("run", Own("Connected")) \in FreshStep(c)
      BY <3>1, StepTypes, OwnTypes DEF FreshStep, CausedBy, IsAnswer, Write, Emit, Op
    <3>3. todo \in Seq(FreshStep(c))
      BY <2>1, <3>2 DEF StartSteps
    <3> QED  BY <2>2, <3>3 DEF Current, Unsent, Spent, Origins
  <2> QED  BY <2>1, <2>2, <2>3 DEF Ordered, InboxInOrder, AnswersInOrder, AnswersSpent
<1>2. Ordered /\ [Next]_vars => Ordered'
  <2> SUFFICES ASSUME Ordered, [Next]_vars PROVE Ordered'
    OBVIOUS
  <2>1. CASE Application \/ Finished \/ UNCHANGED vars
    <3>1. UNCHANGED <<todo, wire, inbox, nmsgs, beats>>
      BY <2>1 DEF Application, Recv, Respond, DropResponder, DropHandle, FinishReport,
                  AbandonReport, StartReport, Finished, vars, channels, counters
    <3>2. PICK c \in Origins \X Nat : Current(c)
      BY DEF Ordered
    <3>3. Current(c)'
      BY <3>1, <3>2, AnswersAre DEF Current, Spent, Unsent, Sending, Distinct
    <3> QED  BY <3>1, <3>2, <3>3, OrderedWithout
  <2> QED  BY <2>1, OrderedTask, OrderedSelect, OrderedEnvironment DEF Next
<1> QED  BY <1>1, <1>2

\* The server's requests are answered in its order, and no answer is sent twice,
\* whatever ticks and reports the loop takes in between (run(): one arm at a time,
\* to its end).
THEOREM AnswersComeInOrder == Spec => []AnswersInOrder
<1>1. Ordered => AnswersInOrder
  BY DEF Ordered
<1> QED  BY <1>1, OrderedInductive, PTL DEF Spec

-----------------------------------------------------------------------------
(* The activation handshake is one block.                                  *)

Block == <<"VolumeMuted", "VolumeChanged", "MaxAudioQualityChanged", "AskForQueueState">>

IsMuted(x) == x.kind = "VolumeMuted" /\ x.from = "server"

\* s sends part j of the handshake caused by c.
IsPart(s, j, c) == s.op = "write" /\ s.item.kind = Block[j] /\ Cause(s.item) = c

\* In a list of operations, the request for the queue comes right after an
\* activation is awaited, and the rest of a handshake right after its first part.
QueueAskFollows(list) ==
  \A k \in DOMAIN list :
     list[k].op = "await" /\ list[k].item.kind = "SetActive" /\ list[k].item.from = "server"
     => k + 1 \in DOMAIN list /\ IsPart(list[k + 1], 4, Cause(list[k].item))

BlocksWhole(list) ==
  \A k \in DOMAIN list : list[k].op = "write" /\ IsMuted(list[k].item) =>
     \A j \in 2 .. 4 : /\ k + j - 1 \in DOMAIN list
                       /\ IsPart(list[k + j - 1], j, Cause(list[k].item))

\* What the wire lacks of a handshake is at the head of the list.
RestFollows ==
  \A i \in DOMAIN wire, j \in 2 .. 4 :
     IsMuted(wire[i]) /\ i + j - 1 > Len(wire) =>
       /\ i + j - 1 - Len(wire) \in DOMAIN todo
       /\ IsPart(todo[i + j - 1 - Len(wire)], j, Cause(wire[i]))

BlocksOnWire ==
  \A i \in DOMAIN wire, j \in 2 .. 4 :
     IsMuted(wire[i]) /\ i + j - 1 <= Len(wire) =>
       wire[i + j - 1].kind = Block[j] /\ Cause(wire[i + j - 1]) = Cause(wire[i])

Blocks ==
  /\ Requests /\ BlocksOnWire
  /\ QueueAskFollows(todo) /\ BlocksWhole(todo)
  /\ link = "up" => RestFollows

LEMMA SuffixKeepsBlocks ==
  ASSUME NEW s \in Seq(Step), NEW n \in Nat, QueueAskFollows(s), BlocksWhole(s)
  PROVE  LET t == SubSeq(s, 2 + n, Len(s)) IN QueueAskFollows(t) /\ BlocksWhole(t)
<1> DEFINE t == SubSeq(s, 2 + n, Len(s))
           p == Len(s)
           q == Len(t)
<1>1. /\ p \in Nat /\ q \in Nat /\ DOMAIN s = 1 .. p /\ DOMAIN t = 1 .. q
      /\ q # 0 => q + 1 + n = p
      /\ \A k \in 1 .. q : t[k] = s[k + 1 + n]
  <2>1. \A i \in 2 + n .. Len(s) : s[i] \in Step
    BY ElementOfSeq, LenProperties
  <2> QED  BY <2>1, SubSeqProperties, LenProperties, SMTT(30)
<1> HIDE DEF t, p, q
<1>2. \A k \in 1 .. q : k + 1 + n \in 1 .. p
  BY <1>1
<1>3. \A k \in 1 .. q, j \in 1 .. 3 : k + 1 + n + j \in 1 .. p =>
         k + j \in 1 .. q /\ t[k + j] = s[k + 1 + n + j]
  <2> TAKE k \in 1 .. q, j \in 1 .. 3
  <2> HAVE k + 1 + n + j \in 1 .. p
  <2>1. k + j \in 1 .. q
    BY <1>1
  <2>2. t[k + j] = s[(k + j) + 1 + n]
    BY <1>1, <2>1
  <2>3. (k + j) + 1 + n = k + 1 + n + j
    BY <1>1
  <2> QED  BY <2>1, <2>2, <2>3
<1>4. QueueAskFollows(t)
  <2> SUFFICES ASSUME NEW k \in 1 .. q, t[k].op = "await", t[k].item.kind = "SetActive",
                      t[k].item.from = "server"
               PROVE  k + 1 \in 1 .. q /\ IsPart(t[k + 1], 4, Cause(t[k].item))
    BY <1>1 DEF QueueAskFollows
  <2>1. k + 1 + n \in DOMAIN s /\ t[k] = s[k + 1 + n]
    BY <1>1, <1>2
  <2>2. k + 1 + n + 1 \in DOMAIN s /\ IsPart(s[k + 1 + n + 1], 4, Cause(s[k + 1 + n].item))
    BY <2>1 DEF QueueAskFollows
  <2> QED  BY <1>1, <1>3, <2>1, <2>2
<1>5. BlocksWhole(t)
  <2> SUFFICES ASSUME NEW k \in 1 .. q, t[k].op = "write", IsMuted(t[k].item), NEW j \in 2 .. 4
               PROVE  k + j - 1 \in 1 .. q /\ IsPart(t[k + j - 1], j, Cause(t[k].item))
    BY <1>1 DEF BlocksWhole
  <2>1. k + 1 + n \in DOMAIN s /\ t[k] = s[k + 1 + n]
    BY <1>1, <1>2
  <2>2. (k + 1 + n) + j - 1 \in DOMAIN s
        /\ IsPart(s[(k + 1 + n) + j - 1], j, Cause(s[k + 1 + n].item))
    BY <2>1 DEF BlocksWhole
  <2>3. PICK i \in 1 .. 3 : i = j - 1
    OBVIOUS
  <2>4. (k + 1 + n) + j - 1 = k + 1 + n + i /\ k + j - 1 = k + i
    BY <2>3
  <2>5. k + i \in 1 .. q /\ t[k + i] = s[k + 1 + n + i]
    BY <1>1, <1>3, <2>2, <2>4
  <2> QED  BY <2>1, <2>2, <2>4, <2>5
<1> QED  BY <1>4, <1>5 DEF t

\* When the next operation sends nothing, no handshake is half sent.
LEMMA NothingHalfSent ==
  ASSUME TypeOK, RestFollows, todo = <<>> \/ Head(todo).op # "write"
  PROVE  \A i \in DOMAIN wire : IsMuted(wire[i]) => i + 3 <= Len(wire)
<1> SUFFICES ASSUME NEW i \in DOMAIN wire, IsMuted(wire[i]), ~(i + 3 <= Len(wire))
             PROVE  FALSE
  OBVIOUS
<1>1. Len(wire) \in Nat /\ i \in 1 .. Len(wire)
  BY LenProperties DEF TypeOK
<1>2. PICK j \in 2 .. 4 : i + j - 1 = Len(wire) + 1
  <2>1. Len(wire) + 2 - i \in 2 .. 4 /\ i + (Len(wire) + 2 - i) - 1 = Len(wire) + 1
    BY <1>1
  <2> QED  BY <2>1
<1>3. i + j - 1 > Len(wire) /\ i + j - 1 - Len(wire) = 1
  BY <1>1, <1>2
<1>4. 1 \in DOMAIN todo /\ todo[1].op = "write"
  BY <1>3 DEF RestFollows, IsPart
<1> QED  BY <1>4, HeadTailProperties, LenProperties DEF TypeOK

LEMMA BlocksWrite ==
  ASSUME Blocks, DoWrite, link = "up"
  PROVE  BlocksOnWire' /\ RestFollows'
<1> DEFINE x == Head(todo).item
           n == Len(wire)
           p == Len(todo)
<1>1. /\ wire \in Seq(WireItem) /\ x \in WireItem /\ wire' = Append(wire, x)
      /\ todo \in Seq(Step) /\ todo # <<>> /\ Head(todo).op = "write" /\ todo' = Tail(todo)
  BY HeadType DEF DoWrite, Blocks, Requests, TypeOK, Doing
<1>2. /\ n \in Nat /\ DOMAIN wire = 1 .. n /\ DOMAIN wire' = 1 .. n + 1 /\ Len(wire') = n + 1
      /\ wire'[n + 1] = x /\ \A i \in 1 .. n : wire'[i] = wire[i]
  <2> HIDE DEF x
  <2> QED  BY <1>1, AppendProperties, LenProperties
<1>3. /\ p \in Nat \ {0} /\ DOMAIN todo = 1 .. p /\ todo[1] = Head(todo)
      /\ DOMAIN todo' = 1 .. p - 1 /\ \A k \in 1 .. p - 1 : todo'[k] = todo[k + 1]
  BY <1>1, HeadTailProperties, LenProperties
<1>4. BlocksOnWire /\ RestFollows /\ BlocksWhole(todo)
  BY DEF Blocks
<1>5. todo[1].op = "write" /\ todo[1].item = x
  BY <1>1, <1>3
<1> HIDE DEF x, p, n
<1>6. BlocksOnWire'
  <2> SUFFICES ASSUME NEW i \in 1 .. n + 1, NEW j \in 2 .. 4, IsMuted(wire'[i]),
                      i + j - 1 <= n + 1
               PROVE  wire'[i + j - 1].kind = Block[j] /\ Cause(wire'[i + j - 1]) = Cause(wire'[i])
    BY <1>2 DEF BlocksOnWire
  <2>1. i \in 1 .. n /\ wire'[i] = wire[i]
    BY <1>2
  <2>2. CASE i + j - 1 <= n
    <3>1. i + j - 1 \in 1 .. n
      BY <1>2, <2>1, <2>2
    <3>2. wire'[i + j - 1] = wire[i + j - 1]
      BY <1>2, <3>1
    <3> QED  BY <1>2, <1>4, <2>1, <2>2, <3>2 DEF BlocksOnWire, n
  <2>3. CASE i + j - 1 = n + 1
    <3>1. i + j - 1 > n /\ i + j - 1 - n = 1
      BY <1>2, <2>1, <2>3
    <3>2. IsPart(todo[1], j, Cause(wire[i]))
      BY <1>2, <1>4, <2>1, <3>1 DEF RestFollows, n
    <3> QED  BY <1>2, <1>5, <2>1, <2>3, <3>2 DEF IsPart
  <2> QED  BY <1>2, <2>1, <2>2, <2>3
<1>7. RestFollows'
  <2> SUFFICES ASSUME NEW i \in 1 .. n + 1, NEW j \in 2 .. 4, IsMuted(wire'[i]),
                      i + j - 1 > n + 1
               PROVE  /\ i + j - 1 - (n + 1) \in 1 .. p - 1
                      /\ IsPart(todo'[i + j - 1 - (n + 1)], j, Cause(wire'[i]))
    BY <1>2, <1>3 DEF RestFollows
  <2>1. CASE i \in 1 .. n
    <3>1. i + j - 1 > n /\ wire'[i] = wire[i] /\ i + j - 1 - n \in Nat
      BY <1>2, <2>1
    <3>2. i + j - 1 - n \in 1 .. p /\ IsPart(todo[i + j - 1 - n], j, Cause(wire[i]))
      BY <1>2, <1>3, <1>4, <2>1, <3>1 DEF RestFollows, n
    <3>3. PICK k \in 1 .. p - 1 : k = i + j - 1 - (n + 1) /\ k + 1 = i + j - 1 - n
      BY <1>2, <1>3, <2>1, <3>2
    <3> QED  BY <1>3, <3>1, <3>2, <3>3
  <2>2. CASE i = n + 1
    <3>1. IsMuted(x) /\ 1 \in DOMAIN todo
      BY <1>2, <1>3, <2>2
    <3>2. 1 + j - 1 \in 1 .. p /\ IsPart(todo[1 + j - 1], j, Cause(x))
      BY <1>3, <1>4, <1>5, <3>1 DEF BlocksWhole
    <3>3. PICK k \in 1 .. p - 1 : k = j - 1 /\ k + 1 = 1 + j - 1 /\ i + j - 1 - (n + 1) = k
      BY <1>2, <1>3, <2>2, <3>2
    <3> QED  BY <1>2, <1>3, <2>2, <3>2, <3>3
  <2> QED  BY <1>2, <2>1, <2>2
<1> QED  BY <1>6, <1>7

\* The answer to the server's SetActive and what follows it are a whole handshake.
LEMMA BlocksAnswer ==
  ASSUME Blocks, DoAwait
  PROVE  QueueAskFollows(todo') /\ BlocksWhole(todo')
<1> DEFINE x == Head(todo).item
           b == Tail(todo)
           a == IF HasAnswer THEN AnswerSteps(x) ELSE <<>>
<1>0. TypeOK /\ OneCommandOutstanding /\ Doing("await") /\ x \in CommandItem
      /\ todo' = a \o b /\ todo \in Seq(Step) /\ todo # <<>> /\ Head(todo).op = "await"
  BY HeadType DEF Blocks, Requests, DoAwait, TypeOK, Doing
<1>1. b \in Seq(QuietStep)
  BY <1>0 DEF OneCommandOutstanding, NothingAsked, AboutToAsk, Asked, Doing, QuietStep
<1>2. a \in Seq(QuietStep)
  BY <1>0, QuietLists, EmptySeq
<1>3. /\ Len(a) \in Nat /\ Len(b) \in Nat /\ DOMAIN a = 1 .. Len(a) /\ DOMAIN b = 1 .. Len(b)
      /\ DOMAIN (a \o b) = 1 .. Len(a) + Len(b)
      /\ \A k \in 1 .. Len(a) + Len(b) :
           (a \o b)[k] = IF k <= Len(a) THEN a[k] ELSE b[k - Len(a)]
  <2> HIDE DEF a, b
  <2> QED  BY <1>1, <1>2, ConcatProperties, LenProperties
<1>4. QueueAskFollows(b) /\ BlocksWhole(b)
  <2>1. b = SubSeq(todo, 2 + 0, Len(todo))
    BY <1>0, TailIsSubSeq
  <2> HIDE DEF b
  <2> QED  BY <1>0, <2>1, SuffixKeepsBlocks DEF Blocks
<1>5. x.kind = "SetActive" /\ x.from = "server" => 1 \in 1 .. Len(b) /\ IsPart(b[1], 4, Cause(x))
  <2>1. /\ DOMAIN todo = 1 .. Len(todo) /\ todo[1] = Head(todo) /\ Len(b) = Len(todo) - 1
        /\ Len(todo) \in Nat \ {0} /\ \A k \in 1 .. Len(b) : b[k] = todo[k + 1]
    BY <1>0, HeadTailProperties, LenProperties
  <2> SUFFICES ASSUME x.kind = "SetActive", x.from = "server"
               PROVE  1 \in 1 .. Len(b) /\ IsPart(b[1], 4, Cause(x))
    OBVIOUS
  <2>2. 1 + 1 \in DOMAIN todo /\ IsPart(todo[1 + 1], 4, Cause(x))
    BY <1>0, <2>1 DEF QueueAskFollows, Blocks
  <2> QED  BY <2>1, <2>2
\* A part of the answer that mutes begins the handshake.
<1>6. ASSUME NEW k \in DOMAIN a, IsMuted(a[k].item)
      PROVE  /\ k = 1 /\ Len(a) = 3 /\ x.kind = "SetActive" /\ x.from = "server"
             /\ Cause(a[1].item) = Cause(x)
             /\ IsPart(a[2], 2, Cause(x)) /\ IsPart(a[3], 3, Cause(x))
  <2>0. HasAnswer /\ a = AnswerSteps(x)
    <3>1. a # <<>>
      BY <1>3, <1>6
    <3> QED  BY <3>1
  <2> HIDE DEF a, x
  <2>1. ASSUME NEW kind \in {"VolumeMuted", "VolumeChanged", "MaxAudioQualityChanged", "StateUpdated"}
        PROVE  /\ Write(As(kind, x)).op = "write" /\ Write(As(kind, x)).item = As(kind, x)
               /\ \A n \in Nat : /\ WriteOrSkip(As(kind, x), n).op = "write"
                                 /\ WriteOrSkip(As(kind, x), n).item = As(kind, x)
               /\ As(kind, x).kind = kind /\ As(kind, x).from = x.from
               /\ Cause(As(kind, x)) = Cause(x)
    BY <1>0 DEF Write, WriteOrSkip, Op, As, CommandItem, Items, Cause
  <2>2. CASE x.kind = "SetActive"
    <3> DEFINE u == WriteOrSkip(As("VolumeMuted", x), 2)
               v == WriteOrSkip(As("VolumeChanged", x), 1)
               w == Write(As("MaxAudioQualityChanged", x))
    <3>1. a = <<u, v, w>>
      BY <2>0, <2>2 DEF AnswerSteps, Handshake
    <3>2. /\ u.op = "write" /\ v.op = "write" /\ w.op = "write"
          /\ u.item.kind = "VolumeMuted" /\ v.item.kind = "VolumeChanged"
          /\ w.item.kind = "MaxAudioQualityChanged"
          /\ u.item.from = x.from /\ Cause(u.item) = Cause(x) /\ Cause(v.item) = Cause(x)
          /\ Cause(w.item) = Cause(x)
      BY <2>1
    <3> HIDE DEF u, v, w
    <3>3. Len(a) = 3 /\ a[1] = u /\ a[2] = v /\ a[3] = w /\ k \in 1 .. 3
      BY <1>6, <3>1
    <3>4. k = 1
      BY <1>6, <3>2, <3>3 DEF IsMuted
    <3> QED  BY <1>6, <2>2, <3>2, <3>3, <3>4 DEF IsMuted, IsPart, Block
  <2>3. CASE x.kind # "SetActive"
    <3>1. PICK kind \in {"VolumeChanged", "StateUpdated"} : a = <<Write(As(kind, x))>>
      BY <2>0, <2>3 DEF AnswerSteps
    <3>2. k = 1 /\ a[k].item.kind = kind
      BY <1>6, <2>1, <3>1
    <3> QED  BY <1>6, <3>2 DEF IsMuted
  <2> QED  BY <2>2, <2>3
<1> HIDE DEF a, b, x
<1>7. QueueAskFollows(todo')
  <2>1. todo' \in Seq(QuietStep)
    BY <1>0, <1>1, <1>2, ConcatProperties
  <2>2. \A k \in DOMAIN todo' : todo'[k].op # "await"
    BY <2>1, ElementOfSeq, LenProperties DEF QuietStep
  <2> QED  BY <2>2 DEF QueueAskFollows
<1>8. BlocksWhole(todo')
  <2> DEFINE t == a \o b
  <2>1. todo' = t /\ DOMAIN t = 1 .. Len(a) + Len(b)
    BY <1>0, <1>3
  <2>2. \A k \in 1 .. Len(b) : t[Len(a) + k] = b[k] /\ Len(a) + k \in 1 .. Len(a) + Len(b)
    BY <1>3
  <2>3. \A k \in 1 .. Len(a) : t[k] = a[k]
    BY <1>3
  <2> HIDE DEF t
  <2> SUFFICES ASSUME NEW k \in 1 .. Len(a) + Len(b), t[k].op = "write", IsMuted(t[k].item),
                      NEW j \in 2 .. 4
               PROVE  k + j - 1 \in 1 .. Len(a) + Len(b) /\ IsPart(t[k + j - 1], j, Cause(t[k].item))
    BY <2>1 DEF BlocksWhole
  <2>4. CASE k \in 1 .. Len(a)
    <3>1. /\ k = 1 /\ Len(a) = 3 /\ x.kind = "SetActive" /\ x.from = "server"
          /\ Cause(t[1].item) = Cause(x)
          /\ IsPart(a[2], 2, Cause(x)) /\ IsPart(a[3], 3, Cause(x))
      BY <1>3, <1>6, <2>3, <2>4
    <3>2. 1 \in 1 .. Len(b) /\ IsPart(b[1], 4, Cause(x))
      BY <1>5, <3>1
    <3>3. t[2] = a[2] /\ t[3] = a[3] /\ t[4] = b[1] /\ Len(b) >= 1
      BY <1>3, <2>2, <2>3, <3>1, <3>2
    <3>4. j = 2 \/ j = 3 \/ j = 4
      OBVIOUS
    <3>5. 1 + j - 1 = j
      OBVIOUS
    <3> QED  BY <1>3, <3>1, <3>2, <3>3, <3>4, <3>5
  <2>5. CASE k \notin 1 .. Len(a)
    <3>1. PICK l \in 1 .. Len(b) : k = Len(a) + l
      <4>1. k - Len(a) \in 1 .. Len(b) /\ k = Len(a) + (k - Len(a))
        BY <1>3, <2>5
      <4> QED  BY <4>1
    <3>2. t[k] = b[l]
      BY <2>2, <3>1
    <3>3. l + j - 1 \in 1 .. Len(b) /\ IsPart(b[l + j - 1], j, Cause(b[l].item))
      BY <1>3, <1>4, <3>2 DEF BlocksWhole
    <3>4. k + j - 1 = Len(a) + (l + j - 1)
      BY <1>3, <3>1
    <3> QED  BY <2>2, <3>2, <3>3, <3>4
  <2> QED  BY <2>4, <2>5
<1> QED  BY <1>7, <1>8

\* Only the handler of SetActive asks a SetActive, and its request for the queue
\* comes right after.
LEMMA QuietQueueAsk ==
  ASSUME NEW s \in Seq(QuietStep)
  PROVE  QueueAskFollows(s)
<1>1. \A k \in DOMAIN s : s[k].op # "await"
  BY ElementOfSeq, LenProperties DEF QuietStep
<1> QED  BY <1>1 DEF QueueAskFollows

LEMMA OtherAsk ==
  ASSUME NEW x \in CommandItem, x.kind # "SetActive"
  PROVE  QueueAskFollows(Ask(x))
<1>1. Emit(x).op = "emit" /\ Await(x).item = x
  BY DEF Emit, Await, Op
<1> HIDE DEF Emit
<1>2. Ask(x) = <<Emit(x), Await(x)>>
  BY DEF Ask
<1> QED  BY <1>1, <1>2 DEF QueueAskFollows

\* Two operations and one more are three, whatever the operations are.
LEMMA TwoThenOne ==
  ASSUME NEW a, NEW b, NEW c
  PROVE  <<a, b>> \o <<c>> = <<a, b, c>>
<1> DEFINE S == {a, b, c}
<1>1. a \in S /\ b \in S /\ c \in S
  OBVIOUS
<1> HIDE DEF S
<1> DEFINE s == <<a, b>>
           t == <<c>>
           u == <<a, b, c>>
<1>2. s \in Seq(S) /\ Len(s) = 2 /\ s[1] = a /\ s[2] = b
  BY <1>1
<1>3. t \in Seq(S) /\ Len(t) = 1 /\ t[1] = c
  BY <1>1
<1>4. u \in Seq(S) /\ Len(u) = 3 /\ u[1] = a /\ u[2] = b /\ u[3] = c
  BY <1>1
<1> HIDE DEF s, t, u
<1>5. s \o t \in Seq(S) /\ Len(s \o t) = 3
      /\ (s \o t)[1] = a /\ (s \o t)[2] = b /\ (s \o t)[3] = c
  <2>1. /\ s \o t \in Seq(S) /\ Len(s \o t) = Len(s) + Len(t)
        /\ \A i \in 1 .. Len(s) + Len(t) :
             (s \o t)[i] = IF i <= Len(s) THEN s[i] ELSE t[i - Len(s)]
    BY <1>2, <1>3, ConcatProperties
  <2>2. 1 \in 1 .. 2 + 1 /\ 2 \in 1 .. 2 + 1 /\ 3 \in 1 .. 2 + 1
        /\ 3 - 2 = 1 /\ 2 + 1 = 3 /\ ~(3 <= 2) /\ 1 <= 2 /\ 2 <= 2
    OBVIOUS
  <2> QED  BY <1>2, <1>3, <2>1, <2>2
<1>6. s \o t = u
  <2>1. \A i \in 1 .. 3 : (s \o t)[i] = u[i]
    <3>1. \A i \in 1 .. 3 : i = 1 \/ i = 2 \/ i = 3
      OBVIOUS
    <3> QED  BY <1>4, <1>5, <3>1
  <2> QED  BY <1>4, <1>5, <2>1, SeqEqual
<1> QED  BY <1>6 DEF s, t, u

LEMMA SelectQueueAsk ==
  ASSUME Requests, Requests', Select, ~IdleTurn
  PROVE  QueueAskFollows(todo')
<1>0. TypeOK /\ todo' \in Seq(Step) /\ OneCommandOutstanding'
  BY DEF Requests, TypeOK
<1> DEFINE m == Head(inbox)
<1>1. CASE Tick
  <2> DEFINE h == Mk("Heartbeat", "timer", beats + 1, 0)
  <2>1. h \in CommandItem /\ h.kind = "Heartbeat" /\ todo' = Ask(h)
    BY <1>0, <1>1 DEF TypeOK, Tick, Mk, CommandItem, Items, CommandKinds, Origins
  <2> HIDE DEF h
  <2> QED  BY <2>1, OtherAsk
<1>2. CASE TakeCommand
  <2> DEFINE w == Write(As(ReportMessage[Head(commands).kind], Head(commands)))
  <2>1. todo' = <<w>> /\ w.op = "write"
    BY <1>2 DEF TakeCommand, Write, Op
  <2> HIDE DEF w
  <2> QED  BY <2>1 DEF QueueAskFollows
<1>3. CASE HandleSetState
  <2>1. m \in ServerItem
    BY <1>0, <1>3, TakesType DEF HandleSetState
  <2>2. CASE m.kind = "SetState"
    <3>1. m \in CommandItem
      BY <2>1, <2>2 DEF ServerItem, CommandItem, Items, CommandKinds, Origins
    <3> QED  BY <1>3, <2>2, <3>1, OtherAsk DEF HandleSetState
  <2>3. CASE m.kind # "SetState"
    BY <1>3, <2>3 DEF HandleSetState, QueueAskFollows
  <2> QED  BY <2>2, <2>3
<1>4. CASE HandleSetVolume
  <2>1. m \in ServerItem /\ m.kind = "SetVolume"
    BY <1>0, <1>4, TakesType DEF HandleSetVolume
  <2>2. m \in CommandItem
    BY <2>1 DEF ServerItem, CommandItem, Items, CommandKinds, Origins
  <2> QED  BY <1>4, <2>1, <2>2, OtherAsk DEF HandleSetVolume
<1>5. CASE HandleSetActive
  <2>1. m \in ServerItem /\ m.kind = "SetActive"
    BY <1>0, <1>5, TakesType DEF HandleSetActive
  <2> DEFINE w == Write([As("AskForQueueState", m) EXCEPT !.ref = session_uuid])
  <2>2. IsPart(w, 4, Cause(m))
    BY <2>1 DEF IsPart, Write, Op, As, Cause, ServerItem, Items, Block
  <2>3. todo' = <<Emit(m), Await(m)>> \o <<w>>
    BY <1>5 DEF HandleSetActive, Ask
  <2>4. Emit(m).op = "emit" /\ Await(m).op = "await" /\ Await(m).item = m
    BY DEF Emit, Await, Op
  <2> DEFINE e == Emit(m)
             d == Await(m)
  <2> HIDE DEF w, e, d
  <2>5. todo' = <<e, d, w>>
    BY <2>3, TwoThenOne DEF e, d
  <2>6. e.op = "emit" /\ d.item = m /\ w.op = "write"
    BY <2>2, <2>4 DEF e, d, IsPart
  <2> QED  BY <2>2, <2>5, <2>6 DEF QueueAskFollows
<1>6. CASE HandleMessage /\ ~(HandleSetState \/ HandleSetVolume \/ HandleSetActive)
  <2>1. ASSUME todo' \in Seq(MildStep) PROVE todo' \in Seq(QuietStep)
    BY <2>1, MildLists
  <2>2. CASE HandleAddRenderer \/ HandleRemoveRenderer \/ HandleOther
    <3>1. m \in ServerItem /\ todo' \in {RegisterSteps(m), Dispatch(m)}
      BY <1>0, <2>2, TakesType DEF HandleAddRenderer, HandleRemoveRenderer, HandleOther
    <3> QED  BY <2>1, <3>1, MildRegister, MildDispatch, QuietQueueAsk
  <2>3. CASE HandleSessionState
    <3>1. m \in ServerItem
      BY <1>0, <2>3, TakesType DEF HandleSessionState
    <3> DEFINE w == Write(As("AskForRendererState", m))
    <3>2. w \in MildStep /\ todo' = <<w>> \o Dispatch(m)
      BY <2>3, <3>1, MildServerWrite DEF HandleSessionState, WireKinds
    <3> HIDE DEF w
    <3>3. todo' \in Seq(MildStep)
      BY <3>1, <3>2, MildDispatch
    <3> QED  BY <2>1, <3>3, QuietQueueAsk
  <2>4. CASE HandleRendererStateUpdated
    <3>1. m \in ServerItem
      BY <1>0, <2>4, TakesType DEF HandleRendererStateUpdated
    <3>2. PICK e \in {Emit(As("RestoreState", m)), Emit(As("RendererStateUpdated", m))} :
            todo' = <<e>>
      BY <2>4 DEF HandleRendererStateUpdated
    <3>3. e \in MildStep
      BY <3>1, MildEmit DEF NotificationKinds, Lifecycle
    <3>4. todo' \in Seq(MildStep)
      BY <3>2, <3>3
    <3> QED  BY <2>1, <3>4, QuietQueueAsk
  <2>5. CASE HandleSetInactive
    BY <1>0, <2>5, TakesType, QuietLists, QuietQueueAsk DEF HandleSetInactive
  <2>6. CASE HandleStreamEnd
    BY <2>6, QuietLists, QuietQueueAsk DEF HandleStreamEnd
  <2> QED  BY <1>6, <2>2, <2>3, <2>4, <2>5, <2>6 DEF HandleMessage
<1> QED  BY <1>1, <1>2, <1>3, <1>4, <1>5, <1>6 DEF Select

LEMMA BlocksNext == Blocks /\ [Next]_vars => Blocks'
<1> SUFFICES ASSUME Blocks, [Next]_vars PROVE Blocks'
  OBVIOUS
<1>0. TypeOK /\ Requests /\ Requests' /\ todo \in Seq(Step)
  BY RequestsInductive DEF Blocks, Requests, TypeOK
\* While the wire stays as it is, it is enough that no handshake is half sent, or
\* that the list stays, or that the link is down.
<1>1. ASSUME wire' = wire, QueueAskFollows(todo'), BlocksWhole(todo'),
             \/ link' # "up"
             \/ link = "up" /\ todo' = todo
             \/ link = "up" /\ (todo = <<>> \/ Head(todo).op # "write")
      PROVE  Blocks'
  <2>1. BlocksOnWire'
    BY <1>1 DEF Blocks, BlocksOnWire
  <2>2. CASE link' # "up"
    BY <1>0, <1>1, <2>1, <2>2 DEF Blocks
  <2>3. CASE link = "up" /\ todo' = todo
    <3>1. RestFollows'
      BY <1>1, <2>3 DEF Blocks, RestFollows
    <3> QED  BY <1>0, <1>1, <2>1, <3>1 DEF Blocks
  <2>4. CASE link = "up" /\ (todo = <<>> \/ Head(todo).op # "write")
    <3>1. \A i \in DOMAIN wire : IsMuted(wire[i]) => i + 3 <= Len(wire)
      BY <1>0, <2>4, NothingHalfSent DEF Blocks
    <3>2. Len(wire) \in Nat /\ DOMAIN wire = 1 .. Len(wire)
      BY <1>0, LenProperties DEF TypeOK
    <3>3. RestFollows'
      BY <1>1, <3>1, <3>2 DEF RestFollows
    <3> QED  BY <1>0, <1>1, <2>1, <3>3 DEF Blocks
  <2> QED  BY <1>1, <2>2, <2>3, <2>4
<1>2. CASE TaskStep
  <2>1. CASE DoWrite /\ link = "up"
    <3>1. todo' = Tail(todo) /\ todo # <<>>
      BY <2>1 DEF DoWrite, Doing
    <3>2. todo' = SubSeq(todo, 2 + 0, Len(todo))
      BY <1>0, <3>1, TailIsSubSeq
    <3>3. QueueAskFollows(todo') /\ BlocksWhole(todo')
      BY <1>0, <3>2, SuffixKeepsBlocks DEF Blocks
    <3> QED  BY <1>0, <2>1, <3>3, BlocksWrite DEF Blocks
  <2>2. CASE DoAwait
    <3>1. UNCHANGED <<wire, link>> /\ Head(todo).op # "write"
      BY <2>2 DEF DoAwait, channels, Doing
    <3>2. QueueAskFollows(todo') /\ BlocksWhole(todo')
      BY <2>2, BlocksAnswer
    <3> QED  BY <1>1, <3>1, <3>2
  <2>3. CASE DoWriteFails \/ (DoWrite /\ link # "up") \/ DoEmit \/ DoClose \/ DoRun \/ DoStop
    <3>1. wire' = wire
      BY <2>3 DEF DoWriteFails, DoWrite, DoEmit, DoClose, DoRun, DoStop, channels
    <3>2. PICK n \in Nat : todo' = SubSeq(todo, 2 + n, Len(todo))
      <4>1. Len(todo) \in Nat
        BY <1>0, LenProperties
      <4>2. ASSUME todo # <<>>, todo' = Tail(todo) PROVE todo' = SubSeq(todo, 2 + 0, Len(todo))
        BY <1>0, <4>2, TailIsSubSeq
      <4>3. ASSUME todo' = <<>> PROVE todo' = SubSeq(todo, 2 + Len(todo), Len(todo))
        BY <4>1, <4>3, SubSeqEmpty
      <4>4. CASE DoWriteFails
        <5>1. Head(todo).skip \in Nat
          BY <1>0, <4>4, HeadType DEF DoWriteFails
        <5> QED  BY <4>1, <4>3, <4>4, <5>1 DEF DoWriteFails
      <4>5. CASE DoEmit \/ DoWrite \/ DoClose \/ DoRun \/ DoStop
        <5>1. todo # <<>> /\ (todo' = Tail(todo) \/ todo' = <<>>)
          BY <4>5 DEF DoEmit, DoWrite, DoClose, DoRun, DoStop, Doing
        <5> QED  BY <4>1, <4>2, <4>3, <5>1
      <4> QED  BY <2>3, <4>4, <4>5
    <3>3. QueueAskFollows(todo') /\ BlocksWhole(todo')
      BY <1>0, <3>2, SuffixKeepsBlocks DEF Blocks
    <3>4. link' # "up" \/ (link' = link /\ Head(todo).op # "write")
      <4>1. DoWriteFails \/ (DoWrite /\ link # "up") => link' # "up"
        BY <1>0 DEF DoWriteFails, DoWrite, channels
      <4>2. DoClose => link' # "up"
        BY DEF DoClose
      <4>3. DoEmit \/ DoRun \/ DoStop => link' = link /\ Head(todo).op # "write"
        BY DEF DoEmit, DoRun, DoStop, Doing, channels
      <4> QED  BY <2>3, <4>1, <4>2, <4>3
    <3> QED  BY <1>1, <3>1, <3>3, <3>4
  <2> QED  BY <1>2, <2>1, <2>2, <2>3 DEF TaskStep
<1>3. CASE Select /\ ~IdleTurn
  <2>1. UNCHANGED <<wire, link>>
    <3>1. HandleMessage => UNCHANGED <<wire, link>>
      BY DEF HandleMessage, HandleAddRenderer, HandleRemoveRenderer, HandleSessionState,
             HandleRendererStateUpdated, HandleSetState, HandleSetVolume, HandleSetActive,
             HandleSetInactive, HandleOther, HandleStreamEnd, Takes
    <3> QED  BY <1>3, <3>1 DEF Select, Tick, TakeCommand, channels
  <2>2. todo = <<>> /\ \E c : todo' \in Seq(FreshStep(c))
    BY <1>0, <1>3, SelectLeavesFresh
  <2>3. BlocksWhole(todo')
    <3>1. \A k \in DOMAIN todo' : todo'[k].op = "write" => ~IsAnswer(todo'[k].item)
      BY <2>2, ElementOfSeq, LenProperties DEF FreshStep
    <3> QED  BY <3>1 DEF BlocksWhole, IsMuted, IsAnswer, Requesters
  <2>4. QueueAskFollows(todo')
    BY <1>0, <1>3, SelectQueueAsk
  <2> QED  BY <1>1, <2>1, <2>2, <2>3, <2>4
<1>4. CASE IdleTurn \/ Application \/ Environment \/ Finished \/ UNCHANGED vars
  <2>1. UNCHANGED <<wire, todo>> /\ (link' = link \/ link' # "up")
    BY <1>4 DEF IdleTurn, Application, Recv, Respond, DropResponder, DropHandle, FinishReport,
                AbandonReport, StartReport, Environment, ServerSends, LinkBreaks, Finished,
                vars, channels
  <2>2. QueueAskFollows(todo') /\ BlocksWhole(todo')
    BY <2>1 DEF Blocks
  <2> QED  BY <1>1, <2>1, <2>2
<1> QED  BY <1>2, <1>3, <1>4 DEF Next

\* The handshake of an activation goes out as one block, with nothing between its
\* four messages, as long as the connection carries them
\* (send_activation_handshake and request_queue_state in one arm of the loop).
THEOREM HandshakeStaysTogether == Spec => []HandshakeIsOneBlock
<1>1. Init => Blocks
  <2> SUFFICES ASSUME Init PROVE Blocks
    OBVIOUS
  <2>1. Requests /\ todo = StartSteps /\ wire = <<>>
    BY RequestsInductive DEF Init
  <2>2. \A k \in DOMAIN StartSteps :
          /\ StartSteps[k].op # "await"
          /\ StartSteps[k].item.from = "session"
    BY DEF StartSteps, Write, Emit, Op, Own, Mk
  <2>3. QueueAskFollows(todo) /\ BlocksWhole(todo)
    BY <2>1, <2>2 DEF QueueAskFollows, BlocksWhole, IsMuted
  <2> QED  BY <2>1, <2>3 DEF Blocks, BlocksOnWire, RestFollows
<1>2. Blocks => HandshakeIsOneBlock
  <2> SUFFICES ASSUME Blocks, NEW i \in DOMAIN wire, IsMuted(wire[i]),
                      NEW j \in 2 .. 4, i + j - 1 <= Len(wire)
               PROVE  /\ wire[i + j - 1].kind = Block[j]
                      /\ Cause(wire[i + j - 1]) = Cause(wire[i])
    BY DEF HandshakeIsOneBlock, IsMuted, Block
  <2> QED  BY DEF Blocks, BlocksOnWire
<1> QED  BY <1>1, <1>2, BlocksNext, PTL DEF Spec
=============================================================================
