------------------------- MODULE SessionEventProofs -------------------------
(***************************************************************************)
(* What the application is told and what the server is asked, for every    *)
(* value of the constants: registration and activation, the queue of the   *)
(* session, and the application's reports.                                 *)
(***************************************************************************)
EXTENDS SessionRunnerProofs, Induction

-----------------------------------------------------------------------------
(* Steps of the task: they consume the list, or put an answer before it.   *)

LEMMA ConsPair ==
  ASSUME NEW S, NEW a \in S, NEW b \in S
  PROVE  <<a>> \o <<b>> = <<a, b>>
<1>0. <<b>> \in Seq(S)
  OBVIOUS
<1>1. PICK s \in Seq(S) : s = <<b>>
  BY <1>0
<1>2. Len(s) = 1 /\ s[1] = b
  BY <1>1
<1>3. PICK t \in Seq(S) : t = <<a>> \o s
  BY ConsProperties
<1>4. Len(t) = 2 /\ t[1] = a /\ t[1 + 1] = b
  BY <1>2, <1>3, ConsProperties
<1>5. t = <<a, b>>
  BY <1>4
<1> QED  BY <1>1, <1>3, <1>5

LEMMA SuffixShifts ==
  ASSUME NEW S, NEW s \in Seq(S), NEW n \in Nat
  PROVE  \A i \in DOMAIN SubSeq(s, 2 + n, Len(s)) :
            /\ i \in Nat /\ i + 1 + n \in 2 .. Len(s)
            /\ SubSeq(s, 2 + n, Len(s))[i] = s[i + 1 + n]
            /\ Len(SubSeq(s, 2 + n, Len(s))) + 1 + n = Len(s)
<1> DEFINE p == Len(s)
           t == SubSeq(s, 2 + n, p)
<1>1. p \in Nat /\ \A i \in 2 + n .. p : s[i] \in S
  BY ElementOfSeq, LenProperties
<1>2. /\ t \in Seq(S) /\ Len(t) = (IF 2 + n <= p THEN p - (2 + n) + 1 ELSE 0)
      /\ \A i \in 1 .. p - (2 + n) + 1 : t[i] = s[2 + n + i - 1]
  BY <1>1, SubSeqProperties
<1>3. DOMAIN t = 1 .. Len(t)
  BY <1>2, LenProperties
<1> HIDE DEF p, t
<1>4. ASSUME NEW i \in 1 .. Len(t)
      PROVE  /\ i \in 1 .. p - (2 + n) + 1 /\ Len(t) = p - (2 + n) + 1
             /\ i \in Nat /\ i + 1 + n \in 2 .. p /\ 2 + n + i - 1 = i + 1 + n
  BY <1>1, <1>2
<1>5. ASSUME NEW i \in 1 .. Len(t) PROVE t[i] = s[i + 1 + n]
  BY <1>2, <1>4
<1>6. ASSUME NEW i \in 1 .. Len(t) PROVE Len(t) + 1 + n = p
  BY <1>1, <1>4
<1> QED  BY <1>3, <1>4, <1>5, <1>6 DEF p, t

Shifted(i, d) ==
  /\ i + d \in 2 .. Len(todo) /\ todo'[i] = todo[i + d]
  /\ Len(todo') + d = Len(todo)

Answering(i) == Doing("await") /\ todo'[i] \in AnswerStep(Head(todo).item)

LEMMA TaskLeaves ==
  ASSUME TypeOK, TaskStep
  PROVE  \E d \in Int : \A i \in DOMAIN todo' : Shifted(i, d) \/ Answering(i)
<1>0. todo \in Seq(Step) /\ Len(todo) \in Nat
  BY LenProperties DEF TypeOK
<1>1. ASSUME NEW n \in Nat, todo' = SubSeq(todo, 2 + n, Len(todo))
      PROVE  \E d \in Int : \A i \in DOMAIN todo' : Shifted(i, d) \/ Answering(i)
  <2>1. ASSUME NEW i \in DOMAIN todo' PROVE Shifted(i, 1 + n)
    <3>1. /\ i \in Nat /\ i + 1 + n \in 2 .. Len(todo) /\ todo'[i] = todo[i + 1 + n]
          /\ Len(todo') + 1 + n = Len(todo)
      BY <1>0, <1>1, SuffixShifts
    <3>2. Len(todo') \in Nat
      BY <1>0, <1>1, SuffixType, LenProperties
    <3>3. i + 1 + n = i + (1 + n) /\ Len(todo') + 1 + n = Len(todo') + (1 + n)
      BY <3>1, <3>2
    <3> QED  BY <3>1, <3>3 DEF Shifted
  <2>2. 1 + n \in Int
    OBVIOUS
  <2> QED  BY <2>1, <2>2
<1>2. ASSUME todo # <<>>, todo' = Tail(todo) PROVE todo' = SubSeq(todo, 2 + 0, Len(todo))
  BY <1>0, <1>2, TailIsSubSeq
<1>3. ASSUME todo' = <<>> PROVE todo' = SubSeq(todo, 2 + Len(todo), Len(todo))
  BY <1>0, <1>3, SubSeqEmpty
<1>4. CASE DoEmit \/ DoWrite \/ DoClose \/ DoRun \/ DoStop
  <2>1. todo # <<>> /\ (todo' = Tail(todo) \/ todo' = <<>>)
    BY <1>4 DEF DoEmit, DoWrite, DoClose, DoRun, DoStop, Doing
  <2> QED  BY <1>0, <1>1, <1>2, <1>3, <2>1
<1>5. CASE DoWriteFails
  <2>1. Head(todo).skip \in Nat
    BY <1>5, HeadType DEF DoWriteFails
  <2> QED  BY <1>0, <1>1, <1>3, <1>5, <2>1 DEF DoWriteFails
<1>6. CASE DoAwait
  <2> DEFINE a == AnswerSteps(Head(todo).item)
             A == AnswerStep(Head(todo).item)
             t == Tail(todo)
  <2>1. /\ Doing("await") /\ Head(todo).item \in CommandItem
        /\ t \in Seq(Step) /\ todo # <<>>
    BY <1>6, HeadType DEF DoAwait
  <2>2. CASE ~HasAnswer
    <3>1. todo' = <<>> \o t
      BY <1>6, <2>2 DEF DoAwait
    <3>2. todo' = t
      BY <2>1, <3>1, ConcatEmptySeq
    <3> QED  BY <1>1, <1>2, <2>1, <3>2
  <2>3. CASE HasAnswer
    <3>1. todo' = a \o t
      BY <1>6, <2>3 DEF DoAwait
    <3>2. a \in Seq(A) /\ a \in Seq(Step)
      BY <2>1, AnswerWrites, AnswerType
    <3>3. /\ Len(t) = Len(todo) - 1 /\ \A i \in 1 .. Len(t) : t[i] = todo[i + 1]
      BY <1>0, <2>1, HeadTailProperties
    <3>4. Len(a) \in Nat /\ Len(t) \in Nat
      BY <2>1, <3>2, LenProperties
    <3>5. /\ a \o t \in Seq(Step) /\ Len(a \o t) = Len(a) + Len(t)
          /\ \A i \in 1 .. Len(a) + Len(t) :
               (a \o t)[i] = IF i <= Len(a) THEN a[i] ELSE t[i - Len(a)]
      BY <2>1, <3>2, ConcatProperties
    <3>6. \A i \in 1 .. Len(a) : a[i] \in A
      BY <3>2, ElementOfSeq
    <3> HIDE DEF a, t, A
    <3>7. DOMAIN todo' = 1 .. Len(a) + Len(t) /\ Len(todo') = Len(a) + Len(t)
      BY <3>1, <3>5, LenProperties
    <3>8. ASSUME NEW i \in 1 .. Len(a) + Len(t)
          PROVE  Shifted(i, 1 - Len(a)) \/ Answering(i)
      <4>1. CASE i <= Len(a)
        <5>1. i \in 1 .. Len(a) /\ todo'[i] = a[i]
          BY <3>1, <3>4, <3>5, <4>1
        <5> QED  BY <2>1, <3>6, <5>1 DEF Answering, A
      <4>2. CASE ~(i <= Len(a))
        <5>1. i - Len(a) \in 1 .. Len(t) /\ todo'[i] = t[i - Len(a)]
          BY <3>1, <3>4, <3>5, <4>2
        <5>2. t[i - Len(a)] = todo[i - Len(a) + 1]
          BY <3>3, <5>1
        <5>3. i - Len(a) + 1 = i + (1 - Len(a)) /\ i + (1 - Len(a)) \in 2 .. Len(todo)
              /\ Len(todo') + (1 - Len(a)) = Len(todo)
          BY <1>0, <3>3, <3>4, <3>7, <5>1
        <5> QED  BY <5>1, <5>2, <5>3 DEF Shifted
      <4> QED  BY <4>1, <4>2
    <3>9. 1 - Len(a) \in Int
      BY <3>4
    <3> QED  BY <3>7, <3>8, <3>9
  <2> QED  BY <2>2, <2>3
<1> QED  BY <1>4, <1>5, <1>6 DEF TaskStep

\* What a step of the task does to the log and to the fields it reads.
LEMMA TaskSays ==
  ASSUME TypeOK, TaskStep
  PROVE  /\ UNCHANGED <<renderer_id, is_active, session_uuid>>
         /\ app = "gone" <=> app' = "gone"
         /\ \/ /\ Doing("emit") /\ app # "gone" /\ Head(todo).item \in EventItem
               /\ log' = Append(log, Head(todo).item)
            \/ log' = log /\ (Doing("emit") => app = "gone")
<1>1. CASE DoEmit
  <2>1. Head(todo).item \in EventItem
    BY <1>1, HeadType DEF DoEmit
  <2> QED  BY <1>1, <2>1 DEF DoEmit, NoReceiver, session, user
<1>2. CASE DoWrite \/ DoWriteFails \/ DoAwait \/ DoClose \/ DoRun \/ DoStop
  <2>1. ~Doing("emit")
    BY <1>2 DEF DoWrite, DoWriteFails, DoAwait, DoClose, DoRun, DoStop, Doing
  <2> QED  BY <1>2, <2>1 DEF DoWrite, DoWriteFails, DoAwait, DoClose, DoRun, DoStop,
                            session, channels, user
<1> QED  BY <1>1, <1>2 DEF TaskStep

\* The head is the first element.
LEMMA HeadIsFirst ==
  ASSUME TypeOK, todo # <<>>
  PROVE  /\ Len(todo) \in Nat \ {0} /\ DOMAIN todo = 1 .. Len(todo)
         /\ 1 \in DOMAIN todo /\ Head(todo) = todo[1]
         /\ \A i \in DOMAIN todo : todo[i] \in Step
<1>1. todo \in Seq(Step)
  BY DEF TypeOK
<1>2. Len(todo) \in Nat \ {0} /\ DOMAIN todo = 1 .. Len(todo)
  BY <1>1, EmptySeq, LenProperties
<1> QED  BY <1>1, <1>2, ElementOfSeq

-----------------------------------------------------------------------------
(* What a turn of select! leaves to do.  The events that tell of           *)
(* registration and activation come first in their list.                   *)

Tellers == {"SetActive", "Deactivated", "DeviceRegistered", "RemoveRenderer",
            "Heartbeat", "RestoreState"}

\* What the application knows after event x, from what it knew before.
ActiveAfter(x, active) ==
  IF x.kind = "SetActive" THEN TRUE
  ELSE IF x.kind = "Deactivated" THEN FALSE ELSE active
RegisteredAfter(x, r) ==
  IF x.kind = "DeviceRegistered" THEN x.ref
  ELSE IF x.kind = "RemoveRenderer" /\ x.ref = r THEN 0 ELSE r

\* The message w asks to activate the renderer that event e says is the device.
Told(e, w) ==
  e.kind = "DeviceRegistered" /\ Cause(e) = Cause(w) /\ SameRenderer(e, w)

\* Operations that may follow the saying of x, and those that may follow any.
FollowStep(x) ==
  {s \in Step :
     /\ s.item.from # "app"
     /\ s.op = "emit" => s.item.kind \notin Tellers \cup {"SessionState"}
     /\ s.op = "write" /\ s.item.kind = "SetActiveRenderer" => Told(x, s.item)
     /\ s.op = "write" /\ s.item.kind = "AskForQueueState" =>
          x.kind = "SetActive" /\ s.item.ref = session_uuid /\ Cause(s.item) = Cause(x)}
DullStep ==
  {s \in Step :
     /\ s.item.from # "app"
     /\ s.op = "emit" => s.item.kind \notin Tellers \cup {"SessionState"}
     /\ s.op = "write" => s.item.kind \notin {"SetActiveRenderer", "AskForQueueState"}}

LEMMA DullFollows ==
  ASSUME NEW x, NEW s \in Seq(DullStep)
  PROVE  s \in Seq(FollowStep(x))
<1>1. DullStep \subseteq FollowStep(x)
  BY DEF DullStep, FollowStep
<1> QED  BY <1>1, SeqMonotonic

LEMMA DullEmit ==
  ASSUME NEW m \in ServerItem,
         NEW k \in EventKinds \ (Tellers \cup {"SessionState"})
  PROVE  Emit(As(k, m)) \in DullStep
<1>1. As(k, m) \in EventItem /\ Emit(As(k, m)) \in Step
  BY ServerEventType, StepTypes
<1>2. As(k, m).kind = k /\ As(k, m).from = m.from /\ m.from # "app"
  BY DEF As, ServerItem, Items
<1> QED  BY <1>1, <1>2 DEF DullStep, Emit, Op

LEMMA DullDispatch ==
  ASSUME NEW m \in ServerItem, m.kind \notin {"SessionState", "RemoveRenderer"}
  PROVE  Dispatch(m) \in Seq(DullStep)
<1>1. CASE m.kind \in DOMAIN DispatchTable
  <2>1. DispatchTable[m.kind] \in EventKinds \ (Tellers \cup {"SessionState"})
    BY <1>1 DEF DispatchTable, EventKinds, NotificationKinds, Tellers
  <2> QED  BY <1>1, <2>1, DullEmit DEF Dispatch
<1>2. CASE m.kind \notin DOMAIN DispatchTable
  BY <1>2 DEF Dispatch
<1> QED  BY <1>1, <1>2

LEMMA DullEnd == ExitSteps \in Seq(DullStep) /\ CloseSteps \in Seq(DullStep)
<1>1. /\ \A k \in {"Closed", "Disconnected", "SessionClosed"} :
           Own(k).from = "session" /\ Own(k).kind = k
      /\ {"Disconnected", "SessionClosed"} \cap (Tellers \cup {"SessionState"}) = {}
  BY DEF Own, Mk, Tellers
<1>2. /\ Emit(Own("Disconnected")) \in DullStep /\ Emit(Own("SessionClosed")) \in DullStep
      /\ Op("stop", Own("SessionClosed")) \in DullStep
      /\ Op("close", Own("Closed")) \in DullStep
  BY <1>1, StepTypes, OwnTypes DEF DullStep, Emit, Op
<1> QED  BY <1>2 DEF ExitSteps, CloseSteps

LEMMA DullAsk ==
  ASSUME NEW x \in CommandItem, x.from # "app", x.kind \in {"SetState", "SetVolume"}
  PROVE  Ask(x) \in Seq(DullStep)
<1>1. /\ Emit(x) \in Step /\ Emit(x).op = "emit" /\ Emit(x).item = x
      /\ Await(x) \in Step /\ Await(x).op = "await" /\ Await(x).item = x
  BY StepTypes DEF CommandItem, EventItem, Items, EventKinds, Emit, Await, Op
<1>2. Emit(x) \in DullStep /\ Await(x) \in DullStep
  BY <1>1 DEF DullStep, Tellers
<1> QED  BY <1>2 DEF Ask

\* The id is sent modulo 2^32, and as it is below 2^31.
LEMMA CastIsSame ==
  ASSUME NEW r \in Nat
  PROVE  (AsI32(r) - r) % I32Modulus = 0 /\ (2 * r < I32Modulus => AsI32(r) = r)
<1> DEFINE m == I32Modulus
           q == r \div m
<1>0. m \in Nat \ {0}
  BY ConstantsAssumption
<1>1. q \in Int /\ (r % m) - r = m * (-q) /\ r % m \in Int
  BY <1>0
<1>2. (r % m) - m - r = m * (-q - 1)
  BY <1>0, <1>1
<1>3. AsI32(r) \in {r % m, (r % m) - m}
  BY DEF AsI32
<1>4. ASSUME 2 * r < m PROVE AsI32(r) = r
  <2>1. r % m = r
    BY <1>0, <1>4
  <2> QED  BY <1>0, <1>4, <2>1 DEF AsI32
<1> HIDE DEF m, q
<1>5. (m * (-q)) % m = 0 /\ (m * (-q - 1)) % m = 0
  <2>1. -q \in Int /\ -q - 1 \in Int
    BY <1>1
  <2> QED  BY <1>0, <2>1, Multiple
<1> QED  BY <1>1, <1>2, <1>3, <1>4, <1>5 DEF m

\* What follows the DeviceRegistered of our own AddRenderer.
LEMMA RegisterFollows ==
  ASSUME NEW m \in ServerItem, m.kind = "AddOurs"
  PROVE  \E rest \in Seq(FollowStep(As("DeviceRegistered", m))) :
            RegisterSteps(m) = <<Emit(As("DeviceRegistered", m))>> \o rest
<1> DEFINE x == As("DeviceRegistered", m)
           F == FollowStep(x)
           a == [As("SetActiveRenderer", m) EXCEPT !.ref = AsI32(m.ref)]
           w == WriteOrSkip(a, 1)
<1>1. m.ref \in Nat /\ x.kind = "DeviceRegistered" /\ x.ref = m.ref /\ Cause(x) = Cause(m)
      /\ x \in EventItem
  BY ServerEventType DEF As, ServerItem, Items, Cause, EventKinds, NotificationKinds
<1>2. /\ a \in WireItem /\ a.kind = "SetActiveRenderer" /\ a.ref = AsI32(m.ref)
      /\ Cause(a) = Cause(m) /\ a.from # "app"
  <2>1. a \in WireItem
    BY <1>1, AsI32Type, ServerWireType DEF WireKinds
  <2> QED  BY <2>1 DEF As, ServerItem, Items, Cause
<1>3. Told(x, a)
  BY <1>1, <1>2, CastIsSame DEF Told, SameRenderer
<1> HIDE DEF x
<1>4. w \in F
  <2>1. w \in Step /\ w.op = "write" /\ w.item = a
    BY <1>2, StepTypes DEF WriteOrSkip
  <2> HIDE DEF w, a
  <2> QED  BY <1>2, <1>3, <2>1 DEF FollowStep
<1>5. As("SetActiveRenderer", m).ref = m.ref
  BY DEF As, ServerItem, Items
<1>6. ActivateSteps(m) \in {<<w>>, <<>>}
  BY <1>5 DEF ActivateSteps
<1> HIDE DEF F, w
<1>7. ActivateSteps(m) \in Seq(F)
  <2>1. <<w>> \in Seq(F) /\ <<>> \in Seq(F)
    BY <1>4, EmptySeq
  <2> QED  BY <1>6, <2>1
<1>8. Dispatch(m) \in Seq(F)
  BY DullDispatch, DullFollows DEF F
<1>9. ActivateSteps(m) \o Dispatch(m) \in Seq(F)
  BY <1>7, <1>8, ConcatProperties
<1>10. RegisterSteps(m) = <<Emit(x)>> \o (ActivateSteps(m) \o Dispatch(m))
  <2>1. Emit(x) \in Step /\ ActivateSteps(m) \in Seq(Step) /\ Dispatch(m) \in Seq(Step)
    <3>1. F \subseteq Step
      BY DEF F, FollowStep
    <3> QED  BY <1>1, <1>7, <1>8, <3>1, StepTypes, SeqMonotonic
  <2>2. <<Emit(x)>> \in Seq(Step)
    BY <2>1
  <2> QED  BY <2>1, <2>2, ConcatAssociative DEF RegisterSteps, x
<1> QED  BY <1>9, <1>10 DEF F, x

\* The four ways a turn of select! can end.
LeavesDull ==
  todo' \in Seq(DullStep) /\ UNCHANGED <<renderer_id, is_active, session_uuid>>

LeavesSaying(x) ==
  /\ \E rest \in Seq(FollowStep(x)) : todo' = <<Emit(x)>> \o rest
  /\ x.from # "app" /\ x.kind \in Tellers
  /\ x.kind = "SetActive" => HandleSetActive /\ x = Head(inbox)
  /\ x.kind = "Heartbeat" => is_active /\ renderer_id # 0
  /\ x.kind = "RestoreState" => ~is_active /\ x.ref # renderer_id
  /\ is_active' = ActiveAfter(x, is_active)
  /\ renderer_id' = RegisteredAfter(x, renderer_id)
  /\ session_uuid' = session_uuid

LeavesSession(x) ==
  /\ \E w \in WireItem : /\ w.kind = "AskForRendererState" /\ w.from # "app"
                         /\ todo' = <<Write(w), Emit(x)>>
  /\ x.from # "app" /\ x.kind = "SessionState"
  /\ session_uuid' = UuidAfter(x)
  /\ UNCHANGED <<renderer_id, is_active>>

LeavesReport ==
  /\ \E w \in WireItem : /\ w.kind \notin {"SetActiveRenderer", "AskForQueueState"}
                         /\ w.from = "app" /\ w.id = Head(commands).id
                         /\ todo' = <<Write(w)>>
  /\ UNCHANGED <<renderer_id, is_active, session_uuid>>

\* Saying x and then things that may follow anything.
LEMMA SayingThenDull ==
  ASSUME NEW m \in ServerItem, NEW k \in EventKinds, NEW rest \in Seq(DullStep),
         k \in Tellers \ {"SetActive"}, todo' = <<Emit(As(k, m))>> \o rest, session_uuid' = session_uuid,
         k = "Heartbeat" => is_active /\ renderer_id # 0,
         k = "RestoreState" => ~is_active /\ m.ref # renderer_id,
         is_active' = ActiveAfter(As(k, m), is_active),
         renderer_id' = RegisteredAfter(As(k, m), renderer_id)
  PROVE  \E x \in EventItem : LeavesSaying(x)
<1>1. /\ As(k, m) \in EventItem /\ As(k, m).kind = k
      /\ As(k, m).from # "app" /\ As(k, m).ref = m.ref
  BY ServerEventType DEF As, ServerItem, Items
<1>2. PICK x \in EventItem : x = As(k, m)
  BY <1>1
<1>3. rest \in Seq(FollowStep(x))
  BY DullFollows
<1> QED  BY <1>1, <1>2, <1>3 DEF LeavesSaying

LEMMA SayingShape ==
  ASSUME NEW x \in EventItem, LeavesSaying(x)
  PROVE  /\ Doing("emit")' /\ Head(todo').item = x /\ todo'[1] = Emit(x)
         /\ \A i \in DOMAIN todo' : i = 1 \/ todo'[i] \in FollowStep(x)
<1>1. PICK rest \in Seq(FollowStep(x)) : todo' = <<Emit(x)>> \o rest
  BY DEF LeavesSaying
<1>2. Emit(x) \in Step /\ rest \in Seq(Step)
  <2>1. FollowStep(x) \subseteq Step
    BY DEF FollowStep
  <2> QED  BY <2>1, StepTypes, SeqMonotonic
<1>3. /\ todo' \in Seq(Step) /\ todo'[1] = Emit(x) /\ Len(todo') = Len(rest) + 1
      /\ \A i \in 1 .. Len(rest) : todo'[i + 1] = rest[i]
  BY <1>1, <1>2, ConsProperties
<1>4. Len(rest) \in Nat /\ DOMAIN todo' = 1 .. Len(rest) + 1
  BY <1>2, <1>3, LenProperties
<1>5. ASSUME NEW i \in DOMAIN todo', i # 1 PROVE todo'[i] \in FollowStep(x)
  <2>1. i - 1 \in 1 .. Len(rest) /\ (i - 1) + 1 = i
    BY <1>4, <1>5
  <2>2. rest[i - 1] \in FollowStep(x)
    BY <2>1, ElementOfSeq
  <2> QED  BY <1>3, <2>1, <2>2
<1>6. todo' # <<>> /\ Head(todo') = todo'[1]
  BY <1>3, <1>4, EmptySeq
<1>7. Emit(x).op = "emit" /\ Emit(x).item = x
  BY DEF Emit, Op
<1> QED  BY <1>3, <1>5, <1>6, <1>7 DEF Doing

LEMMA MessageShapes ==
  ASSUME TypeOK, HandleMessage
  PROVE  \/ LeavesDull
         \/ \E x \in EventItem : LeavesSaying(x)
         \/ \E x \in EventItem : LeavesSession(x)
<1> DEFINE m == Head(inbox)
<1>1. CASE HandleAddRenderer
  <2>1. m \in ServerItem /\ m.kind \in {"AddOurs", "AddOther"} /\ m.ref \in Nat
    BY <1>1, TakesType DEF HandleAddRenderer
  <2>2. CASE m.kind = "AddOurs"
    <3> DEFINE x == As("DeviceRegistered", m)
    <3>1. /\ x \in EventItem /\ x.kind = "DeviceRegistered"
          /\ x.from # "app" /\ x.ref = m.ref
      BY <2>1, ServerEventType DEF As, ServerItem, Items, EventKinds, NotificationKinds
    <3>2. todo' = RegisterSteps(m) /\ renderer_id' = m.ref
          /\ UNCHANGED <<is_active, session_uuid>>
      BY <1>1, <2>2 DEF HandleAddRenderer
    <3>3. \E rest \in Seq(FollowStep(x)) : todo' = <<Emit(x)>> \o rest
      BY <2>1, <2>2, <3>2, RegisterFollows
    <3> HIDE DEF x
    <3>4. LeavesSaying(x)
      BY <3>1, <3>2, <3>3 DEF LeavesSaying, ActiveAfter, RegisteredAfter, Tellers
    <3> QED  BY <3>1, <3>4
  <2>3. CASE m.kind # "AddOurs"
    <3>1. todo' = Dispatch(m)
      BY <1>1, <2>3 DEF HandleAddRenderer
    <3>2. UNCHANGED <<renderer_id, is_active, session_uuid>>
      BY <1>1, <2>3 DEF HandleAddRenderer
    <3> QED  BY <2>1, <3>1, <3>2, DullDispatch DEF LeavesDull
  <2> QED  BY <2>2, <2>3
<1>2. CASE HandleRemoveRenderer
  <2>1. m \in ServerItem /\ m.kind = "RemoveRenderer"
    BY <1>2, TakesType DEF HandleRemoveRenderer
  <2>2. Dispatch(m) = <<Emit(As("RemoveRenderer", m))>>
    BY <2>1 DEF Dispatch, DispatchTable
  <2>3. "RemoveRenderer" \in EventKinds /\ "RemoveRenderer" \in Tellers \ {"SetActive"}
    BY DEF EventKinds, NotificationKinds, Tellers
  <2>4. As("RemoveRenderer", m).kind = "RemoveRenderer" /\ As("RemoveRenderer", m).ref = m.ref
    BY <2>1 DEF As, ServerItem, Items
  <2>5. /\ is_active' = ActiveAfter(As("RemoveRenderer", m), is_active)
        /\ renderer_id' = RegisteredAfter(As("RemoveRenderer", m), renderer_id)
        /\ session_uuid' = session_uuid
    BY <1>2, <2>4 DEF HandleRemoveRenderer, ActiveAfter, RegisteredAfter
  <2>6. todo' = <<Emit(As("RemoveRenderer", m))>> \o <<>>
    <3>1. <<Emit(As("RemoveRenderer", m))>> \in Seq(Step)
      BY <2>1, <2>3, ServerEventType, StepTypes
    <3> QED  BY <1>2, <2>2, <3>1, ConcatEmptySeq DEF HandleRemoveRenderer
  <2> QED  BY <2>1, <2>3, <2>5, <2>6, SayingThenDull, EmptySeq
<1>3. CASE HandleSessionState
  <2> DEFINE x == As("SessionState", m)
             w == As("AskForRendererState", m)
  <2>1. m \in ServerItem /\ m.kind = "SessionState"
    BY <1>3, TakesType DEF HandleSessionState
  <2>2. Dispatch(m) = <<Emit(x)>>
    BY <2>1 DEF Dispatch, DispatchTable
  <2>3. /\ x \in EventItem /\ x.kind = "SessionState" /\ x.from # "app" /\ x.ref = m.ref
        /\ w \in WireItem /\ w.kind = "AskForRendererState" /\ w.from # "app"
    BY <2>1, ServerEventType, ServerWireType
       DEF As, ServerItem, Items, EventKinds, NotificationKinds, WireKinds
  <2>4. /\ todo' = <<Write(w)>> \o <<Emit(x)>> /\ UNCHANGED <<renderer_id, is_active>>
        /\ session_uuid' = UuidAfter(m)
    BY <1>3, <2>2 DEF HandleSessionState
  <2> HIDE DEF x, w
  <2>5. todo' = <<Write(w), Emit(x)>>
    <3>1. Write(w) \in Step /\ Emit(x) \in Step
      BY <2>3, StepTypes
    <3> QED  BY <2>4, <3>1, ConsPair
  <2>6. LeavesSession(x)
    BY <2>3, <2>4, <2>5 DEF LeavesSession, UuidAfter
  <2> QED  BY <2>3, <2>6
<1>4. CASE HandleRendererStateUpdated
  <2>1. m \in ServerItem /\ UNCHANGED <<renderer_id, is_active, session_uuid>>
    BY <1>4, TakesType DEF HandleRendererStateUpdated
  <2>2. CASE m.ref # renderer_id /\ ~is_active
    <3>1. todo' = <<Emit(As("RestoreState", m))>>
      BY <1>4, <2>2 DEF HandleRendererStateUpdated
    <3>2. "RestoreState" \in EventKinds /\ "RestoreState" \in Tellers \ {"SetActive"}
      BY DEF EventKinds, NotificationKinds, Tellers
    <3>3. As("RestoreState", m).kind = "RestoreState"
      BY <2>1 DEF As, ServerItem, Items
    <3>4. /\ is_active' = ActiveAfter(As("RestoreState", m), is_active)
          /\ renderer_id' = RegisteredAfter(As("RestoreState", m), renderer_id)
      BY <2>1, <3>3 DEF ActiveAfter, RegisteredAfter
    <3>5. todo' = <<Emit(As("RestoreState", m))>> \o <<>>
      <4>1. <<Emit(As("RestoreState", m))>> \in Seq(Step)
        BY <2>1, <3>2, ServerEventType, StepTypes
      <4> QED  BY <3>1, <4>1, ConcatEmptySeq
    <3> QED  BY <2>1, <2>2, <3>2, <3>4, <3>5, SayingThenDull, EmptySeq
  <2>3. CASE ~(m.ref # renderer_id /\ ~is_active)
    <3>1. todo' = <<Emit(As("RendererStateUpdated", m))>>
      BY <1>4, <2>3 DEF HandleRendererStateUpdated
    <3>2. "RendererStateUpdated" \in EventKinds \ (Tellers \cup {"SessionState"})
      BY DEF EventKinds, NotificationKinds, Tellers
    <3>3. Emit(As("RendererStateUpdated", m)) \in DullStep
      BY <2>1, <3>2, DullEmit
    <3> QED  BY <2>1, <3>1, <3>3 DEF LeavesDull
  <2> QED  BY <2>2, <2>3
<1>5. CASE HandleSetState
  <2>1. m \in ServerItem /\ UNCHANGED <<renderer_id, is_active, session_uuid>>
    BY <1>5, TakesType DEF HandleSetState
  <2>2. m.kind = "SetState" => m \in CommandItem /\ m.from # "app"
    BY <2>1 DEF ServerItem, CommandItem, Items, CommandKinds, Origins
  <2>3. m.kind = "SetState" => Ask(m) \in Seq(DullStep)
    BY <2>2, DullAsk
  <2>4. <<>> \in Seq(DullStep)
    BY EmptySeq
  <2> QED  BY <1>5, <2>1, <2>3, <2>4 DEF HandleSetState, LeavesDull
<1>6. CASE HandleSetVolume
  <2>1. /\ m \in ServerItem /\ m.kind = "SetVolume"
        /\ UNCHANGED <<renderer_id, is_active, session_uuid>>
    BY <1>6, TakesType DEF HandleSetVolume
  <2>2. m \in CommandItem /\ m.from # "app"
    BY <2>1 DEF ServerItem, CommandItem, Items, CommandKinds, Origins
  <2> QED  BY <1>6, <2>1, <2>2, DullAsk DEF HandleSetVolume, LeavesDull
<1>7. CASE HandleSetActive
  <2>1. m \in ServerItem /\ m.kind = "SetActive"
    BY <1>7, TakesType DEF HandleSetActive
  <2>2. m \in CommandItem /\ m \in EventItem /\ m.from # "app"
    BY <2>1 DEF ServerItem, CommandItem, EventItem, Items, CommandKinds, EventKinds, Origins
  <2> DEFINE a == [As("AskForQueueState", m) EXCEPT !.ref = session_uuid]
  <2>3. /\ a \in WireItem /\ a.kind = "AskForQueueState" /\ a.from # "app"
        /\ a.ref = session_uuid /\ Cause(a) = Cause(m)
    <3>1. a \in WireItem
      BY <2>1, ServerWireType DEF WireKinds, TypeOK
    <3> QED  BY <2>1, <3>1 DEF As, ServerItem, Items, Cause
  <2>4. todo' = Ask(m) \o <<Write(a)>> /\ is_active' = TRUE
        /\ UNCHANGED <<renderer_id, session_uuid>>
    BY <1>7 DEF HandleSetActive
  <2>9. m = Head(inbox)
    OBVIOUS
  <2> HIDE DEF a, m
  <2>5. todo' = <<Emit(m)>> \o <<Await(m), Write(a)>>
    BY <2>4 DEF Ask
  <2>6. Await(m) \in FollowStep(m) /\ Write(a) \in FollowStep(m)
    <3>1. /\ Await(m) \in Step /\ Await(m).op = "await" /\ Await(m).item = m
          /\ Write(a) \in Step /\ Write(a).op = "write" /\ Write(a).item = a
      BY <2>2, <2>3, StepTypes DEF Await, Write, Op
    <3> QED  BY <2>1, <2>2, <2>3, <3>1 DEF FollowStep
  <2>7. <<Await(m), Write(a)>> \in Seq(FollowStep(m))
    BY <2>6
  <2>8. LeavesSaying(m)
    BY <1>7, <2>1, <2>2, <2>4, <2>5, <2>7, <2>9
       DEF LeavesSaying, ActiveAfter, RegisteredAfter, Tellers
  <2> QED  BY <2>2, <2>8
<1>8. CASE HandleSetInactive
  <2>1. m \in ServerItem
    BY <1>8, TakesType DEF HandleSetInactive
  <2>2. PICK rest \in Seq(DullStep) : todo' = <<Emit(As("Deactivated", m))>> \o rest
    BY <1>8, DullEnd, EmptySeq DEF HandleSetInactive, InactiveSteps
  <2>3. "Deactivated" \in EventKinds /\ "Deactivated" \in Tellers \ {"SetActive"}
    BY DEF EventKinds, NotificationKinds, Tellers
  <2>4. As("Deactivated", m).kind = "Deactivated"
    BY <2>1 DEF As, ServerItem, Items
  <2>5. /\ is_active' = ActiveAfter(As("Deactivated", m), is_active)
        /\ renderer_id' = RegisteredAfter(As("Deactivated", m), renderer_id)
        /\ session_uuid' = session_uuid
    BY <1>8, <2>4 DEF HandleSetInactive, ActiveAfter, RegisteredAfter
  <2> QED  BY <2>1, <2>2, <2>3, <2>5, SayingThenDull
<1>9. CASE HandleOther
  <2>1. /\ m \in ServerItem /\ m.kind \in {"Broadcast", "Unhandled"}
        /\ UNCHANGED <<renderer_id, is_active, session_uuid>>
    BY <1>9, TakesType DEF HandleOther
  <2> QED  BY <1>9, <2>1, DullDispatch DEF HandleOther, LeavesDull
<1>10. CASE HandleStreamEnd
  BY <1>10, DullEnd DEF HandleStreamEnd, LeavesDull
<1> QED  BY <1>1, <1>2, <1>3, <1>4, <1>5, <1>6, <1>7, <1>8, <1>9, <1>10
         DEF HandleMessage

LEMMA SelectShapes ==
  ASSUME TypeOK, Select, ~IdleTurn
  PROVE  /\ todo = <<>> /\ status = "running"
         /\ UNCHANGED <<status, link, wire, log, app, reporting, nreports>>
         /\ \/ TakeCommand /\ LeavesReport
            \/ /\ commands' = commands
               /\ \/ LeavesDull
                  \/ \E x \in EventItem : LeavesSaying(x)
                  \/ \E x \in EventItem : LeavesSession(x)
<1>1. CASE HandleMessage
  <2>1. /\ todo = <<>> /\ status = "running"
        /\ UNCHANGED <<status, link, wire, log, app, reporting, commands, nreports>>
    BY <1>1 DEF HandleMessage, HandleAddRenderer, HandleRemoveRenderer, HandleSessionState,
                HandleRendererStateUpdated, HandleSetState, HandleSetVolume, HandleSetActive,
                HandleSetInactive, HandleOther, HandleStreamEnd, Takes, AtSelect, user, counters
  <2> QED  BY <1>1, <2>1, MessageShapes
<1>2. CASE Tick
  <2> DEFINE h == Mk("Heartbeat", "timer", beats + 1, 0)
  <2>1. /\ todo = <<>> /\ status = "running" /\ UNCHANGED session
        /\ UNCHANGED <<link, wire, log, app, reporting, commands, nreports>>
        /\ is_active /\ renderer_id # 0
    BY <1>2 DEF Tick, AtSelect, MayBeat, channels, user
  <2>2. h \in CommandItem /\ h \in EventItem /\ h.kind = "Heartbeat" /\ h.from # "app"
    BY DEF TypeOK, Mk, CommandItem, EventItem, Items, CommandKinds, EventKinds, Origins
  <2>3. todo' = Ask(h)
    BY <1>2 DEF Tick
  <2> HIDE DEF h
  <2>4. todo' = <<Emit(h)>> \o <<Await(h)>>
    BY <2>3 DEF Ask
  <2>5. Await(h) \in FollowStep(h)
    <3>1. Await(h) \in Step /\ Await(h).op = "await" /\ Await(h).item = h
      BY <2>2, StepTypes DEF Await, Op
    <3> QED  BY <2>2, <3>1 DEF FollowStep
  <2>6. <<Await(h)>> \in Seq(FollowStep(h))
    BY <2>5
  <2>7. LeavesSaying(h)
    BY <2>1, <2>2, <2>4, <2>6
       DEF LeavesSaying, ActiveAfter, RegisteredAfter, Tellers, session
  <2> QED  BY <2>1, <2>2, <2>7 DEF session
<1>3. CASE TakeCommand
  <2> DEFINE c == Head(commands)
             w == As(ReportMessage[c.kind], c)
  <2>1. c \in ReportItem
    <3>1. commands \in Seq(ReportItem) /\ commands # <<>>
      BY <1>3 DEF TakeCommand, CommandReady, TypeOK
    <3> QED  BY <3>1, HeadTailProperties
  <2>2. /\ todo = <<>> /\ status = "running" /\ UNCHANGED session
        /\ UNCHANGED <<link, wire, log, app, reporting, nreports>>
        /\ todo' = <<Write(w)>>
    BY <1>3 DEF TakeCommand, AtSelect, channels, counters
  <2>3. ReportMessage[c.kind] \in WireKinds \ {"SetActiveRenderer", "AskForQueueState"}
    BY <2>1 DEF ReportItem, Items, ReportMessage, WireKinds
  <2>4. w \in Items(WireKinds, {"app"}, Nat) /\ w.kind = ReportMessage[c.kind]
        /\ w.from = "app" /\ w.id = c.id
    <3>1. c.from = "app"
      BY <2>1 DEF ReportItem, Items
    <3> QED  BY <2>1, <2>3, <3>1, AsType DEF ReportItem
  <2> HIDE DEF w
  <2>5. w \in WireItem
    BY <2>4 DEF WireItem, Items, Origins
  <2>6. LeavesReport
    BY <2>2, <2>3, <2>4, <2>5 DEF LeavesReport, session
  <2> QED  BY <1>3, <2>2, <2>6 DEF session
<1> QED  BY <1>1, <1>2, <1>3 DEF Select

-----------------------------------------------------------------------------
(* The application's reports.                                              *)

\* The reports in w are those from 1 to n, in that order.
Delivered(w, n) ==
  LET R == {i \in DOMAIN w : IsReport(w[i])}
  IN  /\ {w[i].id : i \in R} = 1 .. n
      /\ \A i, j \in R : i < j => w[i].id < w[j].id

LEMMA DeliveredMore ==
  ASSUME NEW w \in Seq(WireItem), NEW x \in WireItem, NEW n \in Nat, Delivered(w, n),
         IsReport(x) => x.id = n + 1
  PROVE  Delivered(Append(w, x), IF IsReport(x) THEN n + 1 ELSE n)
<1> DEFINE v == Append(w, x)
           R == {i \in DOMAIN w : IsReport(w[i])}
           Q == {i \in DOMAIN v : IsReport(v[i])}
           p == Len(w)
<1>1. /\ p \in Nat /\ DOMAIN w = 1 .. p /\ DOMAIN v = 1 .. p + 1
      /\ v[p + 1] = x /\ \A i \in 1 .. p : v[i] = w[i]
  <2>1. v \in Seq(WireItem) /\ Len(v) = p + 1
    BY AppendProperties
  <2> QED  BY <2>1, AppendProperties, LenProperties
<1>2. {w[i].id : i \in R} = 1 .. n /\ \A i, j \in R : i < j => w[i].id < w[j].id
  BY DEF Delivered
<1> HIDE DEF v, p
<1>3. /\ \A i \in R : i \in Q /\ v[i] = w[i] /\ i <= p
      /\ \A i \in Q : i = p + 1 \/ i \in R
  BY <1>1
<1>4. CASE IsReport(x)
  <2>1. p + 1 \in Q /\ v[p + 1].id = n + 1
    BY <1>1, <1>4
  <2>2. \A i \in Q : i # p + 1 => i \in R /\ v[i].id \in 1 .. n
    BY <1>2, <1>3
  <2>3. {v[i].id : i \in Q} = 1 .. n + 1
    <3>1. \A i \in Q : v[i].id \in 1 .. n + 1
      BY <2>1, <2>2
    <3>2. ASSUME NEW k \in 1 .. n + 1 PROVE \E i \in Q : v[i].id = k
      <4>1. CASE k = n + 1
        BY <2>1, <4>1
      <4>2. CASE k # n + 1
        <5>1. k \in 1 .. n
          BY <4>2
        <5>2. PICK i \in R : w[i].id = k
          BY <1>2, <5>1
        <5> QED  BY <1>3, <5>2
      <4> QED  BY <4>1, <4>2
    <3> QED  BY <3>1, <3>2
  <2>4. ASSUME NEW i \in Q, NEW j \in Q, i < j PROVE v[i].id < v[j].id
    <3>1. i # p + 1
      BY <1>1, <2>4
    <3>2. i \in R /\ v[i].id \in 1 .. n
      BY <2>2, <3>1
    <3>3. CASE j = p + 1
      BY <2>1, <3>2, <3>3
    <3>4. CASE j # p + 1
      BY <1>2, <1>3, <2>2, <2>4, <3>2, <3>4
    <3> QED  BY <3>3, <3>4
  <2> QED  BY <1>4, <2>3, <2>4 DEF Delivered, v
<1>5. CASE ~IsReport(x)
  <2>1. Q = R
    BY <1>1, <1>3, <1>5
  <2>2. {v[i].id : i \in Q} = 1 .. n
    <3>1. {v[i].id : i \in Q} = {w[i].id : i \in R}
      BY <1>3, <2>1
    <3> QED  BY <1>2, <3>1
  <2>3. \A i, j \in Q : i < j => v[i].id < v[j].id
    BY <1>2, <1>3, <2>1
  <2> QED  BY <1>5, <2>2, <2>3 DEF Delivered, v
<1> QED  BY <1>4, <1>5

\* A report is written by a list of its own.
ReportIsAlone ==
  \A i \in DOMAIN todo : IsReport(todo[i].item) =>
     i = 1 /\ Len(todo) = 1 /\ todo[i].op = "write"

\* Where the reports are while the session goes on and its link is up.
Flow ==
  /\ Taken \in Nat /\ Delivered(wire, OnWire)
  /\ InHand => Taken # 0 /\ Head(todo).item.id = Taken
  /\ \A k \in DOMAIN commands : commands[k].id = Taken + k

Reports ==
  /\ TypeOK /\ ReportIsAlone
  /\ Ended => todo = <<>>
  /\ reporting # <<>> => Len(reporting) = 1 /\ reporting[1].id = nreports + 1
  /\ link = "up" /\ ~Ended => Flow

\* After a step of the task no report is in hand.
LEMMA TaskLeavesNoReport ==
  ASSUME TypeOK, ReportIsAlone, TaskStep
  PROVE  \A i \in DOMAIN todo' : ~IsReport(todo'[i].item)
<1> SUFFICES ASSUME NEW i \in DOMAIN todo', IsReport(todo'[i].item) PROVE FALSE
  OBVIOUS
<1>1. PICK d \in Int : Shifted(i, d) \/ Answering(i)
  BY TaskLeaves
<1>2. todo \in Seq(Step)
  BY DEF TypeOK
<1>3. CASE Shifted(i, d)
  <2>1. i + d \in 2 .. Len(todo) /\ todo'[i] = todo[i + d]
    BY <1>3 DEF Shifted
  <2>2. i + d \in DOMAIN todo /\ i + d # 1
    BY <1>2, <2>1, LenProperties
  <2> QED  BY <2>1, <2>2 DEF ReportIsAlone
<1>4. CASE Answering(i)
  <2>1. todo # <<>> /\ Head(todo).op = "await" /\ todo'[i].item.from = Head(todo).item.from
    BY <1>4 DEF Answering, AnswerStep, Doing
  <2> QED  BY <2>1, HeadIsFirst DEF ReportIsAlone, IsReport
<1> QED  BY <1>1, <1>3, <1>4

LEMMA NoneInHand ==
  ASSUME TypeOK', \A i \in DOMAIN todo' : ~IsReport(todo'[i].item)
  PROVE  ReportIsAlone' /\ ~InHand'
<1>1. ~InHand'
  <2> SUFFICES ASSUME todo' # <<>> PROVE ~IsReport(Head(todo').item)
    BY DEF InHand
  <2>1. todo' \in Seq(Step)
    BY DEF TypeOK
  <2>2. 1 \in DOMAIN todo'
    BY <2>1, EmptySeq, LenProperties
  <2> QED  BY <2>2
<1> QED  BY <1>1 DEF ReportIsAlone

\* The body of the property follows.
LEMMA FlowIsOrder == Reports => ReportsArriveInOrder
BY DEF Reports, Flow, ReportsArriveInOrder, Delivered, WiredReports, Ended

LEMMA ReportsTask == Reports /\ TaskStep => Reports'
<1> SUFFICES ASSUME Reports, TaskStep PROVE Reports'
  OBVIOUS
<1>1. TypeOK /\ ReportIsAlone /\ TypeOK'
  BY TypeTask DEF Reports
<1>2. ReportIsAlone' /\ ~InHand'
  BY <1>1, TaskLeavesNoReport, NoneInHand
<1>3. /\ todo # <<>> /\ UNCHANGED <<reporting, nreports>>
      /\ Ended' => Ended \/ todo' = <<>>
  BY DEF TaskStep, DoEmit, DoWrite, DoWriteFails, DoAwait, DoClose, DoRun, DoStop, Doing,
         Ended, session, channels, user, counters
<1>4. ~Ended /\ (Ended' => todo' = <<>>)
  BY <1>3 DEF Reports
<1>5. /\ reporting # <<>> => Len(reporting) = 1 /\ reporting[1].id = nreports + 1
      /\ reporting' # <<>> => Len(reporting') = 1 /\ reporting'[1].id = nreports' + 1
  BY <1>3 DEF Reports
<1>6. ASSUME link' = "up", ~Ended' PROVE Flow'
  <2>1. /\ link = "up" /\ commands' = commands
        /\ DoWrite \/ (wire' = wire /\ ~Doing("write"))
    <3>1. CASE DoWrite
      BY <1>6, <3>1 DEF DoWrite, user
    <3>2. CASE DoWriteFails
      BY <1>6, <3>2 DEF DoWriteFails, channels
    <3>3. CASE DoStop
      BY <1>6, <3>3 DEF DoStop, Ended
    <3>4. CASE DoEmit \/ DoAwait \/ DoClose \/ DoRun
      BY <1>6, <3>4 DEF DoEmit, DoAwait, DoClose, DoRun, Doing, channels, user
    <3> QED  BY <3>1, <3>2, <3>3, <3>4 DEF TaskStep
  <2>2. Flow /\ Taken' = Taken /\ OnWire' = Taken
    BY <1>2, <1>3, <1>4, <2>1 DEF Reports, Taken, OnWire
  <2>3. \A k \in DOMAIN commands' : commands'[k].id = Taken' + k
    BY <2>1, <2>2 DEF Flow
  <2>4. Delivered(wire', OnWire')
    <3>1. CASE DoWrite
      <4> DEFINE x == Head(todo).item
      <4>1. x \in WireItem /\ wire' = Append(wire, x) /\ wire \in Seq(WireItem)
        BY <1>1, <2>1, <3>1, HeadType DEF DoWrite, TypeOK
      <4>2. InHand <=> IsReport(x)
        BY <1>3 DEF InHand
      <4> HIDE DEF x
      <4>3. CASE IsReport(x)
        <5>1. Taken - 1 \in Nat /\ OnWire = Taken - 1 /\ Delivered(wire, Taken - 1)
              /\ x.id = (Taken - 1) + 1
          BY <2>2, <4>2, <4>3 DEF Flow, OnWire, x
        <5>2. Delivered(Append(wire, x), (Taken - 1) + 1)
          BY <4>1, <4>3, <5>1, DeliveredMore
        <5>3. (Taken - 1) + 1 = Taken
          BY <2>2 DEF Flow
        <5> QED  BY <2>2, <4>1, <5>2, <5>3
      <4>4. CASE ~IsReport(x)
        <5>1. Taken \in Nat /\ Delivered(wire, Taken)
          BY <2>2, <4>2, <4>4 DEF Flow, OnWire
        <5>2. Delivered(Append(wire, x), Taken)
          BY <4>1, <4>4, <5>1, DeliveredMore
        <5> QED  BY <2>2, <4>1, <5>2
      <4> QED  BY <4>3, <4>4
    <3>2. CASE wire' = wire /\ ~Doing("write")
      <4>1. ~InHand
        <5>1. Head(todo) = todo[1] /\ 1 \in DOMAIN todo
          BY <1>1, <1>3, HeadIsFirst
        <5> QED  BY <1>1, <1>3, <3>2, <5>1 DEF InHand, ReportIsAlone, Doing
      <4> QED  BY <2>2, <3>2, <4>1 DEF Flow, OnWire
    <3> QED  BY <2>1, <3>1, <3>2
  <2> QED  BY <1>2, <2>2, <2>3, <2>4 DEF Flow
<1> QED  BY <1>1, <1>2, <1>4, <1>5, <1>6 DEF Reports

LEMMA ReportsSelect == Reports /\ Select => Reports'
<1> SUFFICES ASSUME Reports, Select PROVE Reports'
  OBVIOUS
<1>0. TypeOK /\ TypeOK' /\ commands \in Seq(ReportItem) /\ Len(commands) \in Nat
      /\ nreports \in Nat
  BY TypeSelect, LenProperties DEF Reports, TypeOK
<1>1. CASE IdleTurn
  BY <1>0, <1>1 DEF IdleTurn, vars, session, channels, user, counters, Reports, ReportIsAlone,
                    Ended, Flow, Taken, OnWire, InHand
<1>2. CASE ~IdleTurn
  <2>1. /\ todo = <<>> /\ status' = "running"
        /\ UNCHANGED <<status, link, wire, reporting, nreports>>
        /\ \/ TakeCommand /\ LeavesReport
           \/ /\ commands' = commands
              /\ \/ LeavesDull
                 \/ \E x \in EventItem : LeavesSaying(x)
                 \/ \E x \in EventItem : LeavesSession(x)
    BY <1>0, <1>2, SelectShapes
  <2>2. ~InHand /\ ~Ended /\ ~Ended' /\ (link' = "up" => Flow)
        /\ (link' = "up" => Delivered(wire, Taken))
    BY <2>1 DEF InHand, Ended, Reports, Flow, OnWire
  <2>3. CASE TakeCommand /\ LeavesReport
    <3>1. PICK w \in WireItem : /\ w.from = "app" /\ w.id = Head(commands).id
                                /\ todo' = <<Write(w)>>
      BY <2>3 DEF LeavesReport
    <3>2. /\ Len(todo') = 1 /\ Head(todo') = Write(w) /\ DOMAIN todo' = 1 .. 1
          /\ todo'[1] = Write(w) /\ todo' # <<>>
          /\ Write(w).op = "write" /\ Write(w).item = w
      BY <3>1 DEF Write, Op
    <3>3. ReportIsAlone' /\ InHand' /\ Head(todo').item.id = Head(commands).id
      BY <3>1, <3>2 DEF ReportIsAlone, InHand, IsReport
    <3>4. /\ commands # <<>> /\ commands' = Tail(commands)
          /\ Len(commands') = Len(commands) - 1 /\ Len(commands') \in Nat
          /\ Head(commands) = commands[1] /\ 1 \in DOMAIN commands
          /\ DOMAIN commands' = 1 .. Len(commands) - 1
          /\ \A k \in DOMAIN commands' : k \in Nat /\ k + 1 \in DOMAIN commands
                                         /\ commands'[k] = commands[k + 1]
      <4>1. commands # <<>> /\ commands' = Tail(commands)
        BY <2>3 DEF TakeCommand, CommandReady
      <4> QED  BY <1>0, <4>1, HeadTailProperties, LenProperties
    <3>5. ASSUME link' = "up" PROVE Flow'
      <4>1. Taken \in Nat /\ Taken' = Taken + 1 /\ OnWire' = Taken
        <5>1. Taken \in Nat
          BY <2>2, <3>5 DEF Flow
        <5>2. Taken' = Taken + 1
          <6>1. nreports' = nreports /\ Len(commands') = Len(commands) - 1
            BY <2>1, <3>4
          <6> QED  BY <1>0, <6>1 DEF Taken
        <5>3. OnWire' = Taken' - 1
          BY <3>3 DEF OnWire
        <5> QED  BY <5>1, <5>2, <5>3
      <4>2. \A k \in DOMAIN commands : commands[k].id = Taken + k
        BY <2>2, <3>5 DEF Flow
      <4>3. \A k \in DOMAIN commands' : commands'[k].id = Taken' + k
        BY <3>4, <4>1, <4>2
      <4>4. Head(todo').item.id = Taken'
        BY <3>3, <3>4, <4>1, <4>2
      <4> QED  BY <2>1, <2>2, <3>5, <4>1, <4>3, <4>4 DEF Flow
    <3> QED  BY <1>0, <2>1, <2>2, <3>3, <3>5 DEF Reports
  <2>4. CASE /\ commands' = commands
             /\ \/ LeavesDull
                \/ \E x \in EventItem : LeavesSaying(x)
                \/ \E x \in EventItem : LeavesSession(x)
    <3>1. \A i \in DOMAIN todo' : ~IsReport(todo'[i].item)
      <4>1. CASE LeavesDull
        <5>1. \A i \in DOMAIN todo' : todo'[i] \in DullStep
          BY <4>1, ElementOfSeq, LenProperties DEF LeavesDull
        <5> QED  BY <5>1 DEF DullStep, IsReport
      <4>2. ASSUME NEW x \in EventItem, LeavesSaying(x)
            PROVE  \A i \in DOMAIN todo' : ~IsReport(todo'[i].item)
        <5>1. PICK rest \in Seq(FollowStep(x)) : todo' = <<Emit(x)>> \o rest
          BY <4>2 DEF LeavesSaying
        <5>2. Emit(x).item.from # "app"
          BY <4>2 DEF LeavesSaying, Emit, Op
        <5>3. todo' \in Seq({s \in Step : s.item.from # "app"})
          <6>1. Emit(x) \in {s \in Step : s.item.from # "app"}
            BY <5>2, StepTypes
          <6>2. rest \in Seq({s \in Step : s.item.from # "app"})
            <7>1. FollowStep(x) \subseteq {s \in Step : s.item.from # "app"}
              BY DEF FollowStep
            <7> QED  BY <7>1, SeqMonotonic
          <6> QED  BY <5>1, <6>1, <6>2, ConsProperties
        <5> QED  BY <5>3, ElementOfSeq, LenProperties DEF IsReport
      <4>3. ASSUME NEW x \in EventItem, LeavesSession(x)
            PROVE  \A i \in DOMAIN todo' : ~IsReport(todo'[i].item)
        <5>1. PICK w \in WireItem : w.from # "app" /\ todo' = <<Write(w), Emit(x)>>
          BY <4>3 DEF LeavesSession
        <5>2. x.from # "app"
          BY <4>3 DEF LeavesSession
        <5> QED  BY <5>1, <5>2 DEF Write, Emit, Op, IsReport
      <4> QED  BY <2>4, <4>1, <4>2, <4>3
    <3>2. ReportIsAlone' /\ ~InHand'
      BY <1>0, <3>1, NoneInHand
    <3>3. ASSUME link' = "up" PROVE Flow'
      BY <2>1, <2>2, <2>4, <3>2, <3>3 DEF Flow, Taken, OnWire
    <3> QED  BY <1>0, <2>1, <2>2, <3>2, <3>3 DEF Reports
  <2> QED  BY <2>1, <2>3, <2>4
<1> QED  BY <1>1, <1>2

LEMMA ReportsApplication == Reports /\ Application => Reports'
<1> SUFFICES ASSUME Reports, Application PROVE Reports'
  OBVIOUS
<1>0. TypeOK /\ TypeOK' /\ commands \in Seq(ReportItem) /\ Len(commands) \in Nat
      /\ nreports \in Nat /\ reporting \in Seq(ReportItem)
  BY TypeApplication, LenProperties DEF Reports, TypeOK
<1>1. UNCHANGED <<todo, status, link, wire>>
  BY DEF Application, Recv, Respond, DropResponder, DropHandle, FinishReport, AbandonReport,
         StartReport, session, channels
<1>2. ReportIsAlone' /\ (Ended' => todo' = <<>>)
  BY <1>1 DEF Reports, ReportIsAlone, Ended
<1>3. CASE UNCHANGED <<commands, nreports>>
  <2>1. /\ reporting' = reporting \/ reporting' = <<>>
           \/ \E kind \in ReportKinds : reporting' = <<Mk(kind, "app", nreports + 1, 0)>>
    BY <1>3 DEF Application, Recv, Respond, DropResponder, DropHandle, FinishReport,
                AbandonReport, StartReport, user
  <2>2. reporting' # <<>> => Len(reporting') = 1 /\ reporting'[1].id = nreports' + 1
    <3>1. ASSUME NEW kind \in ReportKinds, reporting' = <<Mk(kind, "app", nreports + 1, 0)>>
          PROVE  Len(reporting') = 1 /\ reporting'[1].id = nreports + 1
      BY <3>1 DEF Mk
    <3> QED  BY <1>3, <2>1, <3>1 DEF Reports
  <2> QED  BY <1>0, <1>1, <1>2, <1>3, <2>2
           DEF Reports, Flow, Taken, OnWire, InHand, Ended
<1>4. CASE ~UNCHANGED <<commands, nreports>>
  <2>1. /\ reporting # <<>> /\ reporting' = <<>>
        /\ commands' = commands \o reporting /\ nreports' = nreports + 1
    BY <1>4 DEF Application, Recv, Respond, DropResponder, DropHandle, FinishReport,
                AbandonReport, StartReport, user, counters
  <2>2. Len(reporting) = 1 /\ reporting[1].id = nreports + 1
    BY <2>1 DEF Reports
  <2>3. /\ Len(commands') = Len(commands) + 1 /\ DOMAIN commands' = 1 .. Len(commands) + 1
        /\ \A k \in 1 .. Len(commands) : commands'[k] = commands[k]
        /\ commands'[Len(commands) + 1] = reporting[1]
    <3>1. commands' \in Seq(ReportItem) /\ Len(commands') = Len(commands) + Len(reporting)
      BY <1>0, <2>1, ConcatProperties
    <3>2. \A k \in 1 .. Len(commands) + Len(reporting) :
            commands'[k] = IF k <= Len(commands) THEN commands[k]
                           ELSE reporting[k - Len(commands)]
      BY <1>0, <2>1, ConcatProperties
    <3> QED  BY <1>0, <2>2, <3>1, <3>2, LenProperties
  <2>4. Taken' = Taken /\ OnWire' = OnWire /\ InHand' = InHand
    BY <1>0, <1>1, <2>1, <2>3 DEF Taken, OnWire, InHand
  <2>5. ASSUME link' = "up", ~Ended' PROVE Flow'
    <3>1. Flow
      BY <1>1, <2>5 DEF Reports, Ended
    <3>2. nreports + 1 = Taken + (Len(commands) + 1)
      BY <1>0 DEF Taken
    <3>3. DOMAIN commands = 1 .. Len(commands)
      BY <1>0, LenProperties
    <3>4. \A k \in DOMAIN commands' : commands'[k].id = Taken + k
      <4> SUFFICES ASSUME NEW k \in 1 .. Len(commands) + 1
                   PROVE  commands'[k].id = Taken + k
        BY <2>3
      <4>1. CASE k = Len(commands) + 1
        BY <2>2, <2>3, <3>2, <4>1
      <4>2. CASE k # Len(commands) + 1
        <5>1. k \in 1 .. Len(commands)
          BY <1>0, <4>2
        <5> QED  BY <2>3, <3>1, <3>3, <5>1 DEF Flow
      <4> QED  BY <4>1, <4>2
    <3> QED  BY <1>1, <2>4, <3>1, <3>4 DEF Flow
  <2> QED  BY <1>0, <1>2, <2>1, <2>5 DEF Reports
<1> QED  BY <1>3, <1>4

\* While the session runs on a working link every report that left the application
\* is on the wire, in the runner's hand or in the channel, in the order they were
\* queued (handle_command, send_command).
THEOREM ReportsKeepTheirOrder == Spec => []ReportsArriveInOrder
<1>1. Init => Reports
  <2> SUFFICES ASSUME Init PROVE Reports
    OBVIOUS
  <2>1. /\ TypeOK /\ todo = StartSteps /\ status = "starting" /\ reporting = <<>>
        /\ wire = <<>> /\ commands = <<>> /\ nreports = 0
    BY TypeInit DEF Init
  <2>2. \A k \in {"Authenticate", "Subscribe", "JoinSession", "Connected"} :
          Own(k).from = "session"
    BY DEF Own, Mk
  <2>3. \A i \in DOMAIN todo : ~IsReport(todo[i].item)
    BY <2>1, <2>2 DEF StartSteps, Write, Emit, Op, IsReport
  <2>4. ReportIsAlone /\ ~InHand
    <3>1. Head(todo) = todo[1] /\ 1 \in DOMAIN todo
      BY <2>1 DEF StartSteps
    <3> QED  BY <2>3, <3>1 DEF ReportIsAlone, InHand
  <2>5. Taken = 0 /\ OnWire = 0
    <3>1. Len(commands) = 0
      BY <2>1
    <3>2. nreports = 0 /\ ~InHand
      BY <2>1, <2>4
    <3> QED  BY <3>1, <3>2 DEF Taken, OnWire
  <2>6. Delivered(wire, 0)
    BY <2>1 DEF Delivered
  <2> QED  BY <2>1, <2>4, <2>5, <2>6 DEF Reports, Flow, Ended
<1>2. Reports /\ [Next]_vars => Reports'
  <2> SUFFICES ASSUME Reports, [Next]_vars PROVE Reports'
    OBVIOUS
  <2>1. CASE Environment \/ Finished \/ UNCHANGED vars
    <3>1. /\ UNCHANGED <<todo, wire, status, reporting, commands, nreports>>
          /\ link' = "up" => link = "up"
      BY <2>1 DEF Environment, ServerSends, LinkBreaks, Finished, vars, session, channels,
                  user, counters
    <3>2. TypeOK'
      BY <2>1, TypeEnvironment, TypeStutter DEF Reports
    <3> QED  BY <3>1, <3>2 DEF Reports, ReportIsAlone, Ended, Flow, Taken, OnWire, InHand
  <2> QED  BY <2>1, ReportsTask, ReportsSelect, ReportsApplication DEF Next
<1> QED  BY <1>1, <1>2, FlowIsOrder, PTL DEF Spec

-----------------------------------------------------------------------------
(* What the application was told, as the log grows.                        *)

LEMMA LogGrows ==
  ASSUME log \in Seq(EventItem), NEW x \in EventItem, log' = Append(log, x)
  PROVE  /\ Len(log) \in Nat /\ Len(log') = Len(log) + 1
         /\ DOMAIN log = 1 .. Len(log) /\ DOMAIN log' = 1 .. Len(log) + 1
         /\ log'[Len(log) + 1] = x /\ \A i \in 1 .. Len(log) : log'[i] = log[i]
<1>1. log' \in Seq(EventItem)
  BY AppendProperties
<1> QED  BY <1>1, AppendProperties, LenProperties

LEMMA ActiveGrows ==
  ASSUME log \in Seq(EventItem), NEW x \in EventItem, log' = Append(log, x),
         NEW n, n = Len(log)
  PROVE  /\ \A i \in 1 .. n + 1 : ActiveAt(i)' <=> ActiveAt(i)
         /\ ActiveAt(n + 2)' <=> ActiveAfter(x, ActiveAt(n + 1))
<1>1. n \in Nat /\ log'[n + 1] = x /\ \A i \in 1 .. n : log'[i] = log[i]
  BY LogGrows
<1>2. ASSUME NEW i \in 1 .. n + 1 PROVE ActiveAt(i)' <=> ActiveAt(i)
  <2>1. \A j \in 1 .. i - 1 : j \in 1 .. n /\ \A k \in j .. i - 1 : k \in 1 .. n
    BY <1>1
  <2>2. \A j \in 1 .. i - 1 : log'[j] = log[j] /\ \A k \in j .. i - 1 : log'[k] = log[k]
    BY <1>1, <2>1
  <2> QED  BY <2>2 DEF ActiveAt
<1>3. ActiveAt(n + 2)' <=> ActiveAfter(x, ActiveAt(n + 1))
  <2>0. (n + 2) - 1 = n + 1 /\ (n + 1) - 1 = n
    BY <1>1
  <2>1. ActiveAt(n + 2)' <=>
          \E j \in 1 .. n + 1 : /\ log'[j].kind = "SetActive"
                                /\ \A k \in j .. n + 1 : log'[k].kind # "Deactivated"
    BY <2>0 DEF ActiveAt
  <2>2. ActiveAt(n + 1) <=>
          \E j \in 1 .. n : /\ log[j].kind = "SetActive"
                            /\ \A k \in j .. n : log[k].kind # "Deactivated"
    BY <2>0 DEF ActiveAt
  <2>3. CASE x.kind = "SetActive"
    <3>1. n + 1 \in 1 .. n + 1 /\ \A k \in n + 1 .. n + 1 : k = n + 1
      BY <1>1
    <3>2. ActiveAt(n + 2)'
      BY <1>1, <2>1, <2>3, <3>1
    <3> QED  BY <2>3, <3>2 DEF ActiveAfter
  <2>4. CASE x.kind = "Deactivated"
    <3>1. \A j \in 1 .. n + 1 : n + 1 \in j .. n + 1
      BY <1>1
    <3>2. ~ActiveAt(n + 2)'
      BY <1>1, <2>1, <2>4, <3>1
    <3> QED  BY <2>4, <3>2 DEF ActiveAfter
  <2>5. CASE x.kind \notin {"SetActive", "Deactivated"}
    <3>1. ASSUME ActiveAt(n + 1) PROVE ActiveAt(n + 2)'
      <4>1. PICK j \in 1 .. n : /\ log[j].kind = "SetActive"
                                /\ \A k \in j .. n : log[k].kind # "Deactivated"
        BY <2>2, <3>1
      <4>2. ASSUME NEW k \in j .. n + 1 PROVE log'[k].kind # "Deactivated"
        <5>1. k = n + 1 \/ (k \in j .. n /\ k \in 1 .. n)
          BY <1>1
        <5> QED  BY <1>1, <2>5, <4>1, <5>1
      <4>3. j \in 1 .. n + 1 /\ log'[j].kind = "SetActive"
        BY <1>1, <4>1
      <4> QED  BY <2>1, <4>2, <4>3
    <3>2. ASSUME ActiveAt(n + 2)' PROVE ActiveAt(n + 1)
      <4>1. PICK j \in 1 .. n + 1 : /\ log'[j].kind = "SetActive"
                                    /\ \A k \in j .. n + 1 : log'[k].kind # "Deactivated"
        BY <2>1, <3>2
      <4>2. j \in 1 .. n
        BY <1>1, <2>5, <4>1
      <4>3. \A k \in j .. n : k \in j .. n + 1 /\ k \in 1 .. n
        BY <1>1, <4>2
      <4>4. \A k \in j .. n : log[k].kind # "Deactivated"
        BY <1>1, <4>1, <4>3
      <4> QED  BY <1>1, <2>2, <4>1, <4>2, <4>4
    <3> QED  BY <2>5, <3>1, <3>2 DEF ActiveAfter
  <2> QED  BY <2>3, <2>4, <2>5
<1> QED  BY <1>2, <1>3

\* RegisteredAt, for any log.
RegisteredIn(w, i) ==
  LET told == {j \in 1 .. i - 1 : w[j].kind = "DeviceRegistered"}
      last == CHOOSE j \in told : \A k \in told : k <= j
  IN  IF told = {} THEN 0
      ELSE IF \E k \in last .. i - 1 :
                w[k].kind = "RemoveRenderer" /\ w[k].ref = w[last].ref
           THEN 0
           ELSE w[last].ref

LEMMA RegisteredIsIn ==
  ASSUME NEW i
  PROVE  RegisteredAt(i) = RegisteredIn(log, i) /\ RegisteredAt(i)' = RegisteredIn(log', i)
BY DEF RegisteredAt, RegisteredIn

\* It is settled by the last DeviceRegistered before the event.
LEMMA RegisteredBy ==
  ASSUME NEW w, NEW i, NEW m \in Nat, i - 1 = m, NEW l \in 1 .. m,
         w[l].kind = "DeviceRegistered",
         \A k \in 1 .. m : k > l => w[k].kind # "DeviceRegistered"
  PROVE  RegisteredIn(w, i) =
           IF \E k \in l .. m : w[k].kind = "RemoveRenderer" /\ w[k].ref = w[l].ref
           THEN 0 ELSE w[l].ref
<1> DEFINE T == {j \in 1 .. m : w[j].kind = "DeviceRegistered"}
<1>1. l \in T /\ \A k \in T : k <= l
  OBVIOUS
<1>2. ASSUME NEW j \in T, \A k \in T : k <= j PROVE j = l
  BY <1>1, <1>2
<1> HIDE DEF T
<1>3. (CHOOSE j \in T : \A k \in T : k <= j) = l /\ T # {}
  BY <1>1, <1>2
<1> QED  BY <1>3, SMTT(30) DEF T, RegisteredIn

LEMMA RegisteredNow ==
  ASSUME NEW w, NEW n \in Nat, w[n + 1].kind = "DeviceRegistered"
  PROVE  RegisteredIn(w, n + 2) = w[n + 1].ref
<1>1. /\ n + 1 \in Nat /\ (n + 2) - 1 = n + 1 /\ n + 1 \in 1 .. n + 1
      /\ \A k \in 1 .. n + 1 : k > n + 1 => FALSE
      /\ \A k \in n + 1 .. n + 1 : k = n + 1
  OBVIOUS
<1>2. RegisteredIn(w, n + 2) =
        IF \E k \in n + 1 .. n + 1 : w[k].kind = "RemoveRenderer" /\ w[k].ref = w[n + 1].ref
        THEN 0 ELSE w[n + 1].ref
  BY <1>1, RegisteredBy
<1> QED  BY <1>1, <1>2

LEMMA LastRegistered ==
  ASSUME NEW w, NEW i \in Nat,
         {j \in 1 .. i - 1 : w[j].kind = "DeviceRegistered"} # {}
  PROVE  \E l \in 1 .. i - 1 : /\ w[l].kind = "DeviceRegistered"
                               /\ \A k \in l + 1 .. i - 1 : w[k].kind # "DeviceRegistered"
<1> DEFINE T == {j \in 1 .. i - 1 : w[j].kind = "DeviceRegistered"}
<1>1. i - 1 \in Nat
  OBVIOUS
<1>2. T \in SUBSET (1 .. i - 1) /\ T # {}
  OBVIOUS
<1> HIDE DEF T
<1>3. PICK l \in T : \A j \in T : j <= l
  BY <1>1, <1>2, GreatestBelow
<1>4. \A k \in l + 1 .. i - 1 : k \in 1 .. i - 1 /\ ~(k <= l)
  BY <1>1, <1>2
<1> QED  BY <1>2, <1>3, <1>4 DEF T

LEMMA RegisteredGrows ==
  ASSUME log \in Seq(EventItem), NEW x \in EventItem, log' = Append(log, x),
         NEW n, n = Len(log)
  PROVE  /\ \A i \in 1 .. n + 1 : RegisteredAt(i)' = RegisteredAt(i)
         /\ RegisteredAt(n + 2)' = RegisteredAfter(x, RegisteredAt(n + 1))
<1>1. n \in Nat /\ log'[n + 1] = x /\ \A i \in 1 .. n : log'[i] = log[i]
  BY LogGrows
<1>2. ASSUME NEW i \in 1 .. n + 1, {j \in 1 .. i - 1 : log[j].kind = "DeviceRegistered"} = {}
      PROVE  /\ RegisteredAt(i) = 0 /\ RegisteredAt(i)' = 0
             /\ i = n + 1 => RegisteredAt(n + 2)' = RegisteredAfter(x, 0)
  <2>1. \A j \in 1 .. i - 1 : j \in 1 .. n
    BY <1>1
  <2>2. {j \in 1 .. i - 1 : log'[j].kind = "DeviceRegistered"} = {}
    BY <1>1, <1>2, <2>1
  <2>3. RegisteredAt(i) = 0 /\ RegisteredAt(i)' = 0
    BY <1>2, <2>2, RegisteredIsIn DEF RegisteredIn
  <2>4. ASSUME i = n + 1 PROVE RegisteredAt(n + 2)' = RegisteredAfter(x, 0)
    <3>1. CASE x.kind = "DeviceRegistered"
      <4>1. RegisteredIn(log', n + 2) = x.ref
        BY <1>1, <3>1, RegisteredNow
      <4> QED  BY <3>1, <4>1, RegisteredIsIn DEF RegisteredAfter
    <3>2. CASE x.kind # "DeviceRegistered"
      <4>1. \A j \in 1 .. (n + 2) - 1 : j = n + 1 \/ j \in 1 .. i - 1
        BY <1>1, <2>4
      <4>2. {j \in 1 .. (n + 2) - 1 : log'[j].kind = "DeviceRegistered"} = {}
        BY <1>1, <2>2, <3>2, <4>1
      <4>3. RegisteredIn(log', n + 2) = 0
        BY <4>2 DEF RegisteredIn
      <4> QED  BY <3>2, <4>3, RegisteredIsIn DEF RegisteredAfter
    <3> QED  BY <3>1, <3>2
  <2> QED  BY <2>3, <2>4
<1>3. ASSUME NEW i \in 1 .. n + 1, {j \in 1 .. i - 1 : log[j].kind = "DeviceRegistered"} # {}
      PROVE  /\ RegisteredAt(i)' = RegisteredAt(i)
             /\ i = n + 1 => RegisteredAt(n + 2)' = RegisteredAfter(x, RegisteredAt(n + 1))
  <2>1. i \in Nat /\ i - 1 <= n
    BY <1>1
  <2>2. PICK l \in 1 .. i - 1 :
               /\ log[l].kind = "DeviceRegistered"
               /\ \A k \in l + 1 .. i - 1 : log[k].kind # "DeviceRegistered"
    BY <1>3, <2>1, LastRegistered
  <2>3. l \in 1 .. n /\ \A k \in l .. i - 1 : k \in 1 .. n
    BY <1>1, <2>1
  <2>4. log'[l] = log[l] /\ \A k \in l .. i - 1 : log'[k] = log[k]
    BY <1>1, <2>3
  <2> DEFINE Gone(w, b) == \E k \in l .. b : w[k].kind = "RemoveRenderer" /\ w[k].ref = w[l].ref
  <2>5. RegisteredIn(log, i) = IF Gone(log, i - 1) THEN 0 ELSE log[l].ref
    <3>1. \A k \in 1 .. i - 1 : k > l => k \in l + 1 .. i - 1
      BY <2>1
    <3>2. \A k \in 1 .. i - 1 : k > l => log[k].kind # "DeviceRegistered"
      BY <2>2, <3>1
    <3> DEFINE m == i - 1
    <3>3. /\ m \in Nat /\ i - 1 = m /\ l \in 1 .. m /\ log[l].kind = "DeviceRegistered"
          /\ \A k \in 1 .. m : k > l => log[k].kind # "DeviceRegistered"
      BY <2>1, <2>2, <3>2
    <3> HIDE DEF m
    <3> QED  BY ONLY <3>3, RegisteredBy, SMTT(30) DEF Gone
  <2>6. RegisteredIn(log', i) = IF Gone(log', i - 1) THEN 0 ELSE log'[l].ref
    <3>0. PICK w : w = log'
      OBVIOUS
    <3>1. \A k \in 1 .. i - 1 : k > l => k \in l + 1 .. i - 1 /\ k \in l .. i - 1
      BY <2>1
    <3>2. /\ \A k \in 1 .. i - 1 : k > l => w[k].kind # "DeviceRegistered"
          /\ w[l].kind = "DeviceRegistered"
      BY <2>2, <2>4, <3>0, <3>1
    <3> DEFINE m == i - 1
    <3>4. /\ m \in Nat /\ i - 1 = m /\ l \in 1 .. m /\ w[l].kind = "DeviceRegistered"
          /\ \A k \in 1 .. m : k > l => w[k].kind # "DeviceRegistered"
      BY <2>1, <2>2, <3>2
    <3> HIDE DEF m
    <3>3. RegisteredIn(w, i) = IF Gone(w, i - 1) THEN 0 ELSE w[l].ref
      BY <3>4, RegisteredBy, SMTT(30)
    <3> QED  BY <3>0, <3>3
  <2>7. Gone(log', i - 1) <=> Gone(log, i - 1)
    BY <2>4
  <2>8. ASSUME i = n + 1 PROVE RegisteredAt(n + 2)' = RegisteredAfter(x, RegisteredAt(n + 1))
    <3>1. CASE x.kind = "DeviceRegistered"
      <4>1. RegisteredIn(log', n + 2) = x.ref
        BY <1>1, <3>1, RegisteredNow
      <4> QED  BY <3>1, <4>1, RegisteredIsIn DEF RegisteredAfter
    <3>2. CASE x.kind # "DeviceRegistered"
      <4>1. /\ n + 2 \in Nat /\ l \in 1 .. (n + 2) - 1 /\ n + 1 \in l .. (n + 2) - 1
            /\ (n + 2) - 1 = n + 1 /\ i - 1 = n
            /\ \A k \in l .. n : k \in l .. n + 1
            /\ \A k \in l .. n + 1 : k = n + 1 \/ k \in l .. n
            /\ \A k \in l + 1 .. n + 1 : k = n + 1 \/ (k \in l + 1 .. n /\ k \in l .. n)
        BY <1>1, <2>3, <2>8
      <4>2. \A k \in l + 1 .. n + 1 : log'[k].kind # "DeviceRegistered"
        BY <1>1, <2>2, <2>4, <3>2, <4>1
      <4>3. RegisteredIn(log', n + 2) = IF Gone(log', n + 1) THEN 0 ELSE log'[l].ref
        <5>0. PICK w : w = log'
          OBVIOUS
        <5>1. \A k \in 1 .. n + 1 : k > l => k \in l + 1 .. n + 1
          BY <1>1
        <5>2. /\ \A k \in 1 .. n + 1 : k > l => w[k].kind # "DeviceRegistered"
              /\ w[l].kind = "DeviceRegistered"
          BY <2>2, <2>4, <4>1, <4>2, <5>0, <5>1
        <5>3. l \in 1 .. n + 1 /\ n + 1 \in Nat /\ (n + 2) - 1 = n + 1
          BY <1>1, <4>1
        <5>4. RegisteredIn(w, n + 2) = IF Gone(w, n + 1) THEN 0 ELSE w[l].ref
          BY <5>2, <5>3, RegisteredBy, SMTT(30)
        <5> QED  BY <5>0, <5>4
      <4>4. Gone(log', n + 1) <=>
              Gone(log, n) \/ (x.kind = "RemoveRenderer" /\ x.ref = log[l].ref)
        <5>1. ASSUME Gone(log', n + 1)
              PROVE  Gone(log, n) \/ (x.kind = "RemoveRenderer" /\ x.ref = log[l].ref)
          BY <1>1, <2>4, <4>1, <5>1
        <5>2. ASSUME Gone(log, n) PROVE Gone(log', n + 1)
          BY <2>4, <4>1, <5>2
        <5>3. ASSUME x.kind = "RemoveRenderer" /\ x.ref = log[l].ref PROVE Gone(log', n + 1)
          BY <1>1, <2>4, <4>1, <5>3
        <5> QED  BY <5>1, <5>2, <5>3
      <4>5. RegisteredAt(n + 1) = IF Gone(log, n) THEN 0 ELSE log[l].ref
        BY <2>5, <2>8, <4>1, RegisteredIsIn
      <4> HIDE DEF Gone
      <4>6. RegisteredAt(n + 2)' = IF Gone(log', n + 1) THEN 0 ELSE log[l].ref
        BY <2>4, <4>3, RegisteredIsIn
      <4> QED  BY <3>2, <4>4, <4>5, <4>6 DEF RegisteredAfter
    <3> QED  BY <3>1, <3>2
  <2> QED  BY <2>4, <2>5, <2>6, <2>7, <2>8, RegisteredIsIn
<1>4. ASSUME NEW i \in 1 .. n + 1 PROVE RegisteredAt(i)' = RegisteredAt(i)
  BY <1>2, <1>3
<1>5. n + 1 \in 1 .. n + 1
  BY <1>1
<1> QED  BY <1>2, <1>3, <1>4, <1>5

ActiveIn(w, i) ==
  \E j \in 1 .. i - 1 : /\ w[j].kind = "SetActive"
                        /\ \A k \in j .. i - 1 : w[k].kind # "Deactivated"

LEMMA ActiveIsIn ==
  ASSUME NEW i
  PROVE  (ActiveAt(i) <=> ActiveIn(log, i)) /\ (ActiveAt(i)' <=> ActiveIn(log', i))
BY DEF ActiveAt, ActiveIn

\* What the application knows of us by the events said so far, and once the event
\* in hand is said.
SaidActive == ActiveIn(log, Len(log) + 1)
SaidRegistered == RegisteredIn(log, Len(log) + 1)
ToldActive ==
  IF Doing("emit") THEN ActiveAfter(Head(todo).item, SaidActive) ELSE SaidActive
ToldRegistered ==
  IF Doing("emit") THEN RegisteredAfter(Head(todo).item, SaidRegistered) ELSE SaidRegistered

LEMMA SaidGrows ==
  ASSUME log \in Seq(EventItem), NEW x \in EventItem, log' = Append(log, x)
  PROVE  /\ SaidActive' <=> ActiveAfter(x, SaidActive)
         /\ SaidRegistered' = RegisteredAfter(x, SaidRegistered)
<1>1. PICK n : n = Len(log)
  OBVIOUS
<1>2. Len(log') + 1 = n + 2
  BY <1>1, LogGrows
<1>3. /\ ActiveIn(log', n + 2) <=> ActiveAfter(x, ActiveIn(log, n + 1))
      /\ RegisteredIn(log', n + 2) = RegisteredAfter(x, RegisteredIn(log, n + 1))
  <2>1. ActiveAt(n + 2)' <=> ActiveAfter(x, ActiveAt(n + 1))
    BY <1>1, ActiveGrows
  <2>2. RegisteredAt(n + 2)' = RegisteredAfter(x, RegisteredAt(n + 1))
    BY <1>1, RegisteredGrows
  <2>3. ActiveAt(n + 2)' <=> ActiveIn(log', n + 2)
    BY ActiveIsIn
  <2>4. ActiveAt(n + 1) <=> ActiveIn(log, n + 1)
    BY ActiveIsIn
  <2>5. RegisteredAt(n + 2)' = RegisteredIn(log', n + 2)
    BY RegisteredIsIn
  <2>6. RegisteredAt(n + 1) = RegisteredIn(log, n + 1)
    BY RegisteredIsIn
  <2> QED  BY <2>1, <2>2, <2>3, <2>4, <2>5, <2>6 DEF ActiveAfter
<1> QED  BY <1>1, <1>2, <1>3 DEF SaidActive, SaidRegistered

\* An event that the handler checked against its fields.
Fitting(x) ==
  /\ x.kind = "Heartbeat" => is_active /\ renderer_id # 0
  /\ x.kind = "RestoreState" => ~is_active /\ x.ref # renderer_id

TellersFirst ==
  \A i \in DOMAIN todo : todo[i].op = "emit" /\ todo[i].item.kind \in Tellers => i = 1

Fits ==
  /\ TypeOK /\ TellersFirst
  /\ Doing("emit") => Fitting(Head(todo).item)
  /\ app # "gone" => (is_active <=> ToldActive) /\ renderer_id = ToldRegistered
  /\ EventsFitTheActivation

LEMMA NoneTelling ==
  ASSUME TypeOK',
         \A i \in DOMAIN todo' : ~(todo'[i].op = "emit" /\ todo'[i].item.kind \in Tellers)
  PROVE  /\ TellersFirst'
         /\ Doing("emit")' => Fitting(Head(todo).item)'
         /\ ToldActive' <=> SaidActive'
         /\ ToldRegistered' = SaidRegistered'
<1>1. ASSUME Doing("emit")'
      PROVE  Head(todo').item.kind \notin Tellers
  <2>1. todo' # <<>> /\ Head(todo').op = "emit" /\ todo' \in Seq(Step)
    BY <1>1 DEF Doing, TypeOK
  <2>2. Head(todo') = todo'[1] /\ 1 \in DOMAIN todo'
    BY <2>1, EmptySeq, LenProperties
  <2> QED  BY <2>1, <2>2
<1>2. ASSUME Doing("emit")'
      PROVE  /\ Fitting(Head(todo).item)'
             /\ ActiveAfter(Head(todo').item, SaidActive') <=> SaidActive'
             /\ RegisteredAfter(Head(todo').item, SaidRegistered') = SaidRegistered'
  BY <1>1, <1>2 DEF Tellers, ActiveAfter, RegisteredAfter, Fitting
<1> QED  BY <1>2 DEF TellersFirst, ToldActive, ToldRegistered

\* Steps that say nothing, leave nothing more to say and read no field.
LEMMA FitsQuiet ==
  ASSUME Fits, TypeOK', UNCHANGED <<todo, log, is_active, renderer_id>>,
         app' # "gone" => app # "gone"
  PROVE  Fits'
<1>1. /\ TellersFirst' /\ (Doing("emit")' => Fitting(Head(todo).item)')
      /\ (ToldActive' <=> ToldActive) /\ ToldRegistered' = ToldRegistered
  BY DEF Fits, TellersFirst, Doing, Fitting, ToldActive, ToldRegistered, SaidActive,
         SaidRegistered
<1>2. \A i \in DOMAIN log : (ActiveAt(i)' <=> ActiveAt(i)) /\ RegisteredAt(i)' = RegisteredAt(i)
  BY ActiveIsIn, RegisteredIsIn
<1>3. EventsFitTheActivation'
  BY <1>2 DEF Fits, EventsFitTheActivation
<1> QED  BY <1>1, <1>3 DEF Fits

LEMMA FitsTask == Fits /\ TaskStep => Fits'
<1> SUFFICES ASSUME Fits, TaskStep PROVE Fits'
  OBVIOUS
<1>1. TypeOK /\ TypeOK' /\ TellersFirst /\ EventsFitTheActivation
  BY TypeTask DEF Fits
<1>2. \A i \in DOMAIN todo' : ~(todo'[i].op = "emit" /\ todo'[i].item.kind \in Tellers)
  <2> SUFFICES ASSUME NEW i \in DOMAIN todo' 
               PROVE  ~(todo'[i].op = "emit" /\ todo'[i].item.kind \in Tellers)
    OBVIOUS
  <2>1. PICK d \in Int : Shifted(i, d) \/ Answering(i)
    BY <1>1, TaskLeaves
  <2>2. CASE Shifted(i, d)
    <3>1. i + d \in 2 .. Len(todo) /\ todo'[i] = todo[i + d]
      BY <2>2 DEF Shifted
    <3>2. todo \in Seq(Step)
      BY <1>1 DEF TypeOK
    <3>3. i + d \in DOMAIN todo /\ i + d # 1
      BY <3>1, <3>2, LenProperties
    <3> QED  BY <1>1, <3>1, <3>3 DEF TellersFirst
  <2>3. CASE Answering(i)
    BY <2>3 DEF Answering, AnswerStep
  <2> QED  BY <2>1, <2>2, <2>3
<1>3. /\ TellersFirst'
      /\ Doing("emit")' => Fitting(Head(todo).item)'
      /\ ToldActive' <=> SaidActive'
      /\ ToldRegistered' = SaidRegistered'
  BY <1>1, <1>2, NoneTelling
<1>4. UNCHANGED <<is_active, renderer_id>> /\ (app = "gone" <=> app' = "gone")
  BY <1>1, TaskSays
<1>5. CASE /\ Doing("emit") /\ app # "gone" /\ Head(todo).item \in EventItem
           /\ log' = Append(log, Head(todo).item)
  <2> DEFINE x == Head(todo).item
  <2>1. log \in Seq(EventItem)
    BY <1>1 DEF TypeOK
  <2>2. /\ SaidActive' <=> ActiveAfter(x, SaidActive)
        /\ SaidRegistered' = RegisteredAfter(x, SaidRegistered)
    BY <1>5, <2>1, SaidGrows
  <2>3. /\ is_active <=> ActiveAfter(x, SaidActive)
        /\ renderer_id = RegisteredAfter(x, SaidRegistered) /\ Fitting(x)
    BY <1>5 DEF Fits, ToldActive, ToldRegistered
  <2>4. PICK n : n = Len(log)
    OBVIOUS
  <2>5. /\ n \in Nat /\ DOMAIN log' = 1 .. n + 1 /\ log'[n + 1] = x
        /\ DOMAIN log = 1 .. n /\ \A i \in 1 .. n : log'[i] = log[i]
    BY <1>5, <2>1, <2>4, LogGrows
  <2>6. \A i \in 1 .. n + 1 : (ActiveAt(i)' <=> ActiveAt(i)) /\ RegisteredAt(i)' = RegisteredAt(i)
    BY <1>5, <2>1, <2>4, ActiveGrows, RegisteredGrows
  <2>7. (SaidActive <=> ActiveAt(n + 1)) /\ SaidRegistered = RegisteredAt(n + 1)
    BY <2>4, ActiveIsIn, RegisteredIsIn DEF SaidActive, SaidRegistered
  <2>8. /\ x.kind = "Heartbeat" => ActiveAt(n + 1) /\ RegisteredAt(n + 1) # 0
        /\ x.kind = "RestoreState" => ~ActiveAt(n + 1) /\ x.ref # RegisteredAt(n + 1)
    <3>1. ASSUME x.kind \in {"Heartbeat", "RestoreState"}
          PROVE  (is_active <=> SaidActive) /\ renderer_id = SaidRegistered
      BY <2>3, <3>1 DEF ActiveAfter, RegisteredAfter
    <3> QED  BY <2>3, <2>7, <3>1 DEF Fitting
  <2>9. EventsFitTheActivation'
    <3> SUFFICES ASSUME NEW i \in 1 .. n + 1
                 PROVE  /\ log'[i].kind = "Heartbeat" => ActiveAt(i)' /\ RegisteredAt(i)' # 0
                        /\ log'[i].kind = "RestoreState" =>
                             ~ActiveAt(i)' /\ log'[i].ref # RegisteredAt(i)'
      BY <2>5 DEF EventsFitTheActivation
    <3>1. CASE i = n + 1
      BY <2>5, <2>6, <2>8, <3>1
    <3>2. CASE i # n + 1
      <4>1. i \in DOMAIN log /\ log'[i] = log[i]
        BY <2>5, <3>2
      <4> QED  BY <1>1, <2>6, <4>1 DEF EventsFitTheActivation
    <3> QED  BY <3>1, <3>2
  <2>10. (is_active' <=> ToldActive') /\ renderer_id' = ToldRegistered'
    BY <1>3, <1>4, <2>2, <2>3
  <2> QED  BY <1>1, <1>3, <2>9, <2>10 DEF Fits
<1>6. CASE log' = log /\ (Doing("emit") => app = "gone")
  <2>1. (SaidActive' <=> SaidActive) /\ SaidRegistered' = SaidRegistered
    BY <1>6 DEF SaidActive, SaidRegistered
  <2>2. app' # "gone" => (is_active' <=> ToldActive') /\ renderer_id' = ToldRegistered'
    BY <1>3, <1>4, <1>6, <2>1 DEF Fits, ToldActive, ToldRegistered
  <2>3. \A i \in DOMAIN log : (ActiveAt(i)' <=> ActiveAt(i)) /\ RegisteredAt(i)' = RegisteredAt(i)
    BY <1>6, ActiveIsIn, RegisteredIsIn
  <2>4. EventsFitTheActivation'
    BY <1>1, <1>6, <2>3 DEF EventsFitTheActivation
  <2> QED  BY <1>1, <1>3, <2>2, <2>4 DEF Fits
<1> QED  BY <1>1, <1>5, <1>6, TaskSays

LEMMA FitsSelect == Fits /\ Select => Fits'
<1> SUFFICES ASSUME Fits, Select PROVE Fits'
  OBVIOUS
<1>0. TypeOK /\ TypeOK' /\ EventsFitTheActivation
  BY TypeSelect DEF Fits
<1>1. CASE IdleTurn
  <2>1. UNCHANGED <<todo, log, is_active, renderer_id, app>>
    BY <1>1 DEF IdleTurn, vars, session, channels, user
  <2> QED  BY <1>0, <2>1, FitsQuiet
<1>2. CASE ~IdleTurn
  <2>1. /\ todo = <<>> /\ log' = log /\ app' = app
        /\ \/ LeavesReport \/ LeavesDull
           \/ \E x \in EventItem : LeavesSaying(x)
           \/ \E x \in EventItem : LeavesSession(x)
    BY <1>0, <1>2, SelectShapes
  <2>2. (SaidActive' <=> SaidActive) /\ SaidRegistered' = SaidRegistered
    BY <2>1 DEF SaidActive, SaidRegistered
  <2>3. EventsFitTheActivation'
    <3>1. \A i \in DOMAIN log : (ActiveAt(i)' <=> ActiveAt(i)) /\ RegisteredAt(i)' = RegisteredAt(i)
      BY <2>1, ActiveIsIn, RegisteredIsIn
    <3> QED  BY <1>0, <2>1, <3>1 DEF EventsFitTheActivation
  <2>4. app # "gone" => (is_active <=> SaidActive) /\ renderer_id = SaidRegistered
    BY <2>1 DEF Fits, Doing, ToldActive, ToldRegistered
  <2>5. ASSUME UNCHANGED <<is_active, renderer_id>>,
               \A i \in DOMAIN todo' :
                  ~(todo'[i].op = "emit" /\ todo'[i].item.kind \in Tellers)
        PROVE  Fits'
    <3>1. /\ TellersFirst' /\ (Doing("emit")' => Fitting(Head(todo).item)')
          /\ (ToldActive' <=> SaidActive') /\ ToldRegistered' = SaidRegistered'
      BY <1>0, <2>5, NoneTelling
    <3> QED  BY <1>0, <2>1, <2>2, <2>3, <2>4, <2>5, <3>1 DEF Fits
  <2>6. CASE LeavesReport
    <3>1. PICK w \in WireItem : todo' = <<Write(w)>>
      BY <2>6 DEF LeavesReport
    <3>2. \A i \in DOMAIN todo' : todo'[i].op = "write"
      BY <3>1 DEF Write, Op
    <3> QED  BY <2>5, <2>6, <3>2 DEF LeavesReport
  <2>7. CASE LeavesDull
    <3>1. \A i \in DOMAIN todo' : todo'[i] \in DullStep
      BY <2>7, ElementOfSeq, LenProperties DEF LeavesDull
    <3> QED  BY <2>5, <2>7, <3>1 DEF LeavesDull, DullStep
  <2>8. ASSUME NEW x \in EventItem, LeavesSaying(x) PROVE Fits'
    <3>1. /\ Doing("emit")' /\ Head(todo').item = x
          /\ \A i \in DOMAIN todo' : i = 1 \/ todo'[i] \in FollowStep(x)
      BY <2>8, SayingShape
    <3>3. TellersFirst'
      BY <3>1 DEF TellersFirst, FollowStep
    <3>6. Fitting(Head(todo).item)'
      BY <2>8, <3>1 DEF Fitting, LeavesSaying, ActiveAfter, RegisteredAfter
    <3>7. (ToldActive' <=> ActiveAfter(x, SaidActive')) /\ ToldRegistered' = RegisteredAfter(x, SaidRegistered')
      BY <3>1 DEF ToldActive, ToldRegistered
    <3>8. app' # "gone" => (is_active' <=> ToldActive') /\ renderer_id' = ToldRegistered'
      BY <2>1, <2>2, <2>4, <2>8, <3>7 DEF LeavesSaying, ActiveAfter
    <3> QED  BY <1>0, <2>3, <3>3, <3>6, <3>8 DEF Fits
  <2>9. ASSUME NEW x \in EventItem, LeavesSession(x) PROVE Fits'
    <3>1. PICK w \in WireItem : todo' = <<Write(w), Emit(x)>>
      BY <2>9 DEF LeavesSession
    <3>2. x.kind \notin Tellers /\ UNCHANGED <<is_active, renderer_id>>
      BY <2>9 DEF LeavesSession, Tellers
    <3>3. \A i \in DOMAIN todo' :
             ~(todo'[i].op = "emit" /\ todo'[i].item.kind \in Tellers)
      BY <3>1, <3>2 DEF Write, Emit, Op
    <3> QED  BY <2>5, <3>2, <3>3
  <2> QED  BY <2>1, <2>6, <2>7, <2>8, <2>9
<1> QED  BY <1>1, <1>2

LEMMA FitsInductive == (Init => Fits) /\ (Fits /\ [Next]_vars => Fits')
<1>1. Init => Fits
  <2> SUFFICES ASSUME Init PROVE Fits
    OBVIOUS
  <2>1. TypeOK /\ todo = StartSteps /\ log = <<>> /\ renderer_id = 0 /\ is_active = FALSE
    BY TypeInit DEF Init
  <2>2. TellersFirst /\ ~Doing("emit")
    BY <2>1 DEF StartSteps, Write, Emit, Op, Own, Mk, Tellers, TellersFirst, Doing
  <2>3. ~SaidActive /\ SaidRegistered = 0 /\ EventsFitTheActivation
    <3>1. Len(log) + 1 = 1 /\ DOMAIN log = {}
      BY <2>1
    <3> QED  BY <3>1 DEF SaidActive, SaidRegistered, ActiveIn, RegisteredIn,
                         EventsFitTheActivation
  <2> QED  BY <2>1, <2>2, <2>3 DEF Fits, ToldActive, ToldRegistered
<1>2. Fits /\ [Next]_vars => Fits'
  <2> SUFFICES ASSUME Fits, [Next]_vars PROVE Fits'
    OBVIOUS
  <2>1. CASE Application
    <3>1. /\ UNCHANGED <<todo, log, is_active, renderer_id>>
          /\ app' # "gone" => app # "gone"
      BY <2>1 DEF Application, Recv, Respond, DropResponder, DropHandle, FinishReport,
                  AbandonReport, StartReport, session, channels, user
    <3> QED  BY <2>1, <3>1, TypeApplication, FitsQuiet DEF Fits
  <2>2. CASE Environment \/ Finished \/ UNCHANGED vars
    <3>1. UNCHANGED <<todo, log, is_active, renderer_id, app>>
      BY <2>2 DEF Environment, ServerSends, LinkBreaks, Finished, vars, session, channels, user
    <3> QED  BY <2>2, <3>1, TypeEnvironment, TypeStutter, FitsQuiet DEF Fits
  <2> QED  BY <2>1, <2>2, FitsTask, FitsSelect DEF Next
<1> QED  BY <1>1, <1>2

\* A heartbeat asks only about a renderer the application was told is registered
\* and active, and a state to restore comes only while it was told that the device
\* is inactive and is another renderer's (run, handle_qconnect_message).
THEOREM EventsAlwaysFit == Spec => []EventsFitTheActivation
<1>1. Fits => EventsFitTheActivation
  BY DEF Fits
<1> QED  BY <1>1, FitsInductive, PTL DEF Spec

-----------------------------------------------------------------------------
(* Registration comes before the request to be activated.                  *)

LEMMA TaskWrites ==
  ASSUME TypeOK, TaskStep
  PROVE  \/ /\ Doing("write") /\ Head(todo).item \in WireItem
            /\ wire' = Append(wire, Head(todo).item)
         \/ wire' = wire
<1>1. CASE DoWrite
  <2>1. Head(todo).item \in WireItem
    BY <1>1, HeadType DEF DoWrite
  <2> QED  BY <1>1, <2>1 DEF DoWrite
<1>2. CASE DoEmit \/ DoWriteFails \/ DoAwait \/ DoClose \/ DoRun \/ DoStop
  BY <1>2 DEF DoEmit, DoWriteFails, DoAwait, DoClose, DoRun, DoStop, channels
<1> QED  BY <1>1, <1>2 DEF TaskStep

LEMMA WireGrows ==
  ASSUME wire \in Seq(WireItem), NEW x \in WireItem, wire' = Append(wire, x)
  PROVE  /\ Len(wire) \in Nat /\ Len(wire') = Len(wire) + 1
         /\ DOMAIN wire = 1 .. Len(wire) /\ DOMAIN wire' = 1 .. Len(wire) + 1
         /\ wire'[Len(wire) + 1] = x /\ \A i \in 1 .. Len(wire) : wire'[i] = wire[i]
<1>1. wire' \in Seq(WireItem)
  BY AppendProperties
<1> QED  BY <1>1, AppendProperties, LenProperties

\* The application was told that the renderer the message names is its device.
Heard(w) == \E j \in DOMAIN log : Told(log[j], w)

Announced ==
  /\ TypeOK
  /\ app # "gone" =>
       /\ \A i \in DOMAIN todo :
             todo[i].op = "write" /\ todo[i].item.kind = "SetActiveRenderer"
             => Heard(todo[i].item) \/ (Doing("emit") /\ Told(Head(todo).item, todo[i].item))
       /\ \A i \in DOMAIN wire : wire[i].kind = "SetActiveRenderer" => Heard(wire[i])

\* Steps of others leave what was announced as it is.
LEMMA AnnouncedQuiet ==
  ASSUME Announced, TypeOK', UNCHANGED <<todo, log, wire>>, app' # "gone" => app # "gone"
  PROVE  Announced'
BY DEF Announced, Heard, Doing

LEMMA AnnouncedTask == Announced /\ TaskStep => Announced'
<1> SUFFICES ASSUME Announced, TaskStep, app' # "gone" PROVE Announced'
  BY TypeTask DEF Announced
<1>1. TypeOK /\ TypeOK' /\ app # "gone" /\ todo \in Seq(Step) /\ wire \in Seq(WireItem)
      /\ log \in Seq(EventItem)
  BY TypeTask, TaskSays DEF Announced, TypeOK
<1>2. \/ log' = log /\ ~Doing("emit")
      \/ log' = Append(log, Head(todo).item) /\ Head(todo).item \in EventItem
  BY <1>1, TaskSays
<1>3. ASSUME NEW w, Heard(w) PROVE Heard(w)'
  <2>1. CASE log' = log
    BY <1>3, <2>1 DEF Heard
  <2>2. CASE log' = Append(log, Head(todo).item) /\ Head(todo).item \in EventItem
    <3>1. \A j \in DOMAIN log : j \in DOMAIN log' /\ log'[j] = log[j]
      BY <1>1, <2>2, LogGrows
    <3> QED  BY <1>3, <3>1 DEF Heard
  <2> QED  BY <1>2, <2>1, <2>2
<1>4. ASSUME NEW w, Doing("emit"), Told(Head(todo).item, w) PROVE Heard(w)'
  <2>1. Len(log) + 1 \in DOMAIN log' /\ log'[Len(log) + 1] = Head(todo).item
    BY <1>1, <1>2, <1>4, LogGrows
  <2> QED  BY <1>4, <2>1 DEF Heard
<1>5. ASSUME NEW i \in DOMAIN todo', todo'[i].op = "write",
             todo'[i].item.kind = "SetActiveRenderer"
      PROVE  Heard(todo[i].item)'
  <2>1. PICK d \in Int : Shifted(i, d) \/ Answering(i)
    BY <1>1, TaskLeaves
  <2>2. CASE Shifted(i, d)
    <3>1. i + d \in DOMAIN todo /\ todo'[i] = todo[i + d]
      BY <1>1, <2>2, LenProperties DEF Shifted
    <3> QED  BY <1>1, <1>3, <1>4, <1>5, <3>1 DEF Announced
  <2>3. CASE Answering(i)
    BY <1>5, <2>3 DEF Answering, AnswerStep
  <2> QED  BY <2>1, <2>2, <2>3
<1>6. ASSUME NEW i \in DOMAIN wire', wire'[i].kind = "SetActiveRenderer"
      PROVE  Heard(wire[i])'
  <2>1. CASE wire' = wire
    BY <1>1, <1>3, <1>6, <2>1 DEF Announced
  <2>2. CASE /\ Doing("write") /\ Head(todo).item \in WireItem
             /\ wire' = Append(wire, Head(todo).item)
    <3>1. i = Len(wire) + 1 \/ (i \in DOMAIN wire /\ wire'[i] = wire[i])
      BY <1>1, <2>2, WireGrows
    <3>2. wire'[Len(wire) + 1] = Head(todo).item
      BY <1>1, <2>2, WireGrows
    <3>3. ~Doing("emit") /\ todo # <<>> /\ Head(todo).op = "write"
      BY <2>2 DEF Doing
    <3>4. 1 \in DOMAIN todo /\ Head(todo) = todo[1]
      BY <1>1, <3>3, HeadIsFirst
    <3>5. CASE i = Len(wire) + 1
      BY <1>1, <1>3, <1>6, <3>2, <3>3, <3>4, <3>5 DEF Announced
    <3>6. CASE i \in DOMAIN wire /\ wire'[i] = wire[i]
      BY <1>1, <1>3, <1>6, <3>6 DEF Announced
    <3> QED  BY <3>1, <3>5, <3>6
  <2> QED  BY <1>1, <2>1, <2>2, TaskWrites
<1> QED  BY <1>1, <1>5, <1>6 DEF Announced

LEMMA AnnouncedSelect == Announced /\ Select => Announced'
<1> SUFFICES ASSUME Announced, Select PROVE Announced'
  OBVIOUS
<1>0. TypeOK /\ TypeOK'
  BY TypeSelect DEF Announced
<1>1. CASE IdleTurn
  <2>1. UNCHANGED <<todo, log, wire, app>>
    BY <1>1 DEF IdleTurn, vars, channels, user
  <2> QED  BY <1>0, <2>1, AnnouncedQuiet
<1>2. CASE ~IdleTurn
  <2>1. /\ log' = log /\ app' = app /\ wire' = wire
        /\ \/ LeavesReport \/ LeavesDull
           \/ \E x \in EventItem : LeavesSaying(x)
           \/ \E x \in EventItem : LeavesSession(x)
    BY <1>0, <1>2, SelectShapes
  <2>2. ASSUME NEW i \in DOMAIN todo', todo'[i].op = "write",
               todo'[i].item.kind = "SetActiveRenderer"
        PROVE  Doing("emit")' /\ Told(Head(todo').item, todo'[i].item)
    <3>1. CASE LeavesReport
      BY <2>2, <3>1 DEF LeavesReport, Write, Op
    <3>2. CASE LeavesDull
      <4>1. todo'[i] \in DullStep
        BY <3>2, ElementOfSeq, LenProperties DEF LeavesDull
      <4> QED  BY <2>2, <4>1 DEF DullStep
    <3>3. ASSUME NEW x \in EventItem, LeavesSaying(x)
          PROVE  Doing("emit")' /\ Told(Head(todo').item, todo'[i].item)
      <4>1. /\ Doing("emit")' /\ Head(todo').item = x /\ todo'[1] = Emit(x)
            /\ i = 1 \/ todo'[i] \in FollowStep(x)
        BY <3>3, SayingShape
      <4>2. Emit(x).op = "emit"
        BY DEF Emit, Op
      <4> QED  BY <2>2, <4>1, <4>2 DEF FollowStep
    <3>4. ASSUME NEW x \in EventItem, LeavesSession(x) PROVE FALSE
      BY <2>2, <3>4 DEF LeavesSession, Write, Emit, Op
    <3> QED  BY <2>1, <3>1, <3>2, <3>3, <3>4
  <2>3. \A w : Heard(w)' <=> Heard(w)
    BY <2>1 DEF Heard
  <2> QED  BY <1>0, <2>1, <2>2, <2>3 DEF Announced
<1> QED  BY <1>1, <1>2

\* The server is asked to make a renderer active only after the application was
\* told that this renderer is its device (handle_qconnect_message, AddRenderer).
THEOREM RegisteredFirst == Spec => []RegisteredBeforeActivation
<1>1. Init => Announced
  <2> SUFFICES ASSUME Init PROVE Announced
    OBVIOUS
  <2>1. TypeOK /\ todo = StartSteps /\ wire = <<>>
    BY TypeInit DEF Init
  <2>2. \A i \in DOMAIN todo : todo[i].item.kind # "SetActiveRenderer"
    BY <2>1 DEF StartSteps, Write, Emit, Op, Own, Mk
  <2> QED  BY <2>1, <2>2 DEF Announced
<1>2. Announced /\ [Next]_vars => Announced'
  <2> SUFFICES ASSUME Announced, [Next]_vars PROVE Announced'
    OBVIOUS
  <2>1. CASE Application
    <3>1. UNCHANGED <<todo, log, wire>> /\ (app' # "gone" => app # "gone")
      BY <2>1 DEF Application, Recv, Respond, DropResponder, DropHandle, FinishReport,
                  AbandonReport, StartReport, session, channels, user
    <3> QED  BY <2>1, <3>1, TypeApplication, AnnouncedQuiet DEF Announced
  <2>2. CASE Environment \/ Finished \/ UNCHANGED vars
    <3>1. UNCHANGED <<todo, log, wire, app>>
      BY <2>2 DEF Environment, ServerSends, LinkBreaks, Finished, vars, session, channels, user
    <3> QED  BY <2>2, <3>1, TypeEnvironment, TypeStutter, AnnouncedQuiet DEF Announced
  <2> QED  BY <2>1, <2>2, AnnouncedTask, AnnouncedSelect DEF Next
<1>3. Announced => RegisteredBeforeActivation
  BY DEF Announced, RegisteredBeforeActivation, Heard, Told
<1> QED  BY <1>1, <1>2, <1>3, PTL DEF Spec

-----------------------------------------------------------------------------
(* The queue asked for is the session's.                                   *)

\* The uuid of the session that log w last named before event i, 0 for none.
Naming(w, i) == {k \in 1 .. i - 1 : w[k].kind = "SessionState" /\ w[k].ref # 0}
Latest(w, T) == IF T = {} THEN 0 ELSE w[CHOOSE k \in T : \A l \in T : l <= k].ref
NamedIn(w, i) == Latest(w, Naming(w, i))

\* The uuid after event x, when u was the one before.
NamedAfter(x, u) == IF x.kind = "SessionState" /\ x.ref # 0 THEN x.ref ELSE u

LEMMA NamedGrows ==
  ASSUME log \in Seq(EventItem), NEW x \in EventItem, log' = Append(log, x),
         NEW n, n = Len(log)
  PROVE  /\ \A i \in 1 .. n + 1 : NamedIn(log', i) = NamedIn(log, i)
         /\ NamedIn(log', n + 2) = NamedAfter(x, NamedIn(log, n + 1))
<1>1. PICK w : w = log'
  OBVIOUS
<1>2. n \in Nat /\ w[n + 1] = x /\ \A i \in 1 .. n : w[i] = log[i]
  BY <1>1, LogGrows
<1>3. ASSUME NEW i \in 1 .. n + 1 PROVE NamedIn(w, i) = NamedIn(log, i)
  <2>1. \A k \in 1 .. i - 1 : k \in 1 .. n
    BY <1>2
  <2>2. Naming(w, i) = Naming(log, i)
    BY <1>2, <2>1 DEF Naming
  <2>3. CASE Naming(log, i) = {}
    BY <2>2, <2>3 DEF NamedIn, Latest
  <2>4. CASE Naming(log, i) # {}
    <3> DEFINE l == CHOOSE k \in Naming(log, i) : \A j \in Naming(log, i) : j <= k
    <3>1. l \in Naming(log, i)
      <4>1. Naming(log, i) \in SUBSET (1 .. i - 1) /\ i - 1 \in Nat
        BY DEF Naming
      <4>2. \E k \in Naming(log, i) : \A j \in Naming(log, i) : j <= k
        BY <2>4, <4>1, GreatestBelow
      <4> QED  BY <4>2
    <3>2. l \in 1 .. n
      BY <2>1, <3>1 DEF Naming
    <3>3. NamedIn(w, i) = w[l].ref /\ NamedIn(log, i) = log[l].ref
      BY <2>2, <2>4 DEF NamedIn, Latest
    <3> HIDE DEF l
    <3> QED  BY <1>2, <3>2, <3>3
  <2> QED  BY <2>3, <2>4
<1>4. NamedIn(w, n + 2) = NamedAfter(x, NamedIn(log, n + 1))
  <2>1. CASE x.kind = "SessionState" /\ x.ref # 0
    <3>1. n + 1 \in Naming(w, n + 2) /\ \A k \in Naming(w, n + 2) : k \in Nat /\ k <= n + 1
      BY <1>2, <2>1 DEF Naming
    <3>2. ASSUME NEW k \in Naming(w, n + 2), \A l \in Naming(w, n + 2) : l <= k
          PROVE  k = n + 1
      BY <1>2, <3>1, <3>2
    <3>3. PICK T : T = Naming(w, n + 2)
      OBVIOUS
    <3>4. (CHOOSE k \in T : \A l \in T : l <= k) = n + 1 /\ T # {}
      BY <3>1, <3>2, <3>3
    <3>5. Latest(w, T) = w[n + 1].ref
      BY <3>4 DEF Latest
    <3> QED  BY <1>2, <2>1, <3>3, <3>5 DEF NamedIn, NamedAfter
  <2>2. CASE ~(x.kind = "SessionState" /\ x.ref # 0)
    <3>1. (n + 2) - 1 = n + 1 /\ (n + 1) - 1 = n
      BY <1>2
    <3>2. \A k \in 1 .. n + 1 : k = n + 1 \/ k \in 1 .. n
      BY <1>2
    <3>3. \A k \in 1 .. n : k \in 1 .. n + 1
      BY <1>2
    <3>4. Naming(w, n + 2) = Naming(w, n + 1)
      BY <1>2, <2>2, <3>1, <3>2, <3>3 DEF Naming
    <3>5. NamedIn(w, n + 2) = NamedIn(w, n + 1)
      BY <3>4 DEF NamedIn
    <3>6. n + 1 \in 1 .. n + 1
      BY <1>2
    <3> QED  BY <1>3, <2>2, <3>5, <3>6 DEF NamedAfter
  <2> QED  BY <2>1, <2>2
<1> QED  BY <1>1, <1>3, <1>4

\* A request that was taken from the server, and is not to come again.
Past(n) ==
  /\ n \in Nat /\ n <= nmsgs
  /\ \A k \in DOMAIN inbox : inbox[k].from = "server" => n < inbox[k].id
TakenItem(x) == x.from = "server" /\ Past(x.id)

InboxFrom ==
  \A k \in DOMAIN inbox : inbox[k].from = "server" \/ inbox[k].kind \in StreamEnds

\* What a step puts before the reader: what was there, the end of the stream, or
\* a message numbered after all others.
LEMMA InboxMoves ==
  ASSUME TypeOK, [Next]_vars
  PROVE  /\ nmsgs' \in Nat /\ nmsgs' >= nmsgs
         /\ \A k \in DOMAIN inbox' :
              \/ \E l \in DOMAIN inbox : inbox'[k] = inbox[l]
              \/ inbox'[k].from # "server" /\ inbox'[k].kind \in StreamEnds
              \/ inbox'[k].from = "server" /\ inbox'[k].id = nmsgs + 1
<1>0. nmsgs \in Nat /\ inbox \in Seq(ServerItem)
  BY DEF TypeOK
<1>1. CASE inbox' = inbox /\ nmsgs' = nmsgs
  BY <1>0, <1>1
<1>2. CASE inbox # <<>> /\ inbox' = Tail(inbox) /\ nmsgs' = nmsgs
  <2>1. \A k \in DOMAIN inbox' : k + 1 \in DOMAIN inbox /\ inbox'[k] = inbox[k + 1]
    BY <1>0, <1>2, HeadTailProperties, LenProperties
  <2> QED  BY <1>0, <1>2, <2>1
<1>3. CASE Environment
  <2>1. CASE \E m \in ServerMessages : ServerSends(m)
    <3>1. PICK m \in ServerMessages : ServerSends(m)
      BY <2>1
    <3> DEFINE x == Mk(m.kind, "server", nmsgs', m.ref)
    <3>2. inbox' = Append(inbox, x) /\ nmsgs' = nmsgs + 1 
          /\ x.from = "server" /\ x.id = nmsgs'
      BY <3>1 DEF ServerSends, Mk
    <3>3. x \in ServerItem
      BY <1>0, <3>2, ConstantsAssumption DEF Mk, ServerItem, Items
    <3> HIDE DEF x
    <3>4. \A k \in DOMAIN inbox' : (k \in DOMAIN inbox /\ inbox'[k] = inbox[k]) \/ inbox'[k] = x
      BY <1>0, <3>2, <3>3, AppendProperties, LenProperties
    <3> QED  BY <1>0, <3>2, <3>4
  <2>2. CASE \E end \in StreamEnds : LinkBreaks(end)
    <3>1. PICK end \in StreamEnds, n \in 0 .. Len(inbox) :
             inbox' = Append(SubSeq(inbox, 1, n), Own(end)) /\ nmsgs' = nmsgs
      BY <2>2 DEF LinkBreaks, counters
    <3> DEFINE s == SubSeq(inbox, 1, n)
               x == Own(end)
    <3>2. x \in ServerItem /\ x.from # "server" /\ x.kind \in StreamEnds
      BY DEF Own, Mk, ServerItem, Items
    <3>3. s \in Seq(ServerItem) /\ \A k \in DOMAIN s : k \in DOMAIN inbox /\ s[k] = inbox[k]
      <4>1. Len(inbox) \in Nat /\ DOMAIN inbox = 1 .. Len(inbox)
        BY <1>0, LenProperties
      <4>2. \A i \in 1 .. n : inbox[i] \in ServerItem /\ i \in DOMAIN inbox
        BY <1>0, <4>1, ElementOfSeq
      <4>3. /\ s \in Seq(ServerItem) /\ Len(s) = (IF 1 <= n THEN n - 1 + 1 ELSE 0)
            /\ \A i \in 1 .. n - 1 + 1 : s[i] = inbox[1 + i - 1]
        BY <4>2, SubSeqProperties
      <4>4. DOMAIN s = 1 .. n
        BY <4>3, LenProperties
      <4>5. \A i \in 1 .. n : i \in 1 .. n - 1 + 1 /\ 1 + i - 1 = i
        OBVIOUS
      <4> HIDE DEF s
      <4> QED  BY <4>2, <4>3, <4>4, <4>5
    <3> HIDE DEF s, x
    <3>4. \A k \in DOMAIN inbox' : (k \in DOMAIN s /\ inbox'[k] = s[k]) \/ inbox'[k] = x
      <4>1. inbox' = Append(s, x)
        BY <3>1 DEF s, x
      <4> QED  BY <3>2, <3>3, <4>1, AppendProperties, LenProperties
    <3> QED  BY <1>0, <3>1, <3>2, <3>3, <3>4
  <2> QED  BY <1>3, <2>1, <2>2 DEF Environment
<1>4. CASE TaskStep \/ Application \/ Finished \/ UNCHANGED vars \/ Tick \/ IdleTurn
           \/ TakeCommand
  BY <1>1, <1>4 DEF TaskStep, DoEmit, DoWrite, DoWriteFails, DoAwait, DoClose, DoRun, DoStop,
     Application, Recv, Respond, DropResponder, DropHandle, FinishReport, AbandonReport,
     StartReport, Finished, Tick, IdleTurn, TakeCommand, vars, channels, counters
<1>5. CASE HandleMessage
  BY <1>2, <1>5 DEF HandleMessage, HandleAddRenderer, HandleRemoveRenderer,
     HandleSessionState, HandleRendererStateUpdated, HandleSetState, HandleSetVolume,
     HandleSetActive, HandleSetInactive, HandleOther, HandleStreamEnd, Takes, counters
<1> QED  BY <1>3, <1>4, <1>5 DEF Next, Select

LEMMA PastStays ==
  ASSUME TypeOK, InboxFrom, [Next]_vars
  PROVE  InboxFrom' /\ \A x : TakenItem(x) => TakenItem(x)'
<1>1. /\ nmsgs \in Nat /\ nmsgs' \in Nat /\ nmsgs' >= nmsgs
      /\ \A k \in DOMAIN inbox' :
           \/ \E l \in DOMAIN inbox : inbox'[k] = inbox[l]
           \/ inbox'[k].from # "server" /\ inbox'[k].kind \in StreamEnds
           \/ inbox'[k].from = "server" /\ inbox'[k].id = nmsgs + 1
  BY InboxMoves DEF TypeOK
<1>2. InboxFrom'
  BY <1>1 DEF InboxFrom
<1>3. ASSUME NEW n, Past(n) PROVE Past(n)'
  <2>1. n \in Nat /\ n <= nmsgs /\ n < nmsgs + 1 /\ n <= nmsgs'
    BY <1>1, <1>3 DEF Past
  <2> QED  BY <1>1, <1>3, <2>1 DEF Past
<1> QED  BY <1>2, <1>3 DEF TakenItem

SaidUuid == NamedIn(log, Len(log) + 1)

\* The session's uuid is the one the application was told, or will be by the
\* notification that is left to send.
SaysSession(s) == s.op = "emit" /\ s.item.kind = "SessionState"
SessionPending(x) ==
  /\ x.kind = "SessionState" /\ status = "running"
  /\ todo = <<Emit(x)>> \/ \E w \in WireItem : todo = <<Write(w), Emit(x)>>
UuidKnown ==
  app # "gone" =>
    \/ session_uuid = SaidUuid /\ \A i \in DOMAIN todo : ~SaysSession(todo[i])
    \/ \E x \in EventItem : SessionPending(x) /\ session_uuid = NamedAfter(x, SaidUuid)

AsksQueue(s) == s.op = "write" /\ s.item.kind = "AskForQueueState"
SaysActive(s) == s.op = "emit" /\ s.item.kind = "SetActive"

\* The message w asks for the queue of the session of its SetActive.
RightQueue(w) ==
  \A j \in DOMAIN log :
     log[j].kind = "SetActive" /\ Cause(log[j]) = Cause(w) => w.ref = NamedIn(log, j)

\* Activations and the requests for the queue are those of messages taken.
ActivationsTaken ==
  /\ \A i \in DOMAIN todo : AsksQueue(todo[i]) \/ SaysActive(todo[i]) => TakenItem(todo[i].item)
  /\ \A j \in DOMAIN log : log[j].kind = "SetActive" => TakenItem(log[j])
  /\ \A i \in DOMAIN wire : wire[i].kind = "AskForQueueState" => TakenItem(wire[i])

QueueAsked ==
  /\ \A i \in DOMAIN todo : AsksQueue(todo[i]) =>
        RightQueue(todo[i].item) /\ todo[i].item.ref = session_uuid
  /\ \A i \in DOMAIN todo : SaysActive(todo[i]) =>
        \A j \in DOMAIN wire : wire[j].kind = "AskForQueueState" =>
           Cause(wire[j]) # Cause(todo[i].item)
  /\ \A i \in DOMAIN wire : wire[i].kind = "AskForQueueState" => RightQueue(wire[i])

Queueing ==
  /\ TypeOK /\ TellersFirst /\ InboxInOrder /\ InboxFrom
  /\ UuidKnown /\ ActivationsTaken /\ QueueAsked

LEMMA QueueingIsRight == Queueing => AsksForTheSessionsQueue
BY DEF Queueing, QueueAsked, RightQueue, AsksForTheSessionsQueue, NamedIn, Latest, Naming

\* Steps of others.
LEMMA QueueingQuiet ==
  ASSUME Queueing, [Next]_vars, TypeOK', TellersFirst', InboxInOrder',
         UNCHANGED <<todo, log, wire, session_uuid, status>>, app' # "gone" => app # "gone"
  PROVE  Queueing'
<1>1. InboxFrom' /\ \A x : TakenItem(x) => TakenItem(x)'
  BY PastStays DEF Queueing
<1>2. ActivationsTaken'
  BY <1>1 DEF Queueing, ActivationsTaken
<1>3. UuidKnown'
  BY DEF Queueing, UuidKnown, SaidUuid, SessionPending
<1>4. QueueAsked'
  BY DEF Queueing, QueueAsked, RightQueue
<1> QED  BY <1>1, <1>2, <1>3, <1>4 DEF Queueing

LEMMA UuidTask ==
  ASSUME TypeOK, UuidKnown, TaskStep
  PROVE  UuidKnown'
<1> SUFFICES ASSUME app' # "gone" PROVE UuidKnown'
  BY DEF UuidKnown
<1>1. app # "gone" /\ session_uuid' = session_uuid /\ log \in Seq(EventItem)
      /\ todo \in Seq(Step)
  BY TaskSays DEF TypeOK
<1>2. \/ Doing("emit") /\ Head(todo).item \in EventItem /\ log' = Append(log, Head(todo).item)
      \/ log' = log /\ ~Doing("emit")
  BY <1>1, TaskSays
<1>3. CASE session_uuid = SaidUuid /\ \A i \in DOMAIN todo : ~SaysSession(todo[i])
  <2>1. SaidUuid' = SaidUuid
    <3>1. CASE log' = log
      BY <3>1 DEF SaidUuid
    <3>2. CASE /\ Doing("emit") /\ Head(todo).item \in EventItem
               /\ log' = Append(log, Head(todo).item)
      <4>1. Head(todo).item.kind # "SessionState"
        <5>1. todo # <<>> /\ Head(todo).op = "emit"
          BY <3>2 DEF Doing
        <5> QED  BY <1>3, <5>1, HeadIsFirst DEF SaysSession
      <4>2. PICK n : n = Len(log)
        OBVIOUS
      <4>3. n \in Nat /\ Len(log') + 1 = n + 2
        BY <1>1, <3>2, <4>2, LogGrows
      <4>4. NamedIn(log', n + 2) = NamedIn(log, n + 1)
        BY <1>1, <3>2, <4>1, <4>2, NamedGrows DEF NamedAfter
      <4> QED  BY <4>2, <4>3, <4>4 DEF SaidUuid
    <3> QED  BY <1>2, <3>1, <3>2
  <2>2. ASSUME NEW i \in DOMAIN todo' PROVE ~SaysSession(todo'[i])
    <3>1. PICK d \in Int : Shifted(i, d) \/ Answering(i)
      BY TaskLeaves
    <3>2. CASE Shifted(i, d)
      <4>1. i + d \in DOMAIN todo /\ todo'[i] = todo[i + d]
        BY <1>1, <3>2, LenProperties DEF Shifted
      <4> QED  BY <1>3, <4>1
    <3>3. CASE Answering(i)
      BY <3>3 DEF Answering, AnswerStep, SaysSession
    <3> QED  BY <3>1, <3>2, <3>3
  <2> QED  BY <1>1, <1>3, <2>1, <2>2 DEF UuidKnown
<1>4. ASSUME NEW x \in EventItem, SessionPending(x), session_uuid = NamedAfter(x, SaidUuid)
      PROVE  UuidKnown'
  <2>1. CASE todo = <<Emit(x)>>
    <3>1. Doing("emit") /\ Head(todo).item = x /\ Tail(todo) = <<>>
      BY <2>1 DEF Doing, Emit, Op
    <3>2. log' = Append(log, x)
      BY <1>2, <3>1
    <3>3. todo' = <<>>
      BY <3>1 DEF TaskStep, DoEmit, DoWrite, DoWriteFails, DoAwait, DoClose, DoRun, DoStop, Doing
    <3>4. PICK n : n = Len(log)
      OBVIOUS
    <3>5. n \in Nat /\ Len(log') + 1 = n + 2
      BY <1>1, <3>2, <3>4, LogGrows
    <3>6. NamedIn(log', n + 2) = NamedAfter(x, NamedIn(log, n + 1))
      BY <1>1, <3>2, <3>4, NamedGrows
    <3>7. SaidUuid' = NamedAfter(x, SaidUuid)
      BY <3>4, <3>5, <3>6 DEF SaidUuid
    <3> QED  BY <1>1, <1>4, <3>3, <3>7 DEF UuidKnown
  <2>2. ASSUME NEW w \in WireItem, todo = <<Write(w), Emit(x)>>
        PROVE  UuidKnown'
    <3>0. Write(w) \in Step /\ Emit(x) \in Step /\ Write(w).skip = 0 /\ Write(w).op = "write"
      BY StepTypes DEF Write, Op
    <3>1. Doing("write") /\ Head(todo) = Write(w) /\ Tail(todo) = <<Emit(x)>> /\ todo # <<>>
      BY <2>2, <3>0 DEF Doing
    <3>2. status = "running" /\ x.kind = "SessionState"
      BY <1>4 DEF SessionPending
    <3>3. todo' = Tail(todo) /\ status' = status
      <4>1. CASE DoWrite
        BY <4>1 DEF DoWrite, session
      <4>2. CASE DoWriteFails
        <5>1. todo' = SubSeq(todo, 2 + 0, Len(todo)) /\ status' = status
          BY <3>0, <3>1, <3>2, <4>2 DEF DoWriteFails
        <5> QED  BY <1>1, <3>1, <5>1, TailIsSubSeq
      <4> QED  BY <3>1, <4>1, <4>2
               DEF TaskStep, DoEmit, DoAwait, DoClose, DoRun, DoStop, Doing
    <3>4. log' = log
      BY <1>2, <3>1 DEF Doing
    <3>5. SessionPending(x)'
      BY <3>1, <3>2, <3>3 DEF SessionPending
    <3>6. SaidUuid' = SaidUuid
      BY <3>4 DEF SaidUuid
    <3> QED  BY <1>1, <1>4, <3>5, <3>6 DEF UuidKnown
  <2> QED  BY <1>4, <2>1, <2>2 DEF SessionPending
<1> QED  BY <1>1, <1>3, <1>4 DEF UuidKnown

LEMMA ActivationsTask ==
  ASSUME Queueing, TaskStep
  PROVE  ActivationsTaken'
<1>0. /\ TypeOK /\ ActivationsTaken /\ todo \in Seq(Step) /\ log \in Seq(EventItem)
      /\ wire \in Seq(WireItem) /\ \A x : TakenItem(x) => TakenItem(x)'
  BY PastStays DEF Queueing, Next, TypeOK
<1>1. ASSUME todo # <<>>
      PROVE  AsksQueue(Head(todo)) \/ SaysActive(Head(todo)) => TakenItem(Head(todo).item)
  BY <1>0, <1>1, HeadIsFirst DEF ActivationsTaken
<1>2. ASSUME NEW i \in DOMAIN todo', AsksQueue(todo'[i]) \/ SaysActive(todo'[i])
      PROVE  TakenItem(todo[i].item)'
  <2>1. PICK d \in Int : Shifted(i, d) \/ Answering(i)
    BY <1>0, TaskLeaves
  <2>2. CASE Shifted(i, d)
    <3>1. i + d \in DOMAIN todo /\ todo'[i] = todo[i + d]
      BY <1>0, <2>2, LenProperties DEF Shifted
    <3> QED  BY <1>0, <1>2, <3>1 DEF ActivationsTaken
  <2>3. CASE Answering(i)
    BY <1>2, <2>3 DEF Answering, AnswerStep, AsksQueue, SaysActive
  <2> QED  BY <2>1, <2>2, <2>3
<1>3. ASSUME NEW j \in DOMAIN log', log'[j].kind = "SetActive"
      PROVE  TakenItem(log[j])'
  <2>1. CASE log' = log
    BY <1>0, <1>3, <2>1 DEF ActivationsTaken
  <2>2. CASE /\ Doing("emit") /\ Head(todo).item \in EventItem
             /\ log' = Append(log, Head(todo).item)
    <3>1. (j \in DOMAIN log /\ log'[j] = log[j]) \/ log'[j] = Head(todo).item
      BY <1>0, <2>2, LogGrows
    <3>2. todo # <<>> /\ Head(todo).op = "emit"
      BY <2>2 DEF Doing
    <3> QED  BY <1>0, <1>1, <1>3, <3>1, <3>2 DEF ActivationsTaken, SaysActive
  <2> QED  BY <1>0, <2>1, <2>2, TaskSays
<1>4. ASSUME NEW i \in DOMAIN wire', wire'[i].kind = "AskForQueueState"
      PROVE  TakenItem(wire[i])'
  <2>1. CASE wire' = wire
    BY <1>0, <1>4, <2>1 DEF ActivationsTaken
  <2>2. CASE /\ Doing("write") /\ Head(todo).item \in WireItem
             /\ wire' = Append(wire, Head(todo).item)
    <3>1. (i \in DOMAIN wire /\ wire'[i] = wire[i]) \/ wire'[i] = Head(todo).item
      BY <1>0, <2>2, WireGrows
    <3>2. todo # <<>> /\ Head(todo).op = "write"
      BY <2>2 DEF Doing
    <3> QED  BY <1>0, <1>1, <1>4, <3>1, <3>2 DEF ActivationsTaken, AsksQueue
  <2> QED  BY <1>0, <2>1, <2>2, TaskWrites
<1> QED  BY <1>2, <1>3, <1>4 DEF ActivationsTaken

\* Once the activation is said, the queue asked for is that of its session.
LEMMA QueueTask ==
  ASSUME Queueing, TaskStep
  PROVE  QueueAsked'
<1>0. /\ TypeOK /\ TellersFirst /\ UuidKnown /\ QueueAsked /\ ActivationsTaken
      /\ todo \in Seq(Step) /\ log \in Seq(EventItem) /\ wire \in Seq(WireItem)
  BY DEF Queueing, TypeOK
<1>1. session_uuid' = session_uuid
  BY <1>0, TaskSays
<1>2. ASSUME NEW i \in DOMAIN todo' PROVE ~SaysActive(todo'[i])
  <2>1. PICK d \in Int : Shifted(i, d) \/ Answering(i)
    BY <1>0, TaskLeaves
  <2>2. CASE Shifted(i, d)
    <3>1. i + d \in DOMAIN todo /\ i + d # 1 /\ todo'[i] = todo[i + d]
      BY <1>0, <2>2, LenProperties DEF Shifted
    <3> QED  BY <1>0, <3>1 DEF TellersFirst, SaysActive, Tellers
  <2>3. CASE Answering(i)
    BY <2>3 DEF Answering, AnswerStep, SaysActive
  <2> QED  BY <2>1, <2>2, <2>3
<1>3. ASSUME NEW w, RightQueue(w),
             Doing("emit") /\ SaysActive(Head(todo)) /\ app # "gone" =>
               (Cause(Head(todo).item) = Cause(w) => w.ref = session_uuid)
      PROVE  RightQueue(w)'
  <2>1. CASE log' = log
    BY <1>3, <2>1 DEF RightQueue
  <2>2. CASE /\ Doing("emit") /\ app # "gone" /\ Head(todo).item \in EventItem
             /\ log' = Append(log, Head(todo).item)
    <3> DEFINE x == Head(todo).item
    <3>1. PICK n : n = Len(log)
      OBVIOUS
    <3>2. /\ n \in Nat /\ DOMAIN log = 1 .. n /\ DOMAIN log' = 1 .. n + 1
          /\ log'[n + 1] = x /\ \A j \in 1 .. n : log'[j] = log[j]
      BY <1>0, <2>2, <3>1, LogGrows
    <3>3. \A j \in 1 .. n + 1 : NamedIn(log', j) = NamedIn(log, j)
      BY <1>0, <2>2, <3>1, NamedGrows
    <3>4. ASSUME NEW j \in 1 .. n + 1, log'[j].kind = "SetActive", Cause(log'[j]) = Cause(w)
          PROVE  w.ref = NamedIn(log', j)
      <4>1. CASE j # n + 1
        <5>1. j \in 1 .. n
          BY <3>2, <4>1
        <5> QED  BY <1>3, <3>2, <3>3, <3>4, <5>1 DEF RightQueue
      <4>2. CASE j = n + 1
        <5>1. Head(todo).op = "emit" /\ todo # <<>>
          BY <2>2 DEF Doing
        <5>2. x.kind = "SetActive" /\ Cause(x) = Cause(w)
          BY <3>2, <3>4, <4>2
        <5>3. SaysActive(Head(todo)) /\ w.ref = session_uuid
          BY <1>3, <2>2, <5>1, <5>2 DEF SaysActive
        <5>4. session_uuid = SaidUuid
          <6>1. ASSUME NEW y \in EventItem, SessionPending(y) PROVE FALSE
            <7>1. CASE todo = <<Emit(y)>>
              BY <5>2, <6>1, <7>1 DEF SessionPending, Emit, Op
            <7>2. ASSUME NEW v \in WireItem, todo = <<Write(v), Emit(y)>> PROVE FALSE
              BY <5>1, <7>2 DEF Write, Op
            <7> QED  BY <6>1, <7>1, <7>2 DEF SessionPending
          <6> QED  BY <1>0, <2>2, <6>1 DEF UuidKnown
        <5>5. NamedIn(log', n + 1) = NamedIn(log, n + 1)
          BY <3>2, <3>3
        <5> QED  BY <3>1, <4>2, <5>3, <5>4, <5>5 DEF SaidUuid
      <4> QED  BY <4>1, <4>2
    <3> HIDE DEF x
    <3> QED  BY <3>2, <3>4 DEF RightQueue
  <2> QED  BY <1>0, <2>1, <2>2, TaskSays
<1>4. ASSUME NEW i \in DOMAIN todo, AsksQueue(todo[i])
      PROVE  \E w : w = todo[i].item /\ RightQueue(w)' /\ w.ref = session_uuid
  <2>1. RightQueue(todo[i].item) /\ todo[i].item.ref = session_uuid
    BY <1>0, <1>4 DEF QueueAsked
  <2>2. PICK w : w = todo[i].item
    OBVIOUS
  <2>3. RightQueue(w)'
    BY <1>3, <2>1, <2>2
  <2> QED  BY <2>1, <2>2, <2>3
<1>5. ASSUME NEW i \in DOMAIN todo', AsksQueue(todo'[i])
      PROVE  RightQueue(todo[i].item)' /\ todo'[i].item.ref = session_uuid
  <2>1. PICK d \in Int : Shifted(i, d) \/ Answering(i)
    BY <1>0, TaskLeaves
  <2>2. CASE Shifted(i, d)
    <3>1. i + d \in DOMAIN todo /\ todo'[i] = todo[i + d]
      BY <1>0, <2>2, LenProperties DEF Shifted
    <3>2. PICK w : w = todo[i + d].item /\ RightQueue(w)' /\ w.ref = session_uuid
      BY <1>4, <1>5, <3>1
    <3> QED  BY <3>1, <3>2
  <2>3. CASE Answering(i)
    BY <1>5, <2>3 DEF Answering, AnswerStep, AsksQueue
  <2> QED  BY <2>1, <2>2, <2>3
<1>6. ASSUME NEW i \in DOMAIN wire', wire'[i].kind = "AskForQueueState"
      PROVE  RightQueue(wire[i])'
  <2>1. ASSUME NEW j \in DOMAIN wire, wire[j].kind = "AskForQueueState"
        PROVE  \E w : w = wire[j] /\ RightQueue(w)'
    <3>1. PICK w : w = wire[j]
      OBVIOUS
    <3>2. RightQueue(w)
      BY <1>0, <2>1, <3>1 DEF QueueAsked
    <3>3. ASSUME Doing("emit") /\ SaysActive(Head(todo)) PROVE Cause(Head(todo).item) # Cause(w)
      <4>1. 1 \in DOMAIN todo /\ Head(todo) = todo[1]
        BY <1>0, <3>3, HeadIsFirst DEF Doing
      <4> QED  BY <1>0, <2>1, <3>1, <3>3, <4>1 DEF QueueAsked
    <3> QED  BY <1>3, <3>1, <3>2, <3>3
  <2>2. CASE wire' = wire
    <3>1. PICK w : w = wire[i] /\ RightQueue(w)'
      BY <1>6, <2>1, <2>2
    <3> QED  BY <2>2, <3>1
  <2>3. CASE /\ Doing("write") /\ Head(todo).item \in WireItem
             /\ wire' = Append(wire, Head(todo).item)
    <3>1. (i \in DOMAIN wire /\ wire'[i] = wire[i]) \/ wire'[i] = Head(todo).item
      BY <1>0, <2>3, WireGrows
    <3>2. todo # <<>> /\ Head(todo).op = "write" /\ 1 \in DOMAIN todo /\ Head(todo) = todo[1]
      BY <1>0, <2>3, HeadIsFirst DEF Doing
    <3>3. CASE i \in DOMAIN wire /\ wire'[i] = wire[i]
      <4>1. PICK w : w = wire[i] /\ RightQueue(w)'
        BY <1>6, <2>1, <3>3
      <4> QED  BY <3>3, <4>1
    <3>4. CASE wire'[i] = Head(todo).item
      <4>1. AsksQueue(todo[1])
        BY <1>6, <3>2, <3>4 DEF AsksQueue
      <4>2. PICK w : w = todo[1].item /\ RightQueue(w)'
        BY <1>4, <3>2, <4>1
      <4> QED  BY <3>2, <3>4, <4>2
    <3> QED  BY <3>1, <3>3, <3>4
  <2> QED  BY <1>0, <2>2, <2>3, TaskWrites
<1> QED  BY <1>1, <1>2, <1>5, <1>6 DEF QueueAsked

LEMMA QueueingTask ==
  ASSUME Queueing, Fits, Ordered, TaskStep
  PROVE  Queueing'
<1>1. TypeOK' /\ TellersFirst' /\ InboxInOrder'
  BY FitsTask, OrderedTask DEF Fits, Ordered
<1>2. InboxFrom' /\ UuidKnown' /\ ActivationsTaken' /\ QueueAsked'
  BY PastStays, UuidTask, ActivationsTask, QueueTask DEF Queueing, Next
<1> QED  BY <1>1, <1>2 DEF Queueing

\* What is left by a turn of select! that takes a SetActive, and by any other.
LEMMA ActivationShape ==
  ASSUME TypeOK, InboxInOrder, InboxFrom, Select, ~IdleTurn
  PROVE  \A i \in DOMAIN todo' :
            AsksQueue(todo'[i]) \/ SaysActive(todo'[i]) =>
              /\ HandleSetActive /\ Head(inbox).from = "server"
              /\ Cause(todo'[i].item) = Cause(Head(inbox))
              /\ AsksQueue(todo'[i]) => todo'[i].item.ref = session_uuid
<1> SUFFICES ASSUME NEW i \in DOMAIN todo', AsksQueue(todo'[i]) \/ SaysActive(todo'[i])
             PROVE  /\ HandleSetActive /\ Head(inbox).from = "server"
                    /\ Cause(todo'[i].item) = Cause(Head(inbox))
                    /\ AsksQueue(todo'[i]) => todo'[i].item.ref = session_uuid
  OBVIOUS
<1>1. ASSUME NEW x \in EventItem, LeavesSaying(x)
      PROVE  /\ HandleSetActive /\ x = Head(inbox)
             /\ Cause(todo'[i].item) = Cause(x)
             /\ AsksQueue(todo'[i]) => todo'[i].item.ref = session_uuid
  <2>1. /\ todo'[1] = Emit(x) /\ (i = 1 \/ todo'[i] \in FollowStep(x))
        /\ x.kind = "SetActive" => HandleSetActive /\ x = Head(inbox)
    BY <1>1, SayingShape DEF LeavesSaying
  <2>2. Emit(x).op = "emit" /\ Emit(x).item = x
    BY DEF Emit, Op
  <2>3. CASE i = 1
    BY <2>1, <2>2, <2>3 DEF AsksQueue, SaysActive
  <2>4. CASE todo'[i] \in FollowStep(x)
    BY <2>1, <2>4 DEF AsksQueue, SaysActive, FollowStep, Tellers
  <2> QED  BY <2>1, <2>3, <2>4
<1>2. CASE LeavesDull
  <2>1. todo'[i] \in DullStep
    BY <1>2, ElementOfSeq, LenProperties DEF LeavesDull
  <2> QED  BY <2>1 DEF DullStep, AsksQueue, SaysActive, Tellers
<1>3. CASE LeavesReport
  BY <1>3 DEF LeavesReport, Write, Op, AsksQueue, SaysActive
<1>4. ASSUME NEW x \in EventItem, LeavesSession(x) PROVE FALSE
  BY <1>4 DEF LeavesSession, Write, Emit, Op, AsksQueue, SaysActive
<1>5. ASSUME HandleSetActive PROVE Head(inbox).from = "server"
  <2>1. inbox # <<>> /\ Head(inbox).kind = "SetActive" /\ inbox \in Seq(ServerItem)
    BY <1>5 DEF HandleSetActive, Takes, TypeOK
  <2>2. 1 \in DOMAIN inbox /\ Head(inbox) = inbox[1]
    BY <2>1, EmptySeq, LenProperties
  <2> QED  BY <2>1, <2>2 DEF InboxFrom, StreamEnds
<1> QED  BY <1>1, <1>2, <1>3, <1>4, <1>5, SelectShapes

\* The message taken is later than those taken before, and is now taken itself.
LEMMA TakesTheNext ==
  ASSUME TypeOK, InboxInOrder, HandleSetActive, Head(inbox).from = "server"
  PROVE  /\ \A x : TakenItem(x) => Cause(x) # Cause(Head(inbox))
         /\ \A x : Cause(x) = Cause(Head(inbox)) => TakenItem(x)'
<1> DEFINE m == Head(inbox)
<1>1. /\ inbox # <<>> /\ inbox \in Seq(ServerItem) /\ inbox' = Tail(inbox) /\ nmsgs' = nmsgs
  BY DEF HandleSetActive, Takes, TypeOK, counters
<1>2. /\ Len(inbox) \in Nat /\ 1 \in DOMAIN inbox /\ m = inbox[1] /\ m \in ServerItem
      /\ DOMAIN inbox = 1 .. Len(inbox) /\ DOMAIN inbox' = 1 .. Len(inbox) - 1
      /\ \A k \in 1 .. Len(inbox) - 1 : inbox'[k] = inbox[k + 1]
  <2>1. Len(inbox) \in Nat /\ Len(inbox) # 0 /\ DOMAIN inbox = 1 .. Len(inbox)
    BY <1>1, EmptySeq, LenProperties
  <2>2. /\ Len(inbox') = Len(inbox) - 1 /\ inbox' \in Seq(ServerItem)
        /\ \A k \in 1 .. Len(inbox') : inbox'[k] = inbox[k + 1]
    BY <1>1, HeadTailProperties
  <2>3. 1 \in DOMAIN inbox /\ m = inbox[1] /\ m \in ServerItem
    BY <1>1, <2>1, HeadTailProperties, ElementOfSeq
  <2> QED  BY <2>1, <2>2, <2>3, LenProperties
<1>3. m.id \in Nat /\ m.from = "server"
  BY <1>2 DEF ServerItem, Items
<1>4. ASSUME NEW x, TakenItem(x) PROVE Cause(x) # Cause(m)
  <2>1. x.id \in Nat /\ x.id < m.id
    BY <1>2, <1>3, <1>4 DEF TakenItem, Past
  <2>2. x.id # m.id
    BY <1>3, <2>1
  <2> QED  BY <2>2 DEF Cause
<1>5. ASSUME NEW x, Cause(x) = Cause(m) PROVE TakenItem(x)'
  <2>1. m.id <= nmsgs
    BY <1>2, <1>3 DEF InboxInOrder
  <2>2. ASSUME NEW k \in DOMAIN inbox', inbox'[k].from = "server" PROVE m.id < inbox'[k].id
    <3>1. k + 1 \in 1 + 1 .. Len(inbox) /\ inbox'[k] = inbox[k + 1]
      BY <1>2
    <3> QED  BY <1>2, <1>3, <2>2, <3>1 DEF InboxInOrder
  <2>3. x.from = "server" /\ x.id = m.id
    BY <1>3, <1>5 DEF Cause
  <2> QED  BY <1>1, <1>3, <2>1, <2>2, <2>3 DEF TakenItem, Past
<1> QED  BY <1>4, <1>5

LEMMA QueueingSelect ==
  ASSUME Queueing, Fits, Ordered, Select
  PROVE  Queueing'
<1>0. /\ TypeOK /\ InboxInOrder /\ InboxFrom /\ TypeOK' /\ TellersFirst' /\ InboxInOrder'
      /\ ActivationsTaken /\ QueueAsked /\ UuidKnown
  BY FitsSelect, OrderedSelect DEF Queueing, Fits, Ordered
<1>1. InboxFrom' /\ \A x : TakenItem(x) => TakenItem(x)'
  BY <1>0, PastStays DEF Next
<1>2. CASE IdleTurn
  <2>1. UNCHANGED <<todo, log, wire, session_uuid, status, app>>
    BY <1>2 DEF IdleTurn, vars, session, channels, user
  <2> QED  BY <1>0, <2>1, QueueingQuiet DEF Next
<1>3. CASE ~IdleTurn
  <2>1. /\ todo = <<>> /\ status = "running" /\ UNCHANGED <<status, log, wire, app>>
        /\ \/ LeavesReport \/ LeavesDull
           \/ \E x \in EventItem : LeavesSaying(x)
           \/ \E x \in EventItem : LeavesSession(x)
    BY <1>0, <1>3, SelectShapes
  <2>2. \A i \in DOMAIN todo' :
            AsksQueue(todo'[i]) \/ SaysActive(todo'[i]) =>
              /\ HandleSetActive /\ Head(inbox).from = "server"
              /\ Cause(todo'[i].item) = Cause(Head(inbox))
              /\ AsksQueue(todo'[i]) => todo'[i].item.ref = session_uuid
    BY <1>0, <1>3, ActivationShape
  <2>3. ASSUME NEW i \in DOMAIN todo', AsksQueue(todo'[i]) \/ SaysActive(todo'[i])
        PROVE  /\ \A x : TakenItem(x) => Cause(x) # Cause(todo'[i].item)
               /\ \A x : Cause(x) = Cause(todo'[i].item) => TakenItem(x)'
               /\ session_uuid' = session_uuid
    BY <1>0, <2>2, <2>3, TakesTheNext DEF HandleSetActive
  <2>4. ActivationsTaken'
    <3>1. ASSUME NEW i \in DOMAIN todo', AsksQueue(todo'[i]) \/ SaysActive(todo'[i])
          PROVE  TakenItem(todo[i].item)'
      BY <2>3, <3>1
    <3> QED  BY <1>0, <1>1, <2>1, <3>1 DEF ActivationsTaken
  <2>5. QueueAsked'
    <3>1. ASSUME NEW i \in DOMAIN todo', AsksQueue(todo'[i])
          PROVE  RightQueue(todo[i].item)' /\ todo'[i].item.ref = session_uuid'
      <4>1. \A j \in DOMAIN log' : log'[j].kind = "SetActive" =>
              Cause(log'[j]) # Cause(todo'[i].item)
        BY <1>0, <2>1, <2>3, <3>1 DEF ActivationsTaken
      <4>2. RightQueue(todo[i].item)'
        BY <4>1 DEF RightQueue
      <4> QED  BY <2>2, <2>3, <3>1, <4>2
    <3>2. ASSUME NEW i \in DOMAIN todo', SaysActive(todo'[i]),
                 NEW j \in DOMAIN wire', wire'[j].kind = "AskForQueueState"
          PROVE  Cause(wire'[j]) # Cause(todo'[i].item)
      BY <1>0, <2>1, <2>3, <3>2 DEF ActivationsTaken
    <3>3. \A i \in DOMAIN wire' : wire'[i].kind = "AskForQueueState" => RightQueue(wire[i])'
      BY <1>0, <2>1 DEF QueueAsked, RightQueue
    <3> QED  BY <3>1, <3>2, <3>3 DEF QueueAsked
  <2>6. UuidKnown'
    <3>1. SaidUuid' = SaidUuid
      BY <2>1 DEF SaidUuid
    <3>2. app' # "gone" => session_uuid = SaidUuid
      <4>1. \A x : ~SessionPending(x)
        BY <2>1 DEF SessionPending
      <4> QED  BY <1>0, <2>1, <4>1 DEF UuidKnown
    <3>3. ASSUME session_uuid' = session_uuid, \A i \in DOMAIN todo' : ~SaysSession(todo'[i])
          PROVE  UuidKnown'
      BY <3>1, <3>2, <3>3 DEF UuidKnown
    <3>4. CASE LeavesReport
      <4>1. \A i \in DOMAIN todo' : ~SaysSession(todo'[i])
        BY <3>4 DEF LeavesReport, Write, Op, SaysSession
      <4> QED  BY <3>3, <3>4, <4>1 DEF LeavesReport
    <3>5. CASE LeavesDull
      <4>1. \A i \in DOMAIN todo' : todo'[i] \in DullStep
        BY <3>5, ElementOfSeq, LenProperties DEF LeavesDull
      <4> QED  BY <3>3, <3>5, <4>1 DEF LeavesDull, DullStep, SaysSession
    <3>6. ASSUME NEW x \in EventItem, LeavesSaying(x) PROVE UuidKnown'
      <4>1. todo'[1] = Emit(x) /\ \A i \in DOMAIN todo' : i = 1 \/ todo'[i] \in FollowStep(x)
        BY <3>6, SayingShape
      <4>2. Emit(x).item = x /\ x.kind # "SessionState"
        BY <3>6 DEF Emit, Op, LeavesSaying, Tellers
      <4>3. \A i \in DOMAIN todo' : ~SaysSession(todo'[i])
        BY <4>1, <4>2 DEF FollowStep, SaysSession
      <4> QED  BY <3>3, <3>6, <4>3 DEF LeavesSaying
    <3>7. ASSUME NEW x \in EventItem, LeavesSession(x) PROVE UuidKnown'
      <4>1. SessionPending(x)'
        BY <2>1, <3>7 DEF LeavesSession, SessionPending
      <4>2. app' # "gone" => session_uuid' = NamedAfter(x, SaidUuid')
        BY <3>1, <3>2, <3>7 DEF LeavesSession, UuidAfter, NamedAfter
      <4> QED  BY <4>1, <4>2 DEF UuidKnown
    <3> QED  BY <2>1, <3>4, <3>5, <3>6, <3>7
  <2> QED  BY <1>0, <1>1, <2>4, <2>5, <2>6 DEF Queueing
<1> QED  BY <1>2, <1>3

\* After an activation the queue asked for is that of the session the server last
\* announced before it with a uuid, or the device's own (HandleSetActive's
\* do_request_queue_state, HandleSessionState).
THEOREM AsksForTheRightQueue == Spec => []AsksForTheSessionsQueue
<1> DEFINE Inv == Queueing /\ Fits /\ Ordered
<1>1. Init => Inv
  <2> SUFFICES ASSUME Init PROVE Queueing
    BY FitsInductive, OrderedInductive
  <2>1. /\ TypeOK /\ TellersFirst /\ InboxInOrder
        /\ todo = StartSteps /\ log = <<>> /\ wire = <<>> /\ inbox = <<>> /\ session_uuid = 0
    BY FitsInductive, OrderedInductive DEF Init, Fits, Ordered
  <2>2. \A i \in DOMAIN todo :
          ~SaysSession(todo[i]) /\ ~AsksQueue(todo[i]) /\ ~SaysActive(todo[i])
    BY <2>1 DEF StartSteps, Write, Emit, Op, Own, Mk, SaysSession, AsksQueue, SaysActive
  <2>3. SaidUuid = 0
    <3>1. Naming(log, Len(log) + 1) = {}
      <4>1. Len(log) + 1 = 1
        BY <2>1
      <4> QED  BY <4>1 DEF Naming
    <3> QED  BY <3>1 DEF SaidUuid, NamedIn, Latest
  <2>4. DOMAIN log = {} /\ DOMAIN wire = {} /\ DOMAIN inbox = {}
    BY <2>1
  <2> QED  BY <2>1, <2>2, <2>3, <2>4
           DEF Queueing, UuidKnown, ActivationsTaken, QueueAsked, InboxFrom
<1>2. Inv /\ [Next]_vars => Inv'
  <2> SUFFICES ASSUME Inv, [Next]_vars PROVE Queueing'
    BY FitsInductive, OrderedInductive
  <2>1. TypeOK' /\ TellersFirst' /\ InboxInOrder'
    BY FitsInductive, OrderedInductive DEF Fits, Ordered
  <2>2. CASE Application
    <3>1. /\ UNCHANGED <<todo, log, wire, session_uuid, status>>
          /\ app' # "gone" => app # "gone"
      BY <2>2 DEF Application, Recv, Respond, DropResponder, DropHandle, FinishReport,
                  AbandonReport, StartReport, session, channels, user
    <3> QED  BY <2>1, <3>1, QueueingQuiet
  <2>3. CASE Environment \/ Finished \/ UNCHANGED vars
    <3>1. UNCHANGED <<todo, log, wire, session_uuid, status, app>>
      BY <2>3 DEF Environment, ServerSends, LinkBreaks, Finished, vars, session, channels, user
    <3> QED  BY <2>1, <3>1, QueueingQuiet
  <2> QED  BY <2>2, <2>3, QueueingTask, QueueingSelect DEF Next
<1>3. Inv => AsksForTheSessionsQueue
  BY QueueingIsRight
<1> QED  BY <1>1, <1>2, <1>3, PTL DEF Spec
=============================================================================
