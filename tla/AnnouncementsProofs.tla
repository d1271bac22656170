------------------------ MODULE AnnouncementsProofs ------------------------
(***************************************************************************)
(* Theorems about Announcements, for every value of its constants.  Says   *)
(* takes the place of Announcement: it is the same, without the choice of  *)
(* the last command.                                                       *)
(***************************************************************************)
EXTENDS AnnouncementsProperties, WellFoundedInduction, TLAPS

Commands == [op: {"register"}, name: Names, device: Devices] \cup [op: {"unregister"}, name: Names]
              \cup [op: {"shutdown"}]
Outcome(c) == IF c.op = "register" THEN c.device ELSE None

\* What a queue leads to, with the announcements a there are before.
Stops(q) == \E i \in DOMAIN q : q[i].op = "shutdown"
Until(q) == {i \in DOMAIN q : \A j \in 1 .. i : q[j].op # "shutdown"}
Naming(q, n) == {i \in Until(q) : q[i].name = n}
Tells(q, a, n, x) ==
  IF Naming(q, n) = {} THEN x = a[n]
  ELSE \E i \in Naming(q, n) : (\A j \in Naming(q, n) : j <= i) /\ x = Outcome(q[i])
Says(n, x) == Tells(queue, announced, n, x)

-----------------------------------------------------------------------------
(* The queue.                                                              *)

\* A set of naturals that is bounded and not empty has a greatest element.
LEMMA GreatestExists ==
  ASSUME NEW N \in Nat, NEW S \in SUBSET (1 .. N), S # {}
  PROVE  \E k \in S : \A j \in S : j <= k
<1> DEFINE R == OpToRel(<, Nat)
           T == {N - i : i \in S}
<1>1. IsWellFoundedOn(R, Nat)
  BY NatLessThanWellFounded
<1>2. T \subseteq Nat /\ T # {}
  <2>1. \A i \in S : N - i \in Nat
    OBVIOUS
  <2> QED  BY <2>1
<1> HIDE DEF R
<1>3. PICK m \in T : \A j \in T : ~(<<j, m>> \in R)
  BY <1>1, <1>2, WFMin
<1>4. \A j \in T : ~(j < m)
  BY <1>2, <1>3 DEF R, OpToRel
<1>5. PICK k \in S : m = N - k
  OBVIOUS
<1>6. \A j \in S : ~(N - j < N - k)
  BY <1>4, <1>5
<1> QED  BY <1>6

LEMMA TellsOne ==
  ASSUME NEW q \in Seq(Commands), NEW a, NEW n, NEW x, NEW y,
         Tells(q, a, n, x), Tells(q, a, n, y)
  PROVE  x = y
<1>1. Naming(q, n) \subseteq Nat
  BY DEF Naming, Until
<1>2. CASE Naming(q, n) = {}
  BY <1>2 DEF Tells
<1>3. CASE Naming(q, n) # {}
  <2>1. PICK i \in Naming(q, n) : (\A j \in Naming(q, n) : j <= i) /\ x = Outcome(q[i])
    BY <1>3 DEF Tells
  <2>2. PICK k \in Naming(q, n) : (\A j \in Naming(q, n) : j <= k) /\ y = Outcome(q[k])
    BY <1>3 DEF Tells
  <2>3. i = k
    BY <1>1, <2>1, <2>2
  <2> QED  BY <2>1, <2>2, <2>3
<1> QED  BY <1>2, <1>3

LEMMA TellsEmpty ==
  ASSUME NEW a, NEW n, NEW x
  PROVE  Tells(<< >>, a, n, x) <=> x = a[n]
BY DEF Tells, Naming, Until

LEMMA TellsStopped ==
  ASSUME NEW q \in Seq(Commands), q # << >>, Head(q).op = "shutdown", NEW a, NEW n, NEW x
  PROVE  Tells(q, a, n, x) <=> x = a[n]
<1>1. \A i \in DOMAIN q : 1 \in 1 .. i /\ q[1] = Head(q)
  OBVIOUS
<1>2. Until(q) = {}
  BY <1>1 DEF Until
<1> QED  BY <1>2 DEF Tells, Naming

LEMMA TellsAppended ==
  ASSUME NEW q \in Seq(Commands), NEW c \in Commands, NEW a, NEW n, NEW x
  PROVE  /\ Stops(q) \/ c.op = "shutdown" =>
              (Tells(Append(q, c), a, n, x) <=> Tells(q, a, n, x))
         /\ ~Stops(q) /\ c.op # "shutdown" =>
              (Tells(Append(q, c), a, n, x)
                 <=> IF c.name = n THEN x = Outcome(c) ELSE Tells(q, a, n, x))
<1> DEFINE p == Append(q, c)
           new == Len(q) + 1
<1>1. /\ Len(q) \in Nat /\ DOMAIN q = 1 .. Len(q) /\ DOMAIN p = 1 .. new
      /\ \A i \in DOMAIN q : p[i] = q[i]
      /\ p[new] = c
  OBVIOUS
<1> HIDE DEF p
<1>2. \A i \in DOMAIN q : i \in Until(p) <=> i \in Until(q)
  BY <1>1 DEF Until
<1>3. new \in Until(p) <=> ~Stops(q) /\ c.op # "shutdown"
  BY <1>1 DEF Until, Stops
<1>4. CASE Stops(q) \/ c.op = "shutdown"
  <2>1. Until(p) = Until(q)
    BY <1>1, <1>2, <1>3, <1>4 DEF Until
  <2>2. Naming(p, n) = Naming(q, n) /\ \A i \in Naming(q, n) : p[i] = q[i]
    BY <1>1, <2>1 DEF Naming, Until
  <2> QED  BY <1>4, <2>2 DEF Tells, p
<1>5. CASE ~Stops(q) /\ c.op # "shutdown"
  <2>1. Until(p) = Until(q) \cup {new}
    BY <1>1, <1>2, <1>3, <1>5 DEF Until
  <2>2. \A i \in Naming(q, n) : i \in DOMAIN q /\ p[i] = q[i] /\ i \in Nat /\ i < new
    BY <1>1 DEF Naming, Until
  <2>3. CASE c.name = n
    <3>1. Naming(p, n) = Naming(q, n) \cup {new}
      BY <1>1, <2>1, <2>3 DEF Naming, Until
    <3>2. Tells(p, a, n, x) <=> x = Outcome(p[new])
      BY <1>1, <2>2, <3>1 DEF Tells
    <3> QED  BY <1>1, <1>5, <2>3, <3>2 DEF p
  <2>4. CASE c.name # n
    <3>1. Naming(p, n) = Naming(q, n)
      BY <1>1, <2>1, <2>4 DEF Naming, Until
    <3>2. Tells(p, a, n, x) <=> Tells(q, a, n, x)
      BY <2>2, <3>1 DEF Tells
    <3> QED  BY <1>5, <2>4, <3>2 DEF p
  <2> QED  BY <2>3, <2>4
<1> QED  BY <1>4, <1>5

LEMMA TellsTaken ==
  ASSUME NEW q \in Seq(Commands), q # << >>, Head(q).op # "shutdown",
         NEW a, a = [m \in Names |-> a[m]], NEW n \in Names, NEW x,
         NEW b, b = [a EXCEPT ![Head(q).name] = Outcome(Head(q))]
  PROVE  /\ Tells(Tail(q), b, n, x) <=> Tells(q, a, n, x)
         /\ Stops(Tail(q)) <=> Stops(q)
<1> DEFINE p == Tail(q)
<1>1. /\ Len(q) \in Nat \ {0} /\ DOMAIN q = 1 .. Len(q) /\ DOMAIN p = 1 .. Len(q) - 1
      /\ \A i \in DOMAIN p : p[i] = q[i + 1]
      /\ q[1] = Head(q)
  <2>1. Len(q) \in Nat \ {0} /\ DOMAIN q = 1 .. Len(q) /\ q[1] = Head(q)
    OBVIOUS
  <2>2. Len(p) = Len(q) - 1 /\ p \in Seq(Commands) /\ \A i \in 1 .. Len(p) : p[i] = q[i + 1]
    OBVIOUS
  <2>3. DOMAIN p = 1 .. Len(p)
    BY <2>2
  <2> QED  BY <2>1, <2>2, <2>3
<1> DEFINE c == Head(q)
<1> HIDE DEF p, c
<1>2. \A i \in DOMAIN q : i # 1 => i - 1 \in DOMAIN p /\ p[i - 1] = q[i]
  BY <1>1
<1>3. Stops(p) <=> Stops(q)
  <2>1. \A i \in DOMAIN p : i + 1 \in DOMAIN q /\ p[i] = q[i + 1]
    BY <1>1
  <2>2. \A i \in DOMAIN q : q[i].op = "shutdown" => i # 1
    BY <1>1 DEF c
  <2> QED  BY <1>2, <2>1, <2>2 DEF Stops
<1>4. 1 \in Until(q)
  BY <1>1 DEF Until, c
<1>5. \A i \in DOMAIN p : i \in Until(p) <=> i + 1 \in Until(q)
  <2> TAKE i \in DOMAIN p
  <2>1. ASSUME i + 1 \in Until(q) PROVE i \in Until(p)
    BY <1>1, <2>1 DEF Until
  <2>2. ASSUME i \in Until(p) PROVE i + 1 \in Until(q)
    <3> SUFFICES ASSUME NEW j \in 1 .. i + 1 PROVE q[j].op # "shutdown"
      BY <1>1 DEF Until
    <3>1. CASE j = 1
      BY <1>1, <3>1
    <3>2. CASE j # 1
      <4>1. j - 1 \in 1 .. i /\ q[j] = p[j - 1]
        BY <1>1, <3>2
      <4> QED  BY <2>2, <4>1 DEF Until
    <3> QED  BY <3>1, <3>2
  <2> QED  BY <2>1, <2>2
<1>6. \A i \in DOMAIN p : i \in Naming(p, n) <=> i + 1 \in Naming(q, n)
  BY <1>1, <1>5 DEF Naming
<1>7. 1 \in Naming(q, n) <=> c.name = n
  BY <1>1, <1>4 DEF Naming, c
<1>8. Naming(p, n) \subseteq DOMAIN p /\ Naming(q, n) \subseteq DOMAIN q
  BY DEF Naming, Until
<1>9. CASE Naming(p, n) # {}
  <2>1. ASSUME NEW i \in Naming(p, n), \A j \in Naming(p, n) : j <= i
        PROVE  i + 1 \in Naming(q, n) /\ \A j \in Naming(q, n) : j <= i + 1
    <3>1. i \in Nat /\ i + 1 \in Naming(q, n)
      BY <1>1, <1>6, <1>8
    <3>2. ASSUME NEW j \in Naming(q, n) PROVE j <= i + 1
      <4>1. CASE j = 1
        BY <3>1, <4>1
      <4>2. CASE j # 1
        <5>1. j - 1 \in DOMAIN p /\ j \in Nat /\ (j - 1) + 1 = j
          BY <1>1, <1>8, <3>2, <4>2
        <5>2. j - 1 \in Naming(p, n)
          BY <1>6, <3>2, <5>1
        <5> QED  BY <2>1, <3>1, <5>1, <5>2
      <4> QED  BY <4>1, <4>2
    <3> QED  BY <3>1, <3>2
  <2>2. ASSUME NEW i \in Naming(q, n), \A j \in Naming(q, n) : j <= i
        PROVE  i - 1 \in Naming(p, n) /\ \A j \in Naming(p, n) : j <= i - 1
    <3>1. PICK k \in Naming(p, n) : k + 1 \in Naming(q, n) /\ k \in Nat /\ k >= 1
      BY <1>1, <1>6, <1>8, <1>9
    <3>2. i \in DOMAIN q /\ i # 1 /\ i \in Nat
      BY <1>1, <1>8, <2>2, <3>1
    <3>3. i - 1 \in DOMAIN p /\ (i - 1) + 1 = i
      BY <1>2, <3>2
    <3>4. \A j \in Naming(p, n) : j \in Nat /\ j + 1 <= i
      BY <1>1, <1>6, <1>8, <2>2
    <3> QED  BY <1>6, <2>2, <3>2, <3>3, <3>4
  <2>3. \A i \in Naming(p, n) : p[i] = q[i + 1] /\ i \in Nat
    BY <1>1, <1>8
  <2>4. Naming(q, n) # {} /\ Naming(q, n) \subseteq Nat
    BY <1>1, <1>6, <1>8, <1>9
  <2>5. ASSUME Tells(p, b, n, x) PROVE Tells(q, a, n, x)
    <3>1. PICK i \in Naming(p, n) : (\A j \in Naming(p, n) : j <= i) /\ x = Outcome(p[i])
      BY <1>9, <2>5 DEF Tells
    <3> QED  BY <2>1, <2>3, <2>4, <3>1 DEF Tells
  <2>6. ASSUME Tells(q, a, n, x) PROVE Tells(p, b, n, x)
    <3>1. PICK i \in Naming(q, n) : (\A j \in Naming(q, n) : j <= i) /\ x = Outcome(q[i])
      BY <2>4, <2>6 DEF Tells
    <3>2. i - 1 \in Naming(p, n) /\ (\A j \in Naming(p, n) : j <= i - 1)
      BY <2>2, <3>1
    <3>3. p[i - 1] = q[i]
      BY <2>3, <2>4, <3>2
    <3> QED  BY <1>9, <3>1, <3>2, <3>3 DEF Tells
  <2> QED  BY <1>3, <2>5, <2>6 DEF p
<1>10. CASE Naming(p, n) = {}
  <2>1. Naming(q, n) \subseteq {1}
    <3> SUFFICES ASSUME NEW i \in Naming(q, n), i # 1 PROVE FALSE
      OBVIOUS
    <3>1. i - 1 \in DOMAIN p /\ (i - 1) + 1 = i
      BY <1>1, <1>2, <1>8
    <3> QED  BY <1>6, <1>10, <3>1
  <2>2. CASE c.name = n
    <3>1. Naming(q, n) = {1}
      BY <1>7, <2>1, <2>2
    <3>2. Tells(q, a, n, x) <=> x = Outcome(c)
      BY <1>1, <3>1 DEF Tells, c
    <3>3. b[n] = Outcome(c)
      BY <2>2 DEF c
    <3> QED  BY <1>3, <1>10, <3>2, <3>3 DEF Tells, p
  <2>3. CASE c.name # n
    <3>1. Naming(q, n) = {}
      BY <1>7, <2>1, <2>3
    <3>2. b[n] = a[n]
      BY <2>3 DEF c
    <3> QED  BY <1>3, <1>10, <3>1, <3>2 DEF Tells, p
  <2> QED  BY <2>2, <2>3
<1> QED  BY <1>9, <1>10

\* Where commands name names, Says and Announcement are the same.
LEMMA AnnouncementSays ==
  ASSUME queue \in Seq(Commands), NEW n
  PROVE  Says(n, Announcement(n))
<1>1. About(n) = Naming(queue, n)
  BY DEF About, BeforeStop, Naming, Until
<1>2. CASE About(n) = {}
  BY <1>1, <1>2 DEF Says, Tells, Announcement
<1>3. CASE About(n) # {}
  <2>1. About(n) \in SUBSET (1 .. Len(queue)) /\ Len(queue) \in Nat
    BY DEF About, BeforeStop
  <2> DEFINE last == CHOOSE i \in About(n) : \A j \in About(n) : j <= i
  <2>2. last \in About(n) /\ \A j \in About(n) : j <= last
    BY <1>3, <2>1, GreatestExists
  <2>3. Announcement(n) = Outcome(queue[last])
    BY <1>3 DEF Announcement, Outcome
  <2> HIDE DEF last
  <2> QED  BY <1>1, <1>3, <2>2, <2>3 DEF Says, Tells
<1> QED  BY <1>2, <1>3

\* What a queue leads to is a device, or nothing.
LEMMA SaysWhom ==
  ASSUME queue \in Seq(Commands), announced \in [Names -> Devices \cup {None}],
         NEW n \in Names, NEW x, Says(n, x)
  PROVE  x \in Devices \cup {None}
<1>1. \A c \in Commands : Outcome(c) \in Devices \cup {None}
  BY DEF Commands, Outcome
<1>2. \A i \in Naming(queue, n) : queue[i] \in Commands
  BY DEF Naming, Until
<1> QED  BY <1>1, <1>2 DEF Says, Tells

-----------------------------------------------------------------------------
(* The invariant.                                                          *)

Calls == {NoCall} \cup {Adding(c) : c \in Configs} \cup {ShuttingDown(left) : left \in SUBSET Devices}

Types ==
  /\ devices \in [Devices -> Names \cup {None}]
  /\ calls \in [Tasks -> Calls]
  /\ queue \in Seq(Commands) /\ daemon \in {"up", "down"}
  /\ announced \in [Names -> Devices \cup {None}]

\* What is registered came from the application, and a round goes over what is
\* registered: it holds the lock.
Registers == round \subseteq Services /\ Services \subseteq Configs

\* Only a shutdown() makes the daemon stop.
Closes == Stopping => closing

\* Before any shutdown(), the last command about a name of one device leads to
\* that device, if it is registered or being added.
Stays ==
  ~closing =>
    \A c \in Configs :
      ~Shared(c.name) /\ (devices[c.device] = c.name \/ \E t \in Tasks : calls[t] = Adding(c))
        => Says(c.name, c.device)

\* Whom a name leads to is registered with it or being added, or the name is stray.
Leads ==
  \A n \in Names \ stray, x \in Devices : Says(n, x) =>
    \/ ~Stopping /\ devices[x] = n
    \/ \E t \in Tasks : calls[t] = Adding([device |-> x, name |-> n])

\* A shutdown() holds the lock until it has said goodbye to all: behind it, every
\* registered device is announced no more, or its name is stray.
Goodbyes ==
  \A t \in Tasks : calls[t].op = "shutdown" =>
    /\ closing
    /\ calls[t].left \subseteq Registered
    /\ \A c \in Configs : devices[c.device] = c.name /\ c.device \notin calls[t].left
                            => c.name \in stray \/ Says(c.name, None)

Inv == Types /\ Registers /\ Closes /\ Stays /\ Leads /\ Goodbyes

LEMMA OfAConfig ==
  ASSUME NEW c \in Configs
  PROVE  /\ c.device \in Devices /\ c.name \in Names
         /\ c = [device |-> c.device, name |-> c.name]
         /\ Register(c) \in Commands /\ Register(c).op = "register"
         /\ Register(c).name = c.name /\ Outcome(Register(c)) = c.device
<1>1. c \in [device: Devices, name: Names]
  BY AnnouncementsAssumption
<1> QED  BY <1>1 DEF Register, Commands, Outcome

LEMMA OfAName ==
  ASSUME NEW n \in Names
  PROVE  /\ Unregister(n) \in Commands /\ Unregister(n).op = "unregister"
         /\ Unregister(n).name = n /\ Outcome(Unregister(n)) = None
         /\ n # None
BY AnnouncementsAssumption DEF Unregister, Commands, Outcome

LEMMA OfACall ==
  ASSUME Types, NEW t \in Tasks
  PROVE  /\ calls[t].op = "add" => /\ calls[t].config \in Configs
                                   /\ calls[t] = Adding(calls[t].config)
         /\ calls[t].op = "shutdown" => /\ calls[t].left \subseteq Devices
                                        /\ calls[t] = ShuttingDown(calls[t].left)
         /\ NoCall.op = "none" /\ NoCall \in Calls
         /\ \A c \in Configs : Adding(c).op = "add" /\ Adding(c).config = c /\ Adding(c) \in Calls
         /\ \A left \in SUBSET Devices :
              /\ ShuttingDown(left).op = "shutdown" /\ ShuttingDown(left).left = left
              /\ ShuttingDown(left) \in Calls
<1>1. /\ NoCall.op = "none"
      /\ \A c : Adding(c).op = "add" /\ Adding(c).config = c
      /\ \A left : ShuttingDown(left).op = "shutdown" /\ ShuttingDown(left).left = left
  BY DEF NoCall, Adding, ShuttingDown
<1>2. calls[t] \in Calls
  BY DEF Types
<1>3. CASE calls[t] = NoCall
  BY <1>1, <1>3 DEF Calls
<1>4. ASSUME NEW c \in Configs, calls[t] = Adding(c)
      PROVE  calls[t].op = "add" /\ calls[t].config = c
  BY <1>1, <1>4
<1>5. ASSUME NEW left \in SUBSET Devices, calls[t] = ShuttingDown(left)
      PROVE  calls[t].op = "shutdown" /\ calls[t].left = left
  BY <1>1, <1>5
<1>6. calls[t].op = "add" => calls[t].config \in Configs /\ calls[t] = Adding(calls[t].config)
  BY <1>1, <1>2, <1>4, <1>5 DEF Calls
<1>7. calls[t].op = "shutdown" => calls[t].left \subseteq Devices
                                  /\ calls[t] = ShuttingDown(calls[t].left)
  BY <1>1, <1>2, <1>4, <1>5 DEF Calls
<1> QED  BY <1>1, <1>6, <1>7 DEF Calls

\* A device with an unshared name is the only one with it.
LEMMA OneDevice ==
  ASSUME NEW c \in Configs, NEW e \in Configs, c.name = e.name, ~Shared(c.name)
  PROVE  c.device = e.device
BY DEF Shared

LEMMA OfAnEntry ==
  ASSUME Types, Registers, NEW d \in Devices, devices[d] # None
  PROVE  /\ devices[d] \in Names /\ Service(d) \in Configs
         /\ Service(d).device = d /\ Service(d).name = devices[d]
BY DEF Types, Registers, Services, Registered, Service

\* The daemon takes a command, or refuses it.
LEMMA Queued ==
  ASSUME Types, NEW c \in Commands, Queues(c), announced' = announced, daemon' = daemon
  PROVE  /\ queue' \in Seq(Commands)
         /\ Stopping' <=> Stopping \/ (Accepts /\ c.op = "shutdown")
         /\ ~Accepts \/ Stopping \/ c.op = "shutdown" =>
              \A n, x : Says(n, x)' <=> Says(n, x)
         /\ Accepts /\ ~Stopping /\ c.op # "shutdown" =>
              \A n, x : Says(n, x)' <=> IF c.name = n THEN x = Outcome(c) ELSE Says(n, x)
<1>1. queue \in Seq(Commands) /\ (Stopping <=> daemon = "down" \/ Stops(queue))
  BY DEF Types, Stopping, Stops
<1>2. CASE ~Accepts
  <2>1. queue' = queue
    BY <1>2 DEF Queues
  <2>2. queue' \in Seq(Commands)
    BY <1>1, <2>1
  <2>3. ASSUME NEW n, NEW x PROVE Says(n, x)' <=> Says(n, x)
    BY <2>1 DEF Says
  <2>4. Stopping' <=> Stopping
    BY <2>1 DEF Stopping
  <2> QED  BY <1>2, <2>2, <2>3, <2>4
<1>3. CASE Accepts
  <2>1. queue' = Append(queue, c) /\ daemon = "up"
    BY <1>3 DEF Queues, Accepts
  <2>2. Append(queue, c) \in Seq(Commands)
    BY DEF Types
  <2>3. Stops(Append(queue, c)) <=> Stops(queue) \/ c.op = "shutdown"
    BY SMTT(30) DEF Types, Stops
  <2>4. Stopping' <=> Stopping \/ c.op = "shutdown"
    BY <2>1, <2>3 DEF Stopping, Stops
  <2>5. ~Stopping => ~Stops(queue)
    BY DEF Stopping, Stops
  <2>6. Stopping => Stops(queue)
    BY <2>1 DEF Stopping, Stops
  <2>7. ASSUME Stopping \/ c.op = "shutdown", NEW n, NEW x PROVE Says(n, x)' <=> Says(n, x)
    BY <2>7, <2>1, <2>6, TellsAppended DEF Says, Types
  <2>8. ASSUME ~Stopping, c.op # "shutdown", NEW n, NEW x
        PROVE  Says(n, x)' <=> IF c.name = n THEN x = Outcome(c) ELSE Says(n, x)
    BY <2>8, <2>1, <2>5, TellsAppended DEF Says, Types
  <2> QED  BY <1>3, <2>1, <2>2, <2>4, <2>7, <2>8
<1> QED  BY <1>2, <1>3

\* The daemon carries a command out: nothing else changes.
LEMMA Taken ==
  ASSUME Types, queue # << >>, Head(queue).op # "shutdown", queue' = Tail(queue),
         daemon' = daemon, announced' = [announced EXCEPT ![Head(queue).name] = Outcome(Head(queue))]
  PROVE  /\ queue' \in Seq(Commands) /\ announced' \in [Names -> Devices \cup {None}]
         /\ Stopping' <=> Stopping
         /\ \A n \in Names : \A x : Says(n, x)' <=> Says(n, x)
<1>1. queue \in Seq(Commands) /\ Head(queue) \in Commands /\ Tail(queue) \in Seq(Commands)
  BY DEF Types
<1>2. Head(queue).name \in Names /\ Outcome(Head(queue)) \in Devices \cup {None}
  BY <1>1 DEF Commands, Outcome
<1>3. announced = [m \in Names |-> announced[m]]
  BY DEF Types
<1>4. announced' \in [Names -> Devices \cup {None}]
  BY <1>2 DEF Types
<1>5. \A n \in Names : \A x : Says(n, x)' <=> Says(n, x)
  <2> TAKE n \in Names
  <2> TAKE x
  <2>1. Tells(Tail(queue), announced', n, x) <=> Tells(queue, announced, n, x)
    BY <1>1, <1>3, TellsTaken
  <2> QED  BY <2>1 DEF Says
<1>6. Stopping' <=> Stopping
  <2>1. CASE \E n \in Names : TRUE
    BY <1>1, <1>3, <2>1, TellsTaken DEF Stopping, Stops
  <2> QED  BY <1>2, <2>1
<1> QED  BY <1>1, <1>4, <1>5, <1>6

-----------------------------------------------------------------------------
(* One lemma per action, or per group of actions that do the same.         *)

LEMMA StartsRight == Init => Inv
<1> SUFFICES ASSUME Init PROVE Inv
  OBVIOUS
<1>1. Types
  BY DEF Init, Types, Calls
<1>2. Registered = {} /\ Services = {} /\ round = {}
  BY DEF Init, Registered, Services
<1>3. ~Stopping
  BY DEF Init, Stopping
<1>4. \A n, x : Says(n, x) => x = announced[n]
  BY TellsEmpty DEF Init, Says
<1>5. \A t \in Tasks : calls[t].op = "none" /\ \A c : calls[t] # Adding(c)
  BY DEF Init, NoCall, Adding
<1>7. \A c \in Configs : devices[c.device] # c.name
  BY OfAConfig, AnnouncementsAssumption DEF Init
<1>6. Leads
  BY <1>4, AnnouncementsAssumption DEF Init, Leads
<1> QED  BY <1>1, <1>2, <1>3, <1>5, <1>6, <1>7 DEF Inv, Registers, Closes, Stays, Goodbyes, Init

\* register_mdns of a configuration, by add_device or by the loop: what it means
\* for the parts of Inv.
LEMMA Registering ==
  ASSUME Inv, NEW c \in Configs, Queues(Register(c)), UNCHANGED <<devices, daemon, announced, closing>>
  PROVE  /\ queue' \in Seq(Commands)
         /\ Stopping' <=> Stopping
         /\ ~closing => ~Stopping
         /\ Accepts /\ ~closing => Says(c.name, c.device)'
         /\ \A e \in Configs : ~closing /\ ~Shared(e.name) /\ Says(e.name, e.device)
                                 => Says(e.name, e.device)'
         /\ \A n, x : Says(n, x)' => Says(n, x) \/ (Accepts /\ ~Stopping /\ n = c.name /\ x = c.device)
         /\ \A n, x : Says(n, x) => Says(n, x)' \/ (Accepts /\ n = c.name)
<1>1. Types /\ Register(c) \in Commands /\ Register(c).op = "register"
      /\ Register(c).name = c.name /\ Outcome(Register(c)) = c.device
  BY OfAConfig DEF Inv
<1>2. queue' \in Seq(Commands) /\ (Stopping' <=> Stopping)
  BY <1>1, Queued
<1>3. ~closing => ~Stopping
  BY DEF Inv, Closes
<1>4. ASSUME NEW n, NEW x
      PROVE  /\ Accepts /\ ~Stopping =>
                  (Says(n, x)' <=> IF c.name = n THEN x = c.device ELSE Says(n, x))
             /\ ~Accepts \/ Stopping => (Says(n, x)' <=> Says(n, x))
  BY <1>1, Queued
<1>5. Accepts /\ ~closing => Says(c.name, c.device)'
  BY <1>3, <1>4
<1>6. ASSUME NEW e \in Configs, ~closing, ~Shared(e.name), Says(e.name, e.device)
      PROVE  Says(e.name, e.device)'
  <2>1. CASE c.name = e.name
    <3>1. c.device = e.device
      BY <1>6, <2>1, OneDevice
    <3> QED  BY <1>4, <1>6, <2>1, <3>1
  <2>2. CASE c.name # e.name
    BY <1>4, <2>2, <1>6
  <2> QED  BY <2>1, <2>2
<1>7. ASSUME NEW n, NEW x, Says(n, x)'
      PROVE  Says(n, x) \/ (Accepts /\ ~Stopping /\ n = c.name /\ x = c.device)
  BY <1>4, <1>7
<1>8. ASSUME NEW n, NEW x, Says(n, x)
      PROVE  Says(n, x)' \/ (Accepts /\ n = c.name)
  BY <1>4, <1>8
<1> QED  BY <1>2, <1>3, <1>5, <1>6, <1>7, <1>8

\* The rest of what such a step preserves, whoever takes it.
LEMMA RegisteringKeeps ==
  ASSUME Inv, NEW c \in Configs, Queues(Register(c)), UNCHANGED <<devices, daemon, announced, closing>>,
         \A u \in Tasks : calls'[u] = calls[u]
                            \/ (Accepts /\ calls[u] = NoCall /\ calls'[u] = Adding(c)),
         stray \subseteq stray', closing /\ Accepts => c.name \in stray',
         Accepts => devices[c.device] = c.name \/ (\E u \in Tasks : calls'[u] = Adding(c))
  PROVE  Closes' /\ Stays' /\ Leads' /\ Goodbyes'
<1>1. Types /\ Registers /\ Closes /\ Stays /\ Leads /\ Goodbyes
  BY DEF Inv
<1>2. c.device \in Devices /\ c.name \in Names /\ c = [device |-> c.device, name |-> c.name]
  BY OfAConfig
<1>3. Adding(c).op = "add" /\ Adding(c).config = c /\ NoCall.op = "none"
  BY DEF Adding, NoCall
<1>4. Closes'
  BY <1>1, Registering DEF Closes
<1>5. Stays'
  <2> SUFFICES ASSUME ~closing, NEW e \in Configs, ~Shared(e.name),
                      devices[e.device] = e.name \/ \E u \in Tasks : calls'[u] = Adding(e)
               PROVE  Says(e.name, e.device)'
    BY DEF Stays
  <2>1. CASE devices[e.device] = e.name \/ \E u \in Tasks : calls[u] = Adding(e)
    BY <1>1, <2>1, Registering DEF Stays
  <2>2. CASE Accepts /\ Adding(e) = Adding(c)
    <3>1. e = c
      BY <1>3, <2>2 DEF Adding
    <3> QED  BY <2>2, <3>1, Registering
  <2> QED  BY <2>1, <2>2
<1>6. Leads'
  <2> SUFFICES ASSUME NEW n \in Names, n \notin stray', NEW x \in Devices, Says(n, x)'
               PROVE  \/ ~Stopping' /\ devices[x] = n
                      \/ \E u \in Tasks : calls'[u] = Adding([device |-> x, name |-> n])
    BY DEF Leads
  <2>1. Stopping' <=> Stopping
    BY Registering
  <2>2. CASE Says(n, x)
    <3>1. \/ ~Stopping /\ devices[x] = n
          \/ \E u \in Tasks : calls[u] = Adding([device |-> x, name |-> n])
      BY <1>1, <2>2 DEF Leads
    <3>2. ASSUME NEW u \in Tasks, calls[u] = Adding([device |-> x, name |-> n])
          PROVE  calls'[u] = calls[u]
      BY <3>2 DEF Adding, NoCall
    <3> QED  BY <2>1, <3>1, <3>2
  <2>3. CASE Accepts /\ ~Stopping /\ n = c.name /\ x = c.device
    BY <1>2, <2>1, <2>3
  <2> QED  BY <2>2, <2>3, Registering
<1>7. Goodbyes'
  <2> SUFFICES ASSUME NEW u \in Tasks, calls'[u].op = "shutdown"
               PROVE  /\ closing
                      /\ calls'[u].left \subseteq Registered
                      /\ \A e \in Configs : devices[e.device] = e.name /\ e.device \notin calls'[u].left
                            => e.name \in stray' \/ Says(e.name, None)'
    BY DEF Goodbyes, Registered
  <2>1. calls'[u] = calls[u]
    BY <1>3
  <2>2. /\ closing
        /\ calls[u].left \subseteq Registered
        /\ \A e \in Configs : devices[e.device] = e.name /\ e.device \notin calls[u].left
              => e.name \in stray \/ Says(e.name, None)
    BY <1>1, <2>1 DEF Goodbyes
  <2>3. ASSUME NEW n, Says(n, None) PROVE Says(n, None)' \/ n \in stray'
    BY <2>2, <2>3, Registering
  <2> QED  BY <2>1, <2>2, <2>3
<1> QED  BY <1>4, <1>5, <1>6, <1>7

LEMMA AddStarts ==
  ASSUME Inv, NEW t \in Tasks, NEW c \in Configs, StartAdd(t, c)
  PROVE  Inv'
<1>1. /\ calls[t] = NoCall /\ Queues(Register(c))
      /\ calls' = IF Accepts THEN [calls EXCEPT ![t] = Adding(c)] ELSE calls
      /\ stray' = IF closing /\ Accepts THEN stray \cup {c.name} ELSE stray
      /\ UNCHANGED <<devices, round, daemon, announced, heard, closing>>
  BY DEF StartAdd
<1>2. Types /\ Registers
  BY DEF Inv
<1>3. \A u \in Tasks : calls'[u] = calls[u]
                         \/ (Accepts /\ calls[u] = NoCall /\ calls'[u] = Adding(c))
  BY <1>1, <1>2 DEF Types
<1>4. Accepts => calls'[t] = Adding(c)
  BY <1>1, <1>2 DEF Types
<1>5. queue' \in Seq(Commands)
  BY <1>1, Registering
<1>6. Adding(c) \in Calls
  BY DEF Calls
<1>7. Types'
  BY <1>1, <1>2, <1>5, <1>6 DEF Types
<1>8. Registers'
  BY <1>1, <1>2 DEF Registers, Services, Service, Registered
<1>9. Closes' /\ Stays' /\ Leads' /\ Goodbyes'
  BY <1>1, <1>3, <1>4, RegisteringKeeps
<1> QED  BY <1>7, <1>8, <1>9 DEF Inv

LEMMA LoopAnnounced ==
  ASSUME Inv, NEW c \in Configs, LoopAnnounces(c)
  PROVE  Inv'
<1>1. /\ c \in round /\ Queues(Register(c))
      /\ round' = round \ {c}
      /\ stray' = IF closing /\ Accepts THEN stray \cup {c.name} ELSE stray
      /\ UNCHANGED <<devices, calls, daemon, announced, closing>>
  BY DEF LoopAnnounces
<1>2. Types /\ Registers
  BY DEF Inv
<1>3. devices[c.device] = c.name
  BY <1>1, <1>2 DEF Registers, Services, Service
<1>4. queue' \in Seq(Commands)
  BY <1>1, Registering
<1>5. Types'
  BY <1>1, <1>2, <1>4 DEF Types
<1>6. Registers'
  BY <1>1, <1>2 DEF Registers, Services, Service, Registered
<1>7. Closes' /\ Stays' /\ Leads' /\ Goodbyes'
  BY <1>1, <1>3, RegisteringKeeps
<1> QED  BY <1>5, <1>6, <1>7 DEF Inv

\* Where neither the queue nor the announcements change, nor who listens to them.
LEMMA SaysTheSame ==
  ASSUME UNCHANGED <<queue, daemon, announced>>
  PROVE  (Stopping' <=> Stopping) /\ \A n, x : Says(n, x)' <=> Says(n, x)
<1>1. Stopping' <=> Stopping
  BY DEF Stopping
<1>2. \A n, x : Says(n, x)' <=> Says(n, x)
  BY DEF Says
<1> QED  BY <1>1, <1>2

\* A goodbye: what it means for what the names lead to.
LEMMA SayingGoodbye ==
  ASSUME Inv, NEW n \in Names, Queues(Unregister(n)), StrayAfterGoodbye(n),
         UNCHANGED <<daemon, announced>>
  PROVE  /\ queue' \in Seq(Commands)
         /\ Stopping' <=> Stopping
         /\ \A x : Says(n, x)' /\ n \notin stray' => x = None
         /\ n \in stray' \/ Says(n, None)'
         /\ \A m : m # n => /\ m \in stray' <=> m \in stray
                            /\ \A x : Says(m, x)' <=> Says(m, x)
<1>1. Types /\ Unregister(n) \in Commands /\ Unregister(n).op = "unregister"
      /\ Unregister(n).name = n /\ Outcome(Unregister(n)) = None
  BY OfAName DEF Inv
<1>2. queue' \in Seq(Commands) /\ (Stopping' <=> Stopping)
  BY <1>1, Queued
<1>3. ASSUME NEW m, NEW x
      PROVE  /\ Accepts /\ ~Stopping =>
                  (Says(m, x)' <=> IF n = m THEN x = None ELSE Says(m, x))
             /\ ~Accepts \/ Stopping => (Says(m, x)' <=> Says(m, x))
  BY <1>1, Queued
<1>4. /\ Accepts /\ ~Stopping => stray' = stray \ {n}
      /\ ~Accepts \/ Stopping => stray' = stray \cup {n}
  BY DEF StrayAfterGoodbye
<1>5. ASSUME NEW x, Says(n, x)', n \notin stray' PROVE x = None
  BY <1>3, <1>4, <1>5
<1>6. n \in stray' \/ Says(n, None)'
  BY <1>3, <1>4
<1>7. ASSUME NEW m, m # n
      PROVE  (m \in stray' <=> m \in stray) /\ \A x : Says(m, x)' <=> Says(m, x)
  BY <1>3, <1>4, <1>7
<1> QED  BY <1>2, <1>5, <1>6, <1>7

LEMMA DeviceInserted ==
  ASSUME Inv, NEW t \in Tasks, InsertDevice(t)
  PROVE  Inv'
<1> DEFINE c == calls[t].config
           old == devices[c.device]
<1>1. /\ calls[t].op = "add" /\ LockFree
      /\ devices' = [devices EXCEPT ![c.device] = c.name]
      /\ stray' = stray \cup ({old} \ {None, c.name}) \cup (IF closing THEN {c.name} ELSE {})
      /\ calls' = [calls EXCEPT ![t] = NoCall]
      /\ UNCHANGED <<round, queue, daemon, announced, heard, closing, ncalls>>
  BY DEF InsertDevice
<1>2. Types /\ Registers /\ Closes /\ Stays /\ Leads /\ Goodbyes
  BY DEF Inv
<1>3. c \in Configs /\ calls[t] = Adding(c)
  BY <1>1, <1>2, OfACall
<1> HIDE DEF c
<1>4. c.device \in Devices /\ c.name \in Names /\ c = [device |-> c.device, name |-> c.name]
  BY <1>3, OfAConfig
<1>5. (Stopping' <=> Stopping) /\ \A n, x : Says(n, x)' <=> Says(n, x)
  BY <1>1, SaysTheSame
<1>6. /\ devices' \in [Devices -> Names \cup {None}]
      /\ devices'[c.device] = c.name
      /\ \A d \in Devices : d # c.device => devices'[d] = devices[d]
  BY <1>1, <1>2, <1>4 DEF Types
<1>7. /\ \A u \in Tasks : u # t => calls'[u] = calls[u]
      /\ calls'[t] = NoCall /\ calls' \in [Tasks -> Calls]
  BY <1>1, <1>2 DEF Types, Calls
<1>8. Types'
  BY <1>1, <1>2, <1>6, <1>7 DEF Types
<1>9. Registers'
  <2>1. round' = {}
    BY <1>1 DEF LockFree
  <2>2. ASSUME NEW d \in Devices, devices'[d] # None
        PROVE  [device |-> d, name |-> devices'[d]] \in Configs
    <3>1. CASE d = c.device
      BY <1>3, <1>4, <1>6, <3>1
    <3>2. CASE d # c.device
      BY <1>2, <1>6, <2>2, <3>2 DEF Registers, Services, Service, Registered
    <3> QED  BY <3>1, <3>2
  <2> QED  BY <2>1, <2>2 DEF Registers, Services, Service, Registered
<1>10. Closes'
  BY <1>1, <1>2, <1>5 DEF Closes
<1>11. Stays'
  <2> SUFFICES ASSUME ~closing, NEW e \in Configs, ~Shared(e.name),
                      devices'[e.device] = e.name \/ \E u \in Tasks : calls'[u] = Adding(e)
               PROVE  Says(e.name, e.device)
    BY <1>1, <1>5 DEF Stays
  <2>1. CASE devices[e.device] = e.name \/ \E u \in Tasks : calls[u] = Adding(e)
    BY <1>2, <2>1 DEF Stays
  <2>2. CASE e.device = c.device /\ devices'[e.device] = e.name
    <3>1. e.name = c.name
      BY <1>6, <2>2
    <3>2. e = c
      BY <1>4, <2>2, <3>1, OfAConfig
    <3> QED  BY <1>2, <1>3, <3>2 DEF Stays
  <2>3. CASE e.device # c.device /\ devices'[e.device] = e.name
    BY <1>6, <2>1, <2>3, OfAConfig
  <2>4. ASSUME NEW u \in Tasks, calls'[u] = Adding(e) PROVE calls[u] = Adding(e)
    BY <1>7, <2>4 DEF Adding, NoCall
  <2> QED  BY <2>1, <2>2, <2>3, <2>4
<1>12. Leads'
  <2> SUFFICES ASSUME NEW n \in Names, n \notin stray', NEW x \in Devices, Says(n, x)
               PROVE  \/ ~Stopping /\ devices'[x] = n
                      \/ \E u \in Tasks : calls'[u] = Adding([device |-> x, name |-> n])
    BY <1>1, <1>5 DEF Leads
  <2>1. n \notin stray /\ (n = old => n \in {None, c.name}) /\ (closing => n # c.name)
    BY <1>1
  <2>2. n # None
    BY OfAName
  <2>3. \/ ~Stopping /\ devices[x] = n
        \/ \E u \in Tasks : calls[u] = Adding([device |-> x, name |-> n])
    BY <1>2, <2>1 DEF Leads
  <2>4. CASE ~Stopping /\ devices[x] = n
    BY <1>6, <2>1, <2>2, <2>4
  <2>5. ASSUME NEW u \in Tasks, calls[u] = Adding([device |-> x, name |-> n]), u # t
        PROVE  calls'[u] = Adding([device |-> x, name |-> n])
    BY <1>7, <2>5
  <2>6. ASSUME calls[t] = Adding([device |-> x, name |-> n])
        PROVE  ~Stopping /\ devices'[x] = n
    <3>1. c.device = x /\ c.name = n
      BY <1>3, <2>6 DEF Adding
    <3> QED  BY <1>2, <1>6, <2>1, <3>1 DEF Closes
  <2> QED  BY <2>3, <2>4, <2>5, <2>6
<1>13. Goodbyes'
  <2> SUFFICES ASSUME NEW u \in Tasks, calls'[u].op = "shutdown"
               PROVE  /\ closing
                      /\ calls'[u].left \subseteq Registered'
                      /\ \A e \in Configs : devices'[e.device] = e.name /\ e.device \notin calls'[u].left
                            => e.name \in stray' \/ Says(e.name, None)
    BY <1>1, <1>5 DEF Goodbyes
  <2>1. calls'[u] = calls[u] /\ calls[u].left = {} /\ closing
    BY <1>1, <1>2, <1>7 DEF NoCall, LockFree, Goodbyes
  <2>2. \A e \in Configs : devices[e.device] = e.name => e.name \in stray \/ Says(e.name, None)
    BY <1>2, <2>1 DEF Goodbyes
  <2>3. c.name \in stray' /\ stray \subseteq stray'
    BY <1>1, <2>1
  <2>4. ASSUME NEW e \in Configs, devices'[e.device] = e.name
        PROVE  e.name \in stray' \/ Says(e.name, None)
    <3>1. CASE e.device = c.device
      BY <1>6, <2>3, <2>4, <3>1
    <3>2. CASE e.device # c.device
      BY <1>6, <2>2, <2>3, <2>4, <3>2, OfAConfig
    <3> QED  BY <3>1, <3>2
  <2> QED  BY <2>1, <2>4
<1> QED  BY <1>8, <1>9, <1>10, <1>11, <1>12, <1>13 DEF Inv

LEMMA AddDropped ==
  ASSUME Inv, NEW t \in Tasks, DropAdd(t)
  PROVE  Inv'
<1>1. /\ calls[t].op = "add"
      /\ calls' = [calls EXCEPT ![t] = NoCall]
      /\ stray' = stray \cup {calls[t].config.name}
      /\ UNCHANGED <<devices, round, queue, daemon, announced, heard, closing, ncalls>>
  BY DEF DropAdd
<1>2. Types /\ Registers /\ Closes /\ Stays /\ Leads /\ Goodbyes
  BY DEF Inv
<1>3. (Stopping' <=> Stopping) /\ \A n, x : Says(n, x)' <=> Says(n, x)
  BY <1>1, SaysTheSame
<1>4. /\ \A u \in Tasks : u # t => calls'[u] = calls[u]
      /\ calls'[t] = NoCall /\ calls' \in [Tasks -> Calls]
  BY <1>1, <1>2 DEF Types, Calls
<1>5. Types' /\ Registers'
  BY <1>1, <1>2, <1>4 DEF Types, Registers, Services, Service, Registered
<1>6. Closes'
  BY <1>1, <1>2, <1>3 DEF Closes
<1>7. Stays'
  <2>1. \A e : \A u \in Tasks : calls'[u] = Adding(e) => calls[u] = Adding(e)
    BY <1>4 DEF Adding, NoCall
  <2> QED  BY <1>1, <1>2, <1>3, <2>1 DEF Stays
<1>8. Leads'
  <2> SUFFICES ASSUME NEW n \in Names, n \notin stray', NEW x \in Devices, Says(n, x)
               PROVE  \/ ~Stopping /\ devices[x] = n
                      \/ \E u \in Tasks : calls'[u] = Adding([device |-> x, name |-> n])
    BY <1>1, <1>3 DEF Leads
  <2>1. n \notin stray /\ n # calls[t].config.name
    BY <1>1
  <2>2. \/ ~Stopping /\ devices[x] = n
        \/ \E u \in Tasks : calls[u] = Adding([device |-> x, name |-> n])
    BY <1>2, <2>1 DEF Leads
  <2>3. calls[t] # Adding([device |-> x, name |-> n])
    BY <2>1 DEF Adding
  <2> QED  BY <1>4, <2>2, <2>3
<1>9. Goodbyes'
  <2>1. \A u \in Tasks : calls'[u].op = "shutdown" => calls'[u] = calls[u]
    BY <1>4 DEF NoCall
  <2> QED  BY <1>1, <1>2, <1>3, <2>1 DEF Goodbyes, Registered
<1> QED  BY <1>5, <1>6, <1>7, <1>8, <1>9 DEF Inv

LEMMA DeviceRemoved ==
  ASSUME Inv, NEW d \in Devices, RemoveDevice(d)
  PROVE  Inv'
<1>0. PICK n : n = devices[d]
  OBVIOUS
<1>1. /\ n # None /\ \A t \in Tasks : calls[t] = NoCall
      /\ LockFree
      /\ devices' = [devices EXCEPT ![d] = None]
      /\ Queues(Unregister(n)) /\ StrayAfterGoodbye(n)
      /\ UNCHANGED <<calls, round, daemon, announced, heard, closing, ncalls>>
  BY <1>0 DEF RemoveDevice
<1>2. Types /\ Registers /\ Closes /\ Stays /\ Leads /\ Goodbyes
  BY DEF Inv
<1>3. n \in Names /\ Service(d) \in Configs /\ Service(d).device = d /\ Service(d).name = n
  BY <1>0, <1>1, <1>2, OfAnEntry
<1>4. /\ queue' \in Seq(Commands)
      /\ Stopping' <=> Stopping
      /\ \A x : Says(n, x)' /\ n \notin stray' => x = None
      /\ n \in stray' \/ Says(n, None)'
      /\ \A m : m # n => /\ m \in stray' <=> m \in stray
                         /\ \A x : Says(m, x)' <=> Says(m, x)
  BY <1>1, <1>3, SayingGoodbye
<1>5. /\ devices' \in [Devices -> Names \cup {None}]
      /\ devices'[d] = None
      /\ \A e \in Devices : e # d => devices'[e] = devices[e]
  BY <1>1, <1>2 DEF Types
<1>6. \A t \in Tasks : calls[t].op # "shutdown" /\ \A e : calls[t] # Adding(e)
  BY <1>1 DEF NoCall, Adding
<1>7. Types'
  BY <1>1, <1>2, <1>4, <1>5 DEF Types
<1>8. Registers'
  <2>1. round' = {}
    BY <1>1 DEF LockFree
  <2>2. ASSUME NEW e \in Devices, devices'[e] # None
        PROVE  [device |-> e, name |-> devices'[e]] \in Configs
    BY <1>2, <1>5, <2>2 DEF Registers, Services, Service, Registered
  <2> QED  BY <2>1, <2>2 DEF Registers, Services, Service, Registered
<1>9. Closes'
  BY <1>1, <1>2, <1>4 DEF Closes
<1>10. Stays'
  <2> SUFFICES ASSUME ~closing, NEW e \in Configs, ~Shared(e.name), devices'[e.device] = e.name
               PROVE  Says(e.name, e.device)'
    BY <1>1, <1>6 DEF Stays
  <2>1. e.device \in Devices /\ e.name \in Names /\ e.name # None
    BY OfAConfig, OfAName
  <2>2. e.device # d /\ devices[e.device] = e.name
    BY <1>5, <2>1
  <2>3. e.name # n
    BY <1>3, <2>2, OneDevice
  <2>4. Says(e.name, e.device)
    BY <1>2, <2>2 DEF Stays
  <2> QED  BY <1>4, <2>3, <2>4
<1>11. Leads'
  <2> SUFFICES ASSUME NEW m \in Names, m \notin stray', NEW x \in Devices, Says(m, x)'
               PROVE  ~Stopping /\ devices'[x] = m
    BY <1>4 DEF Leads
  <2>1. m # n
    BY <1>4, AnnouncementsAssumption
  <2>2. m \notin stray /\ Says(m, x)
    BY <1>4, <2>1
  <2>3. ~Stopping /\ devices[x] = m
    BY <1>2, <1>6, <2>2 DEF Leads
  <2> QED  BY <1>0, <1>5, <2>1, <2>3
<1>12. Goodbyes'
  BY <1>1, <1>6 DEF Goodbyes
<1> QED  BY <1>7, <1>8, <1>9, <1>10, <1>11, <1>12 DEF Inv

LEMMA ShutdownStarts ==
  ASSUME Inv, NEW t \in Tasks, StartShutdown(t)
  PROVE  Inv'
<1>1. /\ calls[t] = NoCall /\ closing' = TRUE
      /\ calls' = [calls EXCEPT ![t] = ShuttingDown(Registered)]
      /\ UNCHANGED <<devices, round, queue, daemon, announced, heard, stray>>
  BY DEF StartShutdown
<1>2. Types /\ Registers /\ Leads /\ Goodbyes
  BY DEF Inv
<1>3. (Stopping' <=> Stopping) /\ \A n, x : Says(n, x)' <=> Says(n, x)
  BY <1>1, SaysTheSame
<1>4. ShuttingDown(Registered) \in Calls
  BY DEF Calls, Registered
<1>5. /\ \A u \in Tasks : u # t => calls'[u] = calls[u]
      /\ calls'[t] = ShuttingDown(Registered) /\ calls' \in [Tasks -> Calls]
  BY <1>1, <1>2, <1>4 DEF Types
<1>6. Types' /\ Registers'
  BY <1>1, <1>2, <1>5 DEF Types, Registers, Services, Service, Registered
<1>7. Closes' /\ Stays'
  BY <1>1 DEF Closes, Stays
<1>8. Leads'
  <2> SUFFICES ASSUME NEW n \in Names, n \notin stray, NEW x \in Devices, Says(n, x)
               PROVE  \/ ~Stopping /\ devices[x] = n
                      \/ \E u \in Tasks : calls'[u] = Adding([device |-> x, name |-> n])
    BY <1>1, <1>3 DEF Leads
  <2>1. \A e : \A u \in Tasks : calls[u] = Adding(e) => calls'[u] = Adding(e)
    BY <1>1, <1>5 DEF Adding, NoCall
  <2> QED  BY <1>2, <2>1 DEF Leads
<1>9. Goodbyes'
  <2> SUFFICES ASSUME NEW u \in Tasks, calls'[u].op = "shutdown"
               PROVE  /\ calls'[u].left \subseteq Registered
                      /\ \A c \in Configs : devices[c.device] = c.name /\ c.device \notin calls'[u].left
                            => c.name \in stray \/ Says(c.name, None)
    BY <1>1, <1>3 DEF Goodbyes, Registered
  <2>1. CASE u = t
    <3>1. calls'[u].left = Registered
      BY <1>5, <2>1 DEF ShuttingDown
    <3>2. \A c \in Configs : devices[c.device] = c.name => c.device \in Registered
      BY OfAConfig, OfAName DEF Registered
    <3> QED  BY <3>1, <3>2
  <2>2. CASE u # t
    BY <1>2, <1>5, <2>2 DEF Goodbyes
  <2> QED  BY <2>1, <2>2
<1> QED  BY <1>6, <1>7, <1>8, <1>9 DEF Inv

LEMMA ShutdownOfADevice ==
  ASSUME Inv, NEW t \in Tasks, NEW d \in Devices, ShutdownDevice(t, d)
  PROVE  Inv'
<1>0. PICK n : n = devices[d]
  OBVIOUS
<1>1. /\ calls[t].op = "shutdown" /\ d \in calls[t].left
      /\ Queues(Unregister(n)) /\ StrayAfterGoodbye(n)
      /\ calls' = [calls EXCEPT ![t].left = @ \ {d}]
      /\ UNCHANGED <<devices, round, daemon, announced, heard, closing, ncalls>>
  BY <1>0 DEF ShutdownDevice
<1>2. Types /\ Registers /\ Closes /\ Leads /\ Goodbyes
  BY DEF Inv
<1>3. n \in Names /\ closing
  BY <1>0, <1>1, <1>2, OfAnEntry DEF Goodbyes, Registered
<1>4. /\ queue' \in Seq(Commands)
      /\ Stopping' <=> Stopping
      /\ \A x : Says(n, x)' /\ n \notin stray' => x = None
      /\ n \in stray' \/ Says(n, None)'
      /\ \A m : m # n => /\ m \in stray' <=> m \in stray
                         /\ \A x : Says(m, x)' <=> Says(m, x)
  BY <1>1, <1>3, SayingGoodbye
<1>5. calls[t] = ShuttingDown(calls[t].left) /\ calls[t].left \subseteq Devices
  BY <1>1, <1>2, OfACall
<1>6. ShuttingDown(calls[t].left \ {d}) \in Calls
  BY <1>5 DEF Calls
<1>7. /\ \A u \in Tasks : u # t => calls'[u] = calls[u]
      /\ calls'[t] = ShuttingDown(calls[t].left \ {d}) /\ calls' \in [Tasks -> Calls]
  <2>1. calls' = [calls EXCEPT ![t] = [calls[t] EXCEPT !.left = calls[t].left \ {d}]]
    BY <1>1
  <2>2. [calls[t] EXCEPT !.left = calls[t].left \ {d}] = ShuttingDown(calls[t].left \ {d})
    BY <1>5 DEF ShuttingDown
  <2> QED  BY <1>2, <1>6, <2>1, <2>2 DEF Types
<1>8. Types' /\ Registers'
  BY <1>1, <1>2, <1>4, <1>7 DEF Types, Registers, Services, Service, Registered
<1>9. Closes' /\ Stays'
  BY <1>1, <1>3 DEF Closes, Stays
<1>10. Leads'
  <2> SUFFICES ASSUME NEW m \in Names, m \notin stray', NEW x \in Devices, Says(m, x)'
               PROVE  \/ ~Stopping /\ devices[x] = m
                      \/ \E u \in Tasks : calls'[u] = Adding([device |-> x, name |-> m])
    BY <1>1, <1>4 DEF Leads
  <2>1. m # n
    BY <1>4, AnnouncementsAssumption
  <2>2. \/ ~Stopping /\ devices[x] = m
        \/ \E u \in Tasks : calls[u] = Adding([device |-> x, name |-> m])
    BY <1>2, <1>4, <2>1 DEF Leads
  <2>3. \A e : \A u \in Tasks : calls[u] = Adding(e) => calls'[u] = Adding(e)
    BY <1>1, <1>7 DEF Adding
  <2> QED  BY <2>2, <2>3
<1>11. Goodbyes'
  <2> SUFFICES ASSUME NEW u \in Tasks, calls'[u].op = "shutdown"
               PROVE  /\ calls'[u].left \subseteq Registered
                      /\ \A c \in Configs : devices[c.device] = c.name /\ c.device \notin calls'[u].left
                            => c.name \in stray' \/ Says(c.name, None)'
    BY <1>1, <1>3 DEF Goodbyes, Registered
  <2>1. /\ calls[u].op = "shutdown"
        /\ calls'[u].left \subseteq calls[u].left
        /\ \A e : e \in calls[u].left => e \in calls'[u].left \/ e = d
    BY <1>1, <1>7 DEF ShuttingDown
  <2>2. ASSUME NEW c \in Configs, devices[c.device] = c.name, c.device \notin calls'[u].left
        PROVE  c.name \in stray' \/ Says(c.name, None)'
    <3>1. CASE c.name = n
      BY <1>4, <3>1
    <3>2. CASE c.name # n
      <4>1. c.device \notin calls[u].left
        BY <1>0, <2>1, <2>2, <3>2
      <4> QED  BY <1>2, <1>4, <2>1, <2>2, <3>2, <4>1 DEF Goodbyes
    <3> QED  BY <3>1, <3>2
  <2> QED  BY <1>2, <2>1, <2>2 DEF Goodbyes
<1> QED  BY <1>8, <1>9, <1>10, <1>11 DEF Inv

LEMMA DaemonToldToStop ==
  ASSUME Inv, NEW t \in Tasks, ShutdownDaemon(t)
  PROVE  Inv'
<1> DEFINE stop == [op |-> "shutdown"]
<1>1. /\ calls[t].op = "shutdown" /\ calls[t].left = {}
      /\ Queues(stop)
      /\ calls' = [calls EXCEPT ![t] = NoCall]
      /\ UNCHANGED <<devices, round, daemon, announced, heard, closing, stray, ncalls>>
  BY DEF ShutdownDaemon
<1>2. Types /\ Registers /\ Closes /\ Leads /\ Goodbyes
  BY DEF Inv
<1>3. stop \in Commands /\ stop.op = "shutdown"
  BY DEF Commands
<1> HIDE DEF stop
<1>4. queue' \in Seq(Commands) /\ (Stopping => Stopping') /\ \A n, x : Says(n, x)' <=> Says(n, x)
  BY <1>1, <1>2, <1>3, Queued
<1>5. /\ \A u \in Tasks : u # t => calls'[u] = calls[u]
      /\ calls'[t] = NoCall /\ calls' \in [Tasks -> Calls]
  BY <1>1, <1>2 DEF Types, Calls
<1>6. /\ closing
      /\ \A c \in Configs : devices[c.device] = c.name => c.name \in stray \/ Says(c.name, None)
  BY <1>1, <1>2 DEF Goodbyes
<1>7. Types' /\ Registers'
  BY <1>1, <1>2, <1>4, <1>5 DEF Types, Registers, Services, Service, Registered
<1>8. Closes' /\ Stays'
  BY <1>1, <1>6 DEF Closes, Stays
<1>9. Leads'
  <2> SUFFICES ASSUME NEW n \in Names, n \notin stray, NEW x \in Devices, Says(n, x)
               PROVE  \E u \in Tasks : calls'[u] = Adding([device |-> x, name |-> n])
    BY <1>1, <1>4 DEF Leads
  <2>1. devices[x] # n
    <3> SUFFICES ASSUME devices[x] = n PROVE FALSE
      OBVIOUS
    <3>1. devices[x] # None
      BY OfAName
    <3>2. PICK c \in Configs : c.device = x /\ c.name = n
      BY <1>2, <3>1, OfAnEntry
    <3>3. Says(n, None)
      BY <1>6, <3>2
    <3>4. x = None
      BY <1>2, <3>3, TellsOne DEF Says, Types
    <3> QED  BY <3>4, AnnouncementsAssumption
  <2>2. PICK u \in Tasks : calls[u] = Adding([device |-> x, name |-> n])
    BY <1>2, <2>1 DEF Leads
  <2>3. u # t
    BY <1>1, <2>2 DEF Adding
  <2> QED  BY <1>5, <2>2, <2>3
<1>10. Goodbyes'
  <2>1. \A u \in Tasks : calls'[u].op = "shutdown" => calls'[u] = calls[u]
    BY <1>5 DEF NoCall
  <2> QED  BY <1>1, <1>2, <1>4, <2>1 DEF Goodbyes, Registered
<1> QED  BY <1>7, <1>8, <1>9, <1>10 DEF Inv

LEMMA LoopWoken == Inv /\ LoopWakes => Inv'
<1> SUFFICES ASSUME Inv, LoopWakes PROVE Inv'
  OBVIOUS
<1>1. /\ round' = Services
      /\ UNCHANGED <<devices, calls, queue, daemon, announced, heard, closing, stray, ncalls>>
  BY DEF LoopWakes
<1>2. (Stopping' <=> Stopping) /\ \A n, x : Says(n, x)' <=> Says(n, x)
  BY <1>1, SaysTheSame
<1>3. Types' /\ Registers'
  BY <1>1 DEF Inv, Types, Registers, Services, Service, Registered
<1>4. Closes' /\ Stays' /\ Leads' /\ Goodbyes'
  BY <1>1, <1>2 DEF Inv, Closes, Stays, Leads, Goodbyes, Registered
<1> QED  BY <1>3, <1>4 DEF Inv

\* A command the daemon carries out was already counted.
LEMMA CommandTaken ==
  ASSUME Inv, queue # << >>, Head(queue).op # "shutdown", queue' = Tail(queue),
         announced' = [announced EXCEPT ![Head(queue).name] = Outcome(Head(queue))],
         UNCHANGED <<devices, calls, round, daemon, closing, stray>>
  PROVE  Inv'
<1>1. Types /\ Registers /\ Closes /\ Stays /\ Leads /\ Goodbyes
  BY DEF Inv
<1>2. /\ queue' \in Seq(Commands) /\ announced' \in [Names -> Devices \cup {None}]
      /\ Stopping' <=> Stopping
      /\ \A n \in Names : \A x : Says(n, x)' <=> Says(n, x)
  BY <1>1, Taken
<1>3. Types' /\ Registers'
  BY <1>1, <1>2 DEF Types, Registers, Services, Service, Registered
<1>4. \A c \in Configs : \A x : Says(c.name, x)' <=> Says(c.name, x)
  BY <1>2, OfAConfig
<1>5. Closes' /\ Stays'
  BY <1>1, <1>2, <1>4 DEF Closes, Stays
<1>6. Leads' /\ Goodbyes'
  BY <1>1, <1>2, <1>4 DEF Leads, Goodbyes, Registered
<1> QED  BY <1>3, <1>5, <1>6 DEF Inv

LEMMA DaemonTookACommand == Inv /\ (DaemonRegisters \/ DaemonUnregisters) => Inv'
<1> SUFFICES ASSUME Inv, DaemonRegisters \/ DaemonUnregisters PROVE Inv'
  OBVIOUS
<1>1. /\ queue # << >> /\ Head(queue).op # "shutdown" /\ queue' = Tail(queue)
      /\ announced' = [announced EXCEPT ![Head(queue).name] = Outcome(Head(queue))]
      /\ UNCHANGED <<devices, calls, round, daemon, closing, stray>>
  BY DEF DaemonRegisters, DaemonUnregisters, Packet, Outcome
<1> QED  BY <1>1, CommandTaken

LEMMA DaemonStopped == Inv /\ DaemonStops => Inv'
<1> SUFFICES ASSUME Inv, DaemonStops PROVE Inv'
  OBVIOUS
<1>1. /\ queue # << >> /\ Head(queue).op = "shutdown"
      /\ daemon' = "down" /\ queue' = << >>
      /\ announced' \in {announced, [n \in Names |-> None]}
      /\ UNCHANGED <<devices, calls, round, heard, closing, stray, ncalls>>
  BY DEF DaemonStops
<1>2. Types /\ Registers /\ Closes /\ Stays /\ Leads /\ Goodbyes
  BY DEF Inv
<1>3. Stopping /\ closing
  BY <1>1, <1>2 DEF Types, Stopping, Closes
<1>4. \A n \in Names : \A x : Says(n, x)' => Says(n, x) \/ x = None
  <2> TAKE n \in Names
  <2> TAKE x
  <2>1. Says(n, x)' <=> x = announced'[n]
    BY <1>1, TellsEmpty DEF Says
  <2>2. Says(n, x) <=> x = announced[n]
    BY <1>1, <1>2, TellsStopped DEF Says, Types
  <2> QED  BY <1>1, <2>1, <2>2
<1>5. \A n \in Names : Says(n, None) => Says(n, None)'
  <2> TAKE n \in Names
  <2>1. Says(n, None)' <=> None = announced'[n]
    BY <1>1, TellsEmpty DEF Says
  <2>2. Says(n, None) <=> None = announced[n]
    BY <1>1, <1>2, TellsStopped DEF Says, Types
  <2> QED  BY <1>1, <2>1, <2>2
<1>6. Types' /\ Registers'
  BY <1>1, <1>2 DEF Types, Registers, Services, Service, Registered
<1>7. Closes' /\ Stays'
  BY <1>1, <1>3 DEF Closes, Stays
<1>8. Leads'
  BY <1>1, <1>2, <1>3, <1>4, AnnouncementsAssumption DEF Leads
<1>9. Goodbyes'
  BY <1>1, <1>2, <1>5, OfAConfig DEF Goodbyes, Registered
<1> QED  BY <1>6, <1>7, <1>8, <1>9 DEF Inv

LEMMA StepKeepsInv == Inv /\ [Next]_vars => Inv'
<1> SUFFICES ASSUME Inv, [Next]_vars PROVE Inv'
  OBVIOUS
<1>1. CASE \E t \in Tasks, c \in Configs : StartAdd(t, c)
  BY <1>1, AddStarts
<1>2. CASE \E t \in Tasks : InsertDevice(t)
  BY <1>2, DeviceInserted
<1>3. CASE \E t \in Tasks : DropAdd(t)
  BY <1>3, AddDropped
<1>4. CASE \E d \in Devices : RemoveDevice(d)
  BY <1>4, DeviceRemoved
<1>5. CASE \E t \in Tasks : StartShutdown(t)
  BY <1>5, ShutdownStarts
<1>6. CASE \E t \in Tasks, d \in Devices : ShutdownDevice(t, d)
  BY <1>6, ShutdownOfADevice
<1>7. CASE \E t \in Tasks : ShutdownDaemon(t)
  BY <1>7, DaemonToldToStop
<1>8. CASE LoopWakes
  BY <1>8, LoopWoken
<1>9. CASE \E c \in Configs : LoopAnnounces(c)
  BY <1>9, LoopAnnounced
<1>10. CASE DaemonRegisters \/ DaemonUnregisters
  BY <1>10, DaemonTookACommand
<1>11. CASE DaemonStops
  BY <1>11, DaemonStopped
<1>12. CASE (\E n \in Names : ControllersForget(n)) \/ UNCHANGED vars
  <2>1. UNCHANGED <<devices, calls, round, queue, daemon, announced, closing, stray>>
    BY <1>12 DEF ControllersForget, vars
  <2>2. (Stopping' <=> Stopping) /\ \A n, x : Says(n, x)' <=> Says(n, x)
    BY <2>1, SaysTheSame
  <2>3. Types' /\ Registers'
    BY <2>1 DEF Inv, Types, Registers, Services, Service, Registered
  <2>4. Closes' /\ Stays' /\ Leads' /\ Goodbyes'
    BY <2>1, <2>2 DEF Inv, Closes, Stays, Leads, Goodbyes, Registered
  <2> QED  BY <2>3, <2>4 DEF Inv
<1> QED
  BY <1>1, <1>2, <1>3, <1>4, <1>5, <1>6, <1>7, <1>8, <1>9, <1>10, <1>11, <1>12 DEF Next

LEMMA InvAlways == Spec => []Inv
BY StartsRight, StepKeepsInv, PTL DEF Spec

-----------------------------------------------------------------------------
(* The theorems.                                                           *)

\* A registered device stays announced, whatever the daemon refuses, whatever other
\* tasks add, replace, remove and abandon, and however the loop goes round, until a
\* shutdown() is called: the last word of add_device, remove_device and
\* reannounce_loop about its name is its own.
THEOREM RegisteredStaysAnnounced == Spec => []RegisteredIsAnnounced
<1>1. Inv => RegisteredIsAnnounced
  <2> SUFFICES ASSUME Inv, NEW d \in Devices, devices[d] # None, ~Shared(devices[d]), ~closing
               PROVE  Announcement(devices[d]) = d
    BY DEF RegisteredIsAnnounced
  <2>1. Types /\ Registers /\ Stays
    BY DEF Inv
  <2>2. PICK c \in Configs : c.name = devices[d] /\ c.device = d
    BY <2>1, OfAnEntry
  <2>3. Says(c.name, d)
    BY <2>1, <2>2 DEF Stays
  <2>4. Says(c.name, Announcement(c.name))
    BY <2>1, AnnouncementSays DEF Types
  <2> QED  BY <2>1, <2>2, <2>3, <2>4, TellsOne DEF Says, Types
<1> QED  BY <1>1, InvAlways, PTL

\* Whom an announcement leads to is served under that name by the HTTP look-ups, or
\* is just being added, or its name is one of the strays the code leaves behind:
\* remove_device, shutdown and a round of reannounce_loop that overlap leave no
\* other announcement, and once the daemon is told to stop by a shutdown() that
\* finished there is none but strays.
THEOREM NothingElseIsAnnounced == Spec => []AnnouncedIsServed
<1>1. Inv => AnnouncedIsServed
  <2> SUFFICES ASSUME Inv, NEW n \in Names, n \notin stray, Announcement(n) # None
               PROVE  \/ ~Stopping /\ DisplayName(Announcement(n)) = n
                      \/ \E t \in Tasks :
                           calls[t] = Adding([device |-> Announcement(n), name |-> n])
    BY DEF AnnouncedIsServed
  <2>1. Types /\ Leads
    BY DEF Inv
  <2>2. Says(n, Announcement(n))
    BY <2>1, AnnouncementSays DEF Types
  <2>3. Announcement(n) \in Devices
    BY <2>1, <2>2, SaysWhom DEF Types
  <2> QED  BY <2>1, <2>2, <2>3 DEF Leads, DisplayName
<1> QED  BY <1>1, InvAlways, PTL
=============================================================================
