--------------------------- MODULE Announcements ---------------------------
(***************************************************************************)
(* The mDNS side of the device registry (src/discovery.rs): add_device,    *)
(* remove_device and shutdown of the application, the task that announces  *)
(* every device again each 5 seconds, the HTTP look-ups of controllers,    *)
(* and, external, the mDNS daemon with its bounded queue of commands and   *)
(* the controllers that hear its packets or miss them.                     *)
(*                                                                         *)
(* The registry's lock is not a variable: whoever iterates over the        *)
(* devices holds it for reading, and whoever changes them needs it alone,  *)
(* for one step.  add_device and shutdown borrow the manager shared, so    *)
(* that such calls may overlap; remove_device borrows it mutably.          *)
(*                                                                         *)
(* A definition whose name has a suffix, RemoveDevice_NoLock for instance, *)
(* is the definition below it with a plausible bug.                        *)
(***************************************************************************)
EXTENDS Naturals, Sequences

CONSTANTS
  Devices,     \* uuids
  Names,       \* friendly names; a service is known by its name
  Configs,     \* the DeviceConfigs the application uses
  Tasks,       \* tasks of the application that may call the manager
  QueueCap,    \* capacity of the daemon's queue of commands
  MaxCalls,    \* bound: calls of add_device and shutdown
  None

ASSUME AnnouncementsAssumption ==
  /\ Configs \subseteq [device: Devices, name: Names]
  /\ QueueCap \in Nat \ {0} /\ MaxCalls \in Nat
  /\ None \notin Devices \cup Names

VARIABLES
  devices,     \* the registry: the name each device is registered with, or None
  calls,       \* the call of each task, NoCall if there is none
  round,       \* services the re-announcement has left in this round
  queue,       \* commands sent to the daemon
  daemon,      \* "up" or "down"
  announced,   \* the device the daemon announces under each name, or None
  heard,       \* the device controllers list under each name, or None
  closing,     \* history: shutdown() was called
  stray,       \* history: names whose announcement nobody is going to withdraw
  ncalls

vars == <<devices, calls, round, queue, daemon, announced, heard, closing, stray, ncalls>>

\* A call is suspended only in add_device, at the write lock, and lasts only in
\* shutdown, which blocks its thread after each device for up to 200 ms.
NoCall == [op |-> "none"]
Adding(c) == [op |-> "add", config |-> c]
ShuttingDown(left) == [op |-> "shutdown", left |-> left]

\* The services of the registry's entries, and of one of them.
Service(d) == [device |-> d, name |-> devices[d]]
Registered == {d \in Devices : devices[d] # None}
Services == {Service(d) : d \in Registered}

\* The lock is free for a writer: nobody iterates.
LockFree ==
  /\ round = {}
  /\ \A t \in Tasks : calls[t].op = "shutdown" => calls[t].left = {}

\* What GET get-display-info and the look-ups find for a uuid; None: NOT_FOUND.
DisplayName(d) == devices[d]

\* The daemon takes a command if it runs and its queue has room, and refuses it
\* with an error otherwise.
Accepts == daemon = "up" /\ Len(queue) < QueueCap
Queues(command) == queue' = IF Accepts THEN Append(queue, command) ELSE queue
Register(c) == [op |-> "register", name |-> c.name, device |-> c.device]
Unregister(n) == [op |-> "unregister", name |-> n]

\* The daemon has stopped, or will before it comes to what is queued from now on.
Stopping == daemon = "down" \/ \E i \in DOMAIN queue : queue[i].op = "shutdown"

\* A goodbye that is refused is only logged, and never repeated; one that is
\* queued behind the daemon's end is never read.
StrayAfterGoodbye(n) ==
  stray' = IF Accepts /\ ~Stopping THEN stray \ {n} ELSE stray \cup {n}

Init ==
  /\ devices = [d \in Devices |-> None]
  /\ calls = [t \in Tasks |-> NoCall]
  /\ round = {} /\ queue = <<>> /\ daemon = "up"
  /\ announced = [n \in Names |-> None]
  /\ heard = [n \in Names |-> None]
  /\ closing = FALSE /\ stray = {} /\ ncalls = 0

-----------------------------------------------------------------------------
\* The application.

\* add_device announces first.  If the daemon refuses, it returns the error; if
\* not, it goes on to wait for the lock.
StartAdd_IgnoresError(t, c) ==
  /\ calls[t] = NoCall /\ ncalls < MaxCalls
  /\ ncalls' = ncalls + 1
  /\ Queues(Register(c))
  /\ calls' = [calls EXCEPT ![t] = Adding(c)]
  /\ stray' = IF closing THEN stray \cup {c.name} ELSE stray
  /\ UNCHANGED <<devices, round, daemon, announced, heard, closing>>
StartAdd(t, c) ==
  /\ calls[t] = NoCall /\ ncalls < MaxCalls
  /\ ncalls' = ncalls + 1
  /\ Queues(Register(c))
  /\ calls' = IF Accepts THEN [calls EXCEPT ![t] = Adding(c)] ELSE calls
  /\ stray' = IF closing /\ Accepts THEN stray \cup {c.name} ELSE stray
  /\ UNCHANGED <<devices, round, daemon, announced, heard, closing>>

\* It then has the lock, and registers the device.  An entry it replaces is
\* dropped without a goodbye: under another name, its announcement stays.  A
\* shutdown() that began meanwhile did not see the device.
InsertDevice(t) ==
  /\ calls[t].op = "add" /\ LockFree
  /\ LET c == calls[t].config
         old == devices[c.device] IN
     /\ devices' = [devices EXCEPT ![c.device] = c.name]
     /\ stray' = stray \cup ({old} \ {None, c.name})
                      \cup (IF closing THEN {c.name} ELSE {})
  /\ calls' = [calls EXCEPT ![t] = NoCall]
  /\ UNCHANGED <<round, queue, daemon, announced, heard, closing, ncalls>>

\* The future of add_device is dropped while it waits.
DropAdd(t) ==
  /\ calls[t].op = "add"
  /\ calls' = [calls EXCEPT ![t] = NoCall]
  /\ stray' = stray \cup {calls[t].config.name}
  /\ UNCHANGED <<devices, round, queue, daemon, announced, heard, closing, ncalls>>

\* remove_device has the manager for itself, and the lock: the entry goes and the
\* goodbye is queued in one critical section.
RemoveDevice_NoLock(d) ==
  /\ devices[d] # None /\ \A t \in Tasks : calls[t] = NoCall
  /\ devices' = [devices EXCEPT ![d] = None]
  /\ Queues(Unregister(devices[d])) /\ StrayAfterGoodbye(devices[d])
  /\ UNCHANGED <<calls, round, daemon, announced, heard, closing, ncalls>>
RemoveDevice(d) ==
  /\ devices[d] # None /\ \A t \in Tasks : calls[t] = NoCall
  /\ LockFree
  /\ devices' = [devices EXCEPT ![d] = None]
  /\ Queues(Unregister(devices[d])) /\ StrayAfterGoodbye(devices[d])
  /\ UNCHANGED <<calls, round, daemon, announced, heard, closing, ncalls>>

StartShutdown(t) ==
  /\ calls[t] = NoCall /\ ncalls < MaxCalls
  /\ ncalls' = ncalls + 1
  /\ calls' = [calls EXCEPT ![t] = ShuttingDown(Registered)]
  /\ closing' = TRUE
  /\ UNCHANGED <<devices, round, queue, daemon, announced, heard, stray>>

\* One device's goodbye.  Whether the wait for its receipt ends with the receipt
\* or with the timeout makes no difference to what comes next.
ShutdownDevice(t, d) ==
  /\ calls[t].op = "shutdown" /\ d \in calls[t].left
  /\ Queues(Unregister(devices[d])) /\ StrayAfterGoodbye(devices[d])
  /\ calls' = [calls EXCEPT ![t].left = @ \ {d}]
  /\ UNCHANGED <<devices, round, daemon, announced, heard, closing, ncalls>>

\* The lock is released; the daemon is told to stop, unless it refuses.
ShutdownDaemon(t) ==
  /\ calls[t].op = "shutdown" /\ calls[t].left = {}
  /\ Queues([op |-> "shutdown"])
  /\ calls' = [calls EXCEPT ![t] = NoCall]
  /\ UNCHANGED <<devices, round, daemon, announced, heard, closing, stray, ncalls>>

-----------------------------------------------------------------------------
\* reannounce_loop.  It never ends, whatever is shut down or dropped.

LoopWakes ==
  /\ round = {} /\ Services # {}
  /\ round' = Services
  /\ UNCHANGED <<devices, calls, queue, daemon, announced, heard, closing, stray, ncalls>>

\* One device; an error is only logged.
LoopAnnounces_OnlyNew(c) ==
  /\ c \in round
  /\ IF announced[c.name] = c.device THEN UNCHANGED queue ELSE Queues(Register(c))
  /\ round' = round \ {c}
  /\ stray' = IF closing /\ Accepts THEN stray \cup {c.name} ELSE stray
  /\ UNCHANGED <<devices, calls, daemon, announced, heard, closing, ncalls>>
LoopAnnounces_Retries(c) ==
  /\ c \in round /\ Accepts
  /\ Queues(Register(c))
  /\ round' = round \ {c}
  /\ stray' = IF closing THEN stray \cup {c.name} ELSE stray
  /\ UNCHANGED <<devices, calls, daemon, announced, heard, closing, ncalls>>
LoopAnnounces(c) ==
  /\ c \in round
  /\ Queues(Register(c))
  /\ round' = round \ {c}
  /\ stray' = IF closing /\ Accepts THEN stray \cup {c.name} ELSE stray
  /\ UNCHANGED <<devices, calls, daemon, announced, heard, closing, ncalls>>

-----------------------------------------------------------------------------
\* The daemon and the controllers.

\* Each packet, an announcement or a goodbye, is heard or lost.
Packet(n, d) ==
  /\ announced' = [announced EXCEPT ![n] = d]
  /\ heard' \in {heard, [heard EXCEPT ![n] = d]}

DaemonRegisters ==
  /\ daemon = "up" /\ queue # <<>> /\ Head(queue).op = "register"
  /\ Packet(Head(queue).name, Head(queue).device)
  /\ queue' = Tail(queue)
  /\ UNCHANGED <<devices, calls, round, daemon, closing, stray, ncalls>>

DaemonUnregisters ==
  /\ daemon = "up" /\ queue # <<>> /\ Head(queue).op = "unregister"
  /\ Packet(Head(queue).name, None)
  /\ queue' = Tail(queue)
  /\ UNCHANGED <<devices, calls, round, daemon, closing, stray, ncalls>>

\* What is announced at the end gets a goodbye of the daemon's own, or none.
DaemonStops ==
  /\ daemon = "up" /\ queue # <<>> /\ Head(queue).op = "shutdown"
  /\ daemon' = "down" /\ queue' = <<>>
  /\ announced' \in {announced, [n \in Names |-> None]}
  /\ UNCHANGED <<devices, calls, round, heard, closing, stray, ncalls>>

\* The announcement expires at the controllers, or was one of several in a packet
\* of which the Qobuz app reads the first.
ControllersForget(n) ==
  /\ heard[n] # None
  /\ heard' = [heard EXCEPT ![n] = None]
  /\ UNCHANGED <<devices, calls, round, queue, daemon, announced, closing, stray, ncalls>>

Next ==
  \/ \E t \in Tasks, c \in Configs : StartAdd(t, c)
  \/ \E t \in Tasks : InsertDevice(t)
  \/ \E t \in Tasks : DropAdd(t)
  \/ \E d \in Devices : RemoveDevice(d)
  \/ \E t \in Tasks : StartShutdown(t)
  \/ \E t \in Tasks, d \in Devices : ShutdownDevice(t, d)
  \/ \E t \in Tasks : ShutdownDaemon(t)
  \/ LoopWakes
  \/ \E c \in Configs : LoopAnnounces(c)
  \/ DaemonRegisters
  \/ DaemonUnregisters
  \/ DaemonStops
  \/ \E n \in Names : ControllersForget(n)

Spec == Init /\ [][Next]_vars

=============================================================================
