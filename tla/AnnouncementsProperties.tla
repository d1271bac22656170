---------------------- MODULE AnnouncementsProperties ----------------------
(* What the registry, the daemon and the controllers owe each other.       *)
EXTENDS Announcements

\* The device announced under a name once the daemon has caught up: what the
\* last command that names it says, unless the daemon stops before.
BeforeStop == {i \in DOMAIN queue : \A j \in 1 .. i : queue[j].op # "shutdown"}
About(n) == {i \in BeforeStop : queue[i].name = n}
Announcement(n) ==
  IF About(n) = {} THEN announced[n]
  ELSE LET last == queue[CHOOSE i \in About(n) : \A j \in About(n) : j <= i] IN
       IF last.op = "register" THEN last.device ELSE None

\* Two devices of the application have this name: they share one service.
Shared(n) == \E c1, c2 \in Configs : c1.name = n /\ c2.name = n /\ c1.device # c2.device

\* A registered device stays announced, from add_device's first line on and
\* without waiting for a re-announcement, as long as nobody shuts down: refused
\* commands, dropped and overlapping calls of other tasks, replaced entries and
\* rounds of reannounce_loop take no announcement away.  A shared name is one
\* service, which the removal of the other device does withdraw.
RegisteredIsAnnounced ==
  \A d \in Devices : (devices[d] # None /\ ~Shared(devices[d]) /\ ~closing)
                        => Announcement(devices[d]) = d

\* Whom an announcement leads to is found by get-display-info and connect-to-
\* qconnect under that name, or is just being added, or was said goodbye to in
\* vain: nothing else outlives remove_device, shutdown and a round of
\* reannounce_loop that overlaps them.  Once shutdown() is over and the daemon
\* took its command to stop, strays are all that is left.
AnnouncedIsServed ==
  \A n \in Names \ stray : Announcement(n) # None =>
    \/ ~Stopping /\ DisplayName(Announcement(n)) = n
    \/ \E t \in Tasks : calls[t] = Adding([device |-> Announcement(n), name |-> n])

\* The tasks proceed, tokio's fair RwLock lets a writer in between two rounds, and
\* a packet that is sent again and again is heard at last.
Fairness ==
  /\ WF_vars(DaemonRegisters) /\ WF_vars(DaemonUnregisters) /\ WF_vars(DaemonStops)
  /\ \A t \in Tasks : SF_vars(InsertDevice(t)) /\ WF_vars(ShutdownDaemon(t))
  /\ \A t \in Tasks, d \in Devices : WF_vars(ShutdownDevice(t, d))
  /\ WF_vars(LoopWakes)
  /\ \A c \in Configs : /\ WF_vars(LoopAnnounces(c))
                        /\ SF_vars(DaemonRegisters /\ heard'[c.name] = c.device)

FairSpec == Spec /\ Fairness

\* Five seconds are enough for the daemon to read what it was sent: again and again
\* a round begins with an empty queue.
CatchesUp == []<><<LoopWakes /\ queue = <<>>>>_vars

\* What the periodic announcements are for: a device that controllers lost, or
\* that shares its name with another, is listed again, as long as it is
\* registered and nobody shuts down.
HeardAgain ==
  CatchesUp => \A c \in Configs :
    devices[c.device] = c.name ~> \/ heard[c.name] = c.device
                                  \/ devices[c.device] # c.name
                                  \/ closing

\* add_device does not wait forever for a lock that the rounds and shutdown()
\* take again and again, even when the daemon takes no more commands.
AddsFinish == \A t \in Tasks : calls[t].op = "add" ~> calls[t].op # "add"
=============================================================================
