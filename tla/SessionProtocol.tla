-------------------------- MODULE SessionProtocol --------------------------
(***************************************************************************)
(* What one session promises the application that receives its events: in  *)
(* which order they come, and that a command which waits for its answer is *)
(* the last thing the session said.  SessionRunner implements it.          *)
(***************************************************************************)
EXTENDS Naturals, Sequences

CONSTANTS auto_activate, CommandKinds

VARIABLES log,      \* the events of the session, oldest first
          pending   \* TRUE: the last event is a command not yet answered

Last == IF log = <<>> THEN "nothing" ELSE log[Len(log)].kind

\* The session has said Connected and has not said Disconnected.
Live == Last \notin {"nothing", "Disconnected", "SessionClosed"}

\* With auto_activate a deactivation ends the session.
MayFollow(kind) ==
  CASE kind = "Connected"     -> Last = "nothing"
    [] kind = "SessionClosed" -> Last = "Disconnected"
    [] kind = "Disconnected"  -> Live
    [] OTHER                  -> Live /\ ~(auto_activate /\ Last = "Deactivated")

Init == log = <<>> /\ pending = FALSE

Says ==
  /\ ~pending
  /\ LET e == log'[Len(log) + 1] IN
     /\ Len(log') = Len(log) + 1 /\ log' = Append(log, e)
     /\ MayFollow(e.kind)
     /\ pending' = (e.kind \in CommandKinds)

\* The application answers, drops the Responder, or drops its handle.
Answered == pending /\ pending' = FALSE /\ log' = log

Next == Says \/ Answered

Spec == Init /\ [][Next]_<<log, pending>>
=============================================================================
