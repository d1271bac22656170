------------------------ MODULE FakePlayerProperties ------------------------
(* What the player owes the server and its listeners.                      *)
EXTENDS FakePlayer

\* What the server extrapolates from the last answer is where the player is,
\* through pauses, seeks, heartbeats and changes of the queue, whenever it has the
\* state and the track right.  (It may have these wrong: the end of the queue and
\* the loss of the track are not reported, nor a track that a new queue puts under
\* a restored index.)
ServerFollows ==
  told # None /\ told.state = state /\ told.item = CurrentQueueItemId /\ OnTrack
    => told.position = CurrentPosition

\* The position a playing device answers a heartbeat with lies inside the track it
\* answers with, even if several tracks' time has passed since the last one; at the
\* track's very end at most, which it may reach after it was judged.
InsideTheTrack ==
  [][Heartbeat /\ state' = "Playing" /\ CurrentDuration' # None
       => told'.position <= CurrentDuration']_vars

\* A queue that is edited under the player does not disturb the track it is on, as
\* long as that is in the new queue: same track, same state, same position.  Ids
\* from 2^31 on do not survive the way through i32.
KeepsTheTrack ==
  [][queue' # queue /\ OnTrack /\ 2 * CurrentItem < I32Modulus
       /\ (\E k \in DOMAIN queue' : queue'[k] = CurrentItem)
     => /\ CurrentItem' = CurrentItem
        /\ state' = state /\ CurrentPosition' = CurrentPosition]_vars

P == INSTANCE Playhead WITH playing <- state = "Playing", head <- CurrentPosition,
                            item <- CurrentItem
\* Elapsed time, snapshots and timestamps amount to a head that moves only with
\* time, by a request, at the end of a track or when its track is gone.
ImplementsPlayhead == P!Spec

\* Time passes, and the session calls for heartbeats every 10 seconds.
FairSpec == Spec /\ WF_vars(Time) /\ WF_vars(Heartbeat)

\* Left alone, an active player without a loop comes to the end of its queue,
\* unless it is on no track or on one of unknown length.
EndsAtTheEnd ==
  <>[][Heartbeat \/ Time]_vars
    => []<>~(/\ active /\ state = "Playing" /\ CurrentDuration # None
             /\ loop_mode \in {"Off", "Unknown"})
=============================================================================
