------------------------------ MODULE Playhead ------------------------------
(***************************************************************************)
(* A player as a listener knows it: a head over one track of a queue,      *)
(* which moves with the time while it plays, and jumps only where somebody *)
(* puts it or the track ends.  FakePlayer implements it.                   *)
(***************************************************************************)
EXTENDS Naturals

CONSTANTS Items, Seeks, MaxU32, None

VARIABLES playing, head,
          item,       \* the track under the head, or None
          duration,   \* of each track, or None
          active      \* the player is the one listened to

Init ==
  playing = FALSE /\ head = 0 /\ item = None /\ active = FALSE

Plays ==
  /\ playing /\ head' = (IF head < MaxU32 THEN head + 1 ELSE head)
  /\ UNCHANGED <<playing, item>>

\* A command starts, stops, changes tracks or seeks, or several of these.
Commanded ==
  /\ playing' \in BOOLEAN /\ item' \in Items \cup {None}
  /\ head' \in {head} \cup Seeks

\* Somebody else's position is taken over.
TakesOver ==
  ~active /\ playing' = playing /\ head' \in {0} \cup Seeks /\ item' \in Items \cup {None}

\* The end of a track, never before it: the next one from its start, of which a unit
\* may already be played, or silence.
TrackEnds ==
  /\ playing /\ item # None /\ duration[item] # None /\ head >= duration[item]
  /\ IF playing' THEN item' \in Items /\ head' \in {0, 1} ELSE item' = item /\ head' = 0

\* The queue no longer has the track.
TrackLost == item # None /\ item' = None /\ ~playing' /\ head' = 0

\* Deactivated: the head may fall back to where it was last put.
PutAway == active /\ ~active' /\ ~playing' /\ head' <= head /\ item' = item

Next ==
  /\ \/ (Plays \/ Commanded \/ TakesOver \/ TrackEnds \/ TrackLost) /\ UNCHANGED active
     \/ PutAway
     \/ active' = ~active /\ UNCHANGED <<playing, head, item>>
  /\ UNCHANGED duration

Spec == Init /\ [][Next]_<<playing, head, item, duration, active>>
=============================================================================
