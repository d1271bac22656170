----------------------------- MODULE FakePlayer -----------------------------
(***************************************************************************)
(* The player of examples/fake_player.rs: what its handlers do with the    *)
(* commands and notifications of a session, and what the server learns     *)
(* from its answers.  The session delivers one event after the other, in   *)
(* order, and waits for the answer to a command (SessionRunner), so that a *)
(* handler is one step; between two of them only time passes.              *)
(*                                                                         *)
(* Time is counted in units of which a track has a few.  The settings that *)
(* the player only stores or echoes (shuffle_enabled, renderer_id, volume, *)
(* muted, buffer state) are left out.                                      *)
(*                                                                         *)
(* A definition whose name has a suffix, IsOver_Late for instance, is the  *)
(* definition below it with a plausible bug.                               *)
(***************************************************************************)
EXTENDS Integers, Sequences

CONSTANTS
  Items,         \* queue_item_ids, a u64 each
  Queues,        \* the queues the server sends
  Durations,     \* of tracks; None for an item without a track_id
  Seeks,         \* the positions the server sends
  Restored,      \* the queue indices of other renderers' states
  I32Modulus, U64Modulus, MaxU32,   \* 2^32, 2^64, 2^32 - 1 in the code
  MaxElapsed,    \* bound: time stops when the player's timestamp is so old
  None

ASSUME FakePlayerAssumption ==
  /\ Items \subseteq Nat /\ Queues \subseteq Seq(Items)
  /\ Durations \subseteq (Nat \ {0}) \cup {None}
  /\ MaxU32 \in Nat /\ Seeks \subseteq 0 .. MaxU32 /\ Restored \subseteq Nat
  /\ I32Modulus \in Nat \ {0} /\ U64Modulus \in Nat \ {0} /\ MaxElapsed \in Nat
  /\ None \notin Int

PlayingStates == {"Unknown", "Stopped", "Playing", "Paused"}
LoopModes == {"Off", "Unknown", "RepeatOne", "RepeatAll"}

VARIABLES
  state,
  position_at_timestamp,
  elapsed,               \* since position_timestamp
  current_track_index,   \* counts from 0, or None
  queue,
  loop_mode,
  duration,   \* of each item
  active,     \* the device is the session's active renderer
  told        \* what the server believes of the active renderer, or None

vars == <<state, position_at_timestamp, elapsed, current_track_index, queue,
          loop_mode, duration, active, told>>

-----------------------------------------------------------------------------
\* u32 and its saturating_add; the casts between u64 and i32.
SatAdd(a, b) == IF a + b > MaxU32 THEN MaxU32 ELSE a + b
AsU32(n) == n % (MaxU32 + 1)
AsI32(n) == LET w == n % I32Modulus IN IF 2 * w >= I32Modulus THEN w - I32Modulus ELSE w
AsU64(i) == IF i < 0 THEN U64Modulus + i ELSE i

CurrentPosition ==
  IF state = "Playing" THEN SatAdd(position_at_timestamp, AsU32(elapsed))
  ELSE position_at_timestamp

\* The track current_track_index points to; it may point behind the queue.
OnTrack == current_track_index # None /\ current_track_index < Len(queue)
CurrentItem == IF OnTrack THEN queue[current_track_index + 1] ELSE None
CurrentQueueItemId == IF OnTrack THEN AsI32(CurrentItem) ELSE None
CurrentDuration == IF OnTrack THEN duration[CurrentItem] ELSE None

\* Where an item is in a queue, from the i32 it is reported as.
FindTrackIndex(q, id) ==
  LET found == {k \in DOMAIN q : q[k] = AsU64(id)} IN
  IF found = {} THEN None ELSE (CHOOSE k \in found : \A j \in found : k <= j) - 1

RendererState_Stored ==
  [state |-> state, position |-> position_at_timestamp, item |-> CurrentQueueItemId]
RendererState ==
  [state |-> state, position |-> CurrentPosition, item |-> CurrentQueueItemId]

SetPosition(p) == position_at_timestamp' = p /\ elapsed' = 0
KeepPosition == UNCHANGED <<position_at_timestamp, elapsed>>

\* The server takes an answer for its picture of the renderer it listens to.
Answers == told' = IF active THEN RendererState' ELSE told

\* get_duration draws a track's duration when asked first, and keeps it.
Provider == [Items -> Durations]

Init ==
  /\ state = "Stopped" /\ position_at_timestamp = 0 /\ elapsed = 0
  /\ current_track_index = None /\ queue = <<>> /\ loop_mode = "Off"
  /\ duration \in Provider
  /\ active = FALSE /\ told = None

-----------------------------------------------------------------------------
\* A position is kept across a change to or from Playing by storing what has been
\* played so far.
MovePosition_NoSnapshot(new, pos) ==
  IF pos # None THEN SetPosition(pos)
  ELSE IF state # "Playing" /\ new = "Playing" THEN SetPosition(CurrentPosition)
  ELSE KeepPosition
MovePosition(new, pos) ==
  IF pos # None THEN SetPosition(pos)
  ELSE IF (state = "Playing") # (new = "Playing") THEN SetPosition(CurrentPosition)
  ELSE KeepPosition

\* The server's request; None: the field is absent.  An item that is not in the
\* queue is ignored.
HandlePlaybackCommand(newState, pos, item) ==
  LET new   == IF newState = None THEN state ELSE newState
      found == IF item = None THEN None ELSE FindTrackIndex(queue, AsI32(item))
      index == IF found = None THEN current_track_index ELSE found
      first == new = "Playing" /\ index = None /\ queue # <<>>
  IN
  /\ MovePosition(new, pos)
  /\ state' = new
  /\ current_track_index' = IF first THEN 0 ELSE index
  /\ UNCHANGED <<queue, loop_mode, duration, active>>
  /\ Answers

\* The queue was changed by somebody.  The current track is looked for in the new
\* one; without a current track the index stays what it is.
HandleQueueUpdate_KeepsIndex(q) ==
  /\ queue' = q
  /\ KeepPosition
  /\ UNCHANGED <<state, current_track_index, loop_mode, duration, active, told>>
HandleQueueUpdate(q) ==
  LET index == FindTrackIndex(q, CurrentQueueItemId)
      lost  == OnTrack /\ index = None
  IN
  /\ queue' = q
  /\ current_track_index' = IF OnTrack THEN index ELSE current_track_index
  /\ state' = IF lost THEN "Stopped" ELSE state
  /\ IF lost THEN SetPosition(0) ELSE KeepPosition
  /\ UNCHANGED <<loop_mode, duration, active, told>>

HandleLoopModeSet(mode) ==
  /\ loop_mode' = mode
  /\ UNCHANGED <<state, position_at_timestamp, elapsed, current_track_index, queue,
                 duration, active, told>>

\* The activation's answer carries the player's state, which the session does not
\* pass on to the server.
HandleActivate ==
  /\ ~active /\ active' = TRUE
  /\ UNCHANGED <<state, position_at_timestamp, elapsed, current_track_index, queue,
                 loop_mode, duration, told>>

HandleDeactivate ==
  /\ active /\ active' = FALSE
  /\ state' = "Stopped" /\ told' = None
  /\ UNCHANGED <<position_at_timestamp, elapsed, current_track_index, queue,
                 loop_mode, duration>>

\* The session ended; the player goes on, and a later session finds it as it is.
SessionEnds ==
  /\ active /\ active' = FALSE /\ told' = None
  /\ UNCHANGED <<state, position_at_timestamp, elapsed, current_track_index, queue,
                 loop_mode, duration>>

\* The state of another renderer, which comes only while the device is not active.
HandleRestoreState(pos, index) ==
  /\ ~active
  /\ SetPosition(IF pos = None THEN 0 ELSE pos)
  /\ current_track_index' = IF index = None THEN current_track_index ELSE index
  /\ UNCHANGED <<state, queue, loop_mode, duration, active, told>>

-----------------------------------------------------------------------------
\* tick: the track is over.
IsOver_Late ==
  /\ state = "Playing" /\ CurrentDuration # None
  /\ CurrentPosition > CurrentDuration
IsOver ==
  /\ state = "Playing" /\ CurrentDuration # None
  /\ CurrentPosition >= CurrentDuration

IsLast_Never == FALSE
IsLast == loop_mode \in {"Off", "Unknown"} /\ current_track_index + 1 >= Len(queue)

\* The track after the current one; the queue has one, since it has the current.  The
\* answer reads the clock late after the position is set.
AdvanceTrack(late) ==
  /\ position_at_timestamp' = 0 /\ elapsed' = late
  /\ IF IsLast THEN state' = "Stopped" /\ UNCHANGED current_track_index
     ELSE /\ current_track_index' =
               IF loop_mode = "RepeatOne" THEN current_track_index
               ELSE (current_track_index + 1) % Len(queue)
          /\ UNCHANGED state

\* A heartbeat, which the session calls for while the device is active, is the
\* only time the player looks whether its track is over.  It is answered only if
\* the player plays on, with a second reading of the clock, which may have gone on
\* since the first.  (What the other handlers answer rests on one reading.)
Heartbeat ==
  \E late \in {0, 1} :
    /\ active
    /\ IF IsOver THEN AdvanceTrack(late)
       ELSE /\ elapsed' = elapsed + late
            /\ UNCHANGED <<state, position_at_timestamp, current_track_index>>
    /\ elapsed' <= MaxElapsed
    /\ UNCHANGED <<queue, loop_mode, duration, active>>
    /\ IF state' = "Playing" THEN Answers ELSE late = 0 /\ UNCHANGED told

\* A unit of time; the server lets its picture run on.
Time ==
  /\ elapsed < MaxElapsed
  /\ elapsed' = elapsed + 1
  /\ told' = IF told # None /\ told.state = "Playing"
             THEN [told EXCEPT !.position = SatAdd(@, 1)] ELSE told
  /\ UNCHANGED <<state, position_at_timestamp, current_track_index, queue,
                 loop_mode, duration, active>>

Optional(S) == S \cup {None}

Next ==
  \/ \E s \in Optional(PlayingStates), p \in Optional(Seeks), i \in Optional(Items) :
       HandlePlaybackCommand(s, p, i)
  \/ \E q \in Queues : HandleQueueUpdate(q)
  \/ \E m \in LoopModes : HandleLoopModeSet(m)
  \/ HandleActivate
  \/ HandleDeactivate
  \/ SessionEnds
  \/ \E p \in Optional(Seeks), k \in Optional(Restored) : HandleRestoreState(p, k)
  \/ Heartbeat
  \/ Time

Spec == Init /\ [][Next]_vars

=============================================================================
