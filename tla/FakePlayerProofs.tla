-------------------------- MODULE FakePlayerProofs --------------------------
(***************************************************************************)
(* Theorems about FakePlayer, for every value of its constants, as long as *)
(* the milliseconds since the player's timestamp fit into a u32.           *)
(***************************************************************************)
EXTENDS FakePlayerProperties, WellFoundedInduction, TLAPS

Positions == 0 .. MaxU32

PlayerType ==
  /\ state \in PlayingStates /\ active \in BOOLEAN
  /\ position_at_timestamp \in Positions
  /\ elapsed \in Nat /\ elapsed <= MaxElapsed
  /\ current_track_index \in Nat \cup {None}
  /\ queue \in Seq(Items)
  /\ duration \in [Items -> Durations]

-----------------------------------------------------------------------------
(* The operators.                                                          *)

LEMMA NoneIsNoNumber == \A n \in Int : n # None
BY FakePlayerAssumption

LEMMA NoneIsNoItem == \A i \in Items : i \in Nat /\ i # None
BY FakePlayerAssumption, NoneIsNoNumber

LEMMA Small ==
  ASSUME NEW m \in Nat \ {0}, NEW n \in Nat, n < m
  PROVE  n % m = n
OBVIOUS

LEMMA SatAddType ==
  ASSUME NEW a \in Positions, NEW b \in Nat
  PROVE  SatAdd(a, b) \in Positions /\ a <= SatAdd(a, b) /\ SatAdd(a, 0) = a
BY FakePlayerAssumption DEF SatAdd, Positions

LEMMA AsU32Type == \A n \in Nat : AsU32(n) \in Nat
BY FakePlayerAssumption DEF AsU32

LEMMA AsU32Small ==
  ASSUME NEW n \in Nat, n <= MaxU32
  PROVE  AsU32(n) = n
BY FakePlayerAssumption, Small DEF AsU32

LEMMA AsI32Type == \A n \in Nat : AsI32(n) \in Int
BY FakePlayerAssumption DEF AsI32

\* Every set of naturals that is not empty has a least element.
LEMMA LeastExists ==
  ASSUME NEW S, S \subseteq Nat, S # {}
  PROVE  \E k \in S : \A j \in S : k <= j
<1> DEFINE R == OpToRel(<, Nat)
<1>1. IsWellFoundedOn(R, Nat)
  BY NatLessThanWellFounded
<1> HIDE DEF R
<1>2. PICK k \in S : \A j \in S : ~(<<j, k>> \in R)
  BY <1>1, WFMin
<1>3. \A j \in S : ~(j < k)
  BY <1>2 DEF R, OpToRel
<1> QED  BY <1>2, <1>3

LEMMA FindTrackIndexType ==
  ASSUME NEW q \in Seq(Items), NEW id, FindTrackIndex(q, id) # None
  PROVE  /\ FindTrackIndex(q, id) \in Nat
         /\ FindTrackIndex(q, id) < Len(q)
         /\ q[FindTrackIndex(q, id) + 1] = AsU64(id)
<1> DEFINE found == {k \in DOMAIN q : q[k] = AsU64(id)}
           first == CHOOSE k \in found : \A j \in found : k <= j
<1>1. found # {} /\ found \subseteq Nat
  BY DEF FindTrackIndex
<1>2. first \in found
  <2>1. \E k \in found : \A j \in found : k <= j
    BY <1>1, LeastExists
  <2> QED  BY <2>1
<1>3. FindTrackIndex(q, id) = first - 1
  BY <1>1 DEF FindTrackIndex
<1> HIDE DEF first
<1>4. first \in 1 .. Len(q) /\ q[first] = AsU64(id)
  BY <1>2
<1> QED  BY <1>3, <1>4

-----------------------------------------------------------------------------
(* Type correctness.                                                       *)

LEMMA TrackTypes ==
  ASSUME PlayerType
  PROVE  /\ OnTrack => current_track_index \in Nat /\ current_track_index + 1 \in 1 .. Len(queue)
         /\ OnTrack => CurrentItem \in Items
         /\ ~OnTrack => CurrentItem = None
         /\ CurrentPosition \in Positions /\ position_at_timestamp <= CurrentPosition
<1>1. OnTrack => current_track_index \in Nat /\ current_track_index + 1 \in 1 .. Len(queue)
  BY DEF PlayerType, OnTrack
<1>2. OnTrack => CurrentItem \in Items
  BY <1>1 DEF PlayerType, CurrentItem
<1>3. AsU32(elapsed) \in Nat
  BY AsU32Type DEF PlayerType
<1>4. CurrentPosition \in Positions /\ position_at_timestamp <= CurrentPosition
  BY <1>3, SatAddType DEF PlayerType, CurrentPosition, Positions
<1> QED  BY <1>1, <1>2, <1>4 DEF CurrentItem

\* SetPosition keeps the types of what it sets.
LEMMA SetPositionType ==
  ASSUME NEW p \in Positions, SetPosition(p)
  PROVE  position_at_timestamp' \in Positions /\ elapsed' \in Nat /\ elapsed' <= MaxElapsed
BY FakePlayerAssumption DEF SetPosition

LEMMA MovePositionType ==
  ASSUME PlayerType, NEW new, NEW pos \in Optional(Seeks), MovePosition(new, pos)
  PROVE  position_at_timestamp' \in Positions /\ elapsed' \in Nat /\ elapsed' <= MaxElapsed
<1>1. pos # None => pos \in Positions
  BY FakePlayerAssumption DEF Optional, Positions
<1>2. CASE SetPosition(pos) /\ pos # None
  BY <1>1, <1>2, SetPositionType
<1>3. CASE SetPosition(CurrentPosition)
  BY <1>3, TrackTypes, SetPositionType
<1>4. CASE KeepPosition
  BY <1>4 DEF KeepPosition, PlayerType
<1> QED  BY <1>2, <1>3, <1>4 DEF MovePosition

LEMMA TypeInductive ==
  /\ Init => PlayerType
  /\ PlayerType /\ [Next]_vars => PlayerType'
<1>1. ASSUME Init PROVE PlayerType
  <2>1. elapsed \in Nat /\ elapsed <= MaxElapsed /\ position_at_timestamp \in Positions
    BY <1>1, FakePlayerAssumption DEF Init, Positions
  <2>2. state \in PlayingStates /\ queue \in Seq(Items) /\ duration \in [Items -> Durations]
    BY <1>1 DEF Init, PlayingStates, Provider
  <2>3. active \in BOOLEAN /\ current_track_index \in Nat \cup {None}
    BY <1>1 DEF Init
  <2> QED  BY <2>1, <2>2, <2>3 DEF PlayerType
<1>2. ASSUME PlayerType, [Next]_vars PROVE PlayerType'
  <2>0. 0 \in Positions
    BY FakePlayerAssumption DEF Positions
  <2>1. ASSUME NEW s \in Optional(PlayingStates), NEW p \in Optional(Seeks),
               NEW i \in Optional(Items), HandlePlaybackCommand(s, p, i)
        PROVE  PlayerType'
    <3>1. position_at_timestamp' \in Positions /\ elapsed' \in Nat /\ elapsed' <= MaxElapsed
      BY <1>2, <2>1, MovePositionType DEF HandlePlaybackCommand
    <3>2. state' \in PlayingStates
      BY <1>2, <2>1 DEF HandlePlaybackCommand, Optional, PlayerType
    <3>3. current_track_index' \in Nat \cup {None}
      BY <1>2, <2>1, FindTrackIndexType DEF HandlePlaybackCommand, PlayerType
    <3> QED  BY <1>2, <2>1, <3>1, <3>2, <3>3 DEF HandlePlaybackCommand, PlayerType
  <2>2. ASSUME NEW q \in Queues, HandleQueueUpdate(q) PROVE PlayerType'
    <3>1. q \in Seq(Items)
      BY FakePlayerAssumption
    <3>2. position_at_timestamp' \in Positions /\ elapsed' \in Nat /\ elapsed' <= MaxElapsed
      BY <1>2, <2>0, <2>2, SetPositionType DEF HandleQueueUpdate, KeepPosition, PlayerType
    <3>3. current_track_index' \in Nat \cup {None}
      BY <1>2, <2>2, <3>1, FindTrackIndexType DEF HandleQueueUpdate, PlayerType
    <3> QED  BY <1>2, <2>2, <3>1, <3>2, <3>3 DEF HandleQueueUpdate, PlayerType, PlayingStates
  <2>3. ASSUME NEW m \in LoopModes, HandleLoopModeSet(m) PROVE PlayerType'
    BY <1>2, <2>3 DEF HandleLoopModeSet, PlayerType
  <2>4. CASE HandleActivate
    BY <1>2, <2>4 DEF HandleActivate, PlayerType
  <2>5. CASE HandleDeactivate \/ SessionEnds
    BY <1>2, <2>5 DEF HandleDeactivate, SessionEnds, PlayerType, PlayingStates
  <2>6. ASSUME NEW p \in Optional(Seeks), NEW k \in Optional(Restored), HandleRestoreState(p, k)
        PROVE  PlayerType'
    <3>1. (IF p = None THEN 0 ELSE p) \in Positions
      BY <2>0, FakePlayerAssumption DEF Optional, Positions
    <3>2. position_at_timestamp' \in Positions /\ elapsed' \in Nat /\ elapsed' <= MaxElapsed
      BY <2>6, <3>1, SetPositionType DEF HandleRestoreState
    <3> QED  BY <1>2, <2>6, <3>2, FakePlayerAssumption DEF HandleRestoreState, PlayerType, Optional
  <2>7. CASE Heartbeat
    <3>1. CASE IsOver
      <4>1. OnTrack
        BY <3>1 DEF IsOver, CurrentDuration
      <4>2. position_at_timestamp' \in Positions /\ elapsed' \in Nat /\ elapsed' <= MaxElapsed
        BY <2>0, <2>7, <3>1 DEF Heartbeat, AdvanceTrack
      <4>3. current_track_index' \in Nat \cup {None}
        BY <1>2, <2>7, <3>1, <4>1, TrackTypes DEF Heartbeat, AdvanceTrack, PlayerType
      <4>4. state' \in PlayingStates
        BY <1>2, <2>7, <3>1 DEF Heartbeat, AdvanceTrack, PlayerType, PlayingStates
      <4> QED  BY <1>2, <2>7, <4>2, <4>3, <4>4 DEF Heartbeat, PlayerType
    <3>2. CASE ~IsOver
      BY <1>2, <2>7, <3>2 DEF Heartbeat, PlayerType
    <3> QED  BY <3>1, <3>2
  <2>8. CASE Time
    BY <1>2, <2>8, FakePlayerAssumption DEF Time, PlayerType
  <2>9. CASE UNCHANGED vars
    BY <1>2, <2>9 DEF vars, PlayerType
  <2> QED  BY <1>2, <2>1, <2>2, <2>3, <2>4, <2>5, <2>6, <2>7, <2>8, <2>9 DEF Next
<1> QED  BY <1>1, <1>2

\* The player's fields have their types.
THEOREM PlayerTypeCorrect == Spec => []PlayerType
BY TypeInductive, PTL DEF Spec

-----------------------------------------------------------------------------
(* How the position moves.                                                 *)

\* The clock does not wrap around while a position is extrapolated.
Timed == MaxElapsed <= MaxU32

LEMMA PositionSet ==
  ASSUME NEW p \in Positions, SetPosition(p)
  PROVE  CurrentPosition' = p
<1>1. AsU32(0) = 0
  BY FakePlayerAssumption, AsU32Small
<1>2. position_at_timestamp' = p /\ elapsed' = 0
  BY DEF SetPosition
<1>3. SatAdd(p, AsU32(0)) = p
  BY <1>1, SatAddType, 0 \in Nat
<1> QED  BY <1>2, <1>3 DEF CurrentPosition

LEMMA PositionKept ==
  ASSUME KeepPosition, state' = "Playing" <=> state = "Playing"
  PROVE  CurrentPosition' = CurrentPosition
BY DEF KeepPosition, CurrentPosition

LEMMA PositionMoved ==
  ASSUME PlayerType, NEW new, NEW pos \in Optional(Seeks), MovePosition(new, pos), state' = new
  PROVE  CurrentPosition' = IF pos = None THEN CurrentPosition ELSE pos
<1>1. CASE pos # None
  <2>1. pos \in Positions
    BY <1>1, FakePlayerAssumption DEF Optional, Positions
  <2> QED  BY <1>1, <2>1, PositionSet DEF MovePosition
<1>2. CASE pos = None /\ (state = "Playing") # (new = "Playing")
  BY <1>2, TrackTypes, PositionSet DEF MovePosition
<1>3. CASE pos = None /\ ~((state = "Playing") # (new = "Playing"))
  BY <1>3, PositionKept DEF MovePosition
<1> QED  BY <1>1, <1>2, <1>3

LEMMA PositionRuns ==
  ASSUME Timed, PlayerType, NEW n \in {0, 1}, elapsed' = elapsed + n, elapsed' <= MaxElapsed,
         UNCHANGED <<position_at_timestamp, state>>
  PROVE  CurrentPosition' =
           IF state = "Playing" THEN SatAdd(CurrentPosition, n) ELSE CurrentPosition
<1>1. elapsed \in Nat /\ elapsed + n \in Nat /\ elapsed + n <= MaxU32 /\ elapsed <= MaxU32
  BY FakePlayerAssumption DEF Timed, PlayerType
<1>2. AsU32(elapsed) = elapsed /\ AsU32(elapsed + n) = elapsed + n
  BY <1>1, AsU32Small
<1>3. SatAdd(position_at_timestamp, elapsed + n) = SatAdd(SatAdd(position_at_timestamp, elapsed), n)
  BY <1>1, FakePlayerAssumption DEF SatAdd, PlayerType, Positions
<1> QED  BY <1>1, <1>2, <1>3 DEF CurrentPosition

LEMMA PositionInTime ==
  ASSUME Timed, PlayerType, Time
  PROVE  CurrentPosition' =
           IF state = "Playing" THEN SatAdd(CurrentPosition, 1) ELSE CurrentPosition
<1>1. elapsed' = elapsed + 1 /\ elapsed' <= MaxElapsed /\ UNCHANGED <<position_at_timestamp, state>>
  BY FakePlayerAssumption DEF PlayerType, Time
<1> QED  BY <1>1, PositionRuns

\* A heartbeat that finds the track not over lets it run, a unit at most.
LEMMA BeatRuns ==
  ASSUME Timed, PlayerType, Heartbeat, ~IsOver
  PROVE  /\ UNCHANGED <<state, current_track_index, queue, duration, active>>
         /\ \/ CurrentPosition' = CurrentPosition
            \/ state = "Playing" /\ CurrentPosition' = SatAdd(CurrentPosition, 1)
<1>1. PICK late \in {0, 1} :
        /\ elapsed' = elapsed + late /\ elapsed' <= MaxElapsed
        /\ UNCHANGED <<state, position_at_timestamp, current_track_index, queue, duration, active>>
  BY DEF Heartbeat
<1>2. CurrentPosition' = IF state = "Playing" THEN SatAdd(CurrentPosition, late) ELSE CurrentPosition
  BY <1>1, PositionRuns
<1>3. SatAdd(CurrentPosition, 0) = CurrentPosition
  BY TrackTypes, SatAddType, 0 \in Nat
<1> QED  BY <1>1, <1>2, <1>3

LEMMA ItemType ==
  /\ PlayerType => CurrentItem \in Items \cup {None}
  /\ PlayerType' => CurrentItem' \in Items \cup {None}
  /\ PlayerType' /\ OnTrack' => CurrentItem' \in Items
<1>1. PlayerType => CurrentItem \in Items \cup {None}
  BY TrackTypes
<1>2. ASSUME PlayerType', OnTrack' PROVE CurrentItem' \in Items
  BY <1>2 DEF PlayerType, OnTrack, CurrentItem
<1> QED  BY <1>1, <1>2 DEF CurrentItem

\* The end of a track: on to another one, from its start, or silence.
LEMMA TrackEnded ==
  ASSUME Timed, PlayerType, PlayerType', IsOver, Heartbeat
  PROVE  /\ OnTrack /\ CurrentDuration = duration[CurrentItem]
         /\ IF state' = "Playing" THEN OnTrack' /\ CurrentPosition' \in {0, 1}
            ELSE CurrentItem' = CurrentItem /\ OnTrack' /\ CurrentPosition' = 0
<1>1. OnTrack /\ CurrentDuration = duration[CurrentItem]
  BY DEF IsOver, CurrentDuration
<1>2. CurrentPosition' \in {0, 1} /\ (state' # "Playing" => CurrentPosition' = 0)
  <2>1. PICK late \in {0, 1} : position_at_timestamp' = 0 /\ elapsed' = late /\ late <= MaxElapsed
    BY DEF Heartbeat, AdvanceTrack
  <2>2. late \in Nat /\ late <= MaxU32
    BY <2>1, FakePlayerAssumption DEF Timed
  <2>3. AsU32(late) = late
    BY <2>2, AsU32Small
  <2>4. SatAdd(0, late) = late
    BY <2>2, FakePlayerAssumption DEF SatAdd
  <2> QED  BY <2>1, <2>3, <2>4 DEF CurrentPosition
<1>3. queue' = queue /\ current_track_index \in Nat /\ current_track_index < Len(queue)
      /\ current_track_index # None /\ Len(queue) \in Nat \ {0}
  BY <1>1, TrackTypes DEF Heartbeat, OnTrack, PlayerType
<1>4. CASE current_track_index' = current_track_index
  BY <1>1, <1>2, <1>3, <1>4 DEF CurrentItem, OnTrack
<1>5. CASE current_track_index' # current_track_index
  <2>1. current_track_index' = (current_track_index + 1) % Len(queue) /\ state' = state
    BY <1>5 DEF Heartbeat, AdvanceTrack
  <2>2. current_track_index' \in Nat /\ current_track_index' < Len(queue)
    BY <1>3, <2>1
  <2>3. OnTrack'
    BY <1>3, <2>2, NoneIsNoNumber DEF OnTrack
  <2>4. state' = "Playing"
    BY <2>1 DEF IsOver
  <2> QED  BY <1>1, <1>2, <2>3, <2>4
<1> QED  BY <1>4, <1>5

-----------------------------------------------------------------------------
(* The refinement.                                                         *)

LEMMA StepRefines ==
  ASSUME Timed, PlayerType, PlayerType', [Next]_vars
  PROVE  [P!Next]_<<state = "Playing", CurrentPosition, CurrentItem, duration, active>>
<1> DEFINE Same == /\ (state = "Playing")' = (state = "Playing")
                   /\ CurrentPosition' = CurrentPosition
                   /\ CurrentItem' = CurrentItem
<1>0. CurrentItem \in Items \cup {None} /\ CurrentItem' \in Items \cup {None}
  BY ItemType
<1>1. ASSUME NEW s \in Optional(PlayingStates), NEW p \in Optional(Seeks),
             NEW i \in Optional(Items), HandlePlaybackCommand(s, p, i)
      PROVE  P!Next
  <2>1. CurrentPosition' \in {CurrentPosition} \cup Seeks
    BY <1>1, PositionMoved DEF HandlePlaybackCommand, Optional
  <2>2. P!Commanded
    BY <1>0, <2>1 DEF P!Commanded
  <2> QED  BY <1>1, <2>2 DEF HandlePlaybackCommand, P!Next
<1>2. ASSUME NEW q \in Queues, HandleQueueUpdate(q) PROVE P!Next
  <2> DEFINE lost == OnTrack /\ FindTrackIndex(q, CurrentQueueItemId) = None
  <2>1. CASE lost
    <3>1. CurrentPosition' = 0
      <4>1. 0 \in Positions
        BY FakePlayerAssumption DEF Positions
      <4> QED  BY <1>2, <2>1, <4>1, PositionSet DEF HandleQueueUpdate
    <3>2. CurrentItem # None /\ CurrentItem' = None /\ state' # "Playing"
      <4>1. current_track_index' = None /\ state' = "Stopped"
        BY <1>2, <2>1 DEF HandleQueueUpdate
      <4>2. CurrentItem' = None
        BY <4>1 DEF CurrentItem, OnTrack
      <4>3. CurrentItem \in Items
        BY <2>1, TrackTypes
      <4> QED  BY <4>1, <4>2, <4>3, NoneIsNoItem
    <3>3. P!TrackLost
      BY <3>1, <3>2 DEF P!TrackLost
    <3> QED  BY <1>2, <3>3 DEF HandleQueueUpdate, P!Next
  <2>2. CASE ~lost
    <3>1. CurrentPosition' = CurrentPosition
      BY <1>2, <2>2, PositionKept DEF HandleQueueUpdate
    <3>2. P!Commanded
      BY <1>0, <3>1 DEF P!Commanded
    <3> QED  BY <1>2, <3>2 DEF HandleQueueUpdate, P!Next
  <2> QED  BY <2>1, <2>2
<1>3. ASSUME NEW m \in LoopModes, HandleLoopModeSet(m)
      PROVE  Same /\ UNCHANGED <<duration, active>>
  BY <1>3 DEF HandleLoopModeSet, CurrentPosition, CurrentItem, OnTrack
<1>4. CASE HandleActivate \/ SessionEnds
  <2>1. Same /\ duration' = duration
    BY <1>4 DEF HandleActivate, SessionEnds, CurrentPosition, CurrentItem, OnTrack
  <2>2. active' = ~active
    BY <1>4 DEF HandleActivate, SessionEnds
  <2> QED  BY <2>1, <2>2 DEF P!Next
<1>5. CASE HandleDeactivate
  <2>1. CurrentItem' = CurrentItem /\ duration' = duration
    BY <1>5 DEF HandleDeactivate, CurrentItem, OnTrack
  <2>2. CurrentPosition' <= CurrentPosition
    <3>1. CurrentPosition' = position_at_timestamp
      BY <1>5 DEF HandleDeactivate, CurrentPosition
    <3> QED  BY <3>1, TrackTypes
  <2>3. P!PutAway
    BY <1>5, <2>1, <2>2 DEF HandleDeactivate, P!PutAway
  <2> QED  BY <2>1, <2>3 DEF P!Next
<1>6. ASSUME NEW p \in Optional(Seeks), NEW k \in Optional(Restored), HandleRestoreState(p, k)
      PROVE  P!Next
  <2> DEFINE pos == IF p = None THEN 0 ELSE p
  <2>1. pos \in Positions /\ pos \in {0} \cup Seeks
    BY FakePlayerAssumption DEF Optional, Positions
  <2>2. CurrentPosition' = pos
    BY <1>6, <2>1, PositionSet DEF HandleRestoreState
  <2>3. P!TakesOver
    BY <1>0, <1>6, <2>1, <2>2 DEF HandleRestoreState, P!TakesOver
  <2> QED  BY <1>6, <2>3 DEF HandleRestoreState, P!Next
<1>7. CASE Heartbeat
  <2>1. CASE IsOver
    <3>1. /\ OnTrack /\ CurrentDuration = duration[CurrentItem]
          /\ IF state' = "Playing" THEN OnTrack' /\ CurrentPosition' \in {0, 1}
             ELSE CurrentItem' = CurrentItem /\ CurrentPosition' = 0
      BY <1>7, <2>1, TrackEnded
    <3>2. CurrentItem # None /\ (state' = "Playing" => CurrentItem' \in Items)
      BY <3>1, TrackTypes, ItemType, NoneIsNoItem
    <3>3. P!TrackEnds
      BY <2>1, <3>1, <3>2 DEF IsOver, P!TrackEnds
    <3> QED  BY <1>7, <3>3 DEF Heartbeat, P!Next
  <2>2. CASE ~IsOver
    <3>1. /\ UNCHANGED <<state, duration, active, CurrentItem>>
          /\ \/ CurrentPosition' = CurrentPosition
             \/ state = "Playing" /\ CurrentPosition' = SatAdd(CurrentPosition, 1)
      BY <1>7, <2>2, BeatRuns DEF CurrentItem, OnTrack
    <3>2. CASE CurrentPosition' = CurrentPosition
      BY <3>1, <3>2
    <3>3. CASE state = "Playing" /\ CurrentPosition' = SatAdd(CurrentPosition, 1)
      <4>1. CurrentPosition \in Positions
        BY TrackTypes
      <4>2. P!Plays
        BY <3>1, <3>3, <4>1, FakePlayerAssumption DEF SatAdd, Positions, P!Plays
      <4> QED  BY <3>1, <4>2 DEF P!Next
    <3> QED  BY <3>1, <3>2, <3>3
  <2> QED  BY <2>1, <2>2
<1>8. CASE Time
  <2>1. CurrentItem' = CurrentItem /\ state' = state /\ UNCHANGED <<duration, active>>
    BY <1>8 DEF Time, CurrentItem, OnTrack
  <2>2. CASE state = "Playing"
    <3>1. CurrentPosition' = SatAdd(CurrentPosition, 1) /\ CurrentPosition \in Positions
      BY <1>8, <2>2, PositionInTime, TrackTypes
    <3>2. P!Plays
      BY <2>1, <2>2, <3>1, FakePlayerAssumption DEF SatAdd, Positions, P!Plays
    <3> QED  BY <2>1, <3>2 DEF P!Next
  <2>3. CASE state # "Playing"
    BY <1>8, <2>1, <2>3, PositionInTime
  <2> QED  BY <2>2, <2>3
<1>9. CASE UNCHANGED vars
  BY <1>9 DEF vars, CurrentPosition, CurrentItem, OnTrack
<1> QED  BY <1>1, <1>2, <1>3, <1>4, <1>5, <1>6, <1>7, <1>8, <1>9 DEF Next

\* Whatever the server, other renderers and the clock do, the player's snapshots
\* and timestamps amount to a Playhead.
THEOREM PlayerImplementsPlayhead ==
  ASSUME Timed
  PROVE  Spec => ImplementsPlayhead
<1>1. Init => P!Init
  <2> SUFFICES ASSUME Init PROVE P!Init
    OBVIOUS
  <2>1. state # "Playing" /\ CurrentPosition = 0 /\ CurrentItem = None /\ active = FALSE
    BY DEF Init, CurrentPosition, CurrentItem, OnTrack
  <2> QED  BY <2>1 DEF P!Init
<1>2. PlayerType /\ PlayerType' /\ [Next]_vars
        => [P!Next]_<<state = "Playing", CurrentPosition, CurrentItem, duration, active>>
  BY StepRefines
<1> QED  BY <1>1, <1>2, PlayerTypeCorrect, PTL DEF Spec, P!Spec, ImplementsPlayhead

-----------------------------------------------------------------------------
(* The server's picture.                                                   *)

\* The server has heard of the active device alone.  It may have the state wrong
\* once the player stopped by itself, and the track once it is lost or was not there;
\* the position is right as long as both are.
Picture ==
  told # None =>
    /\ active
    /\ told \in [state: PlayingStates, position: Positions, item: Int \cup {None}]
    /\ told.state = state \/ state = "Stopped"
    /\ \/ told.item = None
       \/ current_track_index = None
       \/ OnTrack /\ (told.state = state => told.position = CurrentPosition)

LEMMA AnswerIsRight ==
  ASSUME PlayerType', told' = RendererState', active'
  PROVE  Picture'
<1>1. CurrentPosition' \in Positions
  <2>1. AsU32(elapsed') \in Nat
    BY AsU32Type DEF PlayerType
  <2> QED  BY <2>1, SatAddType DEF PlayerType, CurrentPosition, Positions
<1>2. CurrentQueueItemId' \in Int \cup {None}
  BY ItemType, NoneIsNoItem, AsI32Type DEF CurrentQueueItemId
<1>3. /\ told' \in [state: PlayingStates, position: Positions, item: Int \cup {None}]
      /\ told'.state = state' /\ told'.position = CurrentPosition'
      /\ told'.item = CurrentQueueItemId'
  BY <1>1, <1>2 DEF RendererState, PlayerType
<1>4. ~OnTrack' => told'.item = None
  BY <1>3 DEF CurrentQueueItemId
<1> QED  BY <1>3, <1>4 DEF Picture

\* A step that leaves the player where it is, and the server's picture.
LEMMA PictureKept ==
  ASSUME Picture, UNCHANGED <<told, active, state, current_track_index, queue>>, KeepPosition
  PROVE  Picture'
<1>1. CurrentPosition' = CurrentPosition
  BY PositionKept
<1>2. OnTrack' = OnTrack
  BY DEF OnTrack
<1> QED  BY <1>1, <1>2 DEF Picture

LEMMA PictureInductive ==
  ASSUME Timed
  PROVE  /\ Init => Picture
         /\ PlayerType /\ PlayerType' /\ Picture /\ [Next]_vars => Picture'
<1>1. Init => Picture
  BY DEF Init, Picture
<1>2. ASSUME PlayerType, PlayerType', Picture, [Next]_vars PROVE Picture'
  <2>1. ASSUME NEW s \in Optional(PlayingStates), NEW p \in Optional(Seeks),
               NEW i \in Optional(Items), HandlePlaybackCommand(s, p, i)
        PROVE  Picture'
    <3>1. CASE active
      BY <1>2, <2>1, <3>1, AnswerIsRight DEF HandlePlaybackCommand, Answers
    <3>2. CASE ~active
      BY <1>2, <2>1, <3>2 DEF HandlePlaybackCommand, Answers, Picture
    <3> QED  BY <3>1, <3>2
  <2>2. ASSUME NEW q \in Queues, HandleQueueUpdate(q) PROVE Picture'
    <3> DEFINE index == FindTrackIndex(q, CurrentQueueItemId)
    <3>1. told' = told /\ active' = active /\ queue' = q
      BY <2>2 DEF HandleQueueUpdate
    <3>2. CASE OnTrack /\ index = None
      BY <1>2, <2>2, <3>1, <3>2 DEF HandleQueueUpdate, Picture
    <3>3. CASE OnTrack /\ index # None
      <4>1. index \in Nat /\ index < Len(q)
        BY <3>3, FindTrackIndexType, FakePlayerAssumption
      <4>2. current_track_index' = index /\ state' = state /\ KeepPosition
        BY <2>2, <3>3 DEF HandleQueueUpdate
      <4>3. OnTrack'
        BY <3>1, <3>3, <4>1, <4>2 DEF OnTrack
      <4>4. CurrentPosition' = CurrentPosition
        BY <4>2, PositionKept
      <4>5. current_track_index # None
        BY <3>3 DEF OnTrack
      <4> QED  BY <1>2, <3>1, <4>2, <4>3, <4>4, <4>5 DEF Picture
    <3>4. CASE ~OnTrack
      BY <1>2, <2>2, <3>1, <3>4 DEF HandleQueueUpdate, Picture
    <3> QED  BY <3>2, <3>3, <3>4
  <2>3. ASSUME NEW m \in LoopModes, HandleLoopModeSet(m) PROVE Picture'
    BY <1>2, <2>3, PictureKept DEF HandleLoopModeSet, KeepPosition
  <2>4. CASE HandleActivate \/ HandleDeactivate \/ SessionEnds
    BY <1>2, <2>4 DEF HandleActivate, HandleDeactivate, SessionEnds, Picture
  <2>5. ASSUME NEW p \in Optional(Seeks), NEW k \in Optional(Restored), HandleRestoreState(p, k)
        PROVE  Picture'
    BY <1>2, <2>5 DEF HandleRestoreState, Picture
  <2>6. CASE Heartbeat
    <3>1. CASE state' = "Playing"
      BY <1>2, <2>6, <3>1, AnswerIsRight DEF Heartbeat, Answers
    <3>2. CASE state' # "Playing" /\ ~IsOver
      <4>1. /\ UNCHANGED <<told, active, state, current_track_index, queue>>
            /\ position_at_timestamp' = position_at_timestamp /\ elapsed' = elapsed + 0
        BY <2>6, <3>2 DEF Heartbeat
      <4>2. elapsed + 0 = elapsed
        BY <1>2 DEF PlayerType
      <4> QED  BY <1>2, <4>1, <4>2, PictureKept DEF KeepPosition
    <3>3. CASE state' # "Playing" /\ IsOver
      <4>1. OnTrack /\ OnTrack'
        BY <1>2, <2>6, <3>3, TrackEnded
      <4>2. state = "Playing" /\ state' = "Stopped" /\ told' = told /\ active' = active
        BY <2>6, <3>3 DEF Heartbeat, IsOver, AdvanceTrack
      <4> QED  BY <1>2, <4>1, <4>2 DEF Picture
    <3> QED  BY <3>1, <3>2, <3>3
  <2>7. CASE Time
    <3>1. UNCHANGED <<state, current_track_index, active>> /\ OnTrack' = OnTrack
      BY <2>7 DEF Time, OnTrack
    <3>2. CASE told # None /\ told.state = "Playing"
      <4>1. told' = [told EXCEPT !.position = SatAdd(@, 1)]
        BY <2>7, <3>2 DEF Time
      <4>2. /\ told' \in [state: PlayingStates, position: Positions, item: Int \cup {None}]
            /\ told'.position = SatAdd(told.position, 1)
            /\ told'.state = told.state /\ told'.item = told.item
        BY <1>2, <3>2, <4>1, SatAddType DEF Picture
      <4>3. told.state = state => CurrentPosition' = SatAdd(CurrentPosition, 1)
        BY <1>2, <2>7, <3>2, PositionInTime
      <4> QED  BY <1>2, <3>1, <3>2, <4>2, <4>3 DEF Picture
    <3>3. CASE told = None \/ told.state # "Playing"
      <4>1. told' = told
        BY <2>7, <3>3 DEF Time
      <4>2. state # "Playing" => CurrentPosition' = CurrentPosition
        BY <1>2, <2>7, PositionInTime
      <4> QED  BY <1>2, <3>1, <3>3, <4>1, <4>2 DEF Picture
    <3> QED  BY <3>2, <3>3
  <2>8. CASE UNCHANGED vars
    BY <1>2, <2>8, PictureKept DEF vars, KeepPosition
  <2> QED  BY <1>2, <2>1, <2>2, <2>3, <2>4, <2>5, <2>6, <2>7, <2>8 DEF Next
<1> QED  BY <1>1, <1>2

\* What the server extrapolates is where the player is, whenever it has the state
\* and the track right.
THEOREM ServerAlwaysFollows ==
  ASSUME Timed
  PROVE  Spec => []ServerFollows
<1>1. PlayerType /\ Picture => ServerFollows
  <2> SUFFICES ASSUME PlayerType, Picture, OnTrack, told # None, told.state = state,
                      told.item = CurrentQueueItemId
               PROVE  told.position = CurrentPosition
    BY DEF ServerFollows
  <2>1. told.item # None
    BY TrackTypes, NoneIsNoItem, AsI32Type, NoneIsNoNumber DEF CurrentQueueItemId
  <2>2. current_track_index # None
    BY DEF OnTrack
  <2> QED  BY <2>1, <2>2 DEF Picture
<1> QED  BY <1>1, PictureInductive, PlayerTypeCorrect, PTL DEF Spec

-----------------------------------------------------------------------------
(* Tracks that end, and tracks that stay.                                  *)

\* The position a heartbeat is answered with lies inside the track.
THEOREM HeartbeatsStayInside ==
  ASSUME Timed
  PROVE  Spec => InsideTheTrack
<1>1. ASSUME PlayerType, PlayerType', Heartbeat, state' = "Playing", CurrentDuration' # None
      PROVE  told'.position <= CurrentDuration'
  <2>0. told'.position = CurrentPosition'
    BY <1>1 DEF Heartbeat, Answers, RendererState
  <2>1. CurrentDuration' \in Nat \ {0}
    <3>1. OnTrack' /\ CurrentDuration' = duration'[CurrentItem']
      BY <1>1 DEF CurrentDuration
    <3> QED  BY <1>1, <3>1, ItemType, FakePlayerAssumption DEF PlayerType
  <2>2. CASE IsOver
    <3>1. CurrentPosition' \in {0, 1}
      BY <1>1, <2>2, TrackEnded
    <3> QED  BY <2>0, <2>1, <3>1
  <2>3. CASE ~IsOver
    <3>1. UNCHANGED <<state, CurrentDuration>>
          /\ CurrentPosition' \in {CurrentPosition, SatAdd(CurrentPosition, 1)}
      BY <1>1, <2>3, BeatRuns DEF CurrentDuration, CurrentItem, OnTrack
    <3>2. ~(CurrentPosition >= CurrentDuration)
      BY <1>1, <2>3, <3>1 DEF IsOver
    <3>3. CurrentPosition \in Nat /\ CurrentPosition + 1 >= SatAdd(CurrentPosition, 1)
          /\ CurrentPosition <= MaxU32
      BY <1>1, TrackTypes, FakePlayerAssumption DEF Positions, SatAdd
    <3>4. SatAdd(CurrentPosition, 1) \in Nat
      BY <3>3, FakePlayerAssumption DEF SatAdd
    <3> QED  BY <2>0, <2>1, <3>1, <3>2, <3>3, <3>4
  <2> QED  BY <2>2, <2>3
<1> QED  BY <1>1, PlayerTypeCorrect, PTL DEF InsideTheTrack

\* An id below 2^31 survives the way through i32.
LEMMA IdsComeBack ==
  ASSUME NEW n \in Nat, 2 * n < I32Modulus
  PROVE  AsU64(AsI32(n)) = n
<1>1. n < I32Modulus
  BY FakePlayerAssumption
<1>2. n % I32Modulus = n
  BY <1>1, Small, FakePlayerAssumption
<1> QED  BY <1>2, FakePlayerAssumption DEF AsU64, AsI32

\* A queue that still has the current track changes nothing about it.
THEOREM TracksAreKept == Spec => KeepsTheTrack
<1>1. ASSUME PlayerType, PlayerType', [Next]_vars, queue' # queue, OnTrack,
             2 * CurrentItem < I32Modulus, \E k \in DOMAIN queue' : queue'[k] = CurrentItem
      PROVE  /\ CurrentItem' = CurrentItem
             /\ state' = state /\ CurrentPosition' = CurrentPosition
  <2>1. PICK q \in Queues : HandleQueueUpdate(q)
    BY <1>1 DEF Next, vars, HandlePlaybackCommand, HandleLoopModeSet, HandleActivate,
                HandleDeactivate, SessionEnds, HandleRestoreState, Heartbeat, Time
  <2> DEFINE index == FindTrackIndex(q, CurrentQueueItemId)
  <2>2. queue' = q /\ q \in Seq(Items)
    BY <2>1, FakePlayerAssumption DEF HandleQueueUpdate
  <2>3. AsU64(CurrentQueueItemId) = CurrentItem
    BY <1>1, TrackTypes, NoneIsNoItem, IdsComeBack DEF CurrentQueueItemId
  <2>4. index # None
    <3>1. {k \in DOMAIN q : q[k] = AsU64(CurrentQueueItemId)} # {}
      BY <1>1, <2>2, <2>3
    <3> DEFINE found == {k \in DOMAIN q : q[k] = AsU64(CurrentQueueItemId)}
               first == CHOOSE k \in found : \A j \in found : k <= j
    <3>2. first \in Int
      <4>0. found # {} /\ found \subseteq Nat
        BY <2>2, <3>1
      <4>1. \E k \in found : \A j \in found : k <= j
        BY <4>0, LeastExists
      <4>2. first \in found
        BY <4>1
      <4> QED  BY <2>2, <4>2
    <3>3. index = first - 1
      BY <3>1 DEF FindTrackIndex
    <3> HIDE DEF first
    <3> QED  BY <3>2, <3>3, NoneIsNoNumber
  <2>5. index \in Nat /\ index < Len(q) /\ q[index + 1] = CurrentItem
    BY <2>2, <2>3, <2>4, FindTrackIndexType
  <2>6. current_track_index' = index /\ state' = state /\ KeepPosition
    BY <1>1, <2>1, <2>4 DEF HandleQueueUpdate
  <2> HIDE DEF index
  <2>7. CurrentItem' = CurrentItem
    BY <2>2, <2>4, <2>5, <2>6 DEF CurrentItem, OnTrack
  <2> QED  BY <2>6, <2>7, PositionKept
<1> QED  BY <1>1, PlayerTypeCorrect, PTL DEF Spec, KeepsTheTrack
=============================================================================
