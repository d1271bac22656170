----------------------------- MODULE Connection -----------------------------
(***************************************************************************)
(* One WebSocket connection as src/connection.rs uses it: spawn_session    *)
(* (src/qconnect.rs) connects, subscribes and joins, then splits it; from  *)
(* then on the runner polls the reader's stream and uses the writer.  The  *)
(* server, external, sends whole and damaged frames, other WebSocket       *)
(* messages, and at last a close frame or an error.                        *)
(*                                                                         *)
(* A definition whose name has a suffix, Split_Restarts for instance, is   *)
(* the definition below it with a plausible bug.                           *)
(***************************************************************************)
EXTENDS Envelope

CONSTANTS
  Batches,      \* of the server: ignored bytes of the payload, messages
  U32Modulus,   \* 2^32 in the code: an id is a u32
  MaxSends,     \* bound: messages the runner sends
  MaxFrames     \* bound: WebSocket messages of the server

\* A frame fits into memory.
ASSUME ConnectionAssumption ==
  /\ Batches \subseteq [ignored: Nat, messages: Nat]
  /\ \A b \in Batches : 2 + MaxVarint + b.ignored + b.messages < UsizeModulus
  /\ U32Modulus \in Nat \ {0} /\ MaxSends \in Nat /\ MaxFrames \in Nat

VARIABLES
  phase,     \* how far spawn_session is; "open": split; "closed", by the runner that
             \* then leaves; "failed": Err; "gone": the task panicked
  busy,      \* the runner is in a handler, and polls the stream only after it
  msg_id,    \* of Connection, then of ConnectionWriter
  taken,     \* history: how many ids were taken
  out,       \* what reached the WebSocket: the ids, when the frame's was taken, and
             \* the frame
  net,       \* the server's WebSocket messages that were not read yet
  nframes,
  batch,     \* what the stream has left of the batch it yields
  stream,    \* "open", "ended"
  sent,      \* history: the messages of the server's whole frames
  yielded    \* history: what the stream yielded

writing == <<phase, msg_id, taken, out>>
server == <<net, nframes, sent>>
reading == <<batch, stream, yielded>>
vars == <<writing, busy, server, reading>>

AsI32(n) == LET w == n % U32Modulus IN IF 2 * w >= U32Modulus THEN w - U32Modulus ELSE w

Init ==
  /\ phase = "connecting" /\ busy = FALSE
  /\ msg_id = 0 /\ taken = 0 /\ out = <<>>
  /\ net = <<>> /\ nframes = 0 /\ sent = <<>>
  /\ batch = <<>> /\ stream = "open" /\ yielded = <<>>

-----------------------------------------------------------------------------
\* Writing.  An id is taken before the frame is sent, and stays taken if that
\* fails.

\* Authenticate and Subscribe carry the id alone, a batch also has an id of its
\* own: the one before, as an i32.  Only a batch is longer than Base bytes here.
Frame(type, messages_id) ==
  [id |-> msg_id', nth |-> taken', messages_id |-> messages_id,
   data |-> encode_envelope(type, BatchPayload(IF type = PAYLOAD THEN Base ELSE 0, <<1>>))]

\* next_msg_id: `+= 1`.  Past the last u32 a build without overflow checks goes on
\* with 0; one with them panics instead (IdPanics).
LastId == msg_id + 1 = U32Modulus
Sends(type, messages_id, next) ==
  /\ msg_id' = IF LastId THEN 0 ELSE msg_id + 1
  /\ taken' = taken + 1
  /\ \/ out' = Append(out, Frame(type, messages_id)) /\ phase' = next
     \/ out' = out /\ phase' = IF phase = "open" THEN "open" ELSE "failed"

\* connect, which authenticates; subscribe_default; join_session.
Authenticate ==
  /\ phase = "connecting" /\ Sends(AUTHENTICATE, None, "authenticated")
  /\ UNCHANGED <<busy, server, reading>>
Subscribe ==
  /\ phase = "authenticated" /\ Sends(SUBSCRIBE, None, "subscribed")
  /\ UNCHANGED <<busy, server, reading>>
JoinSession ==
  /\ phase = "subscribed" /\ Sends(PAYLOAD, AsI32(msg_id), "joined")
  /\ UNCHANGED <<busy, server, reading>>

\* The writer goes on where the connection's ids were.
Split_Restarts ==
  /\ phase = "joined" /\ phase' = "open" /\ msg_id' = 0
  /\ UNCHANGED <<taken, out, busy, server, reading>>
Split ==
  /\ phase = "joined" /\ phase' = "open"
  /\ UNCHANGED <<msg_id, taken, out, busy, server, reading>>

\* The runner, in run(): it polls the stream (below), or its heartbeat or a command
\* starts a handler.  A handler may wait for the application as long as that takes.
Running == phase = "open" /\ stream = "open"

StartHandler ==
  /\ Running /\ ~busy /\ busy' = TRUE
  /\ UNCHANGED <<writing, server, reading>>
FinishHandler ==
  /\ Running /\ busy /\ busy' = FALSE
  /\ UNCHANGED <<writing, server, reading>>

Send ==
  /\ Running /\ busy /\ taken < MaxSends + 3
  /\ Sends(PAYLOAD, AsI32(msg_id), "open")
  /\ UNCHANGED <<busy, server, reading>>

IdPanics ==
  /\ phase \in {"connecting", "authenticated", "subscribed"} \/ (Running /\ busy)
  /\ LastId /\ taken < MaxSends + 3
  /\ phase' = "gone"
  /\ UNCHANGED <<msg_id, taken, out, busy, server, reading>>

\* The handler that closes the connection makes run() leave its loop: the reader is
\* dropped with what it has not yielded.
Close ==
  /\ Running /\ busy /\ phase' = "closed"
  /\ UNCHANGED <<msg_id, taken, out, busy, server, reading>>

-----------------------------------------------------------------------------
\* The server.

Binary(data) == [kind |-> "Binary", data |-> data]
Other == [kind |-> "Other"]      \* Ping, Pong, Text and raw frames
ServerClose == [kind |-> "Close"]
Failure == [kind |-> "Error"]    \* of the WebSocket, met by the reader

ServerDone == net # <<>> /\ net[Len(net)].kind \in {"Close", "Error"}

\* What comes before the split waits in the socket.
MaySend ==
  /\ phase \in {"joined", "open", "closed", "gone"} /\ stream = "open"
  /\ nframes < MaxFrames /\ ~ServerDone
Arrives(ws) ==
  /\ nframes' = nframes + 1 /\ net' = Append(net, ws)
  /\ UNCHANGED <<writing, busy, reading>>

\* Messages are numbered from 1 over the whole connection.
NextMessages(b) == [i \in 1 .. b.messages |-> Len(sent) + i]
NextBatch(b) == BatchPayload(b.ignored, NextMessages(b))

ServerSends ==
  /\ MaySend
  /\ \E b \in Batches :
       /\ Arrives(Binary(encode_envelope(PAYLOAD, NextBatch(b))))
       /\ sent' = sent \o NextMessages(b)

\* A frame that is cut off anywhere, has another type, or a payload without a
\* batch that decodes, or announces more bytes than a varint or an address holds.
Useless(b) ==
  LET whole == encode_envelope(PAYLOAD, NextBatch(b)) IN
  {SubSeq(whole, 1, k) : k \in 0 .. Len(whole) - 1}
    \cup {encode_envelope(ERROR, NextBatch(b)), encode_envelope(PAYLOAD, <<>>),
          encode_envelope(PAYLOAD, <<1, 1>>),
          <<PAYLOAD>> \o encode_varint[UsizeModulus - 1],
          <<PAYLOAD>> \o encode_varint[UsizeModulus]}

ServerSendsUseless ==
  /\ MaySend
  /\ \E b \in Batches : \E data \in Useless(b) : Arrives(Binary(data))
  /\ UNCHANGED sent

ServerSendsOther ==
  /\ MaySend
  /\ \E ws \in {Other, ServerClose, Failure} : Arrives(ws)
  /\ UNCHANGED sent

-----------------------------------------------------------------------------
\* The reader's stream.  A poll may be dropped at any await, and the next one goes
\* on where it was.

Polled == Running /\ ~busy

\* The message goes to its handler.
YieldMessage ==
  /\ Polled /\ batch # <<>>
  /\ yielded' = Append(yielded, Head(batch)) /\ batch' = Tail(batch)
  /\ busy' = TRUE
  /\ UNCHANGED <<writing, server, stream>>

\* What a frame without messages leads to: nothing.
AfterFrame_EndsOnDamage(messages) ==
  IF messages = None THEN stream' = "ended" /\ batch' = <<>>
  ELSE stream' = stream /\ batch' = messages
AfterFrame(messages) ==
  stream' = stream /\ batch' = IF messages = None THEN <<>> ELSE messages

ReadBinary ==
  /\ Polled /\ batch = <<>> /\ net # <<>> /\ Head(net).kind = "Binary"
  /\ ~Overflows(Head(net).data)
  /\ AfterFrame(parse_envelope(Head(net).data))
  /\ net' = Tail(net)
  /\ UNCHANGED <<writing, busy, nframes, sent, yielded>>

\* The runner's task ends without a word, and the stream with it.
ReadPanics ==
  /\ Polled /\ batch = <<>> /\ net # <<>> /\ Head(net).kind = "Binary"
  /\ Overflows(Head(net).data)
  /\ phase' = "gone"
  /\ UNCHANGED <<msg_id, taken, out, busy, server, reading>>

ReadOther ==
  /\ Polled /\ batch = <<>> /\ net # <<>> /\ Head(net).kind = "Other"
  /\ net' = Tail(net)
  /\ UNCHANGED <<writing, busy, nframes, sent, reading>>

\* A close frame ends the stream, an error does so after it was yielded.
ReadEnd_DropsBatch ==
  /\ Polled /\ \E i \in DOMAIN net : net[i].kind \in {"Close", "Error"}
  /\ stream' = "ended"
  /\ UNCHANGED <<writing, busy, server, batch, yielded>>
ReadEnd ==
  /\ Polled /\ batch = <<>> /\ net # <<>> /\ Head(net).kind \in {"Close", "Error"}
  /\ stream' = "ended"
  /\ UNCHANGED <<writing, busy, server, batch, yielded>>

Next ==
  \/ Authenticate
  \/ Subscribe
  \/ JoinSession
  \/ Split
  \/ StartHandler
  \/ FinishHandler
  \/ Send
  \/ IdPanics
  \/ Close
  \/ ServerSends
  \/ ServerSendsUseless
  \/ ServerSendsOther
  \/ YieldMessage
  \/ ReadBinary
  \/ ReadPanics
  \/ ReadOther
  \/ ReadEnd

Spec == Init /\ [][Next]_vars

=============================================================================
