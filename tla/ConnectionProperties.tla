------------------------ MODULE ConnectionProperties ------------------------
(* What a connection promises its session and the server.                  *)
EXTENDS Connection

\* The stream is the FIFO link SessionRunner takes it for: batches come apart into
\* messages in order, damaged and foreign frames neither add, drop nor end
\* anything, and the end comes after the last message.
L == INSTANCE MessageLink WITH ended <- stream = "ended"
ImplementsLink == L!Spec

\* No two of 2^32 successive ids are the same, from authentication over the split
\* to the last message, failed sends included: a frame's id is new, and less than an
\* earlier one only where the u32 wrapped around between the two.  A batch's own id
\* is the i32 of the one before its frame's.
IdsStayApart ==
  \A i \in DOMAIN out :
     /\ \A j \in 1 .. i - 1 :
          LET apart == out[i].nth - out[j].nth IN
          /\ apart > 0
          /\ apart < U32Modulus =>
               /\ out[i].id # out[j].id
               /\ out[i].id < out[j].id => out[j].id + apart >= U32Modulus
     /\ out[i].messages_id # None => (out[i].id - 1 - out[i].messages_id) % U32Modulus = 0

\* The decode tool shows a batch for the frames of which the reader yields one, and
\* for no others, and both see the same messages in it.  Both fail on the same.
ToolAgrees ==
  \A i \in DOMAIN net : net[i].kind = "Binary" =>
    LET shown == decode_envelope(net[i].data)
        read  == parse_envelope(net[i].data) IN
    IF read = None THEN shown.shows # "batch" /\ (shown.shows = "panic" <=> Overflows(net[i].data))
    ELSE shown = [shows |-> "batch", messages |-> read]

\* The runner polls the stream again and again as long as its handlers return; what
\* a poll does is determined.  Nothing makes a handler return, or close.
Poll == YieldMessage \/ ReadBinary \/ ReadPanics \/ ReadOther \/ ReadEnd
FairSpec == Spec /\ SF_vars(Poll)

\* Whatever else is on the way, every message the server sent before it closed
\* comes out of the stream of a session that is joined, and then the stream ends.
\* Only a runner that closes the connection or panics leaves some behind, or one
\* that is kept in a handler for ever.
EverythingIsYielded ==
  phase = "open" ~>
    \/ yielded = sent /\ (ServerDone => stream = "ended")
    \/ phase \in {"closed", "gone"}
    \/ []busy
=============================================================================
