---------------------------- MODULE MessageLink ----------------------------
(***************************************************************************)
(* What a session's runner expects of the reading half of its connection:  *)
(* the server's messages, one by one, in order, none twice, none left out, *)
(* and the end only after the last.  ConnectionReader implements it.       *)
(***************************************************************************)
EXTENDS Naturals, Sequences

VARIABLES sent,      \* the messages of the server, oldest first
          yielded,   \* those that came out of the stream
          ended      \* the stream ended

Init == sent = <<>> /\ yielded = <<>> /\ ended = FALSE

\* A batch of any size.
Sends ==
  /\ Len(sent') >= Len(sent) /\ SubSeq(sent', 1, Len(sent)) = sent
  /\ UNCHANGED <<yielded, ended>>

Yields ==
  /\ ~ended /\ Len(yielded) < Len(sent)
  /\ yielded' = Append(yielded, sent[Len(yielded) + 1])
  /\ UNCHANGED <<sent, ended>>

Ends == ~ended /\ yielded = sent /\ ended' = TRUE /\ UNCHANGED <<sent, yielded>>

Next == Sends \/ Yields \/ Ends

Spec == Init /\ [][Next]_<<sent, yielded, ended>>
=============================================================================
