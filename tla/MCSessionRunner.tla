-------------------------- MODULE MCSessionRunner --------------------------
(* Instances of SessionRunner for TLC.                                     *)
EXTENDS SessionRunnerProperties

M(kind, ref) == [kind |-> kind, ref |-> ref]

\* Requests, reports and heartbeats.
RequestMessages ==
  {M("AddOurs", 1), M("SetActive", 0), M("SetState", 0), M("SetVolume", 0)}

\* Registration, activation and what depends on them.
ActivationMessages ==
  {M("AddOurs", 1), M("AddOther", 2), M("RemoveRenderer", 1),
   M("RendererState", 1), M("RendererState", 2),
   M("SetActive", 0), M("SetInactive", 0)}

\* What it takes for all three branches of select! to compete.
LivenessMessages ==
  {M("AddOurs", 1), M("SetActive", 0)}

\* The whole vocabulary, and an id that is negative as an i32.
AllMessages ==
  RequestMessages \cup ActivationMessages
    \cup {M("SessionState", 0), M("SessionState", 1), M("SessionState", 2),
          M("AddOurs", 6), M("SetStateEmpty", 0), M("Broadcast", 0),
          M("Unhandled", 0)}
=============================================================================
