---------------------------- MODULE MCConnection ----------------------------
(* An instance of Connection for TLC.                                      *)
EXTENDS ConnectionProperties

\* A short payload with two messages, and one whose length needs two digits.
ShortAndLong == {[ignored |-> 0, messages |-> 2], [ignored |-> 3, messages |-> 1]}
=============================================================================
