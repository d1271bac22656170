---------------------------- MODULE MCFakePlayer ----------------------------
(* An instance of FakePlayer for TLC.                                      *)
EXTENDS FakePlayerProperties

\* Two tracks with ordinary ids, and one whose id is no i32 (5 of 8).
SmallQueues == {<<1, 2>>, <<2>>, <<5, 1>>}
=============================================================================
