-------------------------- MODULE MCAnnouncements --------------------------
(* An instance of Announcements for TLC.                                   *)
EXTENDS AnnouncementsProperties

CONSTANTS d1, d2, n1, n2

\* One device under two names, of which the second is also another device's.
TwoNames == {[device |-> d1, name |-> n1], [device |-> d1, name |-> n2],
             [device |-> d2, name |-> n2]}
=============================================================================
