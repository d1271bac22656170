-------------------------- MODULE MCDeviceManager --------------------------
(* Instances of DeviceManager for TLC.  The devices are interchangeable.    *)
EXTENDS DeviceManagerProperties, TLC

CONSTANTS d1, d2

DeviceSymmetry == Permutations(Devices)

\* The liveness run: d1 and d2 are added and run() is called, and nobody removes a
\* device, stops run() or drops the manager.  d1 is selected twice and then d2, which
\* d1 may hold up and whose application keeps its handle.  The start is a state of
\* Spec, two AddDevice and a StartRun from Init; the steps are Spec's.
ServingInit ==
  /\ devices = (d1 :> 1 @@ d2 :> 2) /\ nhandles = 2
  /\ app = [h \in Handles |-> "held"] /\ at = "idle"
  /\ current_session_id = [h \in Handles |-> 0]
  /\ posts = {} /\ selections = <<>> /\ accepted = <<>>
  /\ hand = 0 /\ shared_tx = [h \in Handles |-> 0]
  /\ status = [k \in Ids |-> "none"] /\ handle = [k \in Ids |-> 0]
  /\ commands = [k \in Ids |-> 0]
  /\ events = [h \in Handles |-> <<>>] /\ got = [h \in Handles |-> 0]
  /\ owed = [h \in Handles |-> {}] /\ ended = [h \in Handles |-> FALSE]
  /\ reporting = [h \in Handles |-> 0]
  /\ nposts = 0 /\ nreports = 0

ServingNext ==
  \/ posts = {} /\ PostConnect(IF nposts < 2 THEN d1 ELSE d2)
  \/ \E p \in posts : QueueSelection(p)
  \/ Handling \/ Session
  \/ Application /\ app'[2] = "held"

ServingSpec == ServingInit /\ [][ServingNext]_vars /\ Fairness
=============================================================================
