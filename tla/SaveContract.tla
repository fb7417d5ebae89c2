---------------------------- MODULE SaveContract ----------------------------
(***************************************************************************)
(* What saving one collection promises, with no write queue in sight.      *)
(*                                                                         *)
(* A collection has a version in memory (data) and a version in storage    *)
(* (disk).  A caller of saveData() asks for whatever is in memory when it  *)
(* calls; it is told "saved" only once a version at least that new is in   *)
(* storage, and storage never goes back to an older version.               *)
(***************************************************************************)
EXTENDS Naturals

CONSTANTS Caller,      \* whoever changes the collection and asks for saves
          MaxVersion   \* bound on the number of changes

VARIABLES data,    \* version of the collection in memory
          disk,    \* version of the collection in storage
          asked,   \* the version each caller wants to be durable
          request  \* what each caller knows of its request

vars == <<data, disk, asked, request>>

RequestState == {"none", "pending", "saved", "failed"}

Init ==
  /\ data = 0
  /\ disk = 0
  /\ asked = [c \in Caller |-> 0]
  /\ request = [c \in Caller |-> "none"]

\* A caller that is not waiting changes the collection.
Change(c) ==
  /\ request[c] # "pending"
  /\ data < MaxVersion
  /\ data' = data + 1
  /\ request' = [request EXCEPT ![c] = "none"]
  /\ UNCHANGED <<disk, asked>>

\* A caller asks for the present version to be made durable.
Request(c) ==
  /\ request[c] # "pending"
  /\ request' = [request EXCEPT ![c] = "pending"]
  /\ asked' = [asked EXCEPT ![c] = data]
  /\ UNCHANGED <<data, disk>>

\* Storage moves forward to some version that memory has reached.
Store ==
  /\ \E version \in disk .. data : disk' = version
  /\ UNCHANGED <<data, asked, request>>

\* The callers of S are answered together, in the same way.
Answer(S, answer) ==
  /\ request' = [c \in Caller |-> IF c \in S THEN answer ELSE request[c]]
  /\ UNCHANGED <<data, disk, asked>>

Waiting(S) == \A c \in S : request[c] = "pending"

Saved(S) ==
  /\ Waiting(S)
  /\ \A c \in S : asked[c] <= disk
  /\ Answer(S, "saved")

Failed(S) ==
  /\ Waiting(S)
  /\ Answer(S, "failed")

\* Some group of callers, c among them, gets its answer.
Settle(c) == \E S \in SUBSET Caller : c \in S /\ (Saved(S) \/ Failed(S))

Next ==
  \/ \E c \in Caller : Change(c) \/ Request(c) \/ Settle(c)
  \/ Store

\* The part of the contract that a single step can break.
SafeSpec == Init /\ [][Next]_vars

\* No caller waits for ever.
Spec == SafeSpec /\ \A c \in Caller : WF_vars(Settle(c))

=============================================================================
