-------------------------------- MODULE Leader --------------------------------
(***************************************************************************)
(* What any number of controllers (RedisCtrl) promise to the rest of the   *)
(* system: a lock with one owner, and published lists that only the living *)
(* owner of the lock changes, one node at a time, so that no cluster ever  *)
(* has two lists and no server is ever in two of them.                     *)
(***************************************************************************)
EXTENDS LegalNodes

CONSTANTS Ctrl,        \* controller processes
          NULL, DEAD   \* no owner; an owner that has crashed

VARIABLES lock, legal

Init == lock = NULL /\ legal = {}

(* The lock is taken when it is free, and given up, lost or left behind.   *)
Take == lock = NULL /\ lock' \in Ctrl /\ UNCHANGED legal
Leave == lock # NULL /\ lock' \in {NULL, DEAD} /\ UNCHANGED legal

(* The owner writes one node.                                              *)
Publish == lock \in Ctrl /\ legal' \in May(legal) /\ UNCHANGED lock

Next == Take \/ Leave \/ Publish

Spec == Init /\ [][Next]_<<lock, legal>>
===============================================================================
