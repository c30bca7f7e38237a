-------------------------- MODULE MCReplicaManager --------------------------
(* Small instances of ReplicaManager for TLC. *)
EXTENDS ReplicaManager

CONSTANTS q1, q2

MCTwoRequests == {q1, q2}
MCOneRequest == {q1}
MCNoPrompts  == [q \in Requests |-> 0]
MCTwoPrompts == [q \in Requests |-> 2]
=============================================================================
