---------------------------- MODULE MCQueueNodes ----------------------------
(***************************************************************************)
(* Instances of QueueNodes for TLC.                                        *)
(***************************************************************************)
EXTENDS QueueNodes, TLC

\* malloc may return any address that is free: none is special.
AnyNode == Permutations(Nodes)

=============================================================================
