--------------------------- MODULE MCConsumerGroup ---------------------------
(***************************************************************************)
(* Instances of ConsumerGroup for TLC: two replicas share two partitions.  *)
(***************************************************************************)
EXTENDS ConsumerGroup
CONSTANTS r1, r2, p1, p2, m1

MCReplicas == {r1, r2}
MCPartitions == {p1, p2}
MCOnePartition == {p1}
MCMessages == {m1}
MCEntry == "handle"
=============================================================================
