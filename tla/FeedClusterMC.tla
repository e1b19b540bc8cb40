--------------------------- MODULE FeedClusterMC ---------------------------
(* FeedCluster on a small instance. *)
EXTENDS FeedCluster, TLC
=============================================================================
