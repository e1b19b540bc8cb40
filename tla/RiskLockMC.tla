----------------------------- MODULE RiskLockMC -----------------------------
(* RiskLock on small instances. *)
EXTENDS RiskLock, TLC

\* Orders and sessions are interchangeable; used by safety runs only.
Symmetry == Permutations(Orders) \cup Permutations(Sessions)
=============================================================================
