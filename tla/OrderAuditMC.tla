---------------------------- MODULE OrderAuditMC ----------------------------
(***************************************************************************)
(* Model-checking instance of OrderAudit.                                  *)
(***************************************************************************)
EXTENDS OrderAudit, TLC

Symmetry == Permutations(Calls)
=============================================================================
