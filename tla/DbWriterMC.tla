----------------------------- MODULE DbWriterMC -----------------------------
(* DbWriter on small instances. *)
EXTENDS DbWriter, TLC
=============================================================================
