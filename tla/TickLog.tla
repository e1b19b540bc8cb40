------------------------------- MODULE TickLog -------------------------------
(***************************************************************************)
(* What the tick writer promises (database/db_writer.py): the table holds  *)
(* the accepted ticks from the first one on, in order, each once; a flush  *)
(* moves the boundary forward by some ticks or does nothing.               *)
(***************************************************************************)
EXTENDS Sequences, Naturals

CONSTANT Ticks

VARIABLES accepted, stored

Init == accepted = <<>> /\ stored = <<>>

Accept == \E t \in Ticks : accepted' = Append(accepted, t) /\ UNCHANGED stored

Store ==
  \E n \in Len(stored) + 1 .. Len(accepted) :
    stored' = SubSeq(accepted, 1, n) /\ UNCHANGED accepted

Next == Accept \/ Store

Spec == Init /\ [][Next]_<<accepted, stored>>
=============================================================================
