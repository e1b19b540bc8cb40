----------------------------- MODULE HotRegister -----------------------------
(***************************************************************************)
(* What a hot price in Redis promises its readers: between two resets the  *)
(* value shown only moves on to newer ticks, and never to one that has not *)
(* been sent.  Ticks are numbered in the order the exchange sends them.    *)
(***************************************************************************)
EXTENDS Naturals

VARIABLES newest, shown

Init == newest = 0 /\ shown = 0

Emit  == newest' = newest + 1 /\ UNCHANGED shown
Show  == shown' \in shown + 1 .. newest /\ UNCHANGED newest
Reset == shown' = 0 /\ UNCHANGED newest

Next == Emit \/ Show \/ Reset

Spec == Init /\ [][Next]_<<newest, shown>>
=============================================================================
