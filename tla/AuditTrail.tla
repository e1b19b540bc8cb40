----------------------------- MODULE AuditTrail -----------------------------
(***************************************************************************)
(* What the order guard's audit promises (services/order_guard.py,         *)
(* dashboard/components/orders.py): a trail that only grows, with one      *)
(* record for a call at most, which is written once the broker has         *)
(* answered and says COMPLETE of orders the broker has taken only, and     *)
(* PENDING, which is the emergency's, of what is no order.                 *)
(***************************************************************************)
CONSTANT Calls

VARIABLES
  taken,   \* the orders the broker has taken
  trail    \* the records: [call, status]

Init == taken = {} /\ trail = {}

RecordsOf(c) == {r \in trail : r.call = c}

Take(c) ==
  /\ c \notin taken /\ RecordsOf(c) = {}
  /\ taken' = taken \cup {c}
  /\ UNCHANGED trail

Record(c) ==
  /\ RecordsOf(c) = {}
  /\ \E status \in {"REJECTED", IF c \in taken THEN "COMPLETE" ELSE "PENDING"} :
       trail' = trail \cup {[call |-> c, status |-> status]}
  /\ UNCHANGED taken

Next == \E c \in Calls : Take(c) \/ Record(c)

Spec == Init /\ [][Next]_<<taken, trail>>
=============================================================================
