-------------------------- MODULE TerminalControls --------------------------
(***************************************************************************)
(* The Redis blob terminal:controls as a value: the record every process   *)
(* loads, patches and stores whole (dashboard/components/risk_controls.py, *)
(* services/circuit_breaker.py, dashboard/Trade_Console.py), and the two   *)
(* questions the order guard asks of it (services/order_guard.py).         *)
(*                                                                         *)
(* Times are trading days: trading_disabled_until is always 23:59:59 IST   *)
(* of some day, so a day number d says "until the end of day d"; NoDay is  *)
(* the JSON null.  Fields nothing but a caption reads (timestamps, reason, *)
(* refresh rate) are left out.                                             *)
(***************************************************************************)
EXTENDS Naturals

CONSTANT MaxDay   \* the last trading day of the model

ASSUME MaxDayAssumption == MaxDay \in Nat \ {0}

Days  == 1 .. MaxDay
NoDay == 0

Controls ==
  [kill_switch            : BOOLEAN,
   square_off_requested   : BOOLEAN,
   emergency_square_off   : BOOLEAN,
   trading_disabled       : BOOLEAN,
   trading_disabled_until : Days \cup {NoDay},
   order_placement_locked : BOOLEAN]

\* What a load returns when the key is missing or Redis fails: nothing armed.
Defaults ==
  [kill_switch            |-> FALSE,
   square_off_requested   |-> FALSE,
   emergency_square_off   |-> FALSE,
   trading_disabled       |-> FALSE,
   trading_disabled_until |-> NoDay,
   order_placement_locked |-> FALSE]

-----------------------------------------------------------------------------
\* is_trading_disabled: one deadline governs all three flags, and no deadline
\* means "disabled".
IsTradingDisabled(c, day) ==
  /\ c.kill_switch \/ c.trading_disabled \/ c.emergency_square_off
  /\ c.trading_disabled_until = NoDay \/ day <= c.trading_disabled_until

\* Mutant: the guard looks at the timed flags only.
PlacementBlockedByFlags(c, day) == IsTradingDisabled(c, day)

\* assert_order_placement_allowed raises.
PlacementBlocked(c, day) ==
  IsTradingDisabled(c, day) \/ c.order_placement_locked

-----------------------------------------------------------------------------
\* The update trigger_emergency_square_off makes; eod is the day it began on.
WithEmergency(c, eod) ==
  [c EXCEPT !.kill_switch            = TRUE,
            !.square_off_requested   = TRUE,
            !.emergency_square_off   = TRUE,
            !.trading_disabled       = TRUE,
            !.trading_disabled_until = eod]

\* The update lock_order_placement makes.
WithPlacementLock(c) ==
  [c EXCEPT !.kill_switch            = TRUE,
            !.trading_disabled       = TRUE,
            !.order_placement_locked = TRUE]

\* The update of the "Re-enable trading for today" button.
WithTradingReenabled(c) ==
  [c EXCEPT !.kill_switch            = FALSE,
            !.square_off_requested   = FALSE,
            !.emergency_square_off   = FALSE,
            !.trading_disabled       = FALSE,
            !.trading_disabled_until = NoDay]

\* The two sidebar patches: the HALT toggle's value, and the square-off flag.
WithHaltToggle(c, armed)  == [c EXCEPT !.kill_switch = armed]
WithSquareOff(c, request) == [c EXCEPT !.square_off_requested = request]
=============================================================================
