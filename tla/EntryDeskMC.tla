---------------------------- MODULE EntryDeskMC ----------------------------
EXTENDS EntryDesk

Market(score, pcr, loud, top, conf) ==
  [ score |-> score, pcr |-> pcr, volHigh |-> loud, voicesRich |-> ~loud,
    top |-> top, conf |-> conf ]

\* Every regime, both sides, and confidences from below the sleeve's range to
\* its top.
MCMarkets ==
  { Market(160, 110, FALSE, "bull_put_credit", 950),
    Market(-160, 80, FALSE, "bear_call_credit", 450),
    Market(0, 90, FALSE, NoStrategy, NoConf),
    Market(0, 120, TRUE, "iron_fly_range", 50) }

Ladder(ce, pe) == [k \in -1..1 |-> [CE |-> ce[k + 2], PE |-> pe[k + 2]]]

\* Cheap enough for two lots; too dear at the money.
MCLadders ==
  { Ladder(<<6303, 3402, 1601>>, <<1501, 3302, 6203>>),
    Ladder(<<26003, 21002, 12001>>, <<12501, 22002, 27003>>) }

MCMargins == {200000}
MCPnls == {-9000}
=============================================================================
