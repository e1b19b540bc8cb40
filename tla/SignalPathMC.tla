---------------------------- MODULE SignalPathMC ----------------------------
(***************************************************************************)
(* SignalPath on small instances: each broker once with the engine live,   *)
(* and each way the environment can be set that stops an order.            *)
(***************************************************************************)
EXTENDS SignalPath, TLC

Environment(broker, auth, ready, dry, trailing) ==
  [broker |-> broker, auth |-> auth, ready |-> ready, dry |-> dry, trailing |-> trailing]

MCConfigs ==
  {Environment(b, "match", TRUE, FALSE, TRUE) : b \in Brokers}
  \cup {Environment(b, "match", FALSE, FALSE, TRUE) : b \in Brokers \ {"paper"}}
  \cup {Environment("paper", "unset", TRUE, FALSE, TRUE),
        Environment("paper", "differs", TRUE, FALSE, TRUE),
        Environment("paper", "match", TRUE, TRUE, TRUE),
        Environment("paper", "match", TRUE, FALSE, FALSE)}
=============================================================================
