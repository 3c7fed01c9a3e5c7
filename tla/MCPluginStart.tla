----------------------------- MODULE MCPluginStart -----------------------------
(* The flags that decide where the metrics come from and how.              *)
EXTENDS PluginStart

CONSTANTS w1, w2

Plain == [agentDisabled |-> "false", agentAddress |-> "empty",
          basic |-> "empty", oauth |-> "empty", output |-> "interactive", days |-> 1]

MCFlagSets ==
  { Plain,
    [Plain EXCEPT !.agentDisabled = "true", !.agentAddress = "set", !.days = 7],
    [Plain EXCEPT !.agentDisabled = "true", !.oauth = "set", !.output = "csv", !.days = 0],
    [Plain EXCEPT !.agentDisabled = "unreadable"],
    [Plain EXCEPT !.agentAddress = "set", !.basic = "set"] }

================================================================================
