--------------------------- MODULE MCEdgeRuntime ---------------------------
(* Constants of the instances of EdgeRuntime that TLC checks.              *)
EXTENDS EdgeRuntime

Alarms == {"NORMAL", "DANGER"}
Mixed == {"DANGER", "incomplete"}
NormalOnly == {"NORMAL"}
AlarmOnly == {"DANGER"}
AllOutcomes == Statuses \cup {"incomplete"}
=============================================================================
