----------------------------- MODULE MCPollCycle -----------------------------
(* Instances of PollCycle for TLC: hosts are small numbers, as their ids     *)
(* are, and a smaller number has the better priority.                        *)
EXTENDS PollCycle

MCHosts2 == {1, 2}
MCHosts3 == {1, 2, 3}
MCPriority == [h \in Hosts |-> h]
MCRecordOf == [h \in Hosts |-> "record"]

(* Two pools, of which only the first has a DDNS rule.                       *)
MCRecordOfFirst == [h \in Hosts |-> IF h = 1 THEN "record" ELSE NoRecord]
=============================================================================
