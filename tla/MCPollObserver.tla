---------------------------- MODULE MCPollObserver ----------------------------
(* Instances of PollObserver for TLC, with the constants of MCPollCycle.     *)
EXTENDS PollObserver, MCPollCycle
=============================================================================
