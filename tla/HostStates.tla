----------------------------- MODULE HostStates -----------------------------
(* The pure decisions of the engine: the host states and their transition    *)
(* matrix (engine/statemachine.go), the verdict of a health check with its   *)
(* anti-flapping hysteresis (engine/poller.go), the election                 *)
(* (engine/election.go) and the circuit breaker's condition                  *)
(* (engine/circuit.go).  A list of hosts, as a query returns it, is a record *)
(* with the set rows of the ids it holds and a state for each.               *)
EXTENDS Integers, FiniteSets

CONSTANTS
    Hosts,              \* the ids hosts may get (uint, autoincrement)
    Priority,           \* models.Host.Priority: the smallest is preferred
    FailThreshold,      \* hostFailThreshold
    RecoverThreshold    \* hostRecoverThreshold

ASSUME PriorityAssumption == Priority \in [Hosts -> Int]
ASSUME ThresholdAssumption ==
    /\ FailThreshold \in Nat \ {0}
    /\ RecoverThreshold \in Nat \ {0}

HostState == {"ready", "full", "dead"}

(* Mutated form: a leader that is merely outranked counts as exhausted.      *)
ExhaustedAny == HostState

(* The states in which a former leader loses its commands.                   *)
Exhausted == {"full", "dead"}

ValidTransitions ==
    [ready |-> {"full", "dead"}, full |-> {"ready", "dead"}, dead |-> {"ready"}]

(* Mutated form: dead -> full let through.                                   *)
IsValidTransitionLax(from, to) ==
    to \in ValidTransitions[from] \/ (from = "dead" /\ to = "full")

IsValidTransition(from, to) == to \in ValidTransitions[from]

(* A streak counts consecutive snapshots; above its threshold its value no   *)
(* longer matters, so it saturates there.                                    *)
Extend(streak, threshold) == IF streak < threshold THEN streak + 1 ELSE threshold

FailConfirmed(fails) == fails >= FailThreshold
RecoverConfirmed(hits) == hits >= RecoverThreshold

(* The hysteresis: a dead host stays unreachable until its recovery is       *)
(* confirmed, any other host stays reachable until its failure is.           *)
EffectiveReachable(st, base, fails, hits) ==
    IF st = "dead" THEN base /\ RecoverConfirmed(hits)
                   ELSE base \/ ~FailConfirmed(fails)

(* The state ApplyCheckResult asks for; when it is the state of the host it  *)
(* was given, ApplyCheckResult asks for nothing.                             *)
CheckTarget(reachable, over) ==
    IF ~reachable THEN "dead" ELSE IF over THEN "full" ELSE "ready"

Ready(list) == {h \in list.rows : list.state[h] = "ready"}

(* Mutated form: the greatest Priority wins.                                 *)
BestWorst(S) == {h \in S : \A g \in S : Priority[h] >= Priority[g]}

(* The hosts a sort by Priority may put first.                               *)
Best(S) == {h \in S : \A g \in S : Priority[h] <= Priority[g]}

(* Mutated form: only dead hosts open the circuit.                           *)
AllDead(list) == list.rows # {} /\ \A h \in list.rows : list.state[h] = "dead"

AllDown(list) == list.rows # {} /\ Ready(list) = {}
=============================================================================
