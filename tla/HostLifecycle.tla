---------------------------- MODULE HostLifecycle ----------------------------
(* What the state machine promises of the hosts, whoever polls them: a host  *)
(* is created ready under an id never used before, moves along the           *)
(* transition matrix only, and disappears (statemachine.go:12, design        *)
(* property 4).                                                              *)
CONSTANTS Hosts

VARIABLES
    status,     \* the state of each existing host: a function on their ids
    used        \* ids ever given

Legal == [ready |-> {"full", "dead"}, full |-> {"ready", "dead"}, dead |-> {"ready"}]

Existing == DOMAIN status

Init ==
    /\ used \in SUBSET Hosts
    /\ status = [h \in used |-> "ready"]

Create(h) ==
    /\ h \notin used
    /\ used' = used \cup {h}
    /\ status' = [g \in Existing \cup {h} |-> IF g = h THEN "ready" ELSE status[g]]

Delete(h) ==
    /\ h \in Existing
    /\ status' = [g \in Existing \ {h} |-> status[g]]
    /\ used' = used

Move(h, to) ==
    /\ h \in Existing
    /\ to \in Legal[status[h]]
    /\ status' = [status EXCEPT ![h] = to]
    /\ used' = used

Next ==
    \E h \in Hosts :
        \/ Create(h) \/ Delete(h)
        \/ \E to \in {"ready", "full", "dead"} : Move(h, to)

Spec == Init /\ [][Next]_<<status, used>>
=============================================================================
