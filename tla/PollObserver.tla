----------------------------- MODULE PollObserver -----------------------------
(* PollCycle with two history variables that watch it and never influence    *)
(* it: how many snapshots in a row missed or found a host, counted where the *)
(* heartbeats are read and, unlike the poller's streaks, across crashes.     *)
EXTENDS PollCycle

VARIABLES misses, hits

history == <<misses, hits>>

ObservedInit ==
    /\ Init
    /\ misses = [h \in Hosts |-> 0] /\ hits = [h \in Hosts |-> 0]

ObserveSnapshot ==
    /\ misses' = [h \in Hosts |->
          IF h \in snap'.ok \/ h \notin rows THEN 0
                                             ELSE Extend(misses[h], FailThreshold)]
    /\ hits' = [h \in Hosts |->
          IF h \in snap'.ok THEN Extend(hits[h], RecoverThreshold) ELSE 0]

ObservedNext ==
    \/ LoadSnapshot /\ ObserveSnapshot
    \/ /\ Next /\ ~LoadSnapshot
       /\ UNCHANGED <<misses, hits>>

ObservedSpec == ObservedInit /\ [][ObservedNext]_<<vars, history>>

(* A step of the poller itself, not of a handler or a crash.                 *)
PollStep == events' = events

Moves(h, from, to) == h \in rows \cap rows' /\ state[h] \in from /\ state'[h] \in to

(* hostFailThreshold: a poll marks a host dead only when as many snapshots   *)
(* in a row have missed it (poller.go:19), or when its pre_command failed,   *)
(* which a reachable elected host alone can run (requirement 5.4).           *)
DeathConfirmed ==
    [][\A h \in Hosts :
         PollStep /\ Moves(h, {"ready", "full"}, {"dead"})
            => misses[h] >= FailThreshold \/ (h = leader /\ h \in reach)]_vars

(* hostRecoverThreshold: a poll revives a dead host only when as many        *)
(* snapshots in a row have found it (poller.go:22).                          *)
RevivalConfirmed ==
    [][\A h \in Hosts :
         PollStep /\ Moves(h, {"dead"}, {"ready", "full"})
            => hits[h] >= RecoverThreshold]_vars

(* Neither verdict comes early, nor too early after a crash has cleared the  *)
(* poller's own streaks.                                                     *)
VerdictsConfirmed == DeathConfirmed /\ RevivalConfirmed
=============================================================================
