------------------------------ MODULE PollCycle ------------------------------
(* One process of the ippool server: the Poller's goroutine, which runs      *)
(* Poller.RunOnce (engine/poller.go) again and again with the StateMachine,  *)
(* the election, the circuit breaker, the command executor and the DDNS      *)
(* updater it calls, interleaved with the HTTP handlers that change the same *)
(* tables (api/hosts.go, api/ddns_apply.go) and with crashes.                *)
(*                                                                           *)
(* Every SQL statement and every call to a host or to Cloudflare is a step   *)
(* of its own; what lies between two of them is local and belongs to the     *)
(* step before.  RunOnce's two reads, of the hosts and of their heartbeats,  *)
(* are one step: the heartbeats are arbitrary there.                         *)
EXTENDS HostStates

CONSTANTS
    NoHost,             \* the id 0: no host
    InitialHosts,       \* the hosts created before the first poll
    Metered,            \* the hosts with a TrafficThreshold above zero
    Flaky,              \* the hosts whose heartbeats may be missing or bad
    Fragile,            \* the hosts on which a command may fail
    Records,            \* DNS records the DDNS rules or settings name
    NoRecord,           \* no DDNS configuration for the host's pool
    RecordOf,           \* the record of each host's pool
    MaxElectRetries,    \* maxElectRetries
    DnsMayFail,         \* a DDNS update may fail after its three tries
    StorageErrors,      \* a statement may fail (a locked or full database)
    Events,             \* what else happens: a subset of EventKinds
    MaxEvents           \* bound: how often it happens in all

EventKinds == {"create", "delete", "force", "edit", "flag", "apply", "crash"}

ASSUME HostAssumption == NoHost \notin Hosts
ASSUME SetsAssumption ==
    /\ InitialHosts \subseteq Hosts /\ Metered \subseteq Hosts
    /\ Flaky \subseteq Hosts /\ Fragile \subseteq Hosts
    /\ NoRecord \notin Records
    /\ RecordOf \in [Hosts -> Records \cup {NoRecord}]
ASSUME BoundAssumption ==
    /\ MaxElectRetries \in Nat \ {0} /\ MaxEvents \in Nat
    /\ DnsMayFail \in BOOLEAN /\ StorageErrors \in BOOLEAN
    /\ Events \subseteq EventKinds

VARIABLES
    \* the database
    rows,               \* ids of the rows of table hosts
    state,              \* column state of those rows
    leaderFlag,         \* the rows whose is_leader is set
    commands,           \* the rows that have pre_command and disconnect_command
    leaderId,           \* config item current_leader_id
    born,               \* ids ever given: autoincrement never gives one again
    \* the world outside
    connected,          \* hosts on which the last command run was pre_command
    dns,                \* the host each record points at
    \* the memory of the process
    failStreak, recoverStreak,      \* Poller.hostFailStreak, hostRecoverStreak
    circuitOpen,        \* CircuitBreaker.isOpen
    applying,           \* applyDDNSRulesNow in flight: [record, host]
    \* the locals of RunOnce
    pc, snap, todo, pending, reach, list, attempt, prevId, leader,
    \* observation
    notice,             \* the last event this poll sent to the notifier
    events              \* how many Events happened

database == <<rows, state, leaderFlag, commands, leaderId, born>>
world    == <<connected, dns>>
streaks  == <<failStreak, recoverStreak>>
locals   == <<snap, todo, pending, reach, list, attempt, prevId, leader>>
vars     == <<database, world, streaks, circuitOpen, applying, pc, locals,
              notice, events>>

NoState    == [h \in Hosts |-> "ready"]
NoSnap     == [rows |-> {}, state |-> NoState, ok |-> {}, over |-> {}]
NoList     == [rows |-> {}, state |-> NoState, commands |-> {}]
NoPending  == [host |-> NoHost, to |-> "dead"]
NotApplying == [record |-> NoRecord, host |-> NoHost]

Labels == {"idle", "check", "apply", "elect", "disconnect", "clear", "verify",
           "connect", "demote", "retry", "ddns", "unflag", "flag", "record"}

Snaps == [rows : SUBSET Hosts, state : [Hosts -> HostState],
          ok : SUBSET Hosts, over : SUBSET Hosts]
Lists == [rows : SUBSET Hosts, state : [Hosts -> HostState],
          commands : SUBSET Hosts]

(* Every variable keeps its type: every list RunOnce holds is a list of      *)
(* hosts with states of the matrix, and an election is never entered beyond  *)
(* maxElectRetries.                                                          *)
TypeOK ==
    /\ rows \in SUBSET Hosts
    /\ state \in [Hosts -> HostState]
    /\ leaderFlag \in SUBSET rows
    /\ commands \in SUBSET rows
    /\ leaderId \in Hosts \cup {NoHost}
    /\ born \in SUBSET Hosts /\ rows \subseteq born
    /\ connected \in SUBSET Hosts
    /\ dns \in [Records -> Hosts \cup {NoHost}]
    /\ failStreak \in [Hosts -> 0..FailThreshold]
    /\ recoverStreak \in [Hosts -> 0..RecoverThreshold]
    /\ circuitOpen \in BOOLEAN
    /\ applying \in [record : Records \cup {NoRecord}, host : Hosts \cup {NoHost}]
    /\ pc \in Labels
    /\ snap \in Snaps
    /\ todo \in SUBSET Hosts
    /\ pending \in [host : Hosts \cup {NoHost}, to : HostState]
    /\ reach \in SUBSET Hosts
    /\ list \in Lists
    /\ attempt \in 0..MaxElectRetries
    /\ prevId \in Hosts \cup {NoHost}
    /\ leader \in Hosts \cup {NoHost}
    /\ notice \in {"none", "circuit_open", "circuit_close", "leader_changed"}
    /\ events \in 0..MaxEvents

Init ==
    /\ rows = InitialHosts /\ born = InitialHosts /\ commands = InitialHosts
    /\ state = NoState
    /\ leaderFlag = {} /\ leaderId = NoHost
    /\ connected = {} /\ dns = [r \in Records |-> NoHost]
    /\ failStreak = [h \in Hosts |-> 0] /\ recoverStreak = [h \in Hosts |-> 0]
    /\ circuitOpen = FALSE /\ applying = NotApplying
    /\ pc = "idle" /\ snap = NoSnap /\ todo = {} /\ pending = NoPending
    /\ reach = {} /\ list = NoList /\ attempt = 0
    /\ prevId = NoHost /\ leader = NoHost
    /\ notice = "none" /\ events = 0

-----------------------------------------------------------------------------
(* What several steps share.                                                 *)

(* RunOnce returns: its locals are gone.                                     *)
Return ==
    /\ pc' = "idle" /\ snap' = NoSnap /\ todo' = {} /\ pending' = NoPending
    /\ reach' = {} /\ list' = NoList /\ attempt' = 0
    /\ prevId' = NoHost /\ leader' = NoHost

ReadHosts == [rows |-> rows, state |-> state, commands |-> commands]

(* The first half of StateMachine.Transition: read the row, and return when  *)
(* it is gone, has the state already or may not get it.                      *)
Wanted(h, to) == h \in rows /\ state[h] # to /\ IsValidTransition(state[h], to)

BeginTransition(h, to, writing, returned) ==
    \/ /\ Wanted(h, to)
       /\ pending' = [host |-> h, to |-> to]
       /\ pc' = writing
    \/ /\ ~Wanted(h, to) \/ StorageErrors
       /\ pending' = NoPending
       /\ pc' = returned

(* Its second half: an UPDATE by id, which no longer looks at the state.     *)
EndTransition(returned) ==
    /\ \/ state' = IF pending.host \in rows
                      THEN [state EXCEPT ![pending.host] = pending.to]
                      ELSE state
       \/ StorageErrors /\ state' = state
    /\ pending' = NoPending
    /\ pc' = returned

-----------------------------------------------------------------------------
(* The poll: health checks.                                                  *)

(* RunOnce loads the hosts and their heartbeats.  A heartbeat is good when   *)
(* it is fresh and reports network and ssh up; its traffic counts whether it *)
(* is good or not.  If a read fails RunOnce returns, and nothing changes.    *)
LoadSnapshot ==
    /\ pc = "idle"
    /\ \E ok \in SUBSET rows, over \in SUBSET (rows \cap Metered) :
          /\ rows \ Flaky \subseteq ok
          /\ snap' = [rows |-> rows, state |-> state, ok |-> ok, over |-> over]
    /\ todo' = rows
    /\ notice' = "none"
    /\ pc' = "check"
    /\ UNCHANGED <<database, world, streaks, circuitOpen, applying, pending,
                   reach, list, attempt, prevId, leader, events>>

(* Mutated forms: a streak survives the snapshot that should end it; the     *)
(* snapshots that find the host reset its recovery.                          *)
NextFailsSticky(h) ==
    IF h \in snap.ok THEN failStreak[h] ELSE Extend(failStreak[h], FailThreshold)
NextHitsReset(h) == 0

NextFails(h) ==
    IF h \in snap.ok THEN 0 ELSE Extend(failStreak[h], FailThreshold)
NextHits(h) ==
    IF h \in snap.ok THEN Extend(recoverStreak[h], RecoverThreshold) ELSE 0

CheckVerdict(h) ==
    EffectiveReachable(snap.state[h], h \in snap.ok, NextFails(h), NextHits(h))

(* One turn of the loop over the hosts: streaks, hysteresis, and the         *)
(* decision of ApplyCheckResult on the state the snapshot holds.             *)
CheckHost(h) ==
    LET target == CheckTarget(CheckVerdict(h), h \in snap.over)
    IN  /\ pc = "check" /\ h \in todo
        /\ todo' = todo \ {h}
        /\ failStreak' = [failStreak EXCEPT ![h] = NextFails(h)]
        /\ recoverStreak' = [recoverStreak EXCEPT ![h] = NextHits(h)]
        /\ reach' = IF CheckVerdict(h) THEN reach \cup {h} ELSE reach
        /\ \/ /\ target = snap.state[h]
              /\ UNCHANGED <<pc, pending>>
           \/ /\ target # snap.state[h]
              /\ BeginTransition(h, target, "apply", "check")
        /\ UNCHANGED <<database, world, circuitOpen, applying, snap, list,
                       attempt, prevId, leader, notice, events>>

ApplyResult ==
    /\ pc = "apply"
    /\ EndTransition("check")
    /\ UNCHANGED <<rows, leaderFlag, commands, leaderId, born, world, streaks,
                   circuitOpen, applying, snap, todo, reach, list, attempt,
                   prevId, leader, notice, events>>

-----------------------------------------------------------------------------
(* The poll: circuit breaker and election.                                   *)

(* The hosts are read again and the circuit breaker looks at them; when it   *)
(* is closed the poll goes on with the recorded leader.  A leader id that    *)
(* cannot be read is taken for none, and GetAs then stores that default.     *)
EvaluateCircuit ==
    /\ pc = "check" /\ todo = {}
    /\ circuitOpen' = AllDown(ReadHosts)
    /\ notice' = IF circuitOpen' = circuitOpen THEN notice
                 ELSE IF circuitOpen' THEN "circuit_open" ELSE "circuit_close"
    /\ \/ /\ circuitOpen'
          /\ Return
          /\ UNCHANGED leaderId
       \/ /\ ~circuitOpen'
          /\ list' = ReadHosts
          /\ \/ prevId' = leaderId /\ leaderId' = leaderId
             \/ StorageErrors /\ prevId' = NoHost /\ leaderId' \in {leaderId, NoHost}
          /\ pc' = "elect" /\ snap' = NoSnap
          /\ UNCHANGED <<todo, pending, reach, attempt, leader>>
    /\ UNCHANGED <<rows, state, leaderFlag, commands, born, world, streaks,
                   applying, events>>

(* The hosts cannot be read again: RunOnce returns.                          *)
ReloadFails ==
    /\ pc \in {"check", "retry"} /\ todo = {}
    /\ StorageErrors
    /\ Return
    /\ UNCHANGED <<database, world, streaks, circuitOpen, applying, notice, events>>

(* Mutated form: one round more than maxElectRetries.                        *)
MayElectOnceMore == attempt <= MaxElectRetries

MayElect == attempt < MaxElectRetries

(* No host is ready: the breaker looks again and the alarm is sent.          *)
ElectNobody ==
    /\ pc = "elect" /\ MayElect
    /\ Ready(list) = {}
    /\ circuitOpen' = AllDown(list)
    /\ notice' = "circuit_open"
    /\ Return
    /\ UNCHANGED <<database, world, streaks, applying, events>>

(* The recorded leader is still the best ready host: nothing to do.          *)
KeepLeader ==
    /\ pc = "elect" /\ MayElect
    /\ prevId \in Best(Ready(list))
    /\ Return
    /\ UNCHANGED <<database, world, streaks, circuitOpen, applying, notice, events>>

(* Another host is elected; the previous leader is disconnected first when   *)
(* the list holds it and its check found it reachable.                       *)
ElectLeader(h) ==
    /\ pc = "elect" /\ MayElect
    /\ h \in Best(Ready(list)) /\ h # prevId
    /\ leader' = h
    /\ pc' = IF prevId \in list.rows \cap reach THEN "disconnect" ELSE "verify"
    /\ UNCHANGED <<database, world, streaks, circuitOpen, applying, snap, todo,
                   pending, reach, list, attempt, prevId, notice, events>>

(* All rounds are used up: the loop ends with whatever it left behind.       *)
GiveUp ==
    /\ pc = "elect" /\ ~MayElect
    /\ Return
    /\ UNCHANGED <<database, world, streaks, circuitOpen, applying, notice, events>>

-----------------------------------------------------------------------------
(* The poll: the switch to a new leader.                                     *)

(* A command runs with the text the list holds; an empty one succeeds        *)
(* without reaching the host.                                                *)
CommandFails(h) == h \in list.commands \cap Fragile

(* disconnect_command on the previous leader; its failure is only logged.    *)
Disconnect ==
    /\ pc = "disconnect"
    /\ \/ connected' = connected \ ({prevId} \cap list.commands)
       \/ CommandFails(prevId) /\ connected' = connected
    /\ pc' = IF list.state[prevId] \in Exhausted THEN "clear" ELSE "verify"
    /\ UNCHANGED <<database, dns, streaks, circuitOpen, applying, locals,
                   notice, events>>

(* A previous leader that is full or dead loses its commands.                *)
ClearCommands ==
    /\ pc = "clear"
    /\ \/ commands' = commands \ {prevId}
       \/ StorageErrors /\ commands' = commands
    /\ pc' = "verify"
    /\ UNCHANGED <<rows, state, leaderFlag, leaderId, born, world, streaks,
                   circuitOpen, applying, locals, notice, events>>

(* Mutated form: DDNS is updated without the connect command.                *)
SwitchFirstDdns == "ddns"

SwitchFirst == "connect"

(* A leader the snapshot's checks did not find reachable is marked dead.     *)
VerifyLeader ==
    /\ pc = "verify"
    /\ \/ leader \in reach /\ pc' = SwitchFirst /\ pending' = pending
       \/ leader \notin reach /\ BeginTransition(leader, "dead", "demote", "retry")
    /\ UNCHANGED <<database, world, streaks, circuitOpen, applying, snap, todo,
                   reach, list, attempt, prevId, leader, notice, events>>

(* pre_command on the new leader exits with 0.  (A leader that is exhausted  *)
(* would lose its commands; Elect never returns one.)                        *)
ConnectSucceeds ==
    /\ pc = "connect"
    /\ connected' = connected \cup ({leader} \cap list.commands)
    /\ commands' = IF list.state[leader] \in Exhausted THEN commands \ {leader}
                                                       ELSE commands
    /\ pc' = "ddns"
    /\ UNCHANGED <<rows, state, leaderFlag, leaderId, born, dns, streaks,
                   circuitOpen, applying, locals, notice, events>>

(* pre_command fails or times out: the new leader is marked dead.            *)
ConnectFails ==
    /\ pc = "connect"
    /\ CommandFails(leader)
    /\ BeginTransition(leader, "dead", "demote", "retry")
    /\ UNCHANGED <<database, world, streaks, circuitOpen, applying, snap, todo,
                   reach, list, attempt, prevId, leader, notice, events>>

DemoteLeader ==
    /\ pc = "demote"
    /\ EndTransition("retry")
    /\ UNCHANGED <<rows, leaderFlag, commands, leaderId, born, world, streaks,
                   circuitOpen, applying, snap, todo, reach, list, attempt,
                   prevId, leader, notice, events>>

(* Mutated forms: the rounds are not counted; the previous leader is         *)
(* remembered in the next round.                                             *)
AttemptStuck == attempt
PrevRemembered == prevId

NextAttempt == attempt + 1
NextPrev == NoHost

(* The next round of the election starts from the hosts as they are now and  *)
(* from no leader.                                                           *)
Retry ==
    /\ pc = "retry"
    /\ list' = ReadHosts
    /\ prevId' = NextPrev /\ leader' = NoHost
    /\ attempt' = NextAttempt
    /\ pc' = "elect"
    /\ UNCHANGED <<database, world, streaks, circuitOpen, applying, snap, todo,
                   pending, reach, notice, events>>

(* Mutated form: the record is pointed at the leader of before.              *)
PointedPrevious == prevId

Pointed == leader

(* The records a poll may take for those of h's pool.  Rules that cannot be  *)
(* read are taken for none at all, and then the record of the settings is    *)
(* updated, or if that fails too nothing is (GetAs's errors are ignored).    *)
RecordsFor(h) ==
    {RecordOf[h]} \cup (IF StorageErrors THEN Records \cup {NoRecord} ELSE {})

(* The record of the leader's pool is pointed at it; a failure is logged.    *)
UpdateDns ==
    /\ pc = "ddns"
    /\ \E r \in RecordsFor(leader) :
          \/ r # NoRecord /\ dns' = [dns EXCEPT ![r] = Pointed]
          \/ (r = NoRecord \/ DnsMayFail) /\ dns' = dns
    /\ pc' = "unflag"
    /\ UNCHANGED <<database, connected, streaks, circuitOpen, applying, locals,
                   notice, events>>

(* Mutated form: the flags of the other hosts are left set.                  *)
KeptFlagsAll == leaderFlag

KeptFlags == leaderFlag \cap {leader}

(* The three writes that install the leader: is_leader of all others, its    *)
(* own, and current_leader_id.  Their errors are ignored.                    *)
UnflagOthers ==
    /\ pc = "unflag"
    /\ leaderFlag' = KeptFlags \/ (StorageErrors /\ leaderFlag' = leaderFlag)
    /\ pc' = "flag"
    /\ UNCHANGED <<rows, state, commands, leaderId, born, world, streaks,
                   circuitOpen, applying, locals, notice, events>>

FlagLeader ==
    /\ pc = "flag"
    /\ \/ leaderFlag' = leaderFlag \cup ({leader} \cap rows)
       \/ StorageErrors /\ leaderFlag' = leaderFlag
    /\ pc' = "record"
    /\ UNCHANGED <<rows, state, commands, leaderId, born, world, streaks,
                   circuitOpen, applying, locals, notice, events>>

(* Mutated form: the leader this poll replaces is recorded again.            *)
RecordedPrevious == prevId

Recorded == leader

RecordLeader ==
    /\ pc = "record"
    /\ leaderId' = Recorded \/ (StorageErrors /\ leaderId' = leaderId)
    /\ notice' = "leader_changed"
    /\ Return
    /\ UNCHANGED <<rows, state, leaderFlag, commands, born, world, streaks,
                   circuitOpen, applying, events>>

-----------------------------------------------------------------------------
(* The HTTP handlers, at any moment of a poll.                               *)

Happens(kind) == kind \in Events /\ events < MaxEvents /\ events' = events + 1

(* What no handler touches: the memory and the locals of the poller.         *)
Poller == <<streaks, circuitOpen, pc, locals, notice>>

(* CreateHost: a ready host under a new id.  The request may carry commands  *)
(* and, since it is decoded into the model itself, the is_leader flag.       *)
CreateHost(h) ==
    /\ Happens("create")
    /\ h \notin born
    /\ rows' = rows \cup {h} /\ born' = born \cup {h}
    /\ state' = [state EXCEPT ![h] = "ready"]
    /\ commands' \in {commands, commands \cup {h}}
    /\ \/ leaderFlag' = leaderFlag
       \/ "flag" \in Events /\ leaderFlag' = leaderFlag \cup {h}
    /\ UNCHANGED <<leaderId, world, applying, Poller>>

(* DeleteHost: the row goes, whatever still names its id stays.              *)
DeleteHost(h) ==
    /\ Happens("delete")
    /\ h \in rows
    /\ rows' = rows \ {h}
    /\ leaderFlag' = leaderFlag \ {h} /\ commands' = commands \ {h}
    /\ UNCHANGED <<state, leaderId, born, world, applying, Poller>>

(* SetHostState, through StateMachine.ForceSet, past the matrix; UpdateHost  *)
(* does the same with a request that carries a state.                        *)
ForceSet(h, s) ==
    /\ Happens("force")
    /\ h \in rows
    /\ state' = [state EXCEPT ![h] = s]
    /\ UNCHANGED <<rows, leaderFlag, commands, leaderId, born, world, applying,
                   Poller>>

(* UpdateHost with commands: empty ones are ignored, so it can only add them.*)
EditCommands(h) ==
    /\ Happens("edit")
    /\ h \in rows
    /\ commands' = commands \cup {h}
    /\ UNCHANGED <<rows, state, leaderFlag, leaderId, born, world, applying,
                   Poller>>

(* UpdateHost with a request that carries is_leader.                         *)
EditFlag(h) ==
    /\ Happens("flag")
    /\ h \in rows
    /\ leaderFlag' = leaderFlag \cup {h}
    /\ UNCHANGED <<rows, state, commands, leaderId, born, world, applying, Poller>>

(* UpdateConfig with DDNS rules: applyDDNSRulesNow picks the best ready host *)
(* of the rule's pool, not the recorded leader, and points the record at it. *)
BeginApply(r) ==
    /\ Happens("apply")
    /\ applying = NotApplying
    /\ \E h \in Best({g \in Ready(ReadHosts) : RecordOf[g] = r}) :
          applying' = [record |-> r, host |-> h]
    /\ UNCHANGED <<database, world, Poller>>

(* Rules whose secrets were blanked by a failing read change nothing.        *)
EndApply ==
    /\ applying # NotApplying
    /\ \/ dns' = [dns EXCEPT ![applying.record] = applying.host]
       \/ (DnsMayFail \/ StorageErrors) /\ dns' = dns
    /\ applying' = NotApplying
    /\ UNCHANGED <<database, connected, events, Poller>>

(* The process dies and starts again: only the database survives.            *)
Crash ==
    /\ Happens("crash")
    /\ Return
    /\ failStreak' = [h \in Hosts |-> 0] /\ recoverStreak' = [h \in Hosts |-> 0]
    /\ circuitOpen' = FALSE /\ applying' = NotApplying /\ notice' = "none"
    /\ UNCHANGED <<database, world>>

-----------------------------------------------------------------------------
Poll ==
    \/ LoadSnapshot \/ (\E h \in Hosts : CheckHost(h)) \/ ApplyResult
    \/ EvaluateCircuit \/ ReloadFails
    \/ ElectNobody \/ KeepLeader \/ (\E h \in Hosts : ElectLeader(h)) \/ GiveUp
    \/ Disconnect \/ ClearCommands \/ VerifyLeader
    \/ ConnectSucceeds \/ ConnectFails \/ DemoteLeader \/ Retry
    \/ UpdateDns \/ UnflagOthers \/ FlagLeader \/ RecordLeader

Environment ==
    \/ \E h \in Hosts :
          \/ CreateHost(h) \/ DeleteHost(h) \/ EditCommands(h) \/ EditFlag(h)
          \/ \E s \in HostState : ForceSet(h, s)
    \/ (\E r \in Records : BeginApply(r)) \/ EndApply
    \/ Crash

Next == Poll \/ Environment

Spec == Init /\ [][Next]_vars

(* Where a poll waits for a host without a time limit: opening a session for *)
(* a command, and the whole of the DDNS script.  The dial, the command       *)
(* itself, the calls of Cloudflare and the lookup have limits.               *)
Remote == {"disconnect", "connect", "ddns"}

(* Poller.Start loops for ever, its sleep is bounded, and a poll goes on     *)
(* unless it waits for a host.  (Broadcast is taken to return: see WsHub.)   *)
FairSpec == Spec /\ WF_vars(Poll /\ pc \notin Remote)

-----------------------------------------------------------------------------
(* What makes TypeOK and AtMostOneLeader inductive.                          *)

InRound == {"disconnect", "clear", "verify", "connect", "demote", "retry",
            "ddns", "unflag", "flag", "record"}

RoundLeft == pc \in InRound => attempt < MaxElectRetries

OnlyLeaderFlagged == pc = "flag" => leaderFlag \subseteq {leader}

(* A transition read as legal is still legal when it is written.             *)
PendingLegal ==
    pc \in {"apply", "demote"} =>
        /\ pending.host \in born
        /\ pending.host \in rows
              => IsValidTransition(state[pending.host], pending.to)

-----------------------------------------------------------------------------
(* Safety.                                                                   *)

(* Two rows never carry is_leader at once, not even between the two UPDATEs  *)
(* that move it or when a crash separates them (poller.go, installation of   *)
(* the leader).  It takes that no request sets the flag and that no UPDATE   *)
(* fails.                                                                    *)
AtMostOneLeader == \A g, h \in leaderFlag : g = h

(* Between two polls the flag in table hosts and current_leader_id in table  *)
(* config name the same host, which three separate writes must achieve.      *)
FlagMatchesRecord == pc = "idle" => leaderFlag = {leaderId} \cap rows

(* Design property 8: between two polls the recorded leader is a ready host  *)
(* of the smallest Priority, unless the circuit is open.  It needs fewer     *)
(* fragile hosts than MaxElectRetries: else a poll may give up with a host   *)
(* that works still ready.                                                   *)
LeaderIsBest ==
    pc = "idle" /\ ~circuitOpen /\ leaderId # NoHost =>
        /\ leaderId \in rows /\ state[leaderId] = "ready"
        /\ \A h \in rows : state[h] = "ready" => Priority[leaderId] <= Priority[h]

(* Design property 12: between two polls the circuit is open exactly when    *)
(* there are hosts and none of them is ready; and the alarm "circuit_open"   *)
(* goes out only when the circuit is open, whether the breaker or the        *)
(* election sends it (circuit.go:19: "No hosts configured is not a           *)
(* circuit-open condition").                                                 *)
CircuitExact ==
    /\ pc = "idle" =>
          (circuitOpen <=> rows # {} /\ \A h \in rows : state[h] # "ready")
    /\ notice = "circuit_open" => circuitOpen

(* Between two polls a ready recorded leader that has a connect command is a *)
(* host on which that command was the last to run (requirement 5.1): the     *)
(* poll skips it only for a leader that is in service.                       *)
LeaderServes ==
    pc = "idle" /\ leaderId \in commands /\ state[leaderId] = "ready"
        => leaderId \in connected

(* Between two polls the record of the leader's pool points at the leader.   *)
DnsFollowsLeader ==
    pc = "idle" /\ leaderId # NoHost /\ RecordOf[leaderId] # NoRecord
        => dns[RecordOf[leaderId]] = leaderId

(* A record is pointed at a host only when its connect command has run, or   *)
(* it has none (README: the A record is updated after the command succeeds). *)
DnsAfterConnect ==
    [][\A r \in Records : dns'[r] # dns[r]
          => dns'[r] \in connected \/ dns'[r] \notin commands]_vars

(* A poll takes the commands of a host away only if the host is exhausted    *)
(* when it does so.                                                          *)
OnlyExhaustedCleared ==
    [][\A h \in commands \ commands' : h \in rows' => state[h] # "ready"]_vars

(* Design property 4: as long as nobody forces a state, the rows of table    *)
(* hosts live by HostLifecycle, although Transition checks the matrix in one *)
(* statement and writes in another.                                          *)
Lifecycle == INSTANCE HostLifecycle
                WITH status <- [h \in rows |-> state[h]], used <- born

MatrixObeyed == Lifecycle!Spec

-----------------------------------------------------------------------------
(* Liveness.                                                                 *)

(* The hosts answer in the end, be it with an error.                         *)
HostsAnswer == []<>(pc \notin Remote)

(* Every poll comes to an end, whatever fails or interferes: the retries of  *)
(* the election are bounded.                                                 *)
PollReturns == HostsAnswer => []<>(pc = "idle")

(* The snapshots find every host healthy and below its threshold.            *)
AllHealthy == snap.ok = snap.rows /\ snap.over = {}

(* Once all heartbeats stay good, a pool that has a host whose commands work *)
(* is again and again led by a ready host that is in service.                *)
LeaderReturns ==
    HostsAnswer /\ <>[]AllHealthy =>
        []<>(\/ rows \subseteq Fragile
             \/ /\ leaderId \in rows /\ state[leaderId] = "ready"
                /\ leaderId \in connected \/ leaderId \notin commands)

(* Once all heartbeats stay good, the record of the leader's pool points at  *)
(* the leader again and again (README: the domain is always directed to the  *)
(* current best host).                                                       *)
DnsCatchesUp ==
    HostsAnswer /\ <>[]AllHealthy =>
        []<>(leaderId = NoHost \/ RecordOf[leaderId] = NoRecord
             \/ dns[RecordOf[leaderId]] = leaderId)
=============================================================================
