------------------------------- MODULE AgentLink -------------------------------
(* One host's agent (agent/main.go), its reports on their way to the panel   *)
(* (api/agent.go), and what the poller makes of them (engine/poller.go), in  *)
(* discrete time: fetch the parameters, probe the network, post a report,    *)
(* sleep, each within its time limit.  A poll looks at the last report and   *)
(* its age.  The database answers, and the host has traffic left.  The limit *)
(* of the probe is an assumption: curl keeps to its 8 seconds, but those of  *)
(* wget --timeout=8 are for each lookup, connect and idle read (main.go:48). *)
EXTENDS Naturals

CONSTANTS
    Interval,           \* agent_interval_seconds
    RequestLimit,       \* of the agent's HTTP client, 12 seconds
    ProbeLimit,         \* of curl and wget together, 16 seconds
    Timeout,            \* heartbeat_timeout_seconds
    PollInterval,
    PollTime,           \* bound: how long RunOnce takes
    Spacing,            \* bound: good reports between two bad or lost ones
    FailThreshold, RecoverThreshold

ASSUME LinkAssumption ==
    /\ {Interval, RequestLimit, ProbeLimit, Timeout, PollInterval, PollTime, Spacing}
          \subseteq Nat
    /\ FailThreshold \in Nat \ {0} /\ RecoverThreshold \in Nat \ {0}

Judge == INSTANCE HostStates WITH Hosts <- {1}, Priority <- [h \in {1} |-> 0]

VARIABLES
    phase,              \* what the agent is at
    spent,              \* time it has been at it
    probe,              \* whether its probe succeeded
    arrived,            \* the report being posted has been stored
    good,               \* good reports since the last bad or lost one
    report,             \* network_ok of the last report
    age,                \* time since updated_at of the last report
    sincePoll,          \* time since the last poll began
    fails, hits,        \* hostFailStreak, hostRecoverStreak
    judged,             \* state of the host: "ready" or "dead"
    steady,             \* observation: time since it went down, came up, or
                        \* missed a report
    seenUp              \* observation: a poll has found it well since it came up

agentVars == <<phase, spent, probe, arrived, good>>
panelVars == <<report, age, sincePoll, fails, hits, judged>>
linkVars  == <<agentVars, panelVars, steady, seenUp>>

Limit == [off |-> 0, fetch |-> RequestLimit, probe |-> ProbeLimit,
          post |-> RequestLimit, sleep |-> Interval]

MaxGap == PollInterval + PollTime

(* From the end of a sleep to a report, and from one report to the next.     *)
ReportIn == 2 * RequestLimit + ProbeLimit
Cycle    == Interval + ReportIn

(* How long it may take the poller to notice that a host is down, or up.     *)
DetectIn  == Timeout + FailThreshold * MaxGap
RecoverIn == Cycle + ReportIn + RecoverThreshold * MaxGap

(* Counters stop where nothing is left to tell apart.                        *)
MaxSteady == 1 + IF DetectIn > RecoverIn THEN DetectIn ELSE RecoverIn
AddTo(n, limit) == IF n < limit THEN n + 1 ELSE limit

LinkTypeOK ==
    /\ phase \in DOMAIN Limit /\ spent \in 0..Limit[phase]
    /\ probe \in BOOLEAN /\ arrived \in BOOLEAN /\ good \in 0..Spacing
    /\ report \in BOOLEAN /\ age \in 0..(Timeout + 1)
    /\ sincePoll \in 0..MaxGap
    /\ fails \in 0..FailThreshold /\ hits \in 0..RecoverThreshold
    /\ judged \in {"ready", "dead"}
    /\ steady \in 0..MaxSteady /\ seenUp \in BOOLEAN

(* The agent has just been installed and sent its first report.              *)
LinkInit ==
    /\ phase = "sleep" /\ spent = 0
    /\ probe = TRUE /\ arrived = TRUE /\ good = Spacing
    /\ report = TRUE /\ age = 0
    /\ sincePoll = 0 /\ fails = 0 /\ hits = 0 /\ judged = "ready"
    /\ steady = 0 /\ seenUp = TRUE

-----------------------------------------------------------------------------
(* The agent.                                                                *)

EnterPhase(p) == phase' = p /\ spent' = 0

Missed == good = Spacing /\ good' = 0 /\ steady' = 0

(* fetchPanelConfig; without an answer the agent keeps what it has.          *)
EndFetch ==
    /\ phase = "fetch" /\ EnterPhase("probe")
    /\ UNCHANGED <<probe, arrived, good, panelVars, steady, seenUp>>

(* probeExternal; whether the probe succeeds is up to the network.           *)
EndProbe ==
    /\ phase = "probe" /\ EnterPhase("post")
    /\ probe' \in {TRUE, good < Spacing}
    /\ arrived' = FALSE
    /\ UNCHANGED <<good, panelVars, steady, seenUp>>

(* AgentHeartbeat stores the report, at any moment of the request.           *)
Arrive ==
    /\ phase = "post" /\ ~arrived
    /\ arrived' = TRUE /\ report' = probe /\ age' = 0
    /\ UNCHANGED <<phase, spent, probe, good, sincePoll, fails, hits, judged, steady, seenUp>>

(* The agent does not look at the answer.                                    *)
EndPost ==
    /\ phase = "post" /\ EnterPhase("sleep")
    /\ IF arrived /\ probe THEN good' = AddTo(good, Spacing) /\ UNCHANGED steady ELSE Missed
    /\ UNCHANGED <<probe, arrived, panelVars, seenUp>>

EndSleep ==
    /\ phase = "sleep" /\ spent = Interval /\ EnterPhase("fetch")
    /\ UNCHANGED <<probe, arrived, good, panelVars, steady, seenUp>>

(* The host goes down, or its network; systemd starts the agent when it is   *)
(* up again.                                                                 *)
GoDown ==
    /\ phase # "off" /\ EnterPhase("off") /\ steady' = 0 /\ seenUp' = FALSE
    /\ UNCHANGED <<probe, arrived, good, panelVars>>

ComeUp ==
    /\ phase = "off" /\ EnterPhase("fetch") /\ steady' = 0
    /\ good' = Spacing
    /\ UNCHANGED <<probe, arrived, panelVars, seenUp>>

-----------------------------------------------------------------------------
(* Mutated form: a report counts however old it is.                          *)
ReachableEver == report

(* RunOnce's snapshot of the host.                                           *)
BaseReachable == ~(age > Timeout) /\ report

Streaks(base) ==
    IF base THEN hits' = Judge!Extend(hits, RecoverThreshold) /\ fails' = 0
            ELSE fails' = Judge!Extend(fails, FailThreshold) /\ hits' = 0

(* Mutated form: a poll does not wait for the interval to pass.               *)
PollAtOnce ==
    /\ sincePoll' = 0
    /\ Streaks(BaseReachable)
    /\ judged' = Judge!CheckTarget(
                    Judge!EffectiveReachable(judged, BaseReachable, fails', hits'), FALSE)
    /\ seenUp' = (seenUp \/ (BaseReachable /\ phase # "off"))
    /\ UNCHANGED <<agentVars, report, age, steady>>

(* One step: the verdict holds as soon as the poll has read the report; the  *)
(* code writes it a little later in the same poll (PollTime bounds that).    *)
Poll ==
    /\ sincePoll >= PollInterval /\ sincePoll' = 0
    /\ Streaks(BaseReachable)
    /\ judged' = Judge!CheckTarget(
                    Judge!EffectiveReachable(judged, BaseReachable, fails', hits'), FALSE)
    /\ seenUp' = (seenUp \/ (BaseReachable /\ phase # "off"))
    /\ UNCHANGED <<agentVars, report, age, steady>>

-----------------------------------------------------------------------------
Within == phase = "off" \/ spent < Limit[phase]

(* Everything that is due has happened.                                      *)
Tick ==
    /\ Within /\ sincePoll < MaxGap
    /\ spent' = IF phase = "off" THEN 0 ELSE spent + 1
    /\ age' = AddTo(age, Timeout + 1)
    /\ sincePoll' = sincePoll + 1
    /\ steady' = AddTo(steady, MaxSteady)
    /\ UNCHANGED <<phase, probe, arrived, good, report, fails, hits, judged, seenUp>>

LinkNext ==
    \/ EndFetch \/ EndProbe \/ Arrive \/ EndPost \/ EndSleep
    \/ GoDown \/ ComeUp
    \/ Poll \/ Tick

LinkSpec == LinkInit /\ [][LinkNext]_linkVars

-----------------------------------------------------------------------------
(* A host whose agent runs is not declared dead, whenever its reports and    *)
(* the polls happen to fall, if of any Spacing + 1 reports in a row at most  *)
(* one is bad or lost: the limits and intervals of agent and panel leave     *)
(* room for that (config/legacy.go:33, main.go:140, poller.go:21).  Until a  *)
(* poll has found it well after an outage it may still be declared dead for  *)
(* the time it was down.                                                     *)
HealthyStaysUp ==
    [][judged = "ready" /\ judged' = "dead" => phase = "off" \/ ~seenUp]_linkVars

(* A host that is down is declared dead in time (poller.go:19), and one that *)
(* is up and reports well is soon ready again (poller.go:22), whatever the   *)
(* phases of the agent's clock and the poller's.                             *)
VerdictInTime ==
    /\ phase = "off" /\ steady > DetectIn => judged = "dead"
    /\ phase # "off" /\ steady > RecoverIn => judged = "ready"
================================================================================
